---------------------- MODULE AgentLoopTranscriptProofs ----------------------
(***************************************************************************)
(* Theorems about the context that AgentLoop's requests are built from,    *)
(* for every value of its bounds: the order of the user messages, that it  *)
(* ends with the transcript, and that its tool calls are answered.         *)
(*                                                                         *)
(* All three are about the transcript that a run is going to leave: the    *)
(* messages it has stored and those its events still owe.                  *)
(***************************************************************************)
EXTENDS AgentLoopProofs

\* The events evs still add the messages ms to the transcript, in this order; the others
\* are not about user messages.
Owes(evs, ms) ==
  \E at \in [DOMAIN ms -> DOMAIN evs] :
    /\ \A i, j \in DOMAIN ms : i < j => at[i] < at[j]
    /\ \A i \in DOMAIN ms : evs[at[i]].msg = ms[i]
    /\ {at[i] : i \in DOMAIN ms} = {k \in DOMAIN evs : IsMessageEvent(evs[k])}
    /\ \A k \in DOMAIN evs : ~IsMessageEvent(evs[k]) => evs[k].msg.kind \notin UserKinds

\* A step that adds ms to what the transcript is going to be.
Grows(ms) ==
  \A owed \in Seq(Message) : Owes(out, owed) =>
    \E owed2 \in Seq(Message) : /\ Owes(out', owed2)
                                /\ messages' \o owed2 = (messages \o owed) \o ms

-----------------------------------------------------------------------------
(* Sequences.                                                              *)

\* Concatenation is associative and the empty sequence is its unit.
LEMMA ConcatLaws ==
  ASSUME NEW S, NEW s \in Seq(S), NEW t \in Seq(S), NEW u \in Seq(S)
  PROVE  /\ (s \o t) \o u = s \o (t \o u)
         /\ s \o <<>> = s /\ <<>> \o s = s
         /\ s \o t \in Seq(S)
  OBVIOUS

\* Where the elements of a concatenation come from.
LEMMA ConcatParts ==
  ASSUME NEW S, NEW s \in Seq(S), NEW t \in Seq(S)
  PROVE  /\ Len(s \o t) = Len(s) + Len(t)
         /\ \A i \in DOMAIN s : i \in DOMAIN (s \o t) /\ (s \o t)[i] = s[i]
         /\ \A i \in DOMAIN t : Len(s) + i \in DOMAIN (s \o t) /\ (s \o t)[Len(s) + i] = t[i]
         /\ \A i \in DOMAIN (s \o t) : \/ i \in DOMAIN s
                                       \/ i > Len(s) /\ i - Len(s) \in DOMAIN t
  OBVIOUS

\* A sequence that is not empty is its first element and the rest.
LEMMA HeadTail ==
  ASSUME NEW S, NEW s \in Seq(S), s # <<>>
  PROVE  /\ Head(s) \in S /\ Tail(s) \in Seq(S) /\ s = <<Head(s)>> \o Tail(s)
         /\ Len(Tail(s)) = Len(s) - 1 /\ s[1] = Head(s) /\ 1 \in DOMAIN s
         /\ \A i \in DOMAIN Tail(s) : i + 1 \in DOMAIN s /\ Tail(s)[i] = s[i + 1]
         /\ \A i \in DOMAIN s : i # 1 => i - 1 \in DOMAIN Tail(s) /\ s[i] = Tail(s)[i - 1]
  OBVIOUS

\* Appending one element, and then more.
LEMMA AppendConcat ==
  ASSUME NEW S, NEW s \in Seq(S), NEW x \in S, NEW t \in Seq(S)
  PROVE  /\ Append(s, x) = s \o <<x>> /\ <<x>> \in Seq(S)
         /\ Append(s, x) \o t = s \o (<<x>> \o t)
<1>1. Append(s, x) = s \o <<x>> /\ <<x>> \in Seq(S)
  OBVIOUS
<1> QED
  BY <1>1, ConcatLaws

\* Halves of a drained queue.
LEMMA DrainSplits ==
  ASSUME NEW q \in Seq(Message), NEW m
  PROVE  q = Drained(q, m) \o Remaining(q, m)
<1>1. CASE m = "all" \/ q = <<>>
  BY <1>1 DEF Drained, Remaining
<1>2. CASE ~(m = "all" \/ q = <<>>)
  BY <1>2, HeadTail DEF Drained, Remaining
<1> QED
  BY <1>1, <1>2

-----------------------------------------------------------------------------
(* What events owe.                                                        *)

\* No events owe no message.
LEMMA OwesNothing ==
  /\ Owes(<<>>, <<>>)
  /\ \A ms \in Seq(Message) : Owes(<<>>, ms) => ms = <<>>
<1>1. Owes(<<>>, <<>>)
  <2> DEFINE at == [i \in {} |-> i]
  <2>1. at \in [DOMAIN <<>> -> DOMAIN <<>>] /\ DOMAIN <<>> = {}
    OBVIOUS
  <2> QED
    BY <2>1 DEF Owes
<1>2. ASSUME NEW ms \in Seq(Message), Owes(<<>>, ms) PROVE ms = <<>>
  <2>1. PICK at \in [DOMAIN ms -> DOMAIN <<>>] : TRUE
    BY <1>2 DEF Owes
  <2>2. DOMAIN <<>> = {}
    OBVIOUS
  <2>3. DOMAIN ms = {}
    BY <2>1, <2>2
  <2> QED
    BY <2>3
<1> QED
  BY <1>1, <1>2

\* Announced messages are owed.
LEMMA SayOwes ==
  ASSUME NEW ms \in Seq(Message)
  PROVE  Owes(Say(ms), ms)
<1> DEFINE at == [i \in DOMAIN ms |-> i]
<1>1. /\ DOMAIN Say(ms) = DOMAIN ms
      /\ \A i \in DOMAIN ms : Say(ms)[i].msg = ms[i] /\ IsMessageEvent(Say(ms)[i])
  BY DEF Say, About, IsMessageEvent
<1>2. at \in [DOMAIN ms -> DOMAIN Say(ms)]
  BY <1>1
<1>3. {at[i] : i \in DOMAIN ms} = {k \in DOMAIN Say(ms) : IsMessageEvent(Say(ms)[k])}
  BY <1>1
<1>4. \A i, j \in DOMAIN ms : i < j => at[i] < at[j]
  OBVIOUS
<1>5. \A i \in DOMAIN ms : Say(ms)[at[i]].msg = ms[i]
  BY <1>1
<1>6. \A k \in DOMAIN Say(ms) : IsMessageEvent(Say(ms)[k])
  BY <1>1
<1> HIDE DEF at
<1> QED
  BY <1>2, <1>3, <1>4, <1>5, <1>6 DEF Owes

\* An event of another kind owes nothing.
LEMMA QuietOwes ==
  ASSUME NEW e \in Event, ~IsMessageEvent(e), e.msg.kind \notin UserKinds
  PROVE  Owes(<<e>>, <<>>)
<1> DEFINE at == [i \in {} |-> i]
<1>1. at \in [DOMAIN <<>> -> DOMAIN <<e>>] /\ DOMAIN <<>> = {} /\ DOMAIN <<e>> = {1} /\ <<e>>[1] = e
  OBVIOUS
<1>2. {k \in DOMAIN <<e>> : IsMessageEvent(<<e>>[k])} = {}
  BY <1>1
<1>3. {at[i] : i \in DOMAIN <<>>} = {}
  BY <1>1
<1> QED
  BY <1>1, <1>2, <1>3 DEF Owes

\* The end of a message that was announced is owed like its beginning.
LEMMA MessageOwes ==
  ASSUME NEW e \in Event, IsMessageEvent(e)
  PROVE  Owes(<<e>>, <<e.msg>>)
<1> DEFINE at == [i \in {1} |-> 1]
<1>1. /\ at \in [DOMAIN <<e.msg>> -> DOMAIN <<e>>] /\ DOMAIN <<e.msg>> = {1} /\ DOMAIN <<e>> = {1}
      /\ <<e>>[1] = e /\ <<e.msg>>[1] = e.msg /\ at[1] = 1
  OBVIOUS
<1>2. {k \in DOMAIN <<e>> : IsMessageEvent(<<e>>[k])} = {1}
  BY <1>1
<1>3. {at[i] : i \in DOMAIN <<e.msg>>} = {1}
  BY <1>1
<1>4. \A i, j \in DOMAIN <<e.msg>> : i < j => at[i] < at[j]
  BY <1>1
<1>5. \A i \in DOMAIN <<e.msg>> : <<e>>[at[i]].msg = <<e.msg>>[i]
  BY <1>1
<1> QED
  BY <1>1, <1>2, <1>3, <1>4, <1>5 DEF Owes

\* Owing is compositional.
LEMMA ConcatOwes ==
  ASSUME NEW a \in Seq(Event), NEW b \in Seq(Event), NEW s \in Seq(Message), NEW t \in Seq(Message),
         Owes(a, s), Owes(b, t)
  PROVE  Owes(a \o b, s \o t)
<1>1. PICK f \in [DOMAIN s -> DOMAIN a] :
        /\ \A i, j \in DOMAIN s : i < j => f[i] < f[j]
        /\ \A i \in DOMAIN s : a[f[i]].msg = s[i]
        /\ {f[i] : i \in DOMAIN s} = {k \in DOMAIN a : IsMessageEvent(a[k])}
        /\ \A k \in DOMAIN a : ~IsMessageEvent(a[k]) => a[k].msg.kind \notin UserKinds
  BY DEF Owes
<1>2. PICK g \in [DOMAIN t -> DOMAIN b] :
        /\ \A i, j \in DOMAIN t : i < j => g[i] < g[j]
        /\ \A i \in DOMAIN t : b[g[i]].msg = t[i]
        /\ {g[i] : i \in DOMAIN t} = {k \in DOMAIN b : IsMessageEvent(b[k])}
        /\ \A k \in DOMAIN b : ~IsMessageEvent(b[k]) => b[k].msg.kind \notin UserKinds
  BY DEF Owes
<1> DEFINE u == a \o b
           ms == s \o t
           m == Len(s)
           n == Len(a)
           at == [i \in DOMAIN ms |-> IF i \in DOMAIN s THEN f[i] ELSE n + g[i - m]]
<1>3. /\ m \in Nat /\ n \in Nat /\ DOMAIN s = 1..m /\ DOMAIN a = 1..n
      /\ DOMAIN t \subseteq Nat \ {0} /\ DOMAIN b \subseteq Nat \ {0}
  OBVIOUS
<1>4. /\ \A i \in DOMAIN s : i \in DOMAIN ms /\ ms[i] = s[i]
      /\ \A i \in DOMAIN t : m + i \in DOMAIN ms /\ ms[m + i] = t[i]
      /\ \A i \in DOMAIN ms : i \in DOMAIN s \/ (i > m /\ i - m \in DOMAIN t)
  BY ConcatParts
<1>5. /\ \A i \in DOMAIN a : i \in DOMAIN u /\ u[i] = a[i]
      /\ \A i \in DOMAIN b : n + i \in DOMAIN u /\ u[n + i] = b[i]
      /\ \A i \in DOMAIN u : i \in DOMAIN a \/ (i > n /\ i - n \in DOMAIN b)
  BY ConcatParts
<1>6. DOMAIN ms \subseteq Nat
  OBVIOUS
<1> HIDE DEF u, ms, m, n
<1>7. /\ \A i \in DOMAIN s : at[i] = f[i] /\ at[i] \in DOMAIN a
      /\ \A i \in DOMAIN t : at[m + i] = n + g[i] /\ g[i] \in DOMAIN b
  <2>1. \A i \in DOMAIN t : m + i \notin DOMAIN s /\ (m + i) - m = i
    BY <1>3
  <2> QED
    BY <1>1, <1>2, <1>4, <2>1
<1>8. \A i \in DOMAIN ms : i \in DOMAIN s \/ \E j \in DOMAIN t : i = m + j
  <2> SUFFICES ASSUME NEW i \in DOMAIN ms, i \notin DOMAIN s PROVE \E j \in DOMAIN t : i = m + j
    OBVIOUS
  <2>1. i - m \in DOMAIN t /\ i = m + (i - m)
    BY <1>3, <1>4, <1>6
  <2> QED
    BY <2>1
<1>9. \A k \in DOMAIN u : k \in DOMAIN a \/ \E j \in DOMAIN b : k = n + j
  <2> SUFFICES ASSUME NEW k \in DOMAIN u, k \notin DOMAIN a PROVE \E j \in DOMAIN b : k = n + j
    OBVIOUS
  <2>0. DOMAIN u \subseteq Nat
    BY DEF u
  <2>1. k - n \in DOMAIN b /\ k = n + (k - n)
    BY <1>3, <1>5, <2>0
  <2> QED
    BY <2>1
<1>10. at \in [DOMAIN ms -> DOMAIN u]
  <2> SUFFICES ASSUME NEW i \in DOMAIN ms PROVE at[i] \in DOMAIN u
    OBVIOUS
  <2> HIDE DEF at
  <2> QED
    BY <1>5, <1>7, <1>8
<1> HIDE DEF at
<1>11. ASSUME NEW i \in DOMAIN ms, NEW j \in DOMAIN ms, i < j PROVE at[i] < at[j]
  <2>1. CASE j \in DOMAIN s
    <3>1. i \in DOMAIN s
      BY <1>3, <1>6, <1>8, <1>11, <2>1
    <3> QED
      BY <1>1, <1>7, <1>11, <2>1, <3>1
  <2>2. CASE i \in DOMAIN s /\ j \notin DOMAIN s
    <3>1. PICK l \in DOMAIN t : j = m + l
      BY <1>8, <2>2
    <3>2. at[i] \in 1..n /\ at[j] = n + g[l] /\ g[l] \in Nat \ {0}
      BY <1>3, <1>7, <2>2, <3>1
    <3> QED
      BY <1>3, <3>2
  <2>3. CASE i \notin DOMAIN s /\ j \notin DOMAIN s
    <3>1. PICK l \in DOMAIN t : j = m + l
      BY <1>8, <2>3
    <3>2. PICK k \in DOMAIN t : i = m + k
      BY <1>8, <2>3
    <3>3. k < l
      BY <1>3, <1>11, <3>1, <3>2
    <3>4. g[k] < g[l] /\ g[k] \in Nat /\ g[l] \in Nat
      BY <1>2, <1>3, <1>7, <3>3
    <3> QED
      BY <1>3, <1>7, <3>1, <3>2, <3>4
  <2> QED
    BY <2>1, <2>2, <2>3
<1>12. \A i \in DOMAIN ms : u[at[i]].msg = ms[i]
  <2>1. \A i \in DOMAIN s : u[at[i]].msg = ms[i]
    BY <1>1, <1>4, <1>5, <1>7
  <2>2. \A j \in DOMAIN t : u[at[m + j]].msg = ms[m + j]
    BY <1>2, <1>4, <1>5, <1>7
  <2> QED
    BY <1>8, <2>1, <2>2
<1>13. ASSUME NEW k PROVE k \in {at[i] : i \in DOMAIN ms} <=> k \in DOMAIN u /\ IsMessageEvent(u[k])
  <2>1. ASSUME NEW i \in DOMAIN ms, k = at[i] PROVE k \in DOMAIN u /\ IsMessageEvent(u[k])
    <3>1. CASE i \in DOMAIN s
      <4>1. IsMessageEvent(a[f[i]]) /\ f[i] \in DOMAIN a
        BY <1>1, <3>1
      <4> QED
        BY <1>5, <1>7, <2>1, <3>1, <4>1
    <3>2. CASE i \notin DOMAIN s
      <4>1. PICK j \in DOMAIN t : i = m + j
        BY <1>8, <3>2
      <4>2. IsMessageEvent(b[g[j]]) /\ g[j] \in DOMAIN b
        BY <1>2, <4>1
      <4> QED
        BY <1>5, <1>7, <2>1, <4>1, <4>2
    <3> QED
      BY <3>1, <3>2
  <2>2. ASSUME k \in DOMAIN u, IsMessageEvent(u[k]) PROVE k \in {at[i] : i \in DOMAIN ms}
    <3>1. CASE k \in DOMAIN a
      <4>1. IsMessageEvent(a[k])
        BY <1>5, <2>2, <3>1
      <4>2. PICK i \in DOMAIN s : f[i] = k
        BY <1>1, <3>1, <4>1
      <4>3. i \in DOMAIN ms /\ at[i] = k
        BY <1>4, <1>7, <4>2
      <4> QED
        BY <4>3
    <3>2. CASE k \notin DOMAIN a
      <4>1. PICK l \in DOMAIN b : k = n + l
        BY <1>9, <2>2, <3>2
      <4>2. IsMessageEvent(b[l])
        BY <1>5, <2>2, <4>1
      <4>3. PICK i \in DOMAIN t : g[i] = l
        <5>1. l \in {g[i] : i \in DOMAIN t}
          BY <1>2, <4>1, <4>2
        <5> QED
          BY <5>1
      <4>4. m + i \in DOMAIN ms /\ at[m + i] = k
        BY <1>4, <1>7, <4>1, <4>3
      <4> QED
        BY <4>4
    <3> QED
      BY <3>1, <3>2
  <2> QED
    BY <2>1, <2>2
<1>14. {at[i] : i \in DOMAIN ms} = {k \in DOMAIN u : IsMessageEvent(u[k])}
  BY <1>13
<1>15. \A k \in DOMAIN u : ~IsMessageEvent(u[k]) => u[k].msg.kind \notin UserKinds
  <2>1. \A k \in DOMAIN a : ~IsMessageEvent(u[k]) => u[k].msg.kind \notin UserKinds
    BY <1>1, <1>5
  <2>2. \A k \in DOMAIN b : ~IsMessageEvent(u[n + k]) => u[n + k].msg.kind \notin UserKinds
    BY <1>2, <1>5
  <2> QED
    BY <1>9, <2>1, <2>2
<1>16. Owes(u, ms)
  BY <1>10, <1>11, <1>12, <1>14, <1>15 DEF Owes
<1> QED
  BY <1>16 DEF u, ms

\* What the first event owes, and the others.
LEMMA HeadOwes ==
  ASSUME NEW evs \in Seq(Event), evs # <<>>, NEW ms \in Seq(Message), Owes(evs, ms)
  PROVE  /\ IsMessageEvent(Head(evs)) => /\ ms # <<>> /\ Head(ms) = Head(evs).msg
                                         /\ Owes(Tail(evs), Tail(ms))
         /\ ~IsMessageEvent(Head(evs)) => Owes(Tail(evs), ms)
<1> DEFINE rest == Tail(evs)
<1>1. PICK at \in [DOMAIN ms -> DOMAIN evs] :
        /\ \A i, j \in DOMAIN ms : i < j => at[i] < at[j]
        /\ \A i \in DOMAIN ms : evs[at[i]].msg = ms[i]
        /\ {at[i] : i \in DOMAIN ms} = {k \in DOMAIN evs : IsMessageEvent(evs[k])}
        /\ \A k \in DOMAIN evs : ~IsMessageEvent(evs[k]) => evs[k].msg.kind \notin UserKinds
  BY DEF Owes
<1>2. /\ evs[1] = Head(evs) /\ 1 \in DOMAIN evs /\ DOMAIN evs \subseteq Nat \ {0}
      /\ \A i \in DOMAIN rest : i \in Nat \ {0} /\ i + 1 \in DOMAIN evs /\ rest[i] = evs[i + 1]
      /\ \A i \in DOMAIN evs : i # 1 => i - 1 \in DOMAIN rest /\ evs[i] = rest[i - 1]
  BY HeadTail
<1>3. DOMAIN ms \subseteq Nat \ {0}
  OBVIOUS
<1>4. \A i \in DOMAIN ms : at[i] \in DOMAIN evs /\ at[i] \in Nat \ {0} /\ IsMessageEvent(evs[at[i]])
  BY <1>1, <1>2
<1> HIDE DEF rest
<1>quiet. \A k \in DOMAIN rest : ~IsMessageEvent(rest[k]) => rest[k].msg.kind \notin UserKinds
  BY <1>1, <1>2
<1>5. ASSUME IsMessageEvent(Head(evs))
      PROVE  ms # <<>> /\ Head(ms) = Head(evs).msg /\ Owes(rest, Tail(ms))
  <2>0. 1 \in {at[i] : i \in DOMAIN ms}
    <3>1. IsMessageEvent(evs[1])
      BY <1>2, <1>5
    <3> QED
      BY <1>1, <1>2, <3>1
  <2>1. PICK k \in DOMAIN ms : at[k] = 1
    BY <2>0
  <2>2. ms # <<>>
    BY <2>1
  <2> DEFINE tl == Tail(ms)
  <2>3. /\ ms[1] = Head(ms) /\ 1 \in DOMAIN ms
        /\ \A i \in DOMAIN tl : i \in Nat \ {0} /\ i + 1 \in DOMAIN ms /\ tl[i] = ms[i + 1]
        /\ \A i \in DOMAIN ms : i # 1 => i - 1 \in DOMAIN tl /\ ms[i] = tl[i - 1]
    BY <2>2, HeadTail
  <2> HIDE DEF tl
  <2>4. k = 1
    <3>1. SUFFICES ASSUME k # 1 PROVE FALSE
      OBVIOUS
    <3>2. 1 < k
      BY <1>3, <3>1
    <3>3. at[1] < at[k] /\ at[1] \in Nat \ {0}
      BY <1>1, <1>4, <2>3, <3>2
    <3> QED
      BY <2>1, <3>3
  <2>5. at[1] = 1 /\ Head(ms) = Head(evs).msg
    BY <1>1, <1>2, <2>1, <2>3, <2>4
  <2> DEFINE f == [i \in DOMAIN tl |-> at[i + 1] - 1]
  <2>6. ASSUME NEW i \in DOMAIN tl
        PROVE  /\ at[i + 1] \in Nat /\ at[i + 1] > 1
               /\ f[i] \in DOMAIN rest /\ f[i] \in Nat /\ evs[at[i + 1]] = rest[f[i]]
    <3>1. i + 1 \in DOMAIN ms /\ 1 < i + 1
      BY <2>3
    <3>2. at[1] < at[i + 1] /\ at[i + 1] \in Nat
      BY <1>1, <1>4, <2>3, <3>1
    <3> QED
      BY <1>2, <1>4, <2>5, <3>1, <3>2
  <2>7. f \in [DOMAIN tl -> DOMAIN rest]
    BY <2>6
  <2>8. ASSUME NEW i \in DOMAIN tl, NEW j \in DOMAIN tl, i < j PROVE f[i] < f[j]
    <3>1. i + 1 \in DOMAIN ms /\ j + 1 \in DOMAIN ms /\ i + 1 < j + 1
      BY <2>3, <2>8
    <3>2. at[i + 1] < at[j + 1]
      BY <1>1, <3>1
    <3> QED
      BY <2>6, <3>2
  <2>9. \A i \in DOMAIN tl : rest[f[i]].msg = tl[i]
    BY <1>1, <2>3, <2>6
  <2>10. ASSUME NEW k2 PROVE k2 \in {f[i] : i \in DOMAIN tl} <=> k2 \in DOMAIN rest /\ IsMessageEvent(rest[k2])
    <3>1. ASSUME NEW i \in DOMAIN tl, k2 = f[i] PROVE k2 \in DOMAIN rest /\ IsMessageEvent(rest[k2])
      <4>1. IsMessageEvent(evs[at[i + 1]])
        BY <1>4, <2>3
      <4> QED
        BY <2>6, <3>1, <4>1
    <3>2. ASSUME k2 \in DOMAIN rest, IsMessageEvent(rest[k2]) PROVE k2 \in {f[i] : i \in DOMAIN tl}
      <4>1. k2 \in Nat \ {0} /\ k2 + 1 \in DOMAIN evs /\ IsMessageEvent(evs[k2 + 1])
        BY <1>2, <3>2
      <4>2. PICK i \in DOMAIN ms : at[i] = k2 + 1
        BY <1>1, <4>1
      <4>3. i # 1
        BY <2>5, <4>1, <4>2
      <4>4. i - 1 \in DOMAIN tl /\ (i - 1) + 1 = i
        BY <1>3, <2>3, <4>3
      <4>5. f[i - 1] = k2
        BY <4>1, <4>2, <4>4
      <4> QED
        BY <4>4, <4>5
    <3> QED
      BY <3>1, <3>2
  <2>11. {f[i] : i \in DOMAIN tl} = {k2 \in DOMAIN rest : IsMessageEvent(rest[k2])}
    BY <2>10
  <2> HIDE DEF f
  <2>12. Owes(rest, tl)
    BY <1>quiet, <2>7, <2>8, <2>9, <2>11 DEF Owes
  <2> QED
    BY <2>2, <2>5, <2>12 DEF tl
<1>6. ASSUME ~IsMessageEvent(Head(evs)) PROVE Owes(rest, ms)
  <2> DEFINE f == [i \in DOMAIN ms |-> at[i] - 1]
  <2>1. ASSUME NEW i \in DOMAIN ms
        PROVE  /\ at[i] \in Nat /\ f[i] \in DOMAIN rest /\ f[i] \in Nat
               /\ evs[at[i]] = rest[f[i]] /\ f[i] + 1 = at[i]
    BY <1>2, <1>4, <1>6
  <2>2. f \in [DOMAIN ms -> DOMAIN rest]
    BY <2>1
  <2>3. \A i, j \in DOMAIN ms : i < j => f[i] < f[j]
    BY <1>1, <2>1
  <2>4. \A i \in DOMAIN ms : rest[f[i]].msg = ms[i]
    BY <1>1, <2>1
  <2>5. ASSUME NEW k PROVE k \in {f[i] : i \in DOMAIN ms} <=> k \in DOMAIN rest /\ IsMessageEvent(rest[k])
    <3>1. ASSUME NEW i \in DOMAIN ms, k = f[i] PROVE k \in DOMAIN rest /\ IsMessageEvent(rest[k])
      BY <1>4, <2>1, <3>1
    <3>2. ASSUME k \in DOMAIN rest, IsMessageEvent(rest[k]) PROVE k \in {f[i] : i \in DOMAIN ms}
      <4>1. k \in Nat \ {0} /\ k + 1 \in DOMAIN evs /\ IsMessageEvent(evs[k + 1])
        BY <1>2, <3>2
      <4>2. PICK i \in DOMAIN ms : at[i] = k + 1
        BY <1>1, <4>1
      <4>3. f[i] = k
        BY <4>1, <4>2
      <4> QED
        BY <4>3
    <3> QED
      BY <3>1, <3>2
  <2>6. {f[i] : i \in DOMAIN ms} = {k \in DOMAIN rest : IsMessageEvent(rest[k])}
    BY <2>5
  <2> HIDE DEF f
  <2> QED
    BY <1>quiet, <2>2, <2>3, <2>4, <2>6 DEF Owes
<1> QED
  BY <1>5, <1>6 DEF rest

\* Handling one event moves a message from what is owed to the transcript, or nothing.
LEMMA EmitOwes ==
  ASSUME messages \in Seq(Message), NEW evs \in Seq(Event), evs # <<>>, NEW next, Emit(evs, next),
         NEW ms \in Seq(Message), Owes(evs, ms)
  PROVE  \E owed \in Seq(Message) : Owes(out', owed) /\ messages' \o owed = messages \o ms
<1>1. PICK e, rest : e = Head(evs) /\ rest = Tail(evs)
  OBVIOUS
<1>2. e \in Event /\ rest \in Seq(Event)
  BY <1>1, HeadTail
<1>3. e.msg \in Message
  BY <1>2 DEF Event
<1>4. /\ messages' = IF e.type = "message_end" THEN Append(messages, e.msg) ELSE messages
      /\ out' = IF e.type = "message_start" THEN <<About("message_end", e.msg)>> \o rest ELSE rest
  BY <1>1 DEF Emit, _process_events, AfterHead
<1>5. /\ IsMessageEvent(e) => ms # <<>> /\ Head(ms) = e.msg /\ Owes(rest, Tail(ms))
      /\ ~IsMessageEvent(e) => Owes(rest, ms)
  BY <1>1, HeadOwes
<1>6. IsMessageEvent(e) => Tail(ms) \in Seq(Message) /\ ms = <<e.msg>> \o Tail(ms)
  BY <1>5, HeadTail
<1>7. CASE e.type = "message_start"
  <2>1. IsMessageEvent(e) /\ messages' = messages
    BY <1>4, <1>7 DEF IsMessageEvent
  <2>2. PICK end : end = About("message_end", e.msg)
    OBVIOUS
  <2>3. end \in Event /\ IsMessageEvent(end) /\ end.msg = e.msg
    BY <1>3, <2>2, EventsTyped DEF EventTypes, IsMessageEvent, About
  <2>4. Owes(<<end>>, <<e.msg>>)
    BY <2>3, MessageOwes
  <2>5. <<end>> \in Seq(Event) /\ <<e.msg>> \in Seq(Message)
    BY <1>3, <2>3
  <2>6. Owes(<<end>> \o rest, <<e.msg>> \o Tail(ms))
    BY <1>2, <1>5, <1>6, <2>1, <2>4, <2>5, ConcatOwes
  <2>7. Owes(out', ms)
    BY <1>4, <1>6, <1>7, <2>1, <2>2, <2>6
  <2> QED
    BY <2>1, <2>7
<1>8. CASE e.type = "message_end"
  <2>1. IsMessageEvent(e) /\ messages' = Append(messages, e.msg) /\ out' = rest
    BY <1>4, <1>8 DEF IsMessageEvent
  <2>2. Append(messages, e.msg) \o Tail(ms) = messages \o (<<e.msg>> \o Tail(ms))
    BY <1>3, <1>6, <2>1, AppendConcat
  <2> QED
    BY <1>5, <1>6, <2>1, <2>2
<1>9. CASE ~IsMessageEvent(e)
  <2>1. messages' = messages /\ out' = rest
    BY <1>4, <1>9 DEF IsMessageEvent
  <2> QED
    BY <1>5, <1>9, <2>1
<1> QED
  BY <1>7, <1>8, <1>9 DEF IsMessageEvent

-----------------------------------------------------------------------------
(* What the pieces that the actions share add.                             *)

\* A step that emits events when none are left adds what they owe.
LEMMA EmitGrows ==
  ASSUME messages \in Seq(Message), out = <<>>, NEW evs \in Seq(Event), evs # <<>>, NEW next,
         Emit(evs, next), NEW ms \in Seq(Message), Owes(evs, ms)
  PROVE  Grows(ms)
<1> SUFFICES ASSUME NEW owed \in Seq(Message), Owes(out, owed)
             PROVE  \E owed2 \in Seq(Message) : /\ Owes(out', owed2)
                                                /\ messages' \o owed2 = (messages \o owed) \o ms
  BY DEF Grows
<1>1. owed = <<>> /\ messages \o owed = messages
  BY OwesNothing, ConcatLaws
<1> QED
  BY <1>1, EmitOwes

\* A step that neither emits nor stores anything adds nothing.
LEMMA QuietGrows ==
  ASSUME messages \in Seq(Message), UNCHANGED <<messages, out>>
  PROVE  Grows(<<>>)
<1> SUFFICES ASSUME NEW owed \in Seq(Message), Owes(out, owed)
             PROVE  \E owed2 \in Seq(Message) : /\ Owes(out', owed2)
                                                /\ messages' \o owed2 = (messages \o owed) \o <<>>
  BY DEF Grows
<1>1. messages \o owed \in Seq(Message)
  BY ConcatLaws
<1>2. (messages \o owed) \o <<>> = messages \o owed
  BY <1>1, ConcatLaws
<1> QED
  BY <1>2

\* The next event of those that are left.
LEMMA NextEventGrows ==
  ASSUME messages \in Seq(Message), out \in Seq(Event), EmitNext
  PROVE  Grows(<<>>)
<1> SUFFICES ASSUME NEW owed \in Seq(Message), Owes(out, owed)
             PROVE  \E owed2 \in Seq(Message) : /\ Owes(out', owed2)
                                                /\ messages' \o owed2 = (messages \o owed) \o <<>>
  BY DEF Grows
<1>1. messages \o owed \in Seq(Message)
  BY ConcatLaws
<1>2. (messages \o owed) \o <<>> = messages \o owed
  BY <1>1, ConcatLaws
<1> QED
  BY <1>2, EmitOwes DEF EmitNext

\* Events that are about no message that joins the transcript.
LEMMA BareOwes ==
  ASSUME NEW type \in EventTypes \ {"message_start", "message_end"}
  PROVE  /\ <<Bare(type)>> \in Seq(Event) /\ Owes(<<Bare(type)>>, <<>>)
         /\ \A m \in Message : m.kind \notin UserKinds =>
              <<About(type, m)>> \in Seq(Event) /\ Owes(<<About(type, m)>>, <<>>)
<1>1. /\ Bare(type) \in Event /\ ~IsMessageEvent(Bare(type)) /\ Bare(type).msg.kind \notin UserKinds
  BY EventsTyped DEF Bare, IsMessageEvent, Partial, Assistant, UserKinds
<1>2. ASSUME NEW m \in Message, m.kind \notin UserKinds
      PROVE  <<About(type, m)>> \in Seq(Event) /\ Owes(<<About(type, m)>>, <<>>)
  <2>1. About(type, m) \in Event /\ ~IsMessageEvent(About(type, m)) /\ About(type, m).msg = m
    BY EventsTyped DEF About, IsMessageEvent
  <2>2. PICK e : e = About(type, m)
    OBVIOUS
  <2> QED
    BY <1>2, <2>1, <2>2, QuietOwes
<1>3. PICK e : e = Bare(type)
  OBVIOUS
<1> QED
  BY <1>1, <1>2, <1>3, QuietOwes

\* Two events one after the other.
LEMMA PairConcat ==
  ASSUME NEW x \in Event, NEW y \in Event
  PROVE  <<x>> \o <<y>> = <<x, y>> /\ <<x, y>> \in Seq(Event)
<1>1. PICK s, t, u : s = <<x>> /\ t = <<y>> /\ u = <<x, y>>
  OBVIOUS
<1>2. /\ s \in Seq(Event) /\ t \in Seq(Event) /\ u \in Seq(Event) /\ Len(s) = 1 /\ Len(t) = 1 /\ Len(u) = 2
      /\ s[1] = x /\ t[1] = y /\ u[1] = x /\ u[2] = y
  BY <1>1
<1>3. s \o t \in Seq(Event) /\ Len(s \o t) = 2 /\ (s \o t)[1] = x /\ (s \o t)[2] = y
  <2>1. /\ Len(s \o t) = Len(s) + Len(t) /\ s \o t \in Seq(Event)
        /\ \A i \in DOMAIN s : (s \o t)[i] = s[i]
        /\ \A i \in DOMAIN t : (s \o t)[Len(s) + i] = t[i]
    BY <1>2, ConcatParts
  <2>2. 1 \in DOMAIN s /\ 1 \in DOMAIN t /\ 1 + 1 = 2
    BY <1>2
  <2> QED
    BY <1>2, <2>1, <2>2
<1>4. PICK v : v = s \o t
  OBVIOUS
<1>5. v = u
  <2>1. v \in Seq(Event) /\ Len(v) = 2 /\ v[1] = x /\ v[2] = y
    BY <1>3, <1>4
  <2> QED
    BY <1>2, <2>1
<1> QED
  BY <1>1, <1>2, <1>4, <1>5

\* Two lists of events, the second of which is about no message that joins the transcript,
\* or the first.
LEMMA OwesBeside ==
  ASSUME NEW a \in Seq(Event), NEW b \in Seq(Event), NEW ms \in Seq(Message)
  PROVE  /\ Owes(a, ms) /\ Owes(b, <<>>) => Owes(a \o b, ms)
         /\ Owes(a, <<>>) /\ Owes(b, ms) => Owes(a \o b, ms)
<1>1. <<>> \in Seq(Message) /\ ms \o <<>> = ms /\ <<>> \o ms = ms
  BY ConcatLaws
<1>2. ASSUME Owes(a, ms), Owes(b, <<>>) PROVE Owes(a \o b, ms)
  <2>1. Owes(a \o b, ms \o <<>>)
    BY <1>1, <1>2, ConcatOwes
  <2> QED
    BY <1>1, <2>1
<1>3. ASSUME Owes(a, <<>>), Owes(b, ms) PROVE Owes(a \o b, ms)
  <2>1. Owes(a \o b, <<>> \o ms)
    BY <1>1, <1>3, ConcatOwes
  <2> QED
    BY <1>1, <2>1
<1> QED
  BY <1>2, <1>3

\* The report of an abort or a failure.
LEMMA ReportOwes ==
  ASSUME NEW kind \in Kinds \ UserKinds
  PROVE  LET m == Assistant(kind, 0)
             evs == Say(<<m>>) \o <<About("turn_end", m), Bare("agent_end")>>
         IN  evs \in Seq(Event) /\ evs # <<>> /\ m \in Message /\ m.kind = kind /\ Owes(evs, <<m>>)
<1>1. PICK m : m = Assistant(kind, 0)
  OBVIOUS
<1>2. m \in Message /\ m.kind = kind
  BY <1>1, MessagesTyped DEF Assistant
<1>3. PICK a, b, s : a = <<About("turn_end", m)>> /\ b = <<Bare("agent_end")>> /\ s = Say(<<m>>)
  OBVIOUS
<1>4. a \in Seq(Event) /\ b \in Seq(Event) /\ Owes(a, <<>>) /\ Owes(b, <<>>)
  BY <1>2, <1>3, BareOwes DEF EventTypes
<1>5. <<m>> \in Seq(Message) /\ <<>> \in Seq(Message)
  BY <1>2
<1>6. s \in Seq(Event) /\ Owes(s, <<m>>)
  BY <1>3, <1>5, SayTyped, SayOwes
<1>7. a \o b = <<About("turn_end", m), Bare("agent_end")>> /\ a \o b \in Seq(Event)
  <2>1. About("turn_end", m) \in Event /\ Bare("agent_end") \in Event
    BY <1>2, EventsTyped DEF EventTypes
  <2> QED
    BY <1>3, <2>1, PairConcat
<1>8. Owes(a \o b, <<>>)
  BY <1>4, <1>5, OwesBeside
<1>9. Owes(s \o (a \o b), <<m>>)
  BY <1>5, <1>6, <1>7, <1>8, OwesBeside
<1> DEFINE evs == Say(<<m>>) \o <<About("turn_end", m), Bare("agent_end")>>
<1>10. evs = s \o (a \o b)
  BY <1>3, <1>7
<1>11. evs \in Seq(Event) /\ evs # <<>>
  BY <1>1, ReportTyped
<1>12. Owes(evs, <<m>>)
  BY <1>9, <1>10
<1> HIDE DEF evs
<1>13. evs \in Seq(Event) /\ evs # <<>> /\ m \in Message /\ m.kind = kind /\ Owes(evs, <<m>>)
  BY <1>2, <1>11, <1>12
<1> QED
  BY <1>1, <1>13 DEF evs

-----------------------------------------------------------------------------
(* What the steps of a run add, and where they lead.                       *)

Aborted == Assistant("aborted", 0)
Failure == Assistant("failure", 0)

\* The run reports its abort, opens a turn with new messages, or asks the model.
Stops == aborted /\ pc' = "ending" /\ UNCHANGED locals /\ Grows(<<Aborted>>)
Opens(pending) ==
  /\ ~aborted
  /\ pc' = "turn"
  /\ context' = context \o pending
  /\ UNCHANGED <<added, mode, answered>>
  /\ Grows(pending)
Asks == ~aborted /\ pc' \in {"convert", "request"} /\ UNCHANGED locals /\ Grows(<<>>)

\* The report of an abort is one message.
LEMMA StopMoves ==
  ASSUME TypeOK, out = <<>>, NEW lost, _stop_if_aborted(lost)
  PROVE  Stops
<1>1. "aborted" \in Kinds \ UserKinds
  BY DEF Kinds, UserKinds
<1>2. PICK evs : evs = Say(<<Aborted>>) \o <<About("turn_end", Aborted), Bare("agent_end")>>
  OBVIOUS
<1>3. evs \in Seq(Event) /\ evs # <<>> /\ Aborted \in Message /\ Owes(evs, <<Aborted>>)
  BY <1>1, <1>2, ReportOwes DEF Aborted
<1>4. Emit(evs, "ending") /\ pc' = "ending"
  BY <1>2 DEF _stop_if_aborted, Emit, Aborted
<1>5. <<Aborted>> \in Seq(Message)
  BY <1>3
<1>6. Grows(<<Aborted>>)
  BY <1>3, <1>4, <1>5, EmitGrows DEF TypeOK, AgentStateType
<1> QED
  BY <1>4, <1>6 DEF Stops, _stop_if_aborted

\* A turn adds its pending messages to the context and to what is owed alike.
LEMMA OpenMoves ==
  ASSUME TypeOK, out = <<>>, NEW pending \in Seq(Message), NEW events,
         (events = <<>> /\ pending # <<>>) \/ events = <<Bare("turn_start")>>,
         OpenTurn(events, pending)
  PROVE  Opens(pending)
<1>1. events \in Seq(Event) /\ Owes(events, <<>>)
  <2>1. <<>> \in Seq(Event)
    OBVIOUS
  <2> QED
    BY <2>1, BareOwes, OwesNothing DEF EventTypes
<1>2. Say(pending) \in Seq(Event) /\ Len(Say(pending)) = Len(pending) /\ Owes(Say(pending), pending)
  BY SayTyped, SayOwes
<1>3. PICK evs : evs = events \o Say(pending)
  OBVIOUS
<1>4. evs \in Seq(Event) /\ Owes(evs, pending)
  BY <1>1, <1>2, <1>3, OwesBeside, ConcatLaws
<1>5. evs # <<>>
  <2>1. Len(evs) = Len(events) + Len(pending)
    <3>1. \A a, b \in Seq(Event) : Len(a \o b) = Len(a) + Len(b)
      OBVIOUS
    <3>2. Len(evs) = Len(events) + Len(Say(pending))
      BY <1>1, <1>2, <1>3, <3>1
    <3> QED
      BY <1>2, <3>2
  <2>2. Len(events) > 0 \/ Len(pending) > 0
    <3>1. CASE events = <<>> /\ pending # <<>>
      BY <3>1
    <3>2. CASE events = <<Bare("turn_start")>>
      <4>1. PICK e : e = Bare("turn_start")
        OBVIOUS
      <4> QED
        BY <3>2, <4>1
    <3> QED
      BY <3>1, <3>2
  <2> QED
    BY <1>1, <2>1, <2>2
<1>6. Emit(evs, "turn") /\ pc' = "turn"
  BY <1>3 DEF OpenTurn, Emit
<1>7. Grows(pending)
  BY <1>4, <1>5, <1>6, EmitGrows DEF TypeOK, AgentStateType
<1> QED
  BY <1>6, <1>7 DEF Opens, OpenTurn

\* The model is asked without an event.
LEMMA AskMoves ==
  ASSUME TypeOK, CallModel
  PROVE  Asks
<1>1. Grows(<<>>)
  BY QuietGrows DEF CallModel, TypeOK, AgentStateType, agentState
<1> QED
  BY <1>1 DEF Asks, CallModel

\* The first poll of a run.
LEMMA BeginMoves ==
  ASSUME TypeOK, BeginLoop
  PROVE  \E m \in QueueModes :
           \/ Stops /\ steering' \in {steering, Remaining(steering, m)}
           \/ Opens(Drained(steering, m)) /\ steering' = Remaining(steering, m)
           \/ Asks /\ steering' = steering
<1>1. PICK m \in QueueModes :
        LET pending == IF skip THEN <<>> ELSE Drained(steering, m)
        IN  /\ steering' = IF skip THEN steering ELSE Remaining(steering, m)
            /\ \/ _stop_if_aborted(pending)
               \/ pending # <<>> /\ OpenTurn(<<>>, pending)
               \/ pending = <<>> /\ CallModel
  BY DEF BeginLoop
<1>2. PICK pending : pending = IF skip THEN <<>> ELSE Drained(steering, m)
  OBVIOUS
<1>3. \/ _stop_if_aborted(pending)
      \/ pending # <<>> /\ OpenTurn(<<>>, pending)
      \/ pending = <<>> /\ CallModel
  BY <1>1, <1>2
<1>4. out = <<>> /\ pending \in Seq(Message) /\ steering \in Seq(Message)
  BY <1>2, DrainTyped DEF BeginLoop, Resumes, TypeOK, QueueType
<1>5. CASE _stop_if_aborted(pending)
  BY <1>1, <1>4, <1>5, StopMoves
<1>6. CASE pending # <<>> /\ OpenTurn(<<>>, pending)
  <2>1. ~skip /\ pending = Drained(steering, m) /\ steering' = Remaining(steering, m)
    BY <1>1, <1>2, <1>6
  <2>2. Opens(pending)
    BY <1>4, <1>6, OpenMoves
  <2> QED
    BY <2>1, <2>2
<1>7. CASE pending = <<>> /\ CallModel
  <2>1. steering' = steering
    BY <1>1, <1>2, <1>7 DEF Drained, Remaining
  <2> QED
    BY <1>7, <2>1, AskMoves
<1> QED
  BY <1>3, <1>5, <1>6, <1>7

\* The polls between two turns: an abort, steering, another turn, follow-ups, or the end.
LEMMA PollMoves ==
  ASSUME TypeOK, out = <<>>, PollQueues
  PROVE  \E m \in QueueModes :
           \/ Stops /\ steering' = Remaining(steering, m) /\ followUps' = followUps
           \/ /\ Opens(Drained(steering, m))
              /\ steering' = Remaining(steering, m) /\ followUps' = followUps
           \/ /\ Opens(Drained(followUps, m))
              /\ followUps' = Remaining(followUps, m) /\ steering' = steering
           \/ /\ ~aborted /\ pc' = "ending" /\ Grows(<<>>)
              /\ UNCHANGED <<queues, locals>>
<1>1. PICK m \in QueueModes, n \in QueueModes : PollQueues!(m, n)
  BY DEF PollQueues
<1>2. PICK pending, after : pending = Drained(steering, m) /\ after = Drained(followUps, n)
  OBVIOUS
<1>3. /\ pending \in Seq(Message) /\ after \in Seq(Message)
      /\ steering \in Seq(Message) /\ followUps \in Seq(Message)
  BY <1>2, DrainTyped DEF TypeOK, QueueType
<1>4. /\ steering' = Remaining(steering, m)
      /\ \/ _stop_if_aborted(pending) /\ UNCHANGED followUps
         \/ OpenTurn(<<Bare("turn_start")>>, pending) /\ UNCHANGED followUps
         \/ /\ pending = <<>>
            /\ OpenTurn(<<Bare("turn_start")>>, after) /\ followUps' = Remaining(followUps, n)
         \/ /\ pending = <<>> /\ ~aborted
            /\ Emit(<<Bare("agent_end")>>, "ending") /\ UNCHANGED <<followUps, locals>>
  BY <1>1, <1>2 DEF _followup
<1>5. pending = <<>> => steering' = steering
  BY <1>2, <1>4 DEF Drained, Remaining
<1>6. CASE _stop_if_aborted(pending) /\ UNCHANGED followUps
  BY <1>4, <1>6, StopMoves
<1>7. CASE OpenTurn(<<Bare("turn_start")>>, pending) /\ UNCHANGED followUps
  BY <1>2, <1>3, <1>4, <1>7, OpenMoves
<1>8. CASE /\ pending = <<>>
           /\ OpenTurn(<<Bare("turn_start")>>, after) /\ followUps' = Remaining(followUps, n)
  BY <1>2, <1>3, <1>5, <1>8, OpenMoves
<1>9. CASE /\ pending = <<>> /\ ~aborted
           /\ Emit(<<Bare("agent_end")>>, "ending") /\ UNCHANGED <<followUps, locals>>
  <2>1. PICK evs : evs = <<Bare("agent_end")>>
    OBVIOUS
  <2>2. evs \in Seq(Event) /\ Owes(evs, <<>>) /\ evs # <<>>
    BY <2>1, BareOwes DEF EventTypes
  <2>3. <<>> \in Seq(Message)
    OBVIOUS
  <2>4. Grows(<<>>)
    BY <1>9, <2>1, <2>2, <2>3, EmitGrows DEF TypeOK, AgentStateType
  <2> QED
    BY <1>5, <1>9, <2>4 DEF Emit, queues
<1> QED
  BY <1>4, <1>6, <1>7, <1>8, <1>9

\* The context while a response is streamed and its tool calls are executed: the partial
\* message, or the response, comes last, and a batch has answered some of its calls.
ContextShape ==
  /\ pc \notin {"request", "ending", "failing"} => ~added
  /\ added => Last(context) = Partial
  /\ pc \in {"answer", "tools", "results"} => Last(context).kind \in {"assistant", "error"}
  /\ pc \in {"tools", "results"} => Last(context).kind = "assistant" /\ answered \in 1..Calls
  /\ pc = "tools" => mode \in {"sequential", "parallel"}
  /\ pc = "results" => mode = "parallel" /\ (answered = Calls \/ aborted)

\* What the events of one tool call owe: in a sequential batch its result.
CallResult(i, m) == IF m = "sequential" THEN <<ToolResult(i)>> ELSE <<>>

\* The events of a call put its result, and nothing else, into the transcript.
LEMMA CallOwes ==
  ASSUME NEW i \in Nat, NEW m
  PROVE  /\ CallEvents(i, m) \in Seq(Event) /\ CallEvents(i, m) # <<>>
         /\ CallResult(i, m) \in Seq(Message)
         /\ Owes(CallEvents(i, m), CallResult(i, m))
<1>1. PICK r : r = ToolResult(i)
  OBVIOUS
<1>2. r \in Message /\ r.kind \notin UserKinds
  BY <1>1, MessagesTyped DEF ToolResult, UserKinds
<1>3. PICK a, b : a = <<About("tool_execution_start", r)>> /\ b = <<About("tool_execution_end", r)>>
  OBVIOUS
<1>4. a \in Seq(Event) /\ b \in Seq(Event) /\ Owes(a, <<>>) /\ Owes(b, <<>>)
  BY <1>2, <1>3, BareOwes DEF EventTypes
<1>5. PICK ab : ab = <<About("tool_execution_start", r), About("tool_execution_end", r)>>
  OBVIOUS
<1>6. ab = a \o b /\ ab \in Seq(Event)
  <2>1. About("tool_execution_start", r) \in Event /\ About("tool_execution_end", r) \in Event
    BY <1>2, EventsTyped DEF EventTypes
  <2> QED
    BY <1>3, <1>5, <2>1, PairConcat
<1>7. <<r>> \in Seq(Message) /\ <<>> \in Seq(Message) /\ <<>> \in Seq(Event)
  BY <1>2
<1>8. Owes(ab, <<>>)
  BY <1>4, <1>6, <1>7, OwesBeside
<1>9. CASE m = "sequential"
  <2>1. PICK s : s = Say(<<r>>)
    OBVIOUS
  <2>2. s \in Seq(Event) /\ Owes(s, <<r>>)
    BY <1>7, <2>1, SayTyped, SayOwes
  <2>3. Owes(ab \o s, <<r>>)
    BY <1>6, <1>7, <1>8, <2>2, OwesBeside
  <2>4. CallEvents(i, m) = ab \o s /\ CallResult(i, m) = <<r>>
    BY <1>1, <1>5, <1>9, <2>1 DEF CallEvents, CallResult
  <2>5. ab \o s \in Seq(Event) /\ ab \o s # <<>>
    BY <2>4, CallEventsTyped
  <2> QED
    BY <1>7, <2>3, <2>4, <2>5
<1>10. CASE m # "sequential"
  <2>1. CallEvents(i, m) = ab \o <<>> /\ CallResult(i, m) = <<>>
    BY <1>1, <1>5, <1>10 DEF CallEvents, CallResult
  <2>2. ab \o <<>> = ab
    BY <1>6, ConcatLaws
  <2> QED
    BY <1>6, <1>7, <1>8, <2>1, <2>2, CallEventsTyped
<1> QED
  BY <1>9, <1>10

\* The next call of a batch.
LEMMA CallMoves ==
  ASSUME TypeOK, out = <<>>, NEW i \in Nat, NEW m, Emit(CallEvents(i, m), "tools")
  PROVE  pc' = "tools" /\ Grows(CallResult(i, m))
  BY CallOwes, EmitGrows DEF Emit, TypeOK, AgentStateType

\* The end of a turn, alone or with the end of the run behind it.
LEMMA TurnEndMoves ==
  ASSUME TypeOK, out = <<>>, NEW m \in Message, m.kind \notin UserKinds, NEW next,
         \/ Emit(<<About("turn_end", m)>>, next)
         \/ Emit(<<About("turn_end", m), Bare("agent_end")>>, next)
  PROVE  pc' = next /\ Grows(<<>>)
<1>1. PICK a, b : a = <<About("turn_end", m)>> /\ b = <<Bare("agent_end")>>
  OBVIOUS
<1>2. a \in Seq(Event) /\ b \in Seq(Event) /\ Owes(a, <<>>) /\ Owes(b, <<>>)
  BY <1>1, BareOwes DEF EventTypes
<1>3. PICK ab : ab = <<About("turn_end", m), Bare("agent_end")>>
  OBVIOUS
<1>4. ab = a \o b /\ ab \in Seq(Event) /\ ab # <<>> /\ a # <<>>
  <2>1. About("turn_end", m) \in Event /\ Bare("agent_end") \in Event
    BY EventsTyped DEF EventTypes
  <2>2. ab # <<>> /\ a # <<>>
    BY <1>1, <1>3
  <2> QED
    BY <1>1, <1>3, <2>1, <2>2, PairConcat
<1>5. <<>> \in Seq(Message)
  OBVIOUS
<1>6. Owes(ab, <<>>)
  BY <1>2, <1>4, <1>5, OwesBeside
<1>7. messages \in Seq(Message)
  BY DEF TypeOK, AgentStateType
<1>8. Emit(a, next) \/ Emit(ab, next)
  BY <1>1, <1>3
<1> QED
  BY <1>2, <1>4, <1>5, <1>6, <1>7, <1>8, EmitGrows DEF Emit

\* The response becomes the last message of the context and of what is owed.
LEMMA DoneMoves ==
  ASSUME TypeOK, RunShape, StreamDone
  PROVE  \E m \in Message : /\ m.kind \in {"assistant", "error"}
                            /\ pc' = "answer" /\ ~added' /\ UNCHANGED aborted
                            /\ context' = FinalContext(m)
                            /\ Grows(<<m>>)
<1>0. PICK kind \in {"assistant", "error"}, c \in 0..MaxCalls :
        /\ context' = FinalContext(Assistant(kind, c))
        /\ Emit(IF added THEN <<About("message_end", Assistant(kind, c))>>
                ELSE Say(<<Assistant(kind, c)>>), "answer")
  BY DEF StreamDone
<1> DEFINE m == Assistant(kind, c)
<1>1. /\ context' = FinalContext(m)
      /\ Emit(IF added THEN <<About("message_end", m)>> ELSE Say(<<m>>), "answer")
  BY <1>0
<1>2. m \in Message /\ m.kind \in {"assistant", "error"}
  BY <1>0, Bounds, MessagesTyped DEF Kinds, Assistant
<1> HIDE DEF m
<1>3. <<m>> \in Seq(Message) /\ Len(<<m>>) = 1
  BY <1>2
<1>4. PICK end : end = About("message_end", m)
  OBVIOUS
<1>5. end \in Event /\ IsMessageEvent(end) /\ end.msg = m
  BY <1>2, <1>4, EventsTyped DEF EventTypes, IsMessageEvent, About
<1>6. <<end>> \in Seq(Event) /\ <<end>> # <<>> /\ Owes(<<end>>, <<m>>)
  BY <1>5, MessageOwes
<1>7. Say(<<m>>) \in Seq(Event) /\ Say(<<m>>) # <<>> /\ Owes(Say(<<m>>), <<m>>)
  <2>1. PICK ms, s : ms = <<m>> /\ s = Say(<<m>>)
    OBVIOUS
  <2>2. s \in Seq(Event) /\ Len(s) = 1 /\ Owes(s, ms)
    BY <1>3, <2>1, SayTyped, SayOwes
  <2>3. s # <<>>
    <3>1. Len(<<>>) # 1
      OBVIOUS
    <3> QED
      BY <2>2, <3>1, Zenon
  <2> QED
    BY <2>1, <2>2, <2>3
<1>8. PICK evs : evs = IF added THEN <<end>> ELSE Say(<<m>>)
  OBVIOUS
<1>9. evs \in Seq(Event) /\ evs # <<>> /\ Owes(evs, <<m>>)
  BY <1>6, <1>7, <1>8
<1>10. Emit(evs, "answer")
  BY <1>1, <1>4, <1>8
<1>11. out = <<>> /\ messages \in Seq(Message)
  BY DEF StreamDone, RunShape, TypeOK, AgentStateType
<1>12. Grows(<<m>>)
  BY <1>3, <1>9, <1>10, <1>11, EmitGrows
<1> QED
  BY <1>1, <1>2, <1>10, <1>12 DEF Emit, StreamDone

\* The result messages of a parallel batch.
LEMMA CollectMoves ==
  ASSUME TypeOK, CollectResults, RunShape
  PROVE  pc' = "results" /\ Grows(Results(answered))
<1>1. PICK rs, evs : rs = Results(answered) /\ evs = Say(rs)
  OBVIOUS
<1>2. rs \in Seq(Message) /\ Len(rs) = answered /\ answered > 0
  BY <1>1, ResultsTyped DEF CollectResults, Resumes, RunShape, TypeOK, LocalType, Results
<1>3. evs \in Seq(Event) /\ Len(evs) = Len(rs) /\ Owes(evs, rs)
  BY <1>1, <1>2, SayTyped, SayOwes
<1>4. evs # <<>>
  BY <1>2, <1>3
<1>5. Emit(evs, "results") /\ out = <<>>
  BY <1>1 DEF CollectResults, Resumes
<1> QED
  BY <1>1, <1>2, <1>3, <1>4, <1>5, EmitGrows DEF Emit, TypeOK, AgentStateType

\* Only the events of the failure are left of an interrupted run.
LEMMA RaiseMoves ==
  ASSUME TypeOK, RunRaises
  PROVE  \E owed \in Seq(Message) : Owes(out', owed) /\ messages' \o owed = messages \o <<Failure>>
<1>1. "failure" \in Kinds \ UserKinds
  BY DEF Kinds, UserKinds
<1>2. PICK evs : evs = Say(<<Failure>>) \o <<About("turn_end", Failure), Bare("agent_end")>>
  OBVIOUS
<1>3. evs \in Seq(Event) /\ evs # <<>> /\ Failure \in Message /\ Owes(evs, <<Failure>>)
  BY <1>1, <1>2, ReportOwes DEF Failure
<1>4. Emit(evs, "failing")
  BY <1>2 DEF RunRaises, Failure
<1>5. <<Failure>> \in Seq(Message)
  BY <1>3
<1> QED
  BY <1>3, <1>4, <1>5, EmitOwes DEF TypeOK, AgentStateType

\* A run begins with its prompts in the context, and owes them.
LEMMA StartOwes ==
  ASSUME NEW prompts \in Seq(Message), NEW b, _run_with_lifecycle(prompts, b)
  PROVE  Owes(out', prompts)
<1>1. PICK a, s : a = <<Bare("turn_start")>> /\ s = Say(prompts)
  OBVIOUS
<1>2. a \in Seq(Event) /\ Owes(a, <<>>) /\ s \in Seq(Event) /\ Owes(s, prompts)
  BY <1>1, BareOwes, SayTyped, SayOwes DEF EventTypes
<1>3. out' = a \o s
  BY <1>1 DEF _run_with_lifecycle
<1> QED
  BY <1>2, <1>3, OwesBeside

-----------------------------------------------------------------------------
(* The shape of the context.                                               *)

\* A sequence without its last element.
Front(s) == SubSeq(s, 1, Len(s) - 1)

\* One more element at the end.
LEMMA OneMore ==
  ASSUME NEW s \in Seq(Message), NEW x \in Message
  PROVE  /\ s \o <<x>> \in Seq(Message) /\ Len(s \o <<x>>) = Len(s) + 1
         /\ (s \o <<x>>)[Len(s) + 1] = x
         /\ \A i \in 1..Len(s) : (s \o <<x>>)[i] = s[i]
<1>1. PICK xs : xs = <<x>>
  OBVIOUS
<1>2. xs \in Seq(Message) /\ Len(xs) = 1 /\ xs[1] = x /\ 1 \in DOMAIN xs /\ DOMAIN s = 1..Len(s)
  BY <1>1
<1>3. /\ s \o xs \in Seq(Message) /\ Len(s \o xs) = Len(s) + 1
      /\ (s \o xs)[Len(s) + 1] = x
      /\ \A i \in DOMAIN s : (s \o xs)[i] = s[i]
  BY <1>2, ConcatParts
<1> QED
  BY <1>1, <1>2, <1>3

\* A sequence is what precedes its last element, and that element.
LEMMA FrontLast ==
  ASSUME NEW s \in Seq(Message), NEW x \in Message
  PROVE  /\ Front(s \o <<x>>) = s /\ Last(s \o <<x>>) = x /\ s \o <<x>> # <<>>
         /\ s # <<>> => Front(s) \in Seq(Message) /\ Last(s) \in Message /\ s = Front(s) \o <<Last(s)>>
<1>1. PICK u : u = s \o <<x>>
  OBVIOUS
<1>2. /\ u \in Seq(Message) /\ Len(u) = Len(s) + 1 /\ u[Len(s) + 1] = x
      /\ \A i \in 1..Len(s) : u[i] = s[i]
  BY <1>1, OneMore
<1>3. SubSeq(u, 1, Len(s)) = s
  BY <1>2
<1>4. Front(u) = s /\ Last(u) = x /\ u # <<>>
  BY <1>2, <1>3 DEF Front, Last
<1>5. ASSUME s # <<>>
      PROVE  Front(s) \in Seq(Message) /\ Last(s) \in Message /\ s = Front(s) \o <<Last(s)>>
  <2>1. PICK f, l : f = Front(s) /\ l = Last(s)
    OBVIOUS
  <2>2. /\ f \in Seq(Message) /\ Len(f) = Len(s) - 1 /\ l \in Message /\ l = s[Len(s)]
        /\ \A i \in 1..(Len(s) - 1) : f[i] = s[i]
    <3>1. Len(s) \in Nat \ {0} /\ DOMAIN s = 1..Len(s)
      BY <1>5
    <3>2. l \in Message /\ l = s[Len(s)]
      BY <2>1, <3>1 DEF Last
    <3>3. PICK n : n = Len(s) - 1
      OBVIOUS
    <3>4. n \in Nat /\ n <= Len(s) /\ f = SubSeq(s, 1, n)
      BY <2>1, <3>1, <3>3 DEF Front
    <3>5. f \in Seq(Message) /\ Len(f) = n /\ \A i \in 1..n : f[i] = s[i]
      BY <3>1, <3>4
    <3> QED
      BY <3>2, <3>3, <3>5
  <2>3. PICK w : w = f \o <<l>>
    OBVIOUS
  <2>4. /\ w \in Seq(Message) /\ Len(w) = Len(f) + 1 /\ w[Len(f) + 1] = l
        /\ \A i \in 1..Len(f) : w[i] = f[i]
    BY <2>2, <2>3, OneMore
  <2>5. /\ Len(w) = Len(s) /\ \A i \in 1..Len(s) : w[i] = s[i]
    BY <1>5, <2>2, <2>4
  <2>6. w = s
    BY <2>4, <2>5
  <2> QED
    BY <2>1, <2>2, <2>3, <2>6
<1> QED
  BY <1>1, <1>4, <1>5

\* The response takes the place of its partial form.
LEMMA FinalContextIs ==
  ASSUME context \in Seq(Message), added => context # <<>>, NEW m \in Message
  PROVE  FinalContext(m) = (IF added THEN Front(context) ELSE context) \o <<m>>
<1>1. CASE added
  <2>1. PICK n, f, u : n = Len(context) /\ f = Front(context) /\ u = [context EXCEPT ![n] = m]
    OBVIOUS
  <2>2. n \in Nat \ {0} /\ f \in Seq(Message) /\ Len(f) = n - 1 /\ \A i \in 1..(n - 1) : f[i] = context[i]
    BY <1>1, <2>1 DEF Front
  <2>3. PICK w : w = f \o <<m>>
    OBVIOUS
  <2>4. /\ w \in Seq(Message) /\ Len(w) = Len(f) + 1 /\ w[Len(f) + 1] = m
        /\ \A i \in 1..Len(f) : w[i] = f[i]
    BY <2>2, <2>3, OneMore
  <2>5. w \in Seq(Message) /\ Len(w) = n /\ w[n] = m /\ \A i \in 1..(n - 1) : w[i] = context[i]
    BY <2>2, <2>4
  <2>6. /\ u \in Seq(Message) /\ Len(u) = n /\ u[n] = m
        /\ \A i \in 1..(n - 1) : u[i] = context[i]
    <3>1. context \in [1..n -> Message]
      BY <2>1
    <3>2. u \in [1..n -> Message] /\ u[n] = m /\ \A i \in 1..(n - 1) : u[i] = context[i]
      BY <2>1, <2>2, <3>1
    <3> QED
      BY <2>2, <3>2
  <2>7. u = w
    <3>1. \A i \in 1..n : u[i] = w[i]
      BY <2>2, <2>5, <2>6
    <3> QED
      BY <2>2, <2>5, <2>6, <3>1
  <2> QED
    BY <1>1, <2>1, <2>3, <2>7 DEF FinalContext
<1>2. CASE ~added
  BY <1>2, AppendConcat DEF FinalContext
<1> QED
  BY <1>1, <1>2

\* The agent starts with an empty context.
LEMMA InitContext == Init => ContextShape
  BY DEF Init, ContextShape

\* Every step keeps the shape of the context.
LEMMA NextContext == TypeOK /\ RunShape /\ ContextShape /\ [Next]_vars => ContextShape'
<1> SUFFICES ASSUME TypeOK, RunShape, ContextShape, [Next]_vars
             PROVE  ContextShape'
  OBVIOUS
<1>types. AgentStateType /\ QueueType /\ RunType /\ LocalType /\ HistoryType
  BY DEF TypeOK
<1>same. ASSUME UNCHANGED <<pc, context, added, mode, answered>>, aborted => aborted'
         PROVE  ContextShape'
  BY <1>same DEF ContextShape, Calls
<1>over. ASSUME pc' \in {"ending", "failing"}, UNCHANGED <<context, added>>
         PROVE  ContextShape'
  BY <1>over DEF ContextShape
<1>quiet. ASSUME pc' \in {"opening", "turn", "turnEnd", "prepare", "idle"}, ~added'
          PROVE  ContextShape'
  BY <1>quiet DEF ContextShape
<1>stop. ASSUME Stops PROVE ContextShape'
  BY <1>stop, <1>over DEF Stops, locals
<1>open. ASSUME NEW pending, Opens(pending), pc \in {"opening", "turnEnd", "prepare"} PROVE ContextShape'
  <2>1. ~added' /\ pc' = "turn"
    BY <1>open DEF Opens, ContextShape
  <2> QED
    BY <1>quiet, <2>1
<1>ask. ASSUME Asks, pc \in {"opening", "turn"} PROVE ContextShape'
  BY <1>ask DEF Asks, ContextShape, locals
<1>1. CASE EmitNext
  BY <1>1, <1>same DEF EmitNext, Emit, locals
<1>2. CASE BeginLoop
  BY <1>2, <1>stop, <1>open, <1>ask, BeginMoves DEF BeginLoop, Resumes
<1>3. CASE StartRequest
  BY <1>3, <1>stop, <1>ask, StopMoves, AskMoves DEF StartRequest, Resumes
<1>4. CASE StreamStart
  <2>1. context' = context \o <<Partial>> /\ pc' = "request"
    BY <1>4, <1>types, MessagesTyped, AppendConcat DEF StreamStart, LocalType
  <2>2. Last(context') = Partial
    BY <1>types, <2>1, MessagesTyped, FrontLast DEF LocalType
  <2> QED
    BY <2>1, <2>2 DEF ContextShape
<1>5. CASE StreamUpdate
  BY <1>5, <1>same DEF StreamUpdate, locals
<1>19. CASE SendRequest
  BY <1>19 DEF SendRequest, ContextShape, locals
<1>6. CASE StreamDone
  <2>1. PICK m \in Message : /\ m.kind \in {"assistant", "error"}
                             /\ pc' = "answer" /\ ~added' /\ context' = FinalContext(m)
    BY <1>6, DoneMoves
  <2>2. PICK f : f = IF added THEN Front(context) ELSE context
    OBVIOUS
  <2>3. f \in Seq(Message) /\ context' = f \o <<m>>
    <3>1. added => context # <<>>
      BY DEF RunShape
    <3>2. context \in Seq(Message)
      BY <1>types DEF LocalType
    <3>3. added => Front(context) \in Seq(Message)
      BY <3>1, <3>2, MessagesTyped, FrontLast
    <3> QED
      BY <2>1, <2>2, <3>1, <3>2, <3>3, FinalContextIs
  <2>4. Last(context') = m
    BY <2>3, FrontLast
  <2> QED
    BY <2>1, <2>4 DEF ContextShape
<1>7. CASE Answer
  <2>1. pc = "answer" /\ ~added /\ context # <<>>
    BY <1>7 DEF Answer, Resumes, ContextShape, RunShape
  <2>2. Calls \in Nat
    BY <1>types, <2>1, LastTyped DEF LocalType
  <2>3. CASE pc' \in {"ending", "turnEnd"} /\ UNCHANGED <<context, added>>
    BY <1>over, <1>quiet, <2>1, <2>3
  <2>4. CASE /\ Last(context).kind # "error" /\ Calls > 0
             /\ pc' = "tools" /\ mode' \in {"sequential", "parallel"}
             /\ answered' = 1 /\ UNCHANGED <<context, added>>
    <3>1. Last(context').kind = "assistant" /\ Calls' = Calls /\ 1 \in 1..Calls
      BY <2>1, <2>2, <2>4 DEF ContextShape, Calls
    <3> QED
      BY <2>1, <2>4, <3>1 DEF ContextShape
  <2> QED
    BY <1>7, <2>3, <2>4 DEF Answer, Emit, locals
<1>8. CASE NextCall
  <2>1. /\ pc = "tools" /\ answered < Calls /\ pc' = "tools" /\ answered' = answered + 1
        /\ UNCHANGED <<context, added, mode>>
    BY <1>8 DEF NextCall, Resumes, Emit
  <2>2. Calls \in Nat /\ answered \in 1..Calls /\ Calls' = Calls
    <3>1. context # <<>>
      BY <2>1 DEF RunShape
    <3> QED
      BY <1>types, <2>1, <3>1, LastTyped DEF LocalType, ContextShape, Calls
  <2>3. answered' \in 1..Calls'
    BY <2>1, <2>2
  <2> QED
    BY <2>1, <2>3 DEF ContextShape
<1>9. CASE CollectResults
  BY <1>9 DEF CollectResults, Resumes, Emit, ContextShape, Calls, locals
<1>10. CASE EndBatch
  <2>1. pc' = "turnEnd" /\ ~added'
    BY <1>10 DEF EndBatch, Resumes, Emit, ContextShape
  <2> QED
    BY <1>quiet, <2>1
<1>poll. ASSUME PollQueues, out = <<>>, pc \in {"turnEnd", "prepare"} PROVE ContextShape'
  BY <1>poll, <1>stop, <1>open, <1>over, PollMoves DEF locals
<1>11. CASE EndTurn
  BY <1>11, <1>stop, <1>poll, StopMoves DEF EndTurn, Resumes
<1>12. CASE PrepareNextTurnReturns
  BY <1>12, <1>poll DEF PrepareNextTurnReturns, RunShape
<1>13. CASE CallPrepareNextTurn
  BY <1>13, <1>quiet DEF CallPrepareNextTurn, Resumes, ContextShape, locals
<1>14. CASE Finish \/ RunEscapes
  BY <1>14, <1>quiet DEF Finish, RunEscapes, _finish_run
<1>15. CASE RunRaises
  BY <1>15, <1>over DEF RunRaises, Emit, locals
<1>16. CASE prompt \/ continue_
  <2>1. Idle /\ UNCHANGED added /\ pc' = "opening"
    BY <1>16 DEF prompt, continue_, _run_with_lifecycle
  <2> QED
    BY <1>quiet, <2>1 DEF RunShape
<1>17. CASE steer \/ followUp \/ clearSteeringQueue \/ clearFollowUpQueue \/ abort \/ reset
  BY <1>17, <1>same DEF steer, followUp, clearSteeringQueue, clearFollowUpQueue, abort, reset, locals
<1>18. CASE UNCHANGED vars
  BY <1>18, <1>same DEF vars, locals
<1> QED
  BY <1>1, <1>2, <1>3, <1>4, <1>5, <1>6, <1>7, <1>8, <1>9, <1>10, <1>11, <1>12, <1>13, <1>14,
     <1>15, <1>16, <1>17, <1>18, <1>19 DEF Next, RunStep, Environment, Caller

-----------------------------------------------------------------------------
(* The order of the user messages.  FifoAndOnce is not inductive: a poll   *)
(* moves messages from a queue behind what is owed, which keeps the order  *)
(* because each queue holds messages of its own kind only.                 *)

Ordered(s) ==
  \A i, j \in DOMAIN s :
    i < j /\ s[i].kind \in UserKinds /\ s[i].kind = s[j].kind => s[i].id < s[j].id

\* No message of t is older than one of s of the same kind.
Before(s, t) ==
  \A i \in DOMAIN s, j \in DOMAIN t :
    s[i].kind \in UserKinds /\ s[i].kind = t[j].kind => s[i].id < t[j].id

Old(s, n) == \A i \in DOMAIN s : s[i].kind \in UserKinds => s[i].id < n

Only(kind, s) == \A i \in DOMAIN s : s[i].kind = kind

NoUsers(s) == \A i \in DOMAIN s : s[i].kind \notin UserKinds

\* The transcript t, the queues q (steering) and f (follow-ups), and the next identity n.
OrderOf(t, q, f, n) ==
  /\ Ordered(t) /\ Ordered(q) /\ Ordered(f)
  /\ Before(t, q) /\ Before(t, f)
  /\ Only("steer", q) /\ Only("followUp", f)
  /\ Old(t, n) /\ Old(q, n) /\ Old(f, n)

OrderInv ==
  \E owed \in Seq(Message) :
    Owes(out, owed) /\ OrderOf(messages \o owed, steering, followUps, nextId)

\* A concatenation, element by element.
LEMMA ConcatForAll ==
  ASSUME NEW s \in Seq(Message), NEW t \in Seq(Message), NEW i \in DOMAIN (s \o t)
  PROVE  \/ i \in DOMAIN s /\ (s \o t)[i] = s[i]
         \/ /\ i > Len(s) /\ i \notin DOMAIN s
            /\ \E k \in DOMAIN t : i = Len(s) + k /\ (s \o t)[i] = t[k]
<1>1. /\ \A k \in DOMAIN s : (s \o t)[k] = s[k]
      /\ \A k \in DOMAIN t : (s \o t)[Len(s) + k] = t[k]
      /\ i \in DOMAIN s \/ (i > Len(s) /\ i - Len(s) \in DOMAIN t)
  BY ConcatParts
<1>2. Len(s) \in Nat /\ DOMAIN s = 1..Len(s) /\ i \in Nat
  OBVIOUS
<1>3. CASE i \in DOMAIN s
  BY <1>1, <1>3
<1>4. CASE i > Len(s) /\ i - Len(s) \in DOMAIN t
  <2>1. i = Len(s) + (i - Len(s))
    BY <1>2
  <2> QED
    BY <1>1, <1>2, <1>4, <2>1
<1> QED
  BY <1>1, <1>3, <1>4

\* Order in a concatenation is order in its parts and between them.
LEMMA OrderedConcat ==
  ASSUME NEW s \in Seq(Message), NEW t \in Seq(Message)
  PROVE  Ordered(s \o t) <=> Ordered(s) /\ Ordered(t) /\ Before(s, t)
<1> DEFINE u == s \o t
           n == Len(s)
<1>1. /\ \A i \in DOMAIN s : i \in DOMAIN u /\ u[i] = s[i]
      /\ \A i \in DOMAIN t : n + i \in DOMAIN u /\ u[n + i] = t[i]
  BY ConcatParts
<1>2. \A i \in DOMAIN u : \/ i \in DOMAIN s /\ u[i] = s[i]
                          \/ /\ i > n /\ i \notin DOMAIN s
                             /\ \E k \in DOMAIN t : i = n + k /\ u[i] = t[k]
  BY ConcatForAll
<1>3. n \in Nat /\ DOMAIN s = 1..n /\ DOMAIN t \subseteq Nat \ {0}
  OBVIOUS
<1> HIDE DEF u, n
<1>4. ASSUME Ordered(u) PROVE Ordered(s) /\ Ordered(t) /\ Before(s, t)
  <2>1. Ordered(s)
    BY <1>1, <1>4 DEF Ordered
  <2>2. Ordered(t)
    <3> SUFFICES ASSUME NEW i \in DOMAIN t, NEW j \in DOMAIN t, i < j,
                        t[i].kind \in UserKinds, t[i].kind = t[j].kind
                 PROVE  t[i].id < t[j].id
      BY DEF Ordered
    <3>1. n + i < n + j
      BY <1>3
    <3> QED
      BY <1>1, <1>4, <3>1 DEF Ordered
  <2>3. Before(s, t)
    <3> SUFFICES ASSUME NEW i \in DOMAIN s, NEW j \in DOMAIN t,
                        s[i].kind \in UserKinds, s[i].kind = t[j].kind
                 PROVE  s[i].id < t[j].id
      BY DEF Before
    <3>1. i < n + j
      BY <1>3
    <3> QED
      BY <1>1, <1>4, <3>1 DEF Ordered
  <2> QED
    BY <2>1, <2>2, <2>3
<1>5. ASSUME Ordered(s), Ordered(t), Before(s, t) PROVE Ordered(u)
  <2> SUFFICES ASSUME NEW i \in DOMAIN u, NEW j \in DOMAIN u, i < j,
                      u[i].kind \in UserKinds, u[i].kind = u[j].kind
               PROVE  u[i].id < u[j].id
    BY DEF Ordered
  <2>1. CASE j \in DOMAIN s
    <3>1. i \in DOMAIN s
      BY <1>2, <1>3, <2>1
    <3> QED
      BY <1>1, <1>5, <2>1, <3>1 DEF Ordered
  <2>2. CASE i \in DOMAIN s /\ j \notin DOMAIN s
    BY <1>1, <1>2, <1>5, <2>2 DEF Before
  <2>3. CASE i \notin DOMAIN s /\ j \notin DOMAIN s
    <3>1. PICK k \in DOMAIN t : i = n + k /\ u[i] = t[k]
      BY <1>2, <2>3
    <3>2. PICK l \in DOMAIN t : j = n + l /\ u[j] = t[l]
      BY <1>2, <2>3
    <3>3. k < l
      BY <1>3, <3>1, <3>2
    <3> QED
      BY <1>5, <3>1, <3>2, <3>3 DEF Ordered
  <2> QED
    BY <2>1, <2>2, <2>3
<1> QED
  BY <1>4, <1>5 DEF u

\* The other relations look at the parts one by one.
LEMMA BeforeConcat ==
  ASSUME NEW s \in Seq(Message), NEW t \in Seq(Message), NEW v \in Seq(Message), NEW n, NEW kind
  PROVE  /\ Before(s \o t, v) <=> Before(s, v) /\ Before(t, v)
         /\ Before(v, s \o t) <=> Before(v, s) /\ Before(v, t)
         /\ Old(s \o t, n) <=> Old(s, n) /\ Old(t, n)
         /\ Only(kind, s \o t) <=> Only(kind, s) /\ Only(kind, t)
<1> DEFINE u == s \o t
<1>1. /\ \A i \in DOMAIN s : i \in DOMAIN u /\ u[i] = s[i]
      /\ \A i \in DOMAIN t : \E k \in DOMAIN u : u[k] = t[i]
  <2>1. /\ \A i \in DOMAIN s : i \in DOMAIN u /\ u[i] = s[i]
        /\ \A i \in DOMAIN t : Len(s) + i \in DOMAIN u /\ u[Len(s) + i] = t[i]
    BY ConcatParts
  <2> QED
    BY <2>1
<1>2. \A i \in DOMAIN u : \/ \E k \in DOMAIN s : u[i] = s[k]
                          \/ \E k \in DOMAIN t : u[i] = t[k]
  BY ConcatForAll
<1> HIDE DEF u
<1>3. Before(u, v) <=> Before(s, v) /\ Before(t, v)
  <2>1. ASSUME Before(u, v) PROVE Before(s, v) /\ Before(t, v)
    BY <1>1, <2>1 DEF Before
  <2>2. ASSUME Before(s, v), Before(t, v) PROVE Before(u, v)
    BY <1>2, <2>2 DEF Before
  <2> QED
    BY <2>1, <2>2
<1>4. Before(v, u) <=> Before(v, s) /\ Before(v, t)
  <2>1. ASSUME Before(v, u) PROVE Before(v, s) /\ Before(v, t)
    BY <1>1, <2>1 DEF Before
  <2>2. ASSUME Before(v, s), Before(v, t) PROVE Before(v, u)
    BY <1>2, <2>2 DEF Before
  <2> QED
    BY <2>1, <2>2
<1>5. Old(u, n) <=> Old(s, n) /\ Old(t, n)
  <2>1. ASSUME Old(u, n) PROVE Old(s, n) /\ Old(t, n)
    BY <1>1, <2>1 DEF Old
  <2>2. ASSUME Old(s, n), Old(t, n) PROVE Old(u, n)
    BY <1>2, <2>2 DEF Old
  <2> QED
    BY <2>1, <2>2
<1>6. Only(kind, u) <=> Only(kind, s) /\ Only(kind, t)
  <2>1. ASSUME Only(kind, u) PROVE Only(kind, s) /\ Only(kind, t)
    BY <1>1, <2>1 DEF Only
  <2>2. ASSUME Only(kind, s), Only(kind, t) PROVE Only(kind, u)
    BY <1>2, <2>2 DEF Only
  <2> QED
    BY <2>1, <2>2
<1> QED
  BY <1>3, <1>4, <1>5, <1>6 DEF u

\* Messages of the run itself, and no messages, are in any order.
LEMMA NoUsersOrder ==
  ASSUME NEW s, NoUsers(s), NEW t, NEW n
  PROVE  Ordered(s) /\ Before(s, t) /\ Before(t, s) /\ Old(s, n)
<1>1. \A i \in DOMAIN s : s[i].kind \notin UserKinds
  BY DEF NoUsers
<1>2. Ordered(s) /\ Before(s, t) /\ Old(s, n)
  BY <1>1 DEF Ordered, Before, Old
<1>3. Before(t, s)
  BY <1>1 DEF Before
<1> QED
  BY <1>2, <1>3

\* The queues hold messages of different kinds.
LEMMA KindsApart ==
  ASSUME NEW s, NEW t, NEW k1, NEW k2, k1 # k2, Only(k1, s), Only(k2, t)
  PROVE  Before(s, t)
  BY DEF Only, Before

\* A part of what is ordered is ordered: what is owed may be dropped, or the transcript.
LEMMA OrderPart ==
  ASSUME NEW s \in Seq(Message), NEW t \in Seq(Message), NEW q \in Seq(Message), NEW f \in Seq(Message),
         NEW n, OrderOf(s \o t, q, f, n)
  PROVE  OrderOf(s, q, f, n) /\ OrderOf(t, q, f, n)
<1>1. Ordered(s) /\ Ordered(t)
  BY OrderedConcat DEF OrderOf
<1>2. Before(s, q) /\ Before(t, q) /\ Before(s, f) /\ Before(t, f)
  BY BeforeConcat DEF OrderOf
<1>3. Old(s, n) /\ Old(t, n)
  BY BeforeConcat DEF OrderOf
<1> QED
  BY <1>1, <1>2, <1>3 DEF OrderOf

\* The run adds messages of its own.
LEMMA OrderOwn ==
  ASSUME NEW t \in Seq(Message), NEW q \in Seq(Message), NEW f \in Seq(Message), NEW n,
         OrderOf(t, q, f, n), NEW ms \in Seq(Message), NoUsers(ms)
  PROVE  OrderOf(t \o ms, q, f, n)
<1>1. Ordered(ms) /\ Before(t, ms) /\ Before(ms, q) /\ Before(ms, f) /\ Old(ms, n)
  BY NoUsersOrder
<1>2. Ordered(t \o ms)
  BY <1>1, OrderedConcat DEF OrderOf
<1>3. Before(t \o ms, q) /\ Before(t \o ms, f) /\ Old(t \o ms, n)
  BY <1>1, BeforeConcat DEF OrderOf
<1> QED
  BY <1>2, <1>3 DEF OrderOf

\* A queue may lose its first messages.
LEMMA OrderDrop ==
  ASSUME NEW t \in Seq(Message), NEW q \in Seq(Message), NEW f \in Seq(Message), NEW n,
         OrderOf(t, q, f, n), NEW m
  PROVE  OrderOf(t, Remaining(q, m), f, n) /\ OrderOf(t, q, Remaining(f, m), n)
<1>1. ASSUME NEW p \in Seq(Message), NEW d \in Seq(Message), NEW r \in Seq(Message), p = d \o r
      PROVE  /\ Ordered(p) => Ordered(r)
             /\ Before(t, p) => Before(t, r)
             /\ Old(p, n) => Old(r, n)
             /\ \A kind : Only(kind, p) => Only(kind, r)
  <2>1. Ordered(p) => Ordered(r)
    BY <1>1, OrderedConcat
  <2>2. \A kind : Only(kind, p) => Only(kind, r)
    BY <1>1, BeforeConcat
  <2>3. (Before(t, p) => Before(t, r)) /\ (Old(p, n) => Old(r, n))
    BY <1>1, BeforeConcat
  <2> QED
    BY <2>1, <2>2, <2>3
<1>2. /\ Drained(q, m) \in Seq(Message) /\ Remaining(q, m) \in Seq(Message)
      /\ Drained(f, m) \in Seq(Message) /\ Remaining(f, m) \in Seq(Message)
      /\ q = Drained(q, m) \o Remaining(q, m) /\ f = Drained(f, m) \o Remaining(f, m)
  BY DrainTyped, DrainSplits
<1> QED
  BY <1>1, <1>2 DEF OrderOf

\* Or all of them.
LEMMA OrderClear ==
  ASSUME NEW t \in Seq(Message), NEW q \in Seq(Message), NEW f \in Seq(Message), NEW n,
         OrderOf(t, q, f, n)
  PROVE  OrderOf(t, <<>>, f, n) /\ OrderOf(t, q, <<>>, n)
<1>1. Remaining(q, "all") = <<>> /\ Remaining(f, "all") = <<>>
  BY DEF Remaining
<1>2. OrderOf(t, Remaining(q, "all"), f, n) /\ OrderOf(t, q, Remaining(f, "all"), n)
  BY OrderDrop
<1> QED
  BY <1>1, <1>2

\* A poll moves the first messages of a queue behind what is owed.
LEMMA OrderTake ==
  ASSUME NEW t \in Seq(Message), NEW q \in Seq(Message), NEW f \in Seq(Message), NEW n,
         OrderOf(t, q, f, n), NEW m
  PROVE  /\ OrderOf(t \o Drained(q, m), Remaining(q, m), f, n)
         /\ OrderOf(t \o Drained(f, m), q, Remaining(f, m), n)
<1>1. /\ Drained(q, m) \in Seq(Message) /\ Remaining(q, m) \in Seq(Message)
      /\ Drained(f, m) \in Seq(Message) /\ Remaining(f, m) \in Seq(Message)
      /\ q = Drained(q, m) \o Remaining(q, m) /\ f = Drained(f, m) \o Remaining(f, m)
  BY DrainTyped, DrainSplits
<1>2. ASSUME NEW p \in Seq(Message), NEW d \in Seq(Message), NEW r \in Seq(Message), p = d \o r,
             Ordered(p), Before(t, p), Old(p, n)
      PROVE  /\ Ordered(d) /\ Ordered(r) /\ Before(d, r) /\ Before(t, r)
             /\ Ordered(t \o d) /\ Before(t \o d, r) /\ Old(t \o d, n) /\ Old(r, n)
  <2>1. Ordered(d) /\ Ordered(r) /\ Before(d, r)
    BY <1>2, OrderedConcat
  <2>2. Before(t, d) /\ Before(t, r)
    BY <1>2, BeforeConcat
  <2>3. Old(d, n) /\ Old(r, n)
    BY <1>2, BeforeConcat
  <2>4. Ordered(t \o d)
    BY <2>1, <2>2, OrderedConcat DEF OrderOf
  <2>5. Before(t \o d, r)
    BY <2>1, <2>2, BeforeConcat
  <2>6. Old(t \o d, n)
    BY <2>3, BeforeConcat DEF OrderOf
  <2> QED
    BY <2>1, <2>2, <2>3, <2>4, <2>5, <2>6
<1>3. ASSUME NEW kind, NEW p \in Seq(Message), NEW d \in Seq(Message), NEW r \in Seq(Message),
             p = d \o r, Only(kind, p)
      PROVE  Only(kind, d) /\ Only(kind, r)
  BY <1>3, BeforeConcat
<1>4. OrderOf(t \o Drained(q, m), Remaining(q, m), f, n)
  <2>1. PICK d, r : d = Drained(q, m) /\ r = Remaining(q, m)
    OBVIOUS
  <2>2. d \in Seq(Message) /\ r \in Seq(Message) /\ q = d \o r
    BY <1>1, <2>1
  <2>3. Only("steer", d) /\ Only("steer", r)
    BY <1>3, <2>2 DEF OrderOf
  <2>4. Before(d, f)
    <3>1. Only("followUp", f) /\ "steer" # "followUp"
      BY DEF OrderOf
    <3> QED
      BY <2>3, <3>1, KindsApart
  <2>5. Before(t \o d, f)
    BY <2>2, <2>4, BeforeConcat DEF OrderOf
  <2>6. Ordered(r) /\ Ordered(t \o d) /\ Before(t \o d, r) /\ Old(t \o d, n) /\ Old(r, n)
    BY <1>2, <2>2 DEF OrderOf
  <2>7. OrderOf(t \o d, r, f, n)
    BY <2>3, <2>5, <2>6 DEF OrderOf
  <2> QED
    BY <2>1, <2>7
<1>5. OrderOf(t \o Drained(f, m), q, Remaining(f, m), n)
  <2>1. PICK d, r : d = Drained(f, m) /\ r = Remaining(f, m)
    OBVIOUS
  <2>2. d \in Seq(Message) /\ r \in Seq(Message) /\ f = d \o r
    BY <1>1, <2>1
  <2>3. Only("followUp", d) /\ Only("followUp", r)
    BY <1>3, <2>2 DEF OrderOf
  <2>4. Before(d, q)
    <3>1. Only("steer", q) /\ "steer" # "followUp"
      BY DEF OrderOf
    <3> QED
      BY <2>3, <3>1, KindsApart
  <2>5. Before(t \o d, q)
    BY <2>2, <2>4, BeforeConcat DEF OrderOf
  <2>6. Ordered(r) /\ Ordered(t \o d) /\ Before(t \o d, r) /\ Old(t \o d, n) /\ Old(r, n)
    BY <1>2, <2>2 DEF OrderOf
  <2>7. OrderOf(t \o d, q, r, n)
    BY <2>3, <2>5, <2>6 DEF OrderOf
  <2> QED
    BY <2>1, <2>7
<1> QED
  BY <1>4, <1>5

\* Old messages stay old.
LEMMA OldGrows ==
  ASSUME NEW s \in Seq(Message), NEW n \in Nat, NEW k \in Nat, Old(s, n)
  PROVE  Old(s, n + k)
<1> SUFFICES ASSUME NEW i \in DOMAIN s, s[i].kind \in UserKinds PROVE s[i].id < n + k
  BY DEF Old
<1>1. s[i] \in Message
  OBVIOUS
<1>2. s[i].id \in Nat /\ s[i].id < n
  BY <1>1 DEF Message, Old
<1> QED
  BY <1>2

\* A new message is behind every old one.
LEMMA OrderHandOver ==
  ASSUME NEW t \in Seq(Message), NEW q \in Seq(Message), NEW f \in Seq(Message), NEW n \in Nat,
         OrderOf(t, q, f, n)
  PROVE  /\ OrderOf(t, Append(q, User("steer", n)), f, n + 1)
         /\ OrderOf(t, q, Append(f, User("followUp", n)), n + 1)
<1>1. Old(t, n + 1) /\ Old(q, n + 1) /\ Old(f, n + 1)
  BY OldGrows DEF OrderOf
<1>2. ASSUME NEW kind \in UserKinds, NEW p \in Seq(Message),
             Ordered(p), Before(t, p), Only(kind, p), Old(p, n)
      PROVE  LET p2 == Append(p, User(kind, n))
             IN  p2 \in Seq(Message) /\ Ordered(p2) /\ Before(t, p2) /\ Only(kind, p2) /\ Old(p2, n + 1)
  <2>1. PICK u, us : u = User(kind, n) /\ us = <<u>>
    OBVIOUS
  <2>2. u \in Message /\ u.kind = kind /\ u.id = n
    BY <2>1, MessagesTyped DEF User, Kinds
  <2>3. us \in Seq(Message) /\ DOMAIN us = {1} /\ us[1] = u
    BY <2>1, <2>2
  <2>4. Append(p, u) = p \o us /\ Append(p, u) \in Seq(Message)
    BY <2>1, <2>2
  <2>5. Ordered(us) /\ Only(kind, us) /\ Old(us, n + 1)
    BY <2>2, <2>3 DEF Ordered, Only, Old
  <2>6. Before(p, us) /\ Before(t, us)
    BY <1>2, <2>2, <2>3 DEF Before, Old, OrderOf
  <2>7. Old(p, n + 1)
    BY <1>2, OldGrows
  <2>8. Ordered(p \o us)
    BY <1>2, <2>3, <2>5, <2>6, OrderedConcat
  <2>9. Before(t, p \o us) /\ Only(kind, p \o us) /\ Old(p \o us, n + 1)
    BY <1>2, <2>3, <2>5, <2>6, <2>7, BeforeConcat
  <2> QED
    BY <2>1, <2>4, <2>8, <2>9
<1>3. OrderOf(t, Append(q, User("steer", n)), f, n + 1)
  <2>1. "steer" \in UserKinds
    BY DEF UserKinds
  <2> QED
    BY <1>1, <1>2, <2>1 DEF OrderOf
<1>4. OrderOf(t, q, Append(f, User("followUp", n)), n + 1)
  <2>1. "followUp" \in UserKinds
    BY DEF UserKinds
  <2> QED
    BY <1>1, <1>2, <2>1 DEF OrderOf
<1> QED
  BY <1>3, <1>4

\* So are the messages of a prompt, in their own order.
LEMMA OrderPrompt ==
  ASSUME NEW t \in Seq(Message), NEW q \in Seq(Message), NEW f \in Seq(Message), NEW n \in Nat,
         OrderOf(t, q, f, n), NEW k \in Nat, NEW ps, DOMAIN ps = 1..k, ps \in Seq(Message),
         \A i \in 1..k : ps[i] = User("prompt", n + i - 1)
  PROVE  OrderOf(t \o ps, q, f, n + k)
<1>1. ASSUME NEW i \in 1..k
      PROVE  ps[i] \in Message /\ ps[i].kind = "prompt" /\ ps[i].id = n + i - 1
  <2>1. n + i - 1 \in Nat
    OBVIOUS
  <2> QED
    BY <2>1, MessagesTyped DEF User, Kinds, UserKinds
<1>3. Ordered(ps) /\ Old(ps, n + k)
  BY <1>1 DEF Ordered, Old
<1>4. Only("prompt", ps)
  BY <1>1 DEF Only
<1>5. Before(ps, q) /\ Before(ps, f)
  <2>1. "prompt" # "steer" /\ "prompt" # "followUp" /\ Only("steer", q) /\ Only("followUp", f)
    BY DEF OrderOf
  <2> QED
    BY <1>4, <2>1, KindsApart
<1>6. Before(t, ps)
  <2> SUFFICES ASSUME NEW i \in DOMAIN t, NEW j \in DOMAIN ps, t[i].kind \in UserKinds
               PROVE  t[i].id < ps[j].id
    BY DEF Before
  <2>1. t[i] \in Message
    OBVIOUS
  <2>2. t[i].id \in Nat /\ t[i].id < n
    BY <2>1 DEF OrderOf, Old, Message
  <2> QED
    BY <1>1, <2>2
<1>7. Old(t, n + k) /\ Old(q, n + k) /\ Old(f, n + k)
  BY OldGrows DEF OrderOf
<1>8. Ordered(t \o ps)
  BY <1>3, <1>6, OrderedConcat DEF OrderOf
<1>9. Before(t \o ps, q) /\ Before(t \o ps, f) /\ Old(t \o ps, n + k)
  BY <1>3, <1>5, <1>7, BeforeConcat DEF OrderOf
<1> QED
  BY <1>7, <1>8, <1>9 DEF OrderOf

\* A step that adds to what is owed keeps the order if the longer transcript has it.
LEMMA GrowsOrder ==
  ASSUME messages \in Seq(Message), NEW ms \in Seq(Message), Grows(ms),
         NEW owed \in Seq(Message), Owes(out, owed),
         OrderOf((messages \o owed) \o ms, steering', followUps', nextId')
  PROVE  OrderInv'
<1>1. PICK owed2 \in Seq(Message) : /\ Owes(out', owed2)
                                    /\ messages' \o owed2 = (messages \o owed) \o ms
  BY DEF Grows
<1> QED
  BY <1>1 DEF OrderInv

\* A new agent has no messages to order.
LEMMA InitOrder == Init => OrderInv
<1> SUFFICES ASSUME Init PROVE OrderInv
  OBVIOUS
<1>1. NoUsers(<<>>) /\ \A kind : Only(kind, <<>>)
  BY DEF NoUsers, Only
<1>2. <<>> \in Seq(Message) /\ <<>> \o <<>> = <<>>
  OBVIOUS
<1>3. OrderOf(<<>>, <<>>, <<>>, 1)
  BY <1>1, NoUsersOrder DEF OrderOf
<1>4. Owes(out, <<>>) /\ OrderOf(messages \o <<>>, steering, followUps, nextId)
  BY <1>2, <1>3, OwesNothing DEF Init
<1> QED
  BY <1>2, <1>4 DEF OrderInv

\* Every step keeps the order.
LEMMA NextOrder ==
  TypeOK /\ RunShape /\ ContextShape /\ OrderInv /\ [Next]_vars => OrderInv'
<1> SUFFICES ASSUME TypeOK, RunShape, ContextShape, OrderInv, [Next]_vars
             PROVE  OrderInv'
  OBVIOUS
<1>types. /\ messages \in Seq(Message) /\ out \in Seq(Event) /\ steering \in Seq(Message)
          /\ followUps \in Seq(Message) /\ nextId \in Nat /\ context \in Seq(Message) /\ answered \in Nat
  BY DEF TypeOK, AgentStateType, RunType, QueueType, HistoryType, LocalType
<1>owed. PICK owed \in Seq(Message) :
           Owes(out, owed) /\ OrderOf(messages \o owed, steering, followUps, nextId)
  BY DEF OrderInv
<1>t. PICK t \in Seq(Message) : t = messages \o owed
  BY <1>types, <1>owed, ConcatLaws
<1>order. OrderOf(t, steering, followUps, nextId)
  BY <1>owed, <1>t
<1>own. ASSUME NEW ms \in Seq(Message), NoUsers(ms), Grows(ms),
               UNCHANGED nextId,
               \/ UNCHANGED <<steering, followUps>>
               \/ \E m : steering' = Remaining(steering, m) /\ UNCHANGED followUps
        PROVE  OrderInv'
  <2>1. OrderOf(t, steering', followUps', nextId')
    BY <1>own, <1>types, <1>order, OrderDrop
  <2>2. steering' \in Seq(Message) /\ followUps' \in Seq(Message)
    BY <1>own, <1>types, DrainTyped
  <2>3. OrderOf(t \o ms, steering', followUps', nextId')
    BY <1>own, <2>1, <2>2, OrderOwn
  <2> QED
    BY <1>own, <1>types, <1>owed, <1>t, <2>3, GrowsOrder
<1>quiet. ASSUME Grows(<<>>), UNCHANGED <<nextId, steering, followUps>> PROVE OrderInv'
  <2>1. <<>> \in Seq(Message) /\ NoUsers(<<>>)
    BY DEF NoUsers
  <2> QED
    BY <1>own, <1>quiet, <2>1
<1>same. ASSUME UNCHANGED <<messages, out, nextId, steering, followUps>> PROVE OrderInv'
  BY <1>same, <1>quiet, <1>types, QuietGrows
<1>one. ASSUME NEW x \in Message, x.kind \notin UserKinds PROVE <<x>> \in Seq(Message) /\ NoUsers(<<x>>)
  <2>1. DOMAIN <<x>> = {1} /\ <<x>>[1] = x /\ <<x>> \in Seq(Message)
    OBVIOUS
  <2> QED
    BY <1>one, <2>1 DEF NoUsers
<1>stop. ASSUME Stops, UNCHANGED <<nextId, followUps>>,
                \/ UNCHANGED steering
                \/ \E m : steering' = Remaining(steering, m)
         PROVE  OrderInv'
  <2>1. Aborted \in Message /\ Aborted.kind \notin UserKinds
    BY MessagesTyped DEF Aborted, Assistant, Kinds, UserKinds
  <2> QED
    BY <1>own, <1>one, <1>stop, <2>1 DEF Stops
<1>take. ASSUME NEW m, UNCHANGED nextId,
                \/ /\ Grows(Drained(steering, m))
                   /\ steering' = Remaining(steering, m) /\ UNCHANGED followUps
                \/ /\ Grows(Drained(followUps, m))
                   /\ followUps' = Remaining(followUps, m) /\ UNCHANGED steering
         PROVE  OrderInv'
  <2>1. /\ OrderOf(t \o Drained(steering, m), Remaining(steering, m), followUps, nextId)
        /\ OrderOf(t \o Drained(followUps, m), steering, Remaining(followUps, m), nextId)
    BY <1>types, <1>order, OrderTake
  <2>2. Drained(steering, m) \in Seq(Message) /\ Drained(followUps, m) \in Seq(Message)
    BY <1>types, DrainTyped
  <2> QED
    BY <1>take, <1>types, <1>owed, <1>t, <2>1, <2>2, GrowsOrder
<1>results. ASSUME NEW k \in Nat PROVE Results(k) \in Seq(Message) /\ NoUsers(Results(k))
  BY ResultsTyped DEF NoUsers, Results, ToolResult, UserKinds
<1>call. ASSUME NEW i \in Nat, NEW m PROVE CallResult(i, m) \in Seq(Message) /\ NoUsers(CallResult(i, m))
  <2>1. ToolResult(i) \in Message /\ ToolResult(i).kind \notin UserKinds
    BY MessagesTyped DEF ToolResult, UserKinds
  <2>2. <<>> \in Seq(Message) /\ NoUsers(<<>>)
    BY DEF NoUsers
  <2> QED
    BY <1>one, <2>1, <2>2 DEF CallResult
<1>1. CASE EmitNext
  BY <1>1, <1>quiet, <1>types, NextEventGrows DEF EmitNext, queues, history
<1>2. CASE BeginLoop
  <2>1. UNCHANGED <<nextId, followUps>>
    BY <1>2 DEF BeginLoop
  <2>2. PICK m \in QueueModes :
           \/ Stops /\ steering' \in {steering, Remaining(steering, m)}
           \/ Opens(Drained(steering, m)) /\ steering' = Remaining(steering, m)
           \/ Asks /\ steering' = steering
    BY <1>2, BeginMoves
  <2> QED
    BY <1>stop, <1>take, <1>quiet, <2>1, <2>2 DEF Opens, Asks
<1>3. CASE StartRequest
  <2>1. UNCHANGED <<nextId, steering, followUps>> /\ (Stops \/ Asks)
    BY <1>3, StopMoves, AskMoves DEF StartRequest, Resumes, queues
  <2> QED
    BY <1>stop, <1>quiet, <2>1 DEF Asks
<1>4. CASE StreamStart
  BY <1>4, <1>same DEF StreamStart, _process_events, About, queues, history
<1>5. CASE StreamUpdate \/ SendRequest
  BY <1>5, <1>same DEF StreamUpdate, SendRequest, agentState, queues, history
<1>6. CASE StreamDone
  <2>1. PICK x \in Message : x.kind \in {"assistant", "error"} /\ Grows(<<x>>)
    BY <1>6, DoneMoves
  <2>2. x.kind \notin UserKinds
    BY <2>1 DEF UserKinds
  <2>3. UNCHANGED <<nextId, steering, followUps>>
    BY <1>6 DEF StreamDone, queues
  <2> QED
    BY <1>own, <1>one, <2>1, <2>2, <2>3
<1>last. ASSUME pc \in {"answer", "tools", "results"}
         PROVE  Last(context) \in Message /\ Last(context).kind \notin UserKinds
  <2>1. context # <<>> /\ Last(context).kind \in {"assistant", "error"}
    BY <1>last DEF RunShape, ContextShape
  <2> QED
    BY <1>types, <2>1, LastTyped DEF UserKinds
<1>7. CASE Answer
  <2>1. pc = "answer" /\ out = <<>> /\ UNCHANGED <<nextId, steering, followUps>>
    BY <1>7 DEF Answer, Resumes, queues, history
  <2>2. \/ Emit(<<About("turn_end", Last(context)), Bare("agent_end")>>, "ending")
        \/ Emit(<<About("turn_end", Last(context))>>, "turnEnd")
        \/ \E m \in {"sequential", "parallel"} : Emit(CallEvents(1, m), "tools")
    BY <1>7 DEF Answer
  <2>3. CASE \E m \in {"sequential", "parallel"} : Emit(CallEvents(1, m), "tools")
    <3>1. PICK m : Emit(CallEvents(1, m), "tools")
      BY <2>3
    <3>2. Grows(CallResult(1, m))
      BY <2>1, <3>1, CallMoves
    <3> QED
      BY <1>own, <1>call, <2>1, <3>2
  <2>4. CASE \/ Emit(<<About("turn_end", Last(context)), Bare("agent_end")>>, "ending")
             \/ Emit(<<About("turn_end", Last(context))>>, "turnEnd")
    BY <1>last, <1>quiet, <2>1, <2>4, TurnEndMoves
  <2> QED
    BY <2>2, <2>3, <2>4
<1>8. CASE NextCall
  <2>1. out = <<>> /\ UNCHANGED <<nextId, steering, followUps>> /\ answered + 1 \in Nat
        /\ Emit(CallEvents(answered + 1, mode), "tools")
    BY <1>8, <1>types DEF NextCall, Resumes, queues, history
  <2>2. Grows(CallResult(answered + 1, mode))
    BY <2>1, CallMoves
  <2> QED
    BY <1>own, <1>call, <2>1, <2>2
<1>9. CASE CollectResults
  <2>1. UNCHANGED <<nextId, steering, followUps>>
    BY <1>9 DEF CollectResults, queues, history
  <2>2. Grows(Results(answered))
    BY <1>9, CollectMoves
  <2> QED
    BY <1>own, <1>results, <1>types, <2>1, <2>2
<1>10. CASE EndBatch
  <2>1. /\ pc \in {"tools", "results"} /\ out = <<>> /\ UNCHANGED <<nextId, steering, followUps>>
        /\ Emit(<<About("turn_end", Last(context))>>, "turnEnd")
    BY <1>10 DEF EndBatch, Resumes, queues, history
  <2> QED
    BY <1>last, <1>quiet, <2>1, TurnEndMoves
<1>poll. ASSUME PollQueues, out = <<>>, UNCHANGED nextId PROVE OrderInv'
  <2>1. PICK m \in QueueModes :
           \/ Stops /\ steering' = Remaining(steering, m) /\ followUps' = followUps
           \/ /\ Opens(Drained(steering, m))
              /\ steering' = Remaining(steering, m) /\ followUps' = followUps
           \/ /\ Opens(Drained(followUps, m))
              /\ followUps' = Remaining(followUps, m) /\ steering' = steering
           \/ Grows(<<>>) /\ UNCHANGED queues
    BY <1>poll, PollMoves
  <2> QED
    BY <1>poll, <1>stop, <1>take, <1>quiet, <2>1 DEF Opens, queues
<1>11. CASE EndTurn
  BY <1>11, <1>stop, <1>poll, StopMoves DEF EndTurn, Resumes, queues
<1>12. CASE PrepareNextTurnReturns
  BY <1>12, <1>poll DEF PrepareNextTurnReturns, RunShape
<1>13. CASE CallPrepareNextTurn
  BY <1>13, <1>same DEF CallPrepareNextTurn, agentState, queues, history
<1>gone. ASSUME out' = <<>>, UNCHANGED <<messages, nextId, steering, followUps>> PROVE OrderInv'
  <2>1. OrderOf(messages, steering, followUps, nextId)
    BY <1>owed, <1>types, OrderPart
  <2>2. Owes(out', <<>>) /\ <<>> \in Seq(Message) /\ messages \o <<>> = messages
    BY <1>gone, <1>types, OwesNothing, ConcatLaws
  <2> QED
    BY <1>gone, <2>1, <2>2 DEF OrderInv
<1>14. CASE Finish \/ RunEscapes
  BY <1>14, <1>gone DEF Finish, RunEscapes, _finish_run, queues, history
<1>15. CASE RunRaises
  <2>1. PICK o2 \in Seq(Message) : Owes(out', o2) /\ messages' \o o2 = messages \o <<Failure>>
    BY <1>15, RaiseMoves
  <2>2. OrderOf(messages, steering, followUps, nextId)
    BY <1>owed, <1>types, OrderPart
  <2>3. Failure \in Message /\ Failure.kind \notin UserKinds
    BY MessagesTyped DEF Failure, Assistant, Kinds, UserKinds
  <2>4. <<Failure>> \in Seq(Message) /\ NoUsers(<<Failure>>)
    BY <1>one, <2>3
  <2>5. OrderOf(messages \o <<Failure>>, steering, followUps, nextId)
    BY <1>types, <2>2, <2>4, OrderOwn
  <2>6. UNCHANGED <<nextId, steering, followUps>>
    BY <1>15 DEF RunRaises, queues
  <2> QED
    BY <2>1, <2>5, <2>6 DEF OrderInv
<1>start. ASSUME NEW ps \in Seq(Message), NEW b, _run_with_lifecycle(ps, b),
                 OrderOf(messages \o ps, steering', followUps', nextId')
          PROVE  OrderInv'
  BY <1>start, StartOwes DEF OrderInv, _run_with_lifecycle
<1>idle. ASSUME Idle PROVE OrderOf(messages, steering, followUps, nextId)
  BY <1>owed, <1>types, OrderPart
<1>16. CASE prompt
  <2>1. PICK k \in 1..MaxBatch :
          /\ nextId' = nextId + k
          /\ _run_with_lifecycle([i \in 1..k |-> User("prompt", nextId + i - 1)], FALSE)
    BY <1>16 DEF prompt
  <2>2. UNCHANGED <<steering, followUps>> /\ Idle /\ k \in Nat
    BY <1>16 DEF prompt, queues
  <2>3. PICK ps : ps = [i \in 1..k |-> User("prompt", nextId + i - 1)]
    OBVIOUS
  <2>4. DOMAIN ps = 1..k /\ \A i \in 1..k : ps[i] = User("prompt", nextId + i - 1)
    BY <2>3
  <2>5. ps \in Seq(Message)
    <3>1. ASSUME NEW i \in 1..k PROVE nextId + i - 1 \in Nat
      BY <1>types, <2>2
    <3>2. ps \in [1..k -> Message]
      BY <2>3, <3>1, MessagesTyped DEF Kinds, UserKinds
    <3> QED
      BY <2>2, <3>2
  <2>6. OrderOf(messages \o ps, steering, followUps, nextId + k)
    BY <1>idle, <1>types, <2>2, <2>4, <2>5, OrderPrompt
  <2> QED
    BY <1>start, <2>1, <2>2, <2>3, <2>5, <2>6
<1>17. CASE continue_
  <2>1. Idle /\ UNCHANGED nextId
    BY <1>17 DEF continue_, history
  <2>2. ASSUME NEW m, _run_with_lifecycle(Drained(steering, m), TRUE),
               steering' = Remaining(steering, m), UNCHANGED followUps
        PROVE  OrderInv'
    <3>1. OrderOf(messages \o Drained(steering, m), Remaining(steering, m), followUps, nextId)
      BY <1>idle, <1>types, <2>1, OrderTake
    <3> QED
      BY <1>start, <1>types, <2>1, <2>2, <3>1, DrainTyped
  <2>3. ASSUME NEW m, _run_with_lifecycle(Drained(followUps, m), FALSE),
               followUps' = Remaining(followUps, m), UNCHANGED steering
        PROVE  OrderInv'
    <3>1. OrderOf(messages \o Drained(followUps, m), steering, Remaining(followUps, m), nextId)
      BY <1>idle, <1>types, <2>1, OrderTake
    <3> QED
      BY <1>start, <1>types, <2>1, <2>3, <3>1, DrainTyped
  <2>4. ASSUME _run_with_lifecycle(<<>>, FALSE), UNCHANGED queues PROVE OrderInv'
    <3>1. <<>> \in Seq(Message) /\ messages \o <<>> = messages
      BY <1>types, ConcatLaws
    <3> QED
      BY <1>start, <1>idle, <2>1, <2>4, <3>1 DEF queues
  <2> QED
    BY <1>17, <2>2, <2>3, <2>4 DEF continue_
<1>deeper. ASSUME UNCHANGED <<messages, out>>, OrderOf(t, steering', followUps', nextId') PROVE OrderInv'
  BY <1>deeper, <1>owed, <1>t DEF OrderInv
<1>18. CASE steer
  BY <1>18, <1>deeper, <1>types, <1>order, OrderHandOver DEF steer, agentState
<1>19. CASE followUp
  BY <1>19, <1>deeper, <1>types, <1>order, OrderHandOver DEF followUp, agentState
<1>20. CASE clearSteeringQueue
  BY <1>20, <1>deeper, <1>types, <1>order, OrderClear DEF clearSteeringQueue, agentState
<1>21. CASE clearFollowUpQueue
  BY <1>21, <1>deeper, <1>types, <1>order, OrderClear DEF clearFollowUpQueue, agentState
<1>22. CASE abort
  BY <1>22, <1>same DEF abort, agentState, queues, history
<1>23. CASE reset
  <2>1. messages' = <<>> /\ out' = out /\ steering' = <<>> /\ followUps' = <<>> /\ nextId' = nextId
    BY <1>23 DEF reset
  <2>2. OrderOf(owed, steering, followUps, nextId)
    BY <1>owed, <1>types, OrderPart
  <2>3. OrderOf(owed, <<>>, followUps, nextId) /\ <<>> \in Seq(Message)
    BY <1>types, <2>2, OrderClear
  <2>4. OrderOf(owed, <<>>, <<>>, nextId)
    BY <1>types, <2>3, OrderClear
  <2>5. <<>> \o owed = owed
    BY ConcatLaws
  <2> QED
    BY <1>owed, <2>1, <2>4, <2>5 DEF OrderInv
<1>24. CASE UNCHANGED vars
  BY <1>24, <1>same DEF vars, agentState, queues, history
<1> QED
  BY <1>1, <1>2, <1>3, <1>4, <1>5, <1>6, <1>7, <1>8, <1>9, <1>10, <1>11, <1>12, <1>13, <1>14, <1>15,
     <1>16, <1>17, <1>18, <1>19, <1>20, <1>21, <1>22, <1>23, <1>24
     DEF Next, RunStep, Environment, Caller

\* The messages of the events are in order if what they owe is.
LEMMA EventsOrder ==
  ASSUME NEW evs \in Seq(Event), NEW owed \in Seq(Message), Owes(evs, owed), NEW a, NEW b
  PROVE  LET ms == [i \in DOMAIN evs |-> evs[i].msg]
         IN  /\ ms \in Seq(Message)
             /\ Ordered(owed) => Ordered(ms)
             /\ Before(a, owed) => Before(a, ms)
             /\ Before(owed, b) => Before(ms, b)
<1> DEFINE ms == [i \in DOMAIN evs |-> evs[i].msg]
<1>1. PICK at \in [DOMAIN owed -> DOMAIN evs] :
        /\ \A i, j \in DOMAIN owed : i < j => at[i] < at[j]
        /\ \A i \in DOMAIN owed : evs[at[i]].msg = owed[i]
        /\ {at[i] : i \in DOMAIN owed} = {k \in DOMAIN evs : IsMessageEvent(evs[k])}
        /\ \A k \in DOMAIN evs : ~IsMessageEvent(evs[k]) => evs[k].msg.kind \notin UserKinds
  BY DEF Owes
<1>2. ms \in Seq(Message)
  <2>1. \A i \in DOMAIN evs : evs[i].msg \in Message
    <3> SUFFICES ASSUME NEW i \in DOMAIN evs PROVE evs[i].msg \in Message
      OBVIOUS
    <3>1. evs[i] \in Event
      OBVIOUS
    <3> QED
      BY <3>1 DEF Event
  <2>2. ms \in [1..Len(evs) -> Message]
    BY <2>1
  <2> QED
    BY <2>2
<1>3. DOMAIN ms = DOMAIN evs /\ \A i \in DOMAIN ms : ms[i] = evs[i].msg
  OBVIOUS
<1> HIDE DEF ms
<1>4. ASSUME NEW i \in DOMAIN ms, ms[i].kind \in UserKinds
      PROVE  \E k \in DOMAIN owed : at[k] = i /\ owed[k] = ms[i]
  <2>1. i \in {at[k] : k \in DOMAIN owed}
    BY <1>1, <1>3, <1>4
  <2> QED
    BY <1>1, <1>3, <2>1
<1>5. DOMAIN owed \subseteq Nat /\ DOMAIN evs \subseteq Nat
  OBVIOUS
<1>6. ASSUME Ordered(owed) PROVE Ordered(ms)
  <2> SUFFICES ASSUME NEW i \in DOMAIN ms, NEW j \in DOMAIN ms, i < j,
                      ms[i].kind \in UserKinds, ms[i].kind = ms[j].kind
               PROVE  ms[i].id < ms[j].id
    BY DEF Ordered
  <2>1. PICK k \in DOMAIN owed : at[k] = i /\ owed[k] = ms[i]
    BY <1>4
  <2>2. PICK l \in DOMAIN owed : at[l] = j /\ owed[l] = ms[j]
    BY <1>4
  <2>3. i \in Nat /\ j \in Nat /\ k \in Nat /\ l \in Nat
    BY <1>3, <1>5, <2>1, <2>2
  <2>4. k < l
    <3>1. k # l
      BY <2>1, <2>2, <2>3
    <3>2. ~(l < k)
      BY <1>1, <2>1, <2>2, <2>3
    <3> QED
      BY <2>3, <3>1, <3>2
  <2> QED
    BY <1>6, <2>1, <2>2, <2>4 DEF Ordered
<1>7. ASSUME Before(a, owed) PROVE Before(a, ms)
  <2> SUFFICES ASSUME NEW i \in DOMAIN a, NEW j \in DOMAIN ms,
                      a[i].kind \in UserKinds, a[i].kind = ms[j].kind
               PROVE  a[i].id < ms[j].id
    BY DEF Before
  <2>1. PICK l \in DOMAIN owed : owed[l] = ms[j]
    BY <1>4
  <2> QED
    BY <1>7, <2>1 DEF Before
<1>8. ASSUME Before(owed, b) PROVE Before(ms, b)
  <2> SUFFICES ASSUME NEW i \in DOMAIN ms, NEW j \in DOMAIN b,
                      ms[i].kind \in UserKinds, ms[i].kind = b[j].kind
               PROVE  ms[i].id < b[j].id
    BY DEF Before
  <2>1. PICK k \in DOMAIN owed : owed[k] = ms[i]
    BY <1>4
  <2> QED
    BY <1>8, <2>1 DEF Before
<1> QED
  BY <1>2, <1>6, <1>7, <1>8 DEF ms

\* The context has the shape that its place in the run gives it, whatever the provider
\* streams and whenever the run is aborted (_stream_assistant_response, execute_tool_calls).
THEOREM ContextShapeInvariant == Spec => []ContextShape
<1>1. Spec => [](TypeOK /\ RunShape)
  BY TypeInvariant
<1>2. TypeOK /\ RunShape /\ ContextShape /\ [Next]_vars => ContextShape'
  BY NextContext
<1> QED
  BY <1>1, <1>2, InitContext, PTL DEF Spec

\* Messages of one entry point reach the transcript in the order in which they were handed
\* over and at most once, across polls, drain modes, aborts, failures, resets and continue_
\* (agent.py's two queues, _run_loop's polls).
THEOREM FifoAndOnceInvariant == Spec => []FifoAndOnce
<1>1. TypeOK /\ OrderInv => FifoAndOnce
  <2> SUFFICES ASSUME TypeOK, OrderInv PROVE Ordered(Pipeline)
    BY DEF FifoAndOnce, Ordered
  <2>1. /\ messages \in Seq(Message) /\ out \in Seq(Event)
        /\ steering \in Seq(Message) /\ followUps \in Seq(Message)
    BY DEF TypeOK, AgentStateType, RunType, QueueType
  <2>2. PICK owed \in Seq(Message) :
          Owes(out, owed) /\ OrderOf(messages \o owed, steering, followUps, nextId)
    BY DEF OrderInv
  <2>3. PICK ms : ms = [i \in DOMAIN out |-> out[i].msg]
    OBVIOUS
  <2>4. Ordered(messages) /\ Ordered(owed) /\ Before(messages, owed)
    BY <2>1, <2>2, OrderedConcat DEF OrderOf
  <2>5. /\ Before(messages, steering) /\ Before(owed, steering)
        /\ Before(messages, followUps) /\ Before(owed, followUps)
    BY <2>1, <2>2, BeforeConcat DEF OrderOf
  <2>6. ms \in Seq(Message) /\ Ordered(ms) /\ Before(messages, ms)
    BY <2>1, <2>2, <2>3, <2>4, EventsOrder
  <2>7. Before(ms, steering) /\ Before(ms, followUps)
    BY <2>1, <2>2, <2>3, <2>5, EventsOrder
  <2>8. Before(steering, followUps) /\ Ordered(steering) /\ Ordered(followUps)
    <3>1. Only("steer", steering) /\ Only("followUp", followUps) /\ "steer" # "followUp"
      BY <2>2 DEF OrderOf
    <3> QED
      BY <2>2, <3>1, KindsApart DEF OrderOf
  <2>9. PICK u \in Seq(Message), v \in Seq(Message) : u = messages \o ms /\ v = u \o steering
    BY <2>1, <2>6, ConcatLaws
  <2>before. \A x, y, z \in Seq(Message) : Before(x \o y, z) <=> Before(x, z) /\ Before(y, z)
    BY BeforeConcat
  <2>10. Ordered(u) /\ Before(u, steering) /\ Before(u, followUps)
    <3>1. Ordered(u)
      BY <2>1, <2>4, <2>6, <2>9, OrderedConcat
    <3> QED
      BY <2>1, <2>5, <2>6, <2>7, <2>9, <2>before, <3>1
  <2>11. Ordered(v) /\ Before(v, followUps)
    <3>1. Ordered(v)
      BY <2>1, <2>8, <2>9, <2>10, OrderedConcat
    <3> QED
      BY <2>1, <2>8, <2>9, <2>10, <2>before, <3>1
  <2>12. Ordered(v \o followUps)
    BY <2>1, <2>8, <2>11, OrderedConcat
  <2> QED
    BY <2>3, <2>9, <2>12 DEF Pipeline
<1>2. Spec => [](TypeOK /\ RunShape)
  BY TypeInvariant
<1>3. TypeOK /\ RunShape /\ ContextShape /\ OrderInv /\ [Next]_vars => OrderInv'
  BY NextOrder
<1> QED
  BY <1>1, <1>2, <1>3, InitOrder, ContextShapeInvariant, PTL DEF Spec

-----------------------------------------------------------------------------
(* Answers to tool calls.                                                  *)

Closes(m) == m.kind \in {"aborted", "failure"}

\* The j-th call of the message at i has its result, or a report that cuts the batch short.
AnswerAt(s, i, j) ==
  \/ i + j <= Len(s) /\ s[i + j] = ToolResult(j)
  \/ \E k \in 1..j : i + k <= Len(s) /\ Closes(s[i + k])

AllAnswered(s) ==
  \A i \in DOMAIN s : s[i].kind = "assistant" => \A j \in 1..s[i].calls : AnswerAt(s, i, j)

AnsweredSoFar(s) ==
  \A i \in DOMAIN s : s[i].kind = "assistant" =>
    \A j \in 1..s[i].calls : i + j <= Len(s) => AnswerAt(s, i, j)

\* No result stands behind a response that failed.
Apart(s) ==
  \A i \in DOMAIN s : s[i].kind = "error" /\ i < Len(s) => s[i + 1].kind # "toolResult"

\* Every call is answered, if its response did not fail.
Settled(s) == AllAnswered(s) /\ Apart(s)

\* Every such call is answered unless s ends before its answer.
SoFar(s) == AnsweredSoFar(s) /\ Apart(s)

NoCalls(s) == \A i \in DOMAIN s : s[i].kind \notin {"assistant", "toolResult"}

\* A settled transcript is answered as far as it goes.
LEMMA SettledSoFar == \A s : Settled(s) => SoFar(s)
  BY DEF Settled, SoFar, AllAnswered, AnsweredSoFar

\* Cutting a sequence puts no result behind a failed response, and joining two does so only
\* where they meet.
LEMMA ApartConcat ==
  ASSUME NEW s \in Seq(Message), NEW t \in Seq(Message)
  PROVE  /\ Apart(s \o t) => Apart(s) /\ Apart(t)
         /\ /\ Apart(s) /\ Apart(t)
            /\ \/ \A i \in DOMAIN s : i = Len(s) => s[i].kind # "error"
               \/ \A i \in DOMAIN t : i = 1 => t[i].kind # "toolResult"
            => Apart(s \o t)
<1> DEFINE u == s \o t
           n == Len(s)
<1>1. /\ \A i \in DOMAIN t : n + i \in DOMAIN u /\ u[n + i] = t[i]
      /\ \A i \in DOMAIN s : i \in DOMAIN u /\ u[i] = s[i]
      /\ \A i \in DOMAIN u : i \in DOMAIN s \/ (i > n /\ i - n \in DOMAIN t)
      /\ Len(u) = n + Len(t)
  BY ConcatParts
<1>2. /\ n \in Nat /\ Len(t) \in Nat /\ DOMAIN s = 1..n /\ DOMAIN t = 1..Len(t)
      /\ u \in Seq(Message) /\ DOMAIN u = 1..Len(u)
  OBVIOUS
<1> HIDE DEF u, n
<1>3. ASSUME Apart(u) PROVE Apart(s)
  <2> SUFFICES ASSUME NEW i \in DOMAIN s, s[i].kind = "error", i < n
               PROVE  s[i + 1].kind # "toolResult"
    BY DEF Apart, n
  <2>1. i + 1 \in DOMAIN s /\ i < Len(u)
    BY <1>1, <1>2
  <2> QED
    BY <1>1, <1>3, <2>1 DEF Apart
<1>4. ASSUME Apart(u) PROVE Apart(t)
  <2> SUFFICES ASSUME NEW i \in DOMAIN t, t[i].kind = "error", i < Len(t)
               PROVE  t[i + 1].kind # "toolResult"
    BY DEF Apart
  <2>1. i + 1 \in DOMAIN t /\ n + i < Len(u) /\ n + (i + 1) = (n + i) + 1
    BY <1>1, <1>2
  <2>2. n + i \in DOMAIN u /\ u[n + i] = t[i] /\ u[(n + i) + 1] = t[i + 1]
    BY <1>1, <2>1
  <2> QED
    BY <1>4, <2>1, <2>2 DEF Apart
<1>5. ASSUME Apart(s), Apart(t),
             \/ \A i \in DOMAIN s : i = n => s[i].kind # "error"
             \/ \A i \in DOMAIN t : i = 1 => t[i].kind # "toolResult"
      PROVE  Apart(u)
  <2> SUFFICES ASSUME NEW i \in DOMAIN u, u[i].kind = "error", i < Len(u)
               PROVE  u[i + 1].kind # "toolResult"
    BY DEF Apart
  <2>1. CASE i \in DOMAIN s /\ i < n
    <3>1. i + 1 \in DOMAIN s
      BY <1>2, <2>1
    <3> QED
      BY <1>1, <1>5, <2>1, <3>1 DEF Apart, n
  <2>2. CASE i \in DOMAIN s /\ ~(i < n)
    <3>1. i = n /\ 1 \in DOMAIN t
      BY <1>1, <1>2, <2>2
    <3> QED
      BY <1>1, <1>5, <2>2, <3>1
  <2>3. CASE i > n /\ i - n \in DOMAIN t
    <3>1. PICK k : k = i - n
      OBVIOUS
    <3>2. k \in DOMAIN t /\ k + 1 \in DOMAIN t /\ k < Len(t) /\ n + k = i /\ n + (k + 1) = i + 1
      BY <1>1, <1>2, <2>3, <3>1
    <3>3. u[i] = t[k] /\ u[i + 1] = t[k + 1]
      BY <1>1, <3>2
    <3> QED
      BY <1>5, <3>2, <3>3 DEF Apart
  <2> QED
    BY <1>1, <2>1, <2>2, <2>3
<1> QED
  BY <1>3, <1>4, <1>5 DEF u, n

\* An answer is found at the same place in a longer sequence.
LEMMA AnswerInPrefix ==
  ASSUME NEW s \in Seq(Message), NEW t \in Seq(Message), NEW i \in DOMAIN s, NEW j \in Nat \ {0}
  PROVE  /\ AnswerAt(s, i, j) => AnswerAt(s \o t, i, j)
         /\ i + j <= Len(s) /\ AnswerAt(s \o t, i, j) => AnswerAt(s, i, j)
<1> DEFINE u == s \o t
<1>1. /\ Len(u) = Len(s) + Len(t) /\ Len(s) \in Nat /\ Len(t) \in Nat /\ i \in Nat \ {0}
      /\ \A l \in DOMAIN s : u[l] = s[l]
  BY ConcatParts
<1>s. DOMAIN s = 1..Len(s)
  OBVIOUS
<1> HIDE DEF u
<1>2. ASSUME NEW k \in 1..j, i + k <= Len(s) PROVE i + k <= Len(u) /\ i + k \in DOMAIN s
  <2>1. PICK n, l, w \in Nat : n = Len(s) /\ l = Len(t) /\ w = Len(u) /\ w = n + l
    BY <1>1
  <2>2. i \in Nat /\ k \in Nat /\ k > 0 /\ i + k <= n
    BY <1>1, <1>2, <2>1
  <2>3. i + k <= w /\ i + k \in 1..n
    BY <2>1, <2>2
  <2> QED
    BY <1>s, <2>1, <2>3
<1>j. j \in 1..j
  OBVIOUS
<1>3. ASSUME AnswerAt(s, i, j) PROVE AnswerAt(u, i, j)
  <2>1. CASE i + j <= Len(s) /\ s[i + j] = ToolResult(j)
    <3>1. i + j <= Len(u) /\ i + j \in DOMAIN s
      BY <1>2, <1>j, <2>1
    <3>2. u[i + j] = ToolResult(j)
      BY <1>1, <2>1, <3>1
    <3> QED
      BY <3>1, <3>2 DEF AnswerAt
  <2>2. CASE \E k \in 1..j : i + k <= Len(s) /\ Closes(s[i + k])
    <3>1. PICK k \in 1..j : i + k <= Len(s) /\ Closes(s[i + k])
      BY <2>2
    <3>2. i + k <= Len(u) /\ i + k \in DOMAIN s
      BY <1>2, <3>1
    <3>3. Closes(u[i + k])
      BY <1>1, <3>1, <3>2
    <3> QED
      BY <3>2, <3>3 DEF AnswerAt
  <2> QED
    BY <1>3, <2>1, <2>2 DEF AnswerAt
<1>4. ASSUME i + j <= Len(s), AnswerAt(u, i, j) PROVE AnswerAt(s, i, j)
  <2>1. ASSUME NEW k \in 1..j PROVE i + k <= Len(s)
    <3>1. PICK n \in Nat : n = Len(s)
      BY <1>1
    <3>2. i \in Nat /\ k \in Nat /\ j \in Nat /\ k <= j /\ i + j <= n
      BY <1>1, <1>4, <3>1
    <3> QED
      BY <3>1, <3>2
  <2> QED
    BY <1>1, <1>2, <1>4, <2>1 DEF AnswerAt
<1> QED
  BY <1>3, <1>4 DEF u

\* And in what precedes or follows a cut.
LEMMA AnswerInSuffix ==
  ASSUME NEW p \in Seq(Message), NEW s \in Seq(Message), NEW i \in DOMAIN s, NEW j \in Nat \ {0}
  PROVE  AnswerAt(p \o s, Len(p) + i, j) <=> AnswerAt(s, i, j)
<1> DEFINE u == p \o s
           n == Len(p)
<1>1. /\ Len(u) = n + Len(s) /\ n \in Nat /\ Len(s) \in Nat /\ i \in Nat \ {0}
      /\ \A l \in DOMAIN s : u[n + l] = s[l]
  BY ConcatParts
<1>2. \A k \in 1..j : /\ (n + i) + k <= Len(u) <=> i + k <= Len(s)
                      /\ i + k <= Len(s) => i + k \in DOMAIN s /\ (n + i) + k = n + (i + k)
  BY <1>1
<1> HIDE DEF u, n
<1>3. \A k \in 1..j : i + k <= Len(s) => u[(n + i) + k] = s[i + k]
  BY <1>1, <1>2
<1>4. j \in 1..j
  OBVIOUS
<1>5. ASSUME AnswerAt(u, n + i, j) PROVE AnswerAt(s, i, j)
  BY <1>2, <1>3, <1>4, <1>5 DEF AnswerAt
<1>6. ASSUME AnswerAt(s, i, j) PROVE AnswerAt(u, n + i, j)
  BY <1>2, <1>3, <1>4, <1>6 DEF AnswerAt
<1> QED
  BY <1>5, <1>6 DEF u, n

\* Messages have a number of calls.
LEMMA CallNumbers ==
  ASSUME NEW s \in Seq(Message), NEW i \in DOMAIN s, NEW j \in 1..s[i].calls
  PROVE  j \in Nat \ {0}
<1>1. s[i] \in Message
  OBVIOUS
<1> QED
  BY <1>1 DEF Message

\* The end of a settled sequence is settled, and a part of one that is settled so far.
LEMMA SettledParts ==
  ASSUME NEW p \in Seq(Message), NEW s \in Seq(Message)
  PROVE  /\ Settled(p \o s) => Settled(s)
         /\ SoFar(p \o s) => SoFar(s) /\ SoFar(p)
<1> DEFINE u == p \o s
           n == Len(p)
<1>1. /\ \A i \in DOMAIN s : n + i \in DOMAIN u /\ u[n + i] = s[i]
      /\ \A i \in DOMAIN p : i \in DOMAIN u /\ u[i] = p[i]
      /\ Len(u) = n + Len(s) /\ n \in Nat /\ Len(s) \in Nat
      /\ DOMAIN s \subseteq Nat /\ DOMAIN p \subseteq Nat
  BY ConcatParts
<1>2. \A i \in DOMAIN s : \A j \in 1..s[i].calls : AnswerAt(u, n + i, j) <=> AnswerAt(s, i, j)
  BY CallNumbers, AnswerInSuffix
<1>3. \A i \in DOMAIN p : \A j \in 1..p[i].calls : i + j <= Len(p) /\ AnswerAt(u, i, j) => AnswerAt(p, i, j)
  BY CallNumbers, AnswerInPrefix
<1>4. \A i \in DOMAIN s : \A j \in 1..s[i].calls : i + j <= Len(s) => (n + i) + j <= Len(u)
  BY <1>1, CallNumbers
<1>5. \A i \in DOMAIN p : \A j \in 1..p[i].calls : i + j <= n => i + j <= Len(u)
  BY <1>1, CallNumbers
<1> HIDE DEF u
<1>6. ASSUME AllAnswered(u) PROVE AllAnswered(s)
  BY <1>1, <1>2, <1>6 DEF AllAnswered
<1>7. ASSUME AnsweredSoFar(u) PROVE AnsweredSoFar(s)
  <2> SUFFICES ASSUME NEW i \in DOMAIN s, s[i].kind = "assistant", NEW j \in 1..s[i].calls,
                      i + j <= Len(s)
               PROVE  AnswerAt(s, i, j)
    BY DEF AnsweredSoFar
  <2>1. n + i \in DOMAIN u /\ u[n + i] = s[i] /\ (n + i) + j <= Len(u)
    BY <1>1, <1>4
  <2>2. AnswerAt(u, n + i, j)
    BY <1>7, <2>1 DEF AnsweredSoFar
  <2> QED
    BY <1>2, <2>2
<1>8. ASSUME AnsweredSoFar(u) PROVE AnsweredSoFar(p)
  <2> SUFFICES ASSUME NEW i \in DOMAIN p, p[i].kind = "assistant", NEW j \in 1..p[i].calls,
                      i + j <= Len(p)
               PROVE  AnswerAt(p, i, j)
    BY DEF AnsweredSoFar
  <2>1. i \in DOMAIN u /\ u[i] = p[i] /\ i + j <= Len(u)
    BY <1>1, <1>5
  <2>2. AnswerAt(u, i, j)
    BY <1>8, <2>1 DEF AnsweredSoFar
  <2> QED
    BY <1>3, <2>2
<1>9. Apart(u) => Apart(p) /\ Apart(s)
  BY ApartConcat DEF u
<1> QED
  BY <1>6, <1>7, <1>8, <1>9 DEF u, Settled, SoFar

\* Messages without calls and results leave a settled sequence settled.
LEMMA SettledNoCalls ==
  ASSUME NEW s \in Seq(Message), NEW t \in Seq(Message), Settled(s), NoCalls(t)
  PROVE  Settled(s \o t)
<1> DEFINE u == s \o t
<1>1. \A i \in DOMAIN u : \/ i \in DOMAIN s /\ u[i] = s[i]
                          \/ \E k \in DOMAIN t : u[i] = t[k]
  BY ConcatForAll
<1>2. \A i \in DOMAIN s : \A j \in 1..s[i].calls : AnswerAt(s, i, j) => AnswerAt(u, i, j)
  BY CallNumbers, AnswerInPrefix
<1> HIDE DEF u
<1>3. AllAnswered(u)
  BY <1>1, <1>2 DEF Settled, AllAnswered, NoCalls
<1>4. Apart(t) /\ \A i \in DOMAIN t : i = 1 => t[i].kind # "toolResult"
  <2>1. \A i \in DOMAIN t : i < Len(t) => i + 1 \in DOMAIN t
    OBVIOUS
  <2> QED
    BY <2>1 DEF Apart, NoCalls
<1>5. Apart(u)
  BY <1>4, ApartConcat DEF u, Settled
<1> QED
  BY <1>3, <1>5 DEF u, Settled

\* A report settles what is settled so far.
LEMMA CloseSettles ==
  ASSUME NEW s \in Seq(Message), SoFar(s), NEW x \in Message, Closes(x)
  PROVE  Settled(s \o <<x>>)
<1> DEFINE u == s \o <<x>>
           n == Len(s)
<1>1. /\ u \in Seq(Message) /\ Len(u) = n + 1 /\ u[n + 1] = x /\ n \in Nat
      /\ \A i \in 1..n : u[i] = s[i]
  BY OneMore
<1>2. DOMAIN s = 1..n /\ <<x>> \in Seq(Message)
  OBVIOUS
<1>3. \A i \in DOMAIN s : \A j \in 1..s[i].calls : AnswerAt(s, i, j) => AnswerAt(u, i, j)
  BY <1>2, CallNumbers, AnswerInPrefix
<1> HIDE DEF u, n
<1>4. ASSUME NEW i \in DOMAIN u, u[i].kind = "assistant", NEW j \in 1..u[i].calls
      PROVE  AnswerAt(u, i, j)
  <2>1. i \in 1..n
    <3>1. i \in 1..(n + 1)
      BY <1>1
    <3>2. i # n + 1
      BY <1>1, <1>4 DEF Closes
    <3> QED
      BY <1>1, <3>1, <3>2
  <2>2. j \in Nat \ {0} /\ u[i] = s[i]
    BY <1>1, <2>1, CallNumbers
  <2>3. CASE i + j <= n
    <3>1. AnswerAt(s, i, j)
      BY <1>2, <1>4, <2>1, <2>2, <2>3 DEF SoFar, AnsweredSoFar, n
    <3> QED
      BY <1>2, <1>3, <1>4, <2>1, <2>2, <3>1
  <2>4. CASE i + j > n
    <3>0. i \in Nat /\ i <= n /\ n \in Nat /\ j \in Nat
      BY <1>1, <2>1, <2>2
    <3>1. PICK k : k = (n + 1) - i
      OBVIOUS
    <3>2. k \in 1..j /\ i + k = n + 1
      BY <2>4, <3>0, <3>1
    <3>3. i + k <= Len(u) /\ Closes(u[i + k])
      BY <1>1, <3>2
    <3> QED
      BY <3>2, <3>3 DEF AnswerAt
  <2> QED
    BY <1>1, <2>1, <2>2, <2>3, <2>4
<1>5. AllAnswered(u)
  BY <1>4 DEF AllAnswered
<1>6. Apart(u)
  <2>1. DOMAIN <<x>> = {1} /\ <<x>>[1] = x /\ x.kind # "toolResult" /\ Len(<<x>>) = 1
    BY DEF Closes
  <2>2. Apart(<<x>>) /\ \A i \in DOMAIN <<x>> : i = 1 => <<x>>[i].kind # "toolResult"
    BY <2>1 DEF Apart
  <2> QED
    BY <1>2, <2>2, ApartConcat DEF u, SoFar
<1> QED
  BY <1>5, <1>6 DEF u, Settled

\* What a batch has answered after k calls, and after the next one.
LEMMA ResultsGrow ==
  ASSUME NEW k \in Nat
  PROVE  /\ Results(k) \in Seq(Message) /\ Len(Results(k)) = k
         /\ \A i \in 1..k : Results(k)[i] = ToolResult(i)
         /\ Results(0) = <<>>
         /\ ToolResult(k + 1) \in Message
         /\ Results(k + 1) = Results(k) \o <<ToolResult(k + 1)>>
<1>1. \A n \in Nat : Results(n) \in Seq(Message) /\ Len(Results(n)) = n /\ \A i \in 1..n : Results(n)[i] = ToolResult(i)
  BY ResultsTyped DEF Results
<1>2. Results(0) = <<>>
  BY <1>1
<1>3. ToolResult(k + 1) \in Message
  BY MessagesTyped
<1>4. PICK r, s, x : r = Results(k) /\ s = Results(k + 1) /\ x = ToolResult(k + 1)
  OBVIOUS
<1>5. PICK w : w = r \o <<x>>
  OBVIOUS
<1>6. w \in Seq(Message) /\ Len(w) = k + 1 /\ w[k + 1] = x /\ \A i \in 1..k : w[i] = r[i]
  BY <1>1, <1>3, <1>4, <1>5, OneMore
<1>7. s \in Seq(Message) /\ Len(s) = k + 1 /\ \A i \in 1..(k + 1) : s[i] = ToolResult(i)
  BY <1>1, <1>4
<1>8. \A i \in 1..(k + 1) : s[i] = w[i]
  <2>1. \A i \in 1..k : s[i] = w[i]
    BY <1>1, <1>4, <1>6, <1>7
  <2>2. s[k + 1] = w[k + 1]
    BY <1>4, <1>6, <1>7
  <2> QED
    BY <2>1, <2>2
<1>9. s = w
  BY <1>6, <1>7, <1>8
<1> QED
  BY <1>1, <1>2, <1>3, <1>4, <1>5, <1>9

\* A response behind settled messages, followed by the results of its first k calls.
LEMMA ResponseSoFar ==
  ASSUME NEW f \in Seq(Message), Settled(f), NEW m \in Message, NEW k \in 0..m.calls,
         m.kind \in {"assistant", "error"}, k > 0 => m.kind = "assistant"
  PROVE  /\ SoFar((f \o <<m>>) \o Results(k)) /\ SoFar(f \o <<m>>)
         /\ k = m.calls => Settled((f \o <<m>>) \o Results(k))
<1>k. k \in Nat /\ m.calls \in Nat /\ k <= m.calls
  BY DEF Message
<1>1. PICK n, u, r : n = Len(f) /\ u = f \o <<m>> /\ r = Results(k)
  OBVIOUS
<1>2. /\ u \in Seq(Message) /\ Len(u) = n + 1 /\ u[n + 1] = m /\ n \in Nat
      /\ \A i \in 1..n : u[i] = f[i]
  BY <1>1, OneMore
<1>3. r \in Seq(Message) /\ Len(r) = k /\ \A i \in 1..k : r[i] = ToolResult(i)
  BY <1>1, <1>k, ResultsGrow
<1>4. PICK w : w = u \o r
  OBVIOUS
<1>5. /\ w \in Seq(Message) /\ Len(w) = (n + 1) + k
      /\ \A i \in DOMAIN u : w[i] = u[i]
      /\ \A i \in DOMAIN r : w[(n + 1) + i] = r[i]
      /\ \A i \in DOMAIN w : i \in DOMAIN u \/ (i > n + 1 /\ i - (n + 1) \in DOMAIN r)
  <2>types. u \in Seq(Message) /\ r \in Seq(Message)
    BY <1>2, <1>3
  <2>1. u \o r \in Seq(Message)
    BY <2>types, ConcatLaws
  <2>2. /\ Len(u \o r) = Len(u) + Len(r)
        /\ \A i \in DOMAIN u : (u \o r)[i] = u[i]
        /\ \A i \in DOMAIN r : (u \o r)[Len(u) + i] = r[i]
        /\ \A i \in DOMAIN (u \o r) : i \in DOMAIN u \/ (i > Len(u) /\ i - Len(u) \in DOMAIN r)
    BY <2>types, ConcatParts
  <2> QED
    BY <1>2, <1>3, <1>4, <2>1, <2>2
<1>6. DOMAIN f = 1..n /\ DOMAIN u = 1..(n + 1) /\ DOMAIN r = 1..k
  BY <1>1, <1>2, <1>3
<1>7. \A i \in 1..k : w[(n + 1) + i] = ToolResult(i)
  BY <1>3, <1>5, <1>6
<1>8. ASSUME NEW i \in DOMAIN w, w[i].kind = "assistant", NEW j \in 1..w[i].calls, i = n + 1 => j <= k
      PROVE  AnswerAt(w, i, j)
  <2>1. i \in 1..(n + 1)
    <3>1. CASE i \in DOMAIN u
      BY <1>6, <3>1
    <3>2. CASE i > n + 1 /\ i - (n + 1) \in DOMAIN r
      <4>1. PICK l : l = i - (n + 1)
        OBVIOUS
      <4>2. i \in Nat
        BY <1>5
      <4>3. l \in 1..k /\ i = (n + 1) + l
        BY <1>2, <1>6, <3>2, <4>1, <4>2
      <4>4. w[i] = ToolResult(l)
        BY <1>7, <4>3
      <4>5. w[i].kind = "toolResult"
        BY <4>4 DEF ToolResult
      <4> QED
        BY <1>8, <4>5
    <3> QED
      BY <1>5, <3>1, <3>2
  <2>2. j \in Nat \ {0}
    BY <1>5, CallNumbers
  <2>3. CASE i \in 1..n
    <3>1. w[i] = f[i]
      BY <1>2, <1>5, <1>6, <2>1, <2>3
    <3>2. AnswerAt(f, i, j)
      BY <1>6, <1>8, <2>3, <3>1 DEF Settled, AllAnswered
    <3>3. AnswerAt(u, i, j)
      <4>1. <<m>> \in Seq(Message)
        OBVIOUS
      <4> QED
        BY <1>1, <1>6, <2>2, <2>3, <3>2, <4>1, AnswerInPrefix
    <3> QED
      BY <1>2, <1>3, <1>4, <1>6, <2>1, <2>2, <3>3, AnswerInPrefix
  <2>4. CASE i = n + 1
    <3>1. j \in 1..k
      BY <1>8, <1>k, <2>2, <2>4
    <3>2. w[i + j] = ToolResult(j)
      BY <1>7, <2>4, <3>1
    <3>3. i + j <= Len(w)
      BY <1>2, <1>5, <1>k, <2>4, <3>1
    <3> QED
      BY <3>2, <3>3 DEF AnswerAt
  <2> QED
    BY <1>2, <2>1, <2>3, <2>4
<1>9. w[n + 1] = m
  BY <1>2, <1>5, <1>6
<1>10. AnsweredSoFar(w)
  <2> SUFFICES ASSUME NEW i \in DOMAIN w, w[i].kind = "assistant", NEW j \in 1..w[i].calls, i + j <= Len(w)
               PROVE  AnswerAt(w, i, j)
    BY DEF AnsweredSoFar
  <2>1. j \in Nat
    BY <1>5, CallNumbers
  <2>2. i = n + 1 => j <= k
    BY <1>2, <1>5, <1>k, <2>1
  <2> QED
    BY <1>8, <2>2
<1>11. ASSUME k = m.calls PROVE AllAnswered(w)
  <2> SUFFICES ASSUME NEW i \in DOMAIN w, w[i].kind = "assistant", NEW j \in 1..w[i].calls
               PROVE  AnswerAt(w, i, j)
    BY DEF AllAnswered
  <2>1. i = n + 1 => j <= k
    BY <1>9, <1>11, <1>k
  <2> QED
    BY <1>8, <2>1
<1>13. Apart(u)
  <2>1. DOMAIN <<m>> = {1} /\ <<m>>[1] = m /\ <<m>> \in Seq(Message) /\ Len(<<m>>) = 1
    OBVIOUS
  <2>2. Apart(<<m>>) /\ \A i \in DOMAIN <<m>> : i = 1 => <<m>>[i].kind # "toolResult"
    BY <2>1 DEF Apart
  <2> QED
    BY <1>1, <2>1, <2>2, ApartConcat DEF Settled
<1>14. Apart(w)
  <2>1. \A i \in DOMAIN r : r[i].kind = "toolResult"
    BY <1>3, <1>6 DEF ToolResult
  <2>2. Apart(r)
    BY <2>1 DEF Apart
  <2>3. CASE k > 0
    <3>1. \A i \in DOMAIN u : i = Len(u) => u[i].kind # "error"
      BY <1>2, <2>3
    <3> QED
      BY <1>2, <1>3, <1>4, <1>13, <2>2, <3>1, ApartConcat
  <2>4. CASE k = 0
    <3>1. DOMAIN r = {}
      BY <1>6, <2>4
    <3> QED
      BY <1>2, <1>3, <1>4, <1>13, <2>2, <3>1, ApartConcat
  <2> QED
    BY <1>k, <2>3, <2>4
<1>15. SoFar(w)
  BY <1>10, <1>14 DEF SoFar
<1>12. SoFar(u)
  BY <1>2, <1>3, <1>4, <1>15, SettledParts
<1>16. k = m.calls => Settled(w)
  BY <1>11, <1>14 DEF Settled
<1> QED
  BY <1>1, <1>4, <1>12, <1>15, <1>16

-----------------------------------------------------------------------------
(* What the loop shows the model.  The two invariants follow from what a   *)
(* run keeps of its context: the messages the model was asked about have   *)
(* their answers, and the transcript ends the context.                     *)

Live == pc \notin {"idle", "ending", "failing"}

\* The messages of the last request.
Asked == IF added \/ pc \in {"answer", "tools", "results"} THEN Front(context) ELSE context

\* The context as the transcript is going to show it: without the partial message, and with
\* the results that already have their events.
Shown ==
  IF added THEN Front(context)
  ELSE IF pc = "results" \/ (pc = "tools" /\ mode = "sequential") THEN context \o Results(answered)
  ELSE context

\* t ends with s.
Ends(s, t) == \E p \in Seq(Message) : t = p \o s

SeenInv ==
  \E owed \in Seq(Message) :
    /\ Owes(out, owed)
    /\ Live => Ends(messages \o owed, Shown)
    /\ ~escaped /\ pc \in {"ending", "failing"} => Settled(messages \o owed)

AnsweredInv ==
  ~escaped =>
    /\ pc = "idle" => Settled(messages)
    /\ pc \in {"opening", "turn", "convert", "request", "answer", "tools", "results"} => Settled(Asked)
    /\ pc \in {"turnEnd", "prepare"} => SoFar(context) /\ (aborted \/ Settled(context))

\* An end stays the end when both grow, and what ends with a sequence ends with its end.
LEMMA EndsParts ==
  ASSUME NEW s \in Seq(Message), NEW t \in Seq(Message), NEW ms \in Seq(Message)
  PROVE  /\ Ends(s, t) => Ends(s \o ms, t \o ms)
         /\ Ends(ms \o s, t) => Ends(s, t)
         /\ Ends(s, s)
<1>1. ASSUME Ends(s, t) PROVE Ends(s \o ms, t \o ms)
  <2>1. PICK p \in Seq(Message) : t = p \o s
    BY <1>1 DEF Ends
  <2>2. t \o ms = p \o (s \o ms)
    BY <2>1, ConcatLaws
  <2> QED
    BY <2>2 DEF Ends
<1>2. ASSUME Ends(ms \o s, t) PROVE Ends(s, t)
  <2>1. PICK p \in Seq(Message) : t = p \o (ms \o s)
    BY <1>2 DEF Ends
  <2>2. t = (p \o ms) \o s /\ p \o ms \in Seq(Message)
    BY <2>1, ConcatLaws
  <2> QED
    BY <2>2 DEF Ends
<1>3. Ends(s, s)
  <2>1. <<>> \in Seq(Message) /\ s = <<>> \o s
    BY ConcatLaws
  <2> QED
    BY <2>1 DEF Ends
<1> QED
  BY <1>1, <1>2, <1>3

\* The end of messages with answers has them.
LEMMA EndsSettled ==
  ASSUME NEW s \in Seq(Message), NEW t, Ends(s, t)
  PROVE  (Settled(t) => Settled(s)) /\ (SoFar(t) => SoFar(s))
<1>1. PICK p \in Seq(Message) : t = p \o s
  BY DEF Ends
<1> QED
  BY <1>1, SettledParts

\* Before its answer a response is the last message of the context, behind what was asked.
LEMMA Response ==
  ASSUME TypeOK, RunShape, pc \in {"answer", "tools", "results"}
  PROVE  /\ Asked \in Seq(Message) /\ Last(context) \in Message
         /\ context = Asked \o <<Last(context)>> /\ Calls \in Nat
<1>1. context \in Seq(Message) /\ context # <<>>
  BY DEF TypeOK, LocalType, RunShape
<1>2. Asked = Front(context)
  BY DEF Asked
<1>3. Last(context) \in Message /\ Front(context) \in Seq(Message) /\ context = Front(context) \o <<Last(context)>>
  BY <1>1, MessagesTyped, FrontLast
<1> QED
  BY <1>2, <1>3 DEF Calls, Message

\* What is shown is settled so far.
LEMMA ShownSoFar ==
  ASSUME TypeOK, RunShape, ContextShape, AnsweredInv, Live
  PROVE  Shown \in Seq(Message) /\ (~escaped => SoFar(Shown))
<1>1. context \in Seq(Message) /\ answered \in Nat /\ pc \in Places
  BY DEF TypeOK, LocalType, RunType
<1>2. CASE pc \in {"opening", "turn", "convert", "request"}
  <2>1. Shown = Asked
    BY <1>2 DEF Shown, Asked
  <2>2. Asked \in Seq(Message)
    <3>1. added => Front(context) \in Seq(Message)
      BY <1>1, MessagesTyped, FrontLast DEF RunShape
    <3> QED
      BY <1>1, <1>2, <3>1 DEF Asked
  <2> QED
    BY <1>2, <2>1, <2>2, SettledSoFar DEF AnsweredInv
<1>3. CASE pc \in {"answer", "tools", "results"}
  <2>1. ~added
    BY <1>3 DEF ContextShape
  <2>2. PICK f, m : f = Asked /\ m = Last(context)
    OBVIOUS
  <2>3. f \in Seq(Message) /\ m \in Message /\ context = f \o <<m>> /\ m.calls = Calls /\ Calls \in Nat
    BY <1>3, <2>2, Response DEF Calls
  <2>4. ~escaped => Settled(f)
    BY <1>3, <2>2 DEF AnsweredInv
  <2>7. m.kind \in {"assistant", "error"} /\ (pc \in {"tools", "results"} => m.kind = "assistant")
    BY <1>3, <2>2 DEF ContextShape
  <2>5. CASE Shown = context
    <3>1. 0 \in 0..m.calls /\ ~(0 > 0)
      BY <2>3
    <3>2. ~escaped => SoFar(f \o <<m>>)
      BY <2>3, <2>4, <2>7, <3>1, ResponseSoFar
    <3> QED
      BY <1>1, <2>3, <2>5, <3>2
  <2>6. CASE Shown = context \o Results(answered) /\ pc \in {"tools", "results"}
    <3>1. answered \in 0..m.calls
      BY <2>3, <2>6 DEF ContextShape
    <3>2. ~escaped => SoFar((f \o <<m>>) \o Results(answered))
      BY <2>3, <2>4, <2>6, <2>7, <3>1, ResponseSoFar
    <3>3. Shown \in Seq(Message)
      BY <1>1, <2>6, ResultsGrow, ConcatLaws
    <3> QED
      BY <2>3, <2>6, <3>2, <3>3
  <2> QED
    BY <2>1, <2>5, <2>6 DEF Shown
<1>4. CASE pc \in {"turnEnd", "prepare"}
  <2>1. Shown = context
    BY <1>4 DEF Shown, ContextShape
  <2> QED
    BY <1>1, <1>4, <2>1 DEF AnsweredInv
<1> QED
  BY <1>1, <1>2, <1>3, <1>4 DEF Live, Places

\* Nothing is shown before the first run.
LEMMA InitSeen == Init => SeenInv /\ AnsweredInv
<1> SUFFICES ASSUME Init PROVE SeenInv /\ AnsweredInv
  OBVIOUS
<1>1. <<>> \in Seq(Message) /\ Owes(<<>>, <<>>) /\ Settled(<<>>)
  BY OwesNothing DEF Settled, AllAnswered, Apart
<1>2. pc = "idle" /\ out = <<>> /\ messages = <<>>
  BY DEF Init
<1> QED
  BY <1>1, <1>2 DEF SeenInv, AnsweredInv, Live

\* Every step keeps the transcript at the end of the context, and its calls answered.
LEMMA NextSeen ==
  TypeOK /\ RunShape /\ ContextShape /\ OrderInv /\ SeenInv /\ AnsweredInv /\ [Next]_vars
    => SeenInv' /\ AnsweredInv'
<1> SUFFICES ASSUME TypeOK, RunShape, ContextShape, OrderInv, SeenInv, AnsweredInv, [Next]_vars
             PROVE  SeenInv' /\ AnsweredInv'
  OBVIOUS
<1>types. /\ messages \in Seq(Message) /\ out \in Seq(Event) /\ steering \in Seq(Message)
          /\ followUps \in Seq(Message) /\ nextId \in Nat /\ context \in Seq(Message) /\ answered \in Nat
          /\ pc \in Places
  BY DEF TypeOK, AgentStateType, RunType, QueueType, HistoryType, LocalType
<1>owed. PICK owed \in Seq(Message) :
           /\ Owes(out, owed)
           /\ Live => Ends(messages \o owed, Shown)
           /\ ~escaped /\ pc \in {"ending", "failing"} => Settled(messages \o owed)
  BY DEF SeenInv
<1>t. PICK t \in Seq(Message) : t = messages \o owed
  BY <1>types, <1>owed, ConcatLaws
<1>shown. Live => Shown \in Seq(Message) /\ Ends(t, Shown) /\ (~escaped => SoFar(Shown))
  BY <1>owed, <1>t, ShownSoFar
<1>sofar. ~escaped /\ ~Idle => SoFar(t)
  <2>1. CASE Live
    BY <1>shown, <2>1, EndsSettled
  <2>2. CASE pc \in {"ending", "failing"}
    BY <1>owed, <1>t, <2>2, SettledSoFar
  <2> QED
    BY <2>1, <2>2 DEF Live, Idle
<1>none. <<>> \in Seq(Message) /\ \A s \in Seq(Message) : s \o <<>> = s /\ <<>> \o s = s
  BY ConcatLaws
<1>goes. ASSUME NEW ms \in Seq(Message), Grows(ms), Live, Live', Shown' = Shown \o ms PROVE SeenInv'
  <2>1. PICK owed2 \in Seq(Message) : Owes(out', owed2) /\ messages' \o owed2 = t \o ms
    BY <1>goes, <1>owed, <1>t DEF Grows
  <2>2. Ends(t \o ms, Shown')
    BY <1>goes, <1>shown, EndsParts
  <2>3. pc' \notin {"ending", "failing"}
    BY <1>goes DEF Live
  <2> QED
    BY <2>1, <2>2, <2>3 DEF SeenInv
<1>over. ASSUME NEW ms \in Seq(Message), Grows(ms), pc' = "ending", ~escaped' => Settled(t \o ms)
         PROVE  SeenInv' /\ AnsweredInv'
  <2>1. PICK owed2 \in Seq(Message) : Owes(out', owed2) /\ messages' \o owed2 = t \o ms
    BY <1>over, <1>owed, <1>t DEF Grows
  <2>2. SeenInv'
    BY <1>over, <2>1 DEF SeenInv, Live
  <2>3. AnsweredInv'
    BY <1>over DEF AnsweredInv
  <2> QED
    BY <2>2, <2>3
<1>kept. ASSUME UNCHANGED <<messages, out, pc, context, added, mode, answered, escaped>>, aborted => aborted'
         PROVE  SeenInv' /\ AnsweredInv'
  <2>1. Shown' = Shown /\ Asked' = Asked /\ (Live' <=> Live)
    BY <1>kept DEF Shown, Asked, Live
  <2>2. SeenInv'
    BY <1>kept, <1>owed, <2>1 DEF SeenInv
  <2>3. AnsweredInv'
    BY <1>kept, <2>1 DEF AnsweredInv
  <2> QED
    BY <2>2, <2>3
<1>stop. ASSUME Stops, ~Idle, UNCHANGED escaped PROVE SeenInv' /\ AnsweredInv'
  <2>1. Aborted \in Message /\ Closes(Aborted)
    BY MessagesTyped DEF Aborted, Assistant, Closes, Kinds
  <2>2. <<Aborted>> \in Seq(Message)
    BY <2>1
  <2>3. ~escaped => Settled(t \o <<Aborted>>)
    BY <1>stop, <1>sofar, <2>1, CloseSettles
  <2> QED
    BY <1>over, <1>stop, <2>2, <2>3 DEF Stops
<1>open. ASSUME NEW pending \in Seq(Message), NoCalls(pending), Opens(pending), UNCHANGED escaped,
                pc \in {"opening", "turnEnd", "prepare"}
         PROVE  SeenInv' /\ AnsweredInv'
  <2>1. ~added /\ ~added' /\ pc' = "turn" /\ context' = context \o pending /\ ~aborted
    BY <1>open DEF ContextShape, Opens
  <2>2. Shown = context /\ Shown' = context' /\ Live /\ Live' /\ Asked' = context'
    BY <1>open, <2>1 DEF Shown, Asked, Live
  <2>3. SeenInv'
    BY <1>goes, <1>open, <2>1, <2>2 DEF Opens
  <2>4. ~escaped => Settled(context)
    BY <1>open, <2>1 DEF AnsweredInv, Asked
  <2>5. ~escaped => Settled(context')
    BY <1>open, <1>types, <2>1, <2>4, SettledNoCalls
  <2>6. AnsweredInv'
    BY <1>open, <2>1, <2>2, <2>5 DEF AnsweredInv
  <2> QED
    BY <2>3, <2>6
<1>ask. ASSUME Asks, UNCHANGED escaped, pc \in {"opening", "turn"} PROVE SeenInv' /\ AnsweredInv'
  <2>1. ~added /\ ~added' /\ pc' \in {"convert", "request"} /\ context' = context
    BY <1>ask DEF ContextShape, Asks, locals
  <2>2. Shown = context /\ Shown' = context /\ Asked = context /\ Asked' = context /\ Live /\ Live'
    BY <1>ask, <2>1 DEF Shown, Asked, Live
  <2>3. SeenInv'
    BY <1>goes, <1>ask, <1>none, <1>types, <2>2 DEF Asks
  <2>4. AnsweredInv'
    BY <1>ask, <2>1, <2>2 DEF AnsweredInv
  <2> QED
    BY <2>3, <2>4
<1>queue. ASSUME NEW m PROVE /\ Drained(steering, m) \in Seq(Message) /\ NoCalls(Drained(steering, m))
                             /\ Drained(followUps, m) \in Seq(Message) /\ NoCalls(Drained(followUps, m))
  <2>1. Only("steer", steering) /\ Only("followUp", followUps)
    BY DEF OrderInv, OrderOf
  <2>2. /\ Drained(steering, m) \in Seq(Message) /\ Remaining(steering, m) \in Seq(Message)
        /\ Drained(followUps, m) \in Seq(Message) /\ Remaining(followUps, m) \in Seq(Message)
    BY <1>types, DrainTyped
  <2>3. /\ steering = Drained(steering, m) \o Remaining(steering, m)
        /\ followUps = Drained(followUps, m) \o Remaining(followUps, m)
    BY <1>types, DrainSplits
  <2>4. \A a, b \in Seq(Message) : \A kind : Only(kind, a \o b) => Only(kind, a)
    BY BeforeConcat
  <2>5. Only("steer", Drained(steering, m)) /\ Only("followUp", Drained(followUps, m))
    BY <2>1, <2>2, <2>3, <2>4
  <2> QED
    BY <2>2, <2>5 DEF Only, NoCalls
<1>1. CASE EmitNext
  <2>1. Grows(<<>>) /\ UNCHANGED <<pc, context, added, mode, answered, aborted, escaped>> /\ out # <<>>
    BY <1>1, <1>types, NextEventGrows DEF EmitNext, Emit, locals, history
  <2>2. Shown' = Shown /\ Asked' = Asked
    BY <2>1 DEF Shown, Asked
  <2>3. pc # "idle"
    BY <2>1 DEF RunShape
  <2>4. AnsweredInv'
    BY <2>1, <2>2, <2>3 DEF AnsweredInv
  <2>5. PICK owed2 \in Seq(Message) : Owes(out', owed2) /\ messages' \o owed2 = t
    <3>1. PICK o2 \in Seq(Message) : Owes(out', o2) /\ messages' \o o2 = t \o <<>>
      BY <1>owed, <1>t, <2>1 DEF Grows
    <3> QED
      BY <1>none, <3>1
  <2>6. SeenInv'
    BY <1>owed, <1>t, <2>1, <2>2, <2>5 DEF SeenInv, Live
  <2> QED
    BY <2>4, <2>6
<1>2. CASE BeginLoop
  <2>1. UNCHANGED escaped /\ pc = "opening"
    BY <1>2 DEF BeginLoop, Resumes
  <2>2. PICK m \in QueueModes : Stops \/ Opens(Drained(steering, m)) \/ Asks
    BY <1>2, BeginMoves
  <2> QED
    BY <1>stop, <1>open, <1>ask, <1>queue, <2>1, <2>2 DEF Idle
<1>3. CASE StartRequest
  <2>1. UNCHANGED escaped /\ pc = "turn" /\ (Stops \/ Asks)
    BY <1>3, StopMoves, AskMoves DEF StartRequest, Resumes
  <2> QED
    BY <1>stop, <1>ask, <2>1 DEF Idle
<1>4. CASE StreamStart
  <2>1. /\ UNCHANGED <<messages, out, pc, mode, answered, escaped, aborted>>
        /\ pc = "request" /\ ~added /\ added'
    BY <1>4 DEF StreamStart, _process_events, About, history
  <2>2. context' = context \o <<Partial>> /\ Partial \in Message
    BY <1>4, <1>types, MessagesTyped, AppendConcat DEF StreamStart
  <2>3. Front(context') = context
    BY <1>types, <2>2, FrontLast
  <2>4. Shown' = Shown /\ Asked' = Asked
    BY <2>1, <2>3 DEF Shown, Asked
  <2>5. SeenInv'
    BY <1>owed, <2>1, <2>4 DEF SeenInv, Live
  <2>6. AnsweredInv'
    BY <2>1, <2>4 DEF AnsweredInv
  <2> QED
    BY <2>5, <2>6
<1>5. CASE StreamUpdate
  BY <1>5, <1>kept DEF StreamUpdate, locals, history
<1>23. CASE SendRequest
  <2>1. /\ UNCHANGED <<messages, out, context, added, mode, answered, escaped, aborted>>
        /\ pc = "convert" /\ pc' = "request"
    BY <1>23 DEF SendRequest, agentState, locals, history
  <2>2. Shown' = Shown /\ Asked' = Asked
    BY <2>1 DEF Shown, Asked
  <2>3. SeenInv'
    BY <1>owed, <2>1, <2>2 DEF SeenInv, Live
  <2>4. AnsweredInv'
    BY <2>1, <2>2 DEF AnsweredInv
  <2> QED
    BY <2>3, <2>4
<1>6. CASE StreamDone
  <2>1. PICK m \in Message : /\ m.kind \in {"assistant", "error"}
                             /\ pc' = "answer" /\ ~added' /\ context' = FinalContext(m) /\ Grows(<<m>>)
    BY <1>6, DoneMoves
  <2>2. pc = "request" /\ UNCHANGED escaped
    BY <1>6 DEF StreamDone
  <2>3. Shown = Asked /\ Asked = (IF added THEN Front(context) ELSE context)
    BY <2>2 DEF Shown, Asked
  <2>4. added => context # <<>>
    BY DEF RunShape
  <2>5. context' = Asked \o <<m>>
    BY <1>types, <2>1, <2>3, <2>4, FinalContextIs
  <2>6. Live /\ Live' /\ Asked \in Seq(Message) /\ <<m>> \in Seq(Message)
    BY <1>shown, <2>1, <2>2, <2>3 DEF Live
  <2>7. Asked' = Asked
    <3>1. Front(context') = Asked
      BY <2>5, <2>6, FrontLast
    <3> QED
      BY <2>1, <3>1 DEF Asked
  <2>8. Shown' = Shown \o <<m>>
    BY <2>1, <2>3, <2>5 DEF Shown
  <2>9. SeenInv'
    BY <1>goes, <2>1, <2>6, <2>8
  <2>10. AnsweredInv'
    BY <2>1, <2>2, <2>7 DEF AnsweredInv
  <2> QED
    BY <2>9, <2>10
<1>in. ASSUME pc \in {"answer", "tools", "results"}
       PROVE  /\ ~added /\ Live /\ Asked \in Seq(Message) /\ Last(context) \in Message
              /\ context = Asked \o <<Last(context)>> /\ Calls \in Nat
              /\ ~escaped => Settled(Asked)
  BY <1>in, Response DEF ContextShape, Live, AnsweredInv
<1>batch. ASSUME pc \in {"answer", "tools", "results"}, pc' \in {"tools", "results"},
                 UNCHANGED <<context, added, escaped>>
          PROVE  AnsweredInv' /\ Live'
  <2>1. Asked' = Asked
    BY <1>batch DEF Asked
  <2> QED
    BY <1>batch, <2>1 DEF AnsweredInv, Live
<1>7. CASE Answer
  <2>1. pc = "answer" /\ out = <<>> /\ UNCHANGED <<aborted, escaped>>
    BY <1>7 DEF Answer, Resumes, history
  <2>2. PICK f, m : f = Asked /\ m = Last(context)
    OBVIOUS
  <2>3. /\ f \in Seq(Message) /\ m \in Message /\ context = f \o <<m>> /\ Calls = m.calls /\ Calls \in Nat
        /\ ~escaped => Settled(f)
        /\ m.kind \in {"assistant", "error"} /\ m.kind \notin UserKinds
    BY <1>in, <2>1, <2>2 DEF Calls, ContextShape, UserKinds
  <2>4. Shown = context /\ Live /\ ~added
    BY <1>in, <2>1 DEF Shown
  <2>5. CASE m.kind = "error" /\ Emit(<<About("turn_end", m), Bare("agent_end")>>, "ending")
    <3>1. Grows(<<>>) /\ pc' = "ending"
      BY <2>1, <2>3, <2>5, TurnEndMoves
    <3>2. <<m>> \in Seq(Message) /\ NoCalls(<<m>>)
      <4>1. DOMAIN <<m>> = {1} /\ <<m>>[1] = m /\ <<m>> \in Seq(Message)
        BY <2>3
      <4> QED
        BY <2>5, <4>1 DEF NoCalls
    <3>3. ~escaped => Settled(context)
      BY <2>3, <3>2, SettledNoCalls
    <3>4. ~escaped => Settled(t \o <<>>)
      BY <1>shown, <1>none, <2>4, <3>3, EndsSettled
    <3> QED
      BY <1>over, <1>none, <2>1, <3>1, <3>4
  <2>6. CASE m.kind # "error" /\ Calls = 0 /\ Emit(<<About("turn_end", m)>>, "turnEnd") /\ UNCHANGED <<context, added>>
    <3>1. Grows(<<>>) /\ pc' = "turnEnd"
      BY <2>1, <2>3, <2>6, TurnEndMoves
    <3>2. 0 \in 0..m.calls /\ m.calls = 0 /\ ~(0 > 0)
      BY <2>3, <2>6
    <3>3. ~escaped => Settled((f \o <<m>>) \o Results(0))
      BY <2>3, <3>2, ResponseSoFar
    <3>4. ~escaped => Settled(context)
      BY <1>none, <1>types, <2>3, <3>3, ResultsGrow
    <3>5. Shown' = Shown \o <<>> /\ Live'
      BY <1>none, <1>types, <2>4, <2>6, <3>1 DEF Shown, Live
    <3>6. SeenInv'
      BY <1>goes, <1>none, <2>4, <3>1, <3>5
    <3>7. AnsweredInv'
      BY <2>1, <2>6, <3>1, <3>4, SettledSoFar DEF AnsweredInv
    <3> QED
      BY <3>6, <3>7
  <2>7. CASE \E md \in {"sequential", "parallel"} :
               mode' = md /\ Emit(CallEvents(1, md), "tools") /\ answered' = 1 /\ UNCHANGED <<context, added>>
    <3>1. PICK md \in {"sequential", "parallel"} :
               mode' = md /\ Emit(CallEvents(1, md), "tools") /\ answered' = 1 /\ UNCHANGED <<context, added>>
      BY <2>7
    <3>2. pc' = "tools" /\ Grows(CallResult(1, md)) /\ CallResult(1, md) \in Seq(Message)
      BY <2>1, <3>1, CallMoves, CallOwes
    <3>3. Results(1) = <<ToolResult(1)>>
      <4>1. Results(0 + 1) = Results(0) \o <<ToolResult(0 + 1)>> /\ Results(0) = <<>> /\ ToolResult(0 + 1) \in Message
        BY ResultsGrow
      <4>2. 0 + 1 = 1
        OBVIOUS
      <4>3. <<ToolResult(1)>> \in Seq(Message)
        BY <4>1, <4>2
      <4> QED
        BY <1>none, <4>1, <4>2, <4>3
    <3>4. Shown' = Shown \o CallResult(1, md)
      <4>1. CASE md = "sequential"
        BY <2>4, <3>1, <3>2, <3>3, <4>1 DEF Shown, CallResult
      <4>2. CASE md = "parallel"
        BY <1>none, <1>types, <2>4, <3>1, <3>2, <4>2 DEF Shown, CallResult
      <4> QED
        BY <4>1, <4>2
    <3>5. AnsweredInv' /\ Live'
      BY <1>batch, <2>1, <3>1, <3>2
    <3> QED
      BY <1>goes, <2>4, <3>2, <3>4, <3>5
  <2> QED
    BY <1>7, <2>2, <2>5, <2>6, <2>7 DEF Answer
<1>8. CASE NextCall
  <2>1. /\ pc = "tools" /\ out = <<>> /\ UNCHANGED <<aborted, escaped, context, added, mode>>
        /\ answered' = answered + 1 /\ answered + 1 \in Nat /\ Emit(CallEvents(answered + 1, mode), "tools")
    BY <1>8, <1>types DEF NextCall, Resumes, history
  <2>2. PICK k, ms : k = answered + 1 /\ ms = CallResult(k, mode)
    OBVIOUS
  <2>3. pc' = "tools" /\ Grows(ms) /\ ms \in Seq(Message)
    BY <2>1, <2>2, CallMoves, CallOwes
  <2>4. AnsweredInv' /\ Live' /\ ~added /\ Live
    BY <1>batch, <1>in, <2>1, <2>3
  <2>5. Shown' = Shown \o ms
    <3>1. CASE mode = "sequential"
      <4>1. PICK r, x : r = Results(answered) /\ x = <<ToolResult(k)>>
        OBVIOUS
      <4>2. r \in Seq(Message) /\ x \in Seq(Message) /\ Results(k) = r \o x
        <5>1. /\ Results(answered) \in Seq(Message) /\ ToolResult(answered + 1) \in Message
              /\ Results(answered + 1) = Results(answered) \o <<ToolResult(answered + 1)>>
          BY <1>types, ResultsGrow
        <5> QED
          BY <2>2, <4>1, <5>1
      <4>3. Shown = context \o Results(answered)
        BY <2>1, <2>4, <3>1 DEF Shown
      <4>primed. ~added' /\ mode' = "sequential"
        BY <2>1, <2>4, <3>1
      <4>4. Shown' = context' \o Results(answered')
        BY <2>3, <4>primed DEF Shown
      <4>5. Shown = context \o r /\ Shown' = context \o (r \o x) /\ ms = x
        BY <2>1, <2>2, <3>1, <4>1, <4>2, <4>3, <4>4 DEF CallResult
      <4>6. (context \o r) \o x = context \o (r \o x)
        <5>1. context \in Seq(Message) /\ r \in Seq(Message) /\ x \in Seq(Message)
          BY <1>types, <4>2
        <5> QED
          BY <5>1
      <4> QED
        BY <4>5, <4>6
    <3>2. CASE mode # "sequential"
      <4>1. Shown = context /\ Shown' = context /\ ms = <<>>
        BY <2>1, <2>2, <2>3, <2>4, <3>2 DEF Shown, CallResult
      <4> QED
        BY <1>none, <1>types, <4>1
    <3> QED
      BY <3>1, <3>2
  <2> QED
    BY <1>goes, <2>3, <2>4, <2>5
<1>9. CASE CollectResults
  <2>1. /\ pc = "tools" /\ mode = "parallel" /\ UNCHANGED <<escaped, context, added, mode, answered>>
    BY <1>9 DEF CollectResults, Resumes, history, locals
  <2>2. pc' = "results" /\ Grows(Results(answered)) /\ Results(answered) \in Seq(Message)
    BY <1>9, <1>types, CollectMoves, ResultsTyped
  <2>3. AnsweredInv' /\ Live' /\ ~added /\ Live
    BY <1>batch, <1>in, <2>1, <2>2
  <2>4. Shown' = Shown \o Results(answered)
    BY <2>1, <2>2, <2>3 DEF Shown
  <2> QED
    BY <1>goes, <2>2, <2>3, <2>4
<1>10. CASE EndBatch
  <2>1. /\ pc \in {"tools", "results"} /\ out = <<>> /\ UNCHANGED <<aborted, escaped, added>>
        /\ pc = "tools" => mode = "sequential"
        /\ answered = Calls \/ aborted
        /\ Emit(<<About("turn_end", Last(context))>>, "turnEnd")
        /\ context' = context \o Results(answered)
    BY <1>10 DEF EndBatch, Resumes, history, ContextShape
  <2>2. PICK f, m : f = Asked /\ m = Last(context)
    OBVIOUS
  <2>3. /\ f \in Seq(Message) /\ m \in Message /\ context = f \o <<m>> /\ Calls = m.calls
        /\ ~escaped => Settled(f)
        /\ m.kind = "assistant" /\ m.kind \notin UserKinds /\ answered \in 0..m.calls
        /\ ~added /\ Live
    <3>1. m.kind = "assistant" /\ answered \in 1..Calls /\ Calls = m.calls
      BY <2>1, <2>2 DEF ContextShape, Calls
    <3>2. m.kind \notin UserKinds
      BY <3>1 DEF UserKinds
    <3>3. Calls \in Nat
      BY <1>in, <2>1
    <3>4. answered \in 0..m.calls
      BY <3>1, <3>3
    <3> QED
      BY <1>in, <2>1, <2>2, <3>1, <3>2, <3>4
  <2>4. Grows(<<>>) /\ pc' = "turnEnd"
    BY <2>1, <2>2, <2>3, TurnEndMoves
  <2>5. Shown' = Shown \o <<>> /\ Live'
    <3>1. Shown = context' /\ Shown' = context'
      BY <2>1, <2>3, <2>4 DEF Shown
    <3> QED
      BY <1>none, <1>shown, <2>3, <2>4, <3>1 DEF Live
  <2>6. SeenInv'
    BY <1>goes, <1>none, <2>3, <2>4, <2>5
  <2>7. ~escaped => SoFar(context') /\ (answered = Calls => Settled(context'))
    BY <2>1, <2>3, ResponseSoFar
  <2>8. AnsweredInv'
    BY <2>1, <2>4, <2>7 DEF AnsweredInv
  <2> QED
    BY <2>6, <2>8
<1>poll. ASSUME PollQueues, out = <<>>, UNCHANGED escaped, pc \in {"turnEnd", "prepare"}
         PROVE  SeenInv' /\ AnsweredInv'
  <2>1. PICK m \in QueueModes :
           \/ Stops \/ Opens(Drained(steering, m)) \/ Opens(Drained(followUps, m))
           \/ ~aborted /\ pc' = "ending" /\ Grows(<<>>)
    BY <1>poll, PollMoves
  <2>2. CASE ~aborted /\ pc' = "ending" /\ Grows(<<>>)
    <3>1. Shown = context /\ Live
      BY <1>poll DEF Shown, ContextShape, Live
    <3>2. ~escaped => Settled(context)
      BY <1>poll, <2>2 DEF AnsweredInv
    <3>3. ~escaped => Settled(t \o <<>>)
      BY <1>shown, <1>none, <3>1, <3>2, EndsSettled
    <3> QED
      BY <1>over, <1>none, <1>poll, <2>2, <3>3
  <2> QED
    BY <1>poll, <1>stop, <1>open, <1>queue, <2>1, <2>2 DEF Idle
<1>11. CASE EndTurn
  <2>1. pc = "turnEnd" /\ out = <<>> /\ UNCHANGED escaped /\ (Stops \/ PollQueues)
    BY <1>11, StopMoves DEF EndTurn, Resumes
  <2> QED
    BY <1>stop, <1>poll, <2>1 DEF Idle
<1>12. CASE PrepareNextTurnReturns
  BY <1>12, <1>poll DEF PrepareNextTurnReturns, RunShape
<1>13. CASE CallPrepareNextTurn
  <2>1. /\ pc = "turnEnd" /\ pc' = "prepare" /\ UNCHANGED <<messages, out, context, added, mode, answered, escaped, aborted>>
        /\ ~added
    BY <1>13 DEF CallPrepareNextTurn, Resumes, agentState, locals, history, ContextShape
  <2>2. Shown' = Shown
    BY <2>1 DEF Shown
  <2>3. SeenInv'
    BY <1>owed, <2>1, <2>2 DEF SeenInv, Live
  <2>4. AnsweredInv'
    BY <2>1 DEF AnsweredInv
  <2> QED
    BY <2>3, <2>4
<1>gone. ASSUME out' = <<>>, pc' = "idle", ~escaped' => Settled(messages')
         PROVE  SeenInv' /\ AnsweredInv'
  <2>1. SeenInv'
    BY <1>gone, <1>none, OwesNothing DEF SeenInv, Live
  <2>2. AnsweredInv'
    BY <1>gone DEF AnsweredInv
  <2> QED
    BY <2>1, <2>2
<1>14. CASE Finish
  <2>1. /\ pc \in {"ending", "failing"} /\ out = <<>> /\ UNCHANGED <<escaped, messages>>
        /\ out' = <<>> /\ pc' = "idle"
    BY <1>14 DEF Finish, Resumes, _finish_run, history
  <2>2. owed = <<>>
    BY <1>owed, <2>1, OwesNothing
  <2>3. t = messages
    BY <1>t, <1>none, <1>types, <2>2
  <2>4. ~escaped => Settled(messages)
    BY <1>owed, <1>t, <2>1, <2>3
  <2> QED
    BY <1>gone, <2>1, <2>4
<1>15. CASE RunEscapes
  BY <1>15, <1>gone DEF RunEscapes, _finish_run
<1>16. CASE RunRaises
  <2>1. PICK o2 \in Seq(Message) : Owes(out', o2) /\ messages' \o o2 = messages \o <<Failure>>
    BY <1>16, RaiseMoves
  <2>2. ~Idle /\ pc' = "failing" /\ UNCHANGED escaped
    BY <1>16 DEF RunRaises, Emit, Idle
  <2>3. Failure \in Message /\ Closes(Failure)
    BY MessagesTyped DEF Failure, Assistant, Closes, Kinds
  <2>4. ~escaped => SoFar(messages)
    BY <1>owed, <1>sofar, <1>t, <1>types, <2>2, SettledParts
  <2>5. ~escaped => Settled(messages \o <<Failure>>)
    BY <1>types, <2>3, <2>4, CloseSettles
  <2>6. SeenInv'
    BY <2>1, <2>2, <2>5 DEF SeenInv, Live
  <2>7. AnsweredInv'
    BY <2>2 DEF AnsweredInv
  <2> QED
    BY <2>6, <2>7
<1>start. ASSUME NEW ps \in Seq(Message), NEW b, _run_with_lifecycle(ps, b), Idle, NoCalls(ps),
                 UNCHANGED escaped
          PROVE  SeenInv' /\ AnsweredInv'
  <2>1. Owes(out', ps)
    BY <1>start, StartOwes
  <2>2. /\ messages' = messages /\ context' = messages \o ps /\ pc' = "opening" /\ ~added'
    BY <1>start DEF _run_with_lifecycle, RunShape
  <2>3. Shown' = messages \o ps /\ Asked' = messages \o ps
    BY <2>2 DEF Shown, Asked
  <2>4. messages \o ps \in Seq(Message)
    BY <1>start, <1>types, ConcatLaws
  <2>5. Ends(messages' \o ps, Shown')
    BY <2>2, <2>3, <2>4, EndsParts
  <2>6. SeenInv'
    BY <1>start, <2>1, <2>2, <2>5 DEF SeenInv
  <2>7. ~escaped => Settled(messages \o ps)
    BY <1>start, <1>types, SettledNoCalls DEF AnsweredInv, Idle
  <2>8. AnsweredInv'
    BY <1>start, <2>2, <2>3, <2>7 DEF AnsweredInv
  <2> QED
    BY <2>6, <2>8
<1>17. CASE prompt
  <2>1. PICK k \in 1..MaxBatch :
          _run_with_lifecycle([i \in 1..k |-> User("prompt", nextId + i - 1)], FALSE)
    BY <1>17 DEF prompt
  <2>2. Idle /\ k \in Nat /\ UNCHANGED escaped
    BY <1>17 DEF prompt
  <2>3. PICK ps : ps = [i \in 1..k |-> User("prompt", nextId + i - 1)]
    OBVIOUS
  <2>4. ps \in Seq(Message)
    <3>1. ASSUME NEW i \in 1..k PROVE nextId + i - 1 \in Nat
      BY <1>types, <2>2
    <3>2. ps \in [1..k -> Message]
      BY <2>3, <3>1, MessagesTyped DEF Kinds, UserKinds
    <3> QED
      BY <2>2, <3>2
  <2>5. NoCalls(ps)
    BY <2>3 DEF NoCalls, User
  <2> QED
    BY <1>start, <2>1, <2>2, <2>3, <2>4, <2>5
<1>18. CASE continue_
  <2>1. Idle /\ UNCHANGED escaped
    BY <1>18 DEF continue_, history
  <2>2. \/ \E m : _run_with_lifecycle(Drained(steering, m), TRUE)
        \/ \E m : _run_with_lifecycle(Drained(followUps, m), FALSE)
        \/ _run_with_lifecycle(<<>>, FALSE)
    BY <1>18 DEF continue_
  <2>3. NoCalls(<<>>)
    BY DEF NoCalls
  <2> QED
    BY <1>start, <1>queue, <1>none, <2>1, <2>2, <2>3
<1>19. CASE steer \/ followUp \/ clearSteeringQueue \/ clearFollowUpQueue
  BY <1>19, <1>kept DEF steer, followUp, clearSteeringQueue, clearFollowUpQueue, agentState, locals
<1>20. CASE abort
  BY <1>20, <1>kept DEF abort, agentState, locals, history
<1>21. CASE reset
  <2>1. /\ messages' = <<>>
        /\ UNCHANGED <<out, pc, context, added, mode, answered, escaped, aborted>>
    BY <1>21 DEF reset, locals
  <2>2. Shown' = Shown /\ Asked' = Asked /\ (Live' <=> Live)
    BY <2>1 DEF Shown, Asked, Live
  <2>3. messages' \o owed = owed
    BY <1>none, <1>owed, <2>1
  <2>4. Live => Ends(owed, Shown)
    BY <1>owed, <1>shown, <1>types, EndsParts
  <2>5. ~escaped /\ pc \in {"ending", "failing"} => Settled(owed)
    BY <1>owed, <1>types, SettledParts
  <2>6. SeenInv'
    BY <1>owed, <2>1, <2>2, <2>3, <2>4, <2>5 DEF SeenInv
  <2>7. Settled(<<>>)
    BY DEF Settled, AllAnswered, Apart
  <2>8. AnsweredInv'
    BY <2>1, <2>2, <2>7 DEF AnsweredInv
  <2> QED
    BY <2>6, <2>8
<1>22. CASE UNCHANGED vars
  BY <1>22, <1>kept DEF vars, agentState, locals, history
<1> QED
  BY <1>1, <1>2, <1>3, <1>4, <1>5, <1>6, <1>7, <1>8, <1>9, <1>10, <1>11, <1>12, <1>13, <1>14, <1>15,
     <1>16, <1>17, <1>18, <1>19, <1>20, <1>21, <1>22, <1>23
     DEF Next, RunStep, Environment, Caller

-----------------------------------------------------------------------------
(* The theorems.                                                           *)

\* The invariants of requests and tool calls hold together.
LEMMA SeenInvariant == Spec => [](TypeOK /\ RunShape /\ ContextShape /\ SeenInv /\ AnsweredInv)
<1>1. Spec => [](TypeOK /\ RunShape)
  BY TypeInvariant
<1>2. Spec => [](TypeOK /\ RunShape /\ ContextShape /\ OrderInv)
  <2>1. TypeOK /\ RunShape /\ ContextShape /\ OrderInv /\ [Next]_vars => OrderInv'
    BY NextOrder
  <2> QED
    BY <1>1, <2>1, InitOrder, ContextShapeInvariant, PTL DEF Spec
<1> QED
  BY <1>2, InitSeen, NextSeen, PTL DEF Spec

\* A request is built from the transcript: the loop's own context ends with the messages of
\* the transcript, whatever resets, aborts and failures came before it (_run_loop keeps
\* current_context.messages, Agent._process_events the transcript).
THEOREM RequestSeesTranscriptInvariant == Spec => []RequestSeesTranscript
<1>1. TypeOK /\ RunShape /\ SeenInv => RequestSeesTranscript
  <2> SUFFICES ASSUME TypeOK, RunShape, SeenInv, pc \in {"convert", "request"}
               PROVE  LET n == Len(context) - (IF added THEN 1 ELSE 0)
                      IN  /\ Len(messages) <= n
                          /\ \A i \in DOMAIN messages : context[n - Len(messages) + i] = messages[i]
    BY DEF RequestSeesTranscript
  <2>1. messages \in Seq(Message) /\ context \in Seq(Message) /\ out = <<>>
    BY DEF TypeOK, AgentStateType, LocalType, RunShape
  <2>2. PICK owed \in Seq(Message) : Owes(out, owed) /\ Ends(messages \o owed, Shown)
    BY DEF SeenInv, Live
  <2>3. owed = <<>> /\ messages \o owed = messages
    BY <2>1, <2>2, OwesNothing, ConcatLaws
  <2>4. PICK p \in Seq(Message) : Shown = p \o messages
    BY <2>2, <2>3 DEF Ends
  <2>5. PICK n, k, l : n = Len(context) - (IF added THEN 1 ELSE 0) /\ k = Len(messages) /\ l = Len(p)
    OBVIOUS
  <2>6. /\ k \in Nat /\ l \in Nat /\ Len(Shown) = l + k
        /\ \A i \in DOMAIN messages : Shown[l + i] = messages[i]
        /\ DOMAIN messages = 1..k
    <3>1. /\ Len(p \o messages) = Len(p) + Len(messages)
          /\ \A i \in DOMAIN messages : (p \o messages)[Len(p) + i] = messages[i]
      <4>1. messages \in Seq(Message)
        BY <2>1
      <4> QED
        BY <4>1, ConcatParts
    <3> QED
      BY <2>1, <2>4, <2>5, <3>1
  <2>7. Len(Shown) = n /\ \A i \in 1..n : Shown[i] = context[i]
    <3>1. CASE added
      <4>1. context # <<>> /\ Shown = Front(context)
        BY <3>1 DEF RunShape, Shown
      <4>2. Len(context) \in Nat \ {0} /\ n = Len(context) - 1
        BY <2>1, <2>5, <3>1, <4>1
      <4>3. n \in Nat /\ n <= Len(context) /\ Shown = SubSeq(context, 1, n)
        BY <4>1, <4>2 DEF Front
      <4> QED
        BY <2>1, <4>3
    <3>2. CASE ~added
      <4>1. Shown = context /\ n = Len(context)
        BY <2>1, <2>5, <3>2 DEF Shown
      <4> QED
        BY <4>1
    <3> QED
      BY <3>1, <3>2
  <2>8. n = l + k /\ n \in Nat
    BY <2>6, <2>7
  <2>9. k <= n
    BY <2>6, <2>8
  <2>10. ASSUME NEW i \in 1..k PROVE context[n - k + i] = messages[i]
    <3>1. n - k + i = l + i /\ l + i \in 1..n
      BY <2>6, <2>8
    <3> QED
      BY <2>6, <2>7, <3>1
  <2> QED
    BY <2>5, <2>6, <2>9, <2>10
<1> QED
  BY <1>1, SeenInvariant, PTL

\* In the context that _stream_assistant_response hands to convertToLlm every tool call of a
\* response is followed by its results in call order or by the report of the abort or failure
\* that cut the batch short (the dict and the AssistantMessage that _handle_run_failure and
\* _stop_if_aborted leave in the transcript), and no result stands behind a failed response.
THEOREM ToolCallsAnsweredInvariant == Spec => []ToolCallsAnswered
<1>1. TypeOK /\ RunShape /\ ContextShape /\ AnsweredInv => ToolCallsAnswered
  <2> SUFFICES ASSUME TypeOK, RunShape, ContextShape, AnsweredInv, pc \in {"convert", "request"}, ~escaped
               PROVE  Settled(context)
    BY DEF ToolCallsAnswered, Settled, AllAnswered, Apart, AnswerAt, Closes
  <2>1. Settled(Asked) /\ context \in Seq(Message)
    BY DEF AnsweredInv, TypeOK, LocalType
  <2>2. CASE ~added
    BY <2>1, <2>2 DEF Asked
  <2>3. CASE added
    <3>1. Asked = Front(context) /\ context # <<>> /\ Last(context) = Partial
      BY <2>3 DEF Asked, RunShape, ContextShape
    <3>2. Front(context) \in Seq(Message) /\ context = Front(context) \o <<Partial>> /\ Partial \in Message
      BY <2>1, <3>1, MessagesTyped, FrontLast
    <3>3. <<Partial>> \in Seq(Message) /\ NoCalls(<<Partial>>)
      <4>1. PICK x : x = Partial
        OBVIOUS
      <4>2. DOMAIN <<x>> = {1} /\ <<x>>[1] = x /\ x \in Message
        BY <3>2, <4>1
      <4>3. x.kind \notin {"assistant", "toolResult"}
        BY <4>1 DEF Partial, Assistant
      <4> QED
        BY <4>1, <4>2, <4>3 DEF NoCalls
    <3> QED
      BY <2>1, <3>1, <3>2, <3>3, SettledNoCalls
  <2> QED
    BY <2>2, <2>3
<1> QED
  BY <1>1, SeenInvariant, PTL

=============================================================================
