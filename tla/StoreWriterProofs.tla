-------------------------- MODULE StoreWriterProofs --------------------------
(***************************************************************************)
(* The store writer queue implements a serial executor, and no queue is    *)
(* left without a drain, for every set of stores and number of writes.     *)
(***************************************************************************)
EXTENDS StoreWriterQueue, TLAPS

Types ==
  /\ path \in [Ops -> Stores]
  /\ queues \in SUBSET Stores
  /\ pending \in [Stores -> Seq(Ops)]
  /\ draining \in [Stores -> BOOLEAN]
  /\ scheduled \in [Stores -> Nat]
  /\ starting \in [Stores -> Nat]
  /\ writing \in SUBSET Ops
  /\ future \in [Ops -> {"none", "pending", "resolved", "rejected", "cancelled"}]

\* Writes are numbered in the order of the calls, and only called ones are executed.
Called ==
  /\ \A i, j \in Ops : j < i /\ future[i] # "none" => future[j] # "none"
  /\ \A i \in writing : future[i] # "none"

\* A queue holds called writes of its store, oldest first, and none that is under way.
QueueShape ==
  \A p \in Stores :
    /\ \A n \in DOMAIN pending[p] : /\ path[pending[p][n]] = p
                                    /\ future[pending[p][n]] # "none"
                                    /\ pending[p][n] \notin writing
    /\ \A m, n \in DOMAIN pending[p] : m < n => pending[p][m] < pending[p][n]

\* At most one _do_drain of a store is beginning or awaits a fn, and only while
\* drainPromise is set.
OneDrain ==
  /\ \A i, j \in writing : path[i] = path[j] => i = j
  /\ \A i \in writing : draining[path[i]] /\ starting[path[i]] = 0
  /\ \A p \in Stores : starting[p] > 0 => starting[p] = 1 /\ draining[p]

SWInv == Types /\ Called /\ QueueShape /\ OneDrain /\ NoIdleQueue

-----------------------------------------------------------------------------
(* Sequences.                                                              *)

\* What a queue is after its head was taken.
LEMMA HeadTail ==
  ASSUME NEW S, NEW q \in Seq(S), q # <<>>
  PROVE  /\ 1 \in DOMAIN q /\ Head(q) = q[1] /\ Head(q) \in S
         /\ Tail(q) \in Seq(S)
         /\ \A n \in DOMAIN Tail(q) : n + 1 \in DOMAIN q /\ Tail(q)[n] = q[n + 1]
         /\ \A n \in DOMAIN q : n # 1 => n - 1 \in DOMAIN Tail(q) /\ Tail(q)[n - 1] = q[n]
         /\ \A n \in DOMAIN q : n \in Nat \ {0}
         /\ \A n \in DOMAIN Tail(q) : n \in Nat \ {0}
  OBVIOUS

\* What a queue is after a write was appended.
LEMMA AppendAtEnd ==
  ASSUME NEW S, NEW q \in Seq(S), NEW x \in S
  PROVE  /\ Append(q, x) \in Seq(S) /\ Append(q, x) # <<>>
         /\ \A n \in DOMAIN q : n \in DOMAIN Append(q, x) /\ Append(q, x)[n] = q[n] /\ n <= Len(q) /\ n \in Nat
         /\ Len(q) + 1 \in DOMAIN Append(q, x) /\ Append(q, x)[Len(q) + 1] = x
         /\ \A n \in DOMAIN Append(q, x) : n \in DOMAIN q \/ n = Len(q) + 1
         /\ Len(q) \in Nat
  OBVIOUS

-----------------------------------------------------------------------------
(* The invariant.                                                          *)

\* Nothing is queued at first.
LEMMA InitSWInv == Init => SWInv
  <1> SUFFICES ASSUME Init
               PROVE  SWInv
    OBVIOUS
  <1>1. \A p \in Stores : pending[p] = <<>> /\ draining[p] = FALSE /\ starting[p] = 0
    BY DEF Init
  <1>2. Types
    BY DEF Init, Types
  <1>3. Called /\ OneDrain
    BY <1>1 DEF Init, Called, OneDrain
  <1>4. QueueShape
    BY <1>1 DEF QueueShape
  <1>5. NoIdleQueue
    BY <1>1 DEF Init, NoIdleQueue
  <1> QED
    BY <1>2, <1>3, <1>4, <1>5 DEF SWInv

\* A new write is younger than everything queued.
LEMMA CallStep ==
  ASSUME SWInv, NEW i \in Ops, run_queued_store_write(i)
  PROVE  SWInv'
  <1> DEFINE p == path[i]
             q == pending[path[i]]
  <1> USE DEF SWInv
  <1>1. p \in Stores /\ q \in Seq(Ops) /\ i \notin writing /\ future[i] = "none"
    BY DEF Types, Called, run_queued_store_write
  <1>2. /\ pending' = [pending EXCEPT ![p] = Append(q, i)]
        /\ queues' = queues \cup {p}
        /\ scheduled' = [scheduled EXCEPT ![p] = @ + 1]
        /\ future' = [future EXCEPT ![i] = "pending"]
        /\ \A j \in Ops : j < i => future[j] # "none"
        /\ path' = path /\ draining' = draining /\ starting' = starting /\ writing' = writing
    BY DEF run_queued_store_write
  <1>3. /\ Append(q, i) \in Seq(Ops) /\ Append(q, i) # <<>>
        /\ \A n \in DOMAIN q : n \in DOMAIN Append(q, i) /\ Append(q, i)[n] = q[n] /\ n <= Len(q) /\ n \in Nat
        /\ Append(q, i)[Len(q) + 1] = i
        /\ \A n \in DOMAIN Append(q, i) : n \in DOMAIN q \/ n = Len(q) + 1
        /\ Len(q) \in Nat
    BY <1>1, AppendAtEnd
  <1>4. \A x \in Stores : pending'[x] = IF x = p THEN Append(q, i) ELSE pending[x]
    BY <1>1, <1>2 DEF Types
  <1>5. \A j \in Ops : future'[j] = IF j = i THEN "pending" ELSE future[j]
    BY <1>2 DEF Types
  <1>6. \A n \in DOMAIN q : q[n] \in Ops /\ future[q[n]] # "none" /\ path[q[n]] = p /\ q[n] \notin writing
    BY <1>1 DEF QueueShape, Types
  <1>7. \A n \in DOMAIN q : q[n] < i
    <2> SUFFICES ASSUME NEW n \in DOMAIN q
                 PROVE  q[n] < i
      OBVIOUS
    <2>1. q[n] # i /\ ~(i < q[n])
      BY <1>1, <1>6 DEF Called
    <2>2. q[n] \in Nat /\ i \in Nat
      BY <1>6, Workload DEF Ops
    <2> HIDE DEF q
    <2> QED
      BY <2>1, <2>2
  <1>8. Types'
    <2>1. pending \in [Stores -> Seq(Ops)] /\ Append(q, i) \in Seq(Ops) /\ p \in Stores
      BY <1>1, <1>3 DEF Types
    <2> HIDE DEF q, p
    <2>2. pending' \in [Stores -> Seq(Ops)]
      BY <1>2, <2>1
    <2>3. scheduled' \in [Stores -> Nat] /\ queues' \in SUBSET Stores
      BY <1>2, <2>1 DEF Types
    <2>4. future' \in [Ops -> {"none", "pending", "resolved", "rejected", "cancelled"}]
      BY <1>2 DEF Types
    <2> QED
      BY <1>2, <2>2, <2>3, <2>4 DEF Types
  <1>9. Called'
    BY <1>1, <1>2, <1>5 DEF Called, Types
  <1>10. QueueShape'
    <2> SUFFICES ASSUME NEW x \in Stores
                 PROVE  /\ \A n \in DOMAIN pending'[x] : /\ path'[pending'[x][n]] = x
                                                         /\ future'[pending'[x][n]] # "none"
                                                         /\ pending'[x][n] \notin writing'
                        /\ \A m, n \in DOMAIN pending'[x] : m < n => pending'[x][m] < pending'[x][n]
      BY DEF QueueShape
    <2>1. CASE x = p
      <3>1. pending'[x] = Append(q, i)
        BY <1>4, <2>1
      <3>2. \A n \in DOMAIN Append(q, i) : /\ path[Append(q, i)[n]] = p
                                           /\ future'[Append(q, i)[n]] # "none"
                                           /\ Append(q, i)[n] \notin writing
        BY <1>1, <1>3, <1>5, <1>6
      <3>3. ASSUME NEW m \in DOMAIN Append(q, i), NEW n \in DOMAIN Append(q, i), m < n
            PROVE  Append(q, i)[m] < Append(q, i)[n]
        <4>1. CASE n \in DOMAIN q
          <5>1. m \in DOMAIN q
            BY <1>3, <3>3, <4>1
          <5> QED
            BY <1>1, <1>3, <3>3, <4>1, <5>1 DEF QueueShape
        <4>2. CASE n = Len(q) + 1
          <5>1. m \in DOMAIN q
            BY <1>3, <3>3, <4>2
          <5> QED
            BY <1>3, <1>7, <4>2, <5>1
        <4> QED
          BY <1>3, <4>1, <4>2
      <3> HIDE DEF p, q
      <3> QED
        BY <1>2, <2>1, <3>1, <3>2, <3>3
    <2>2. CASE x # p
      <3>1. pending'[x] = pending[x]
        BY <1>4, <2>2
      <3>2. \A n \in DOMAIN pending[x] : pending[x][n] \in Ops
        BY DEF Types
      <3>3. \A n \in DOMAIN pending[x] : future'[pending[x][n]] # "none"
        BY <1>5, <3>2 DEF QueueShape
      <3>4. \A n \in DOMAIN pending[x] : /\ path'[pending[x][n]] = x
                                         /\ pending[x][n] \notin writing'
        BY <1>2 DEF QueueShape
      <3>5. \A m, n \in DOMAIN pending[x] : m < n => pending[x][m] < pending[x][n]
        BY DEF QueueShape
      <3> QED
        BY <3>1, <3>3, <3>4, <3>5
    <2> QED
      BY <2>1, <2>2
  <1>11. OneDrain'
    BY <1>2 DEF OneDrain
  <1>12. NoIdleQueue'
    <2>1. \A x \in Stores : scheduled'[x] = IF x = p THEN scheduled[x] + 1 ELSE scheduled[x]
      BY <1>2 DEF Types
    <2>2. scheduled[p] \in Nat
      BY <1>1 DEF Types
    <2>3. \A x \in Stores : x \in queues' <=> draining[x] \/ pending'[x] # <<>>
      BY <1>1, <1>2, <1>3, <1>4 DEF NoIdleQueue
    <2>4. \A x \in Stores : pending'[x] # <<>> => draining[x] \/ scheduled'[x] > 0
      BY <1>1, <1>4, <2>1, <2>2 DEF NoIdleQueue
    <2>5. \A x \in Stores : starting[x] > 0 => pending'[x] # <<>>
      BY <1>3, <1>4 DEF NoIdleQueue
    <2> HIDE DEF p, q
    <2> QED
      BY <1>2, <2>3, <2>4, <2>5 DEF NoIdleQueue
  <1> QED
    BY <1>8, <1>9, <1>10, <1>11, <1>12

\* A scheduled drain starts one _do_drain, and only when none is under way.
LEMMA DrainStep ==
  ASSUME SWInv, NEW p \in Stores, _drain_store_writer_queue(p)
  PROVE  SWInv'
  <1> USE DEF SWInv
  <1>1. /\ path' = path /\ queues' = queues /\ pending' = pending /\ writing' = writing /\ future' = future
        /\ scheduled[p] > 0
        /\ scheduled' = [scheduled EXCEPT ![p] = @ - 1]
        /\ starting' = IF p \in queues /\ ~draining[p] THEN [starting EXCEPT ![p] = @ + 1] ELSE starting
        /\ draining' = [draining EXCEPT ![p] = @ \/ p \in queues]
    BY DEF _drain_store_writer_queue
  <1>2. /\ \A x \in Stores : x # p => /\ draining'[x] = draining[x] /\ starting'[x] = starting[x]
                                      /\ scheduled'[x] = scheduled[x]
        /\ draining'[p] = (draining[p] \/ p \in queues)
        /\ starting'[p] = IF p \in queues /\ ~draining[p] THEN starting[p] + 1 ELSE starting[p]
    BY <1>1 DEF Types
  <1>3. Types'
    BY <1>1 DEF Types
  <1>4. Called' /\ QueueShape'
    BY <1>1 DEF Called, QueueShape
  <1>5. starting[p] \in Nat /\ (~draining[p] => starting[p] = 0)
    BY DEF Types, OneDrain
  <1>6. OneDrain'
    <2>1. \A i \in writing : draining'[path[i]] /\ starting'[path[i]] = 0
      BY <1>2 DEF OneDrain, Types
    <2>2. ASSUME NEW x \in Stores, starting'[x] > 0
          PROVE  starting'[x] = 1 /\ draining'[x]
      <3>1. CASE x # p
        BY <1>2, <2>2, <3>1 DEF OneDrain
      <3>2. CASE x = p /\ p \in queues /\ ~draining[p]
        <4>1. starting'[p] = 1
          BY <1>2, <1>5, <3>2
        <4>2. draining'[p]
          BY <1>2, <3>2, Zenon
        <4> QED
          BY <3>2, <4>1, <4>2
      <3>3. CASE x = p /\ ~(p \in queues /\ ~draining[p])
        <4>1. starting'[p] = starting[p]
          BY <1>2, <3>3
        <4> QED
          BY <1>2, <2>2, <3>3, <4>1 DEF OneDrain
      <3> QED
        BY <3>1, <3>2, <3>3
    <2> QED
      BY <1>1, <2>1, <2>2 DEF OneDrain
  <1>7. NoIdleQueue'
    <2>1. \A x \in Stores : x \in queues <=> draining'[x] \/ pending[x] # <<>>
      BY <1>2 DEF NoIdleQueue
    <2>2. \A x \in Stores : pending[x] # <<>> => draining'[x] \/ scheduled'[x] > 0
      BY <1>2 DEF NoIdleQueue
    <2>3. \A x \in Stores : starting'[x] > 0 => pending[x] # <<>>
      BY <1>2, <1>5 DEF NoIdleQueue
    <2> QED
      BY <1>1, <2>1, <2>2, <2>3 DEF NoIdleQueue
  <1> QED
    BY <1>3, <1>4, <1>6, <1>7

\* What TakeNext makes of the queue: its oldest write is under way.
LEMMA TakeStep ==
  ASSUME SWInv, NEW p \in Stores, NEW done \in SUBSET writing, TakeNext(p, done),
         draining[p], starting'[p] = 0,
         \A x \in Stores : x # p => starting'[x] = starting[x],
         \A i \in writing : path[i] = p => i \in done,
         \A i \in done : path[i] = p,
         starting' \in [Stores -> Nat],
         path' = path,
         future' \in [Ops -> {"none", "pending", "resolved", "rejected", "cancelled"}],
         \A i \in Ops : future'[i] = "none" <=> future[i] = "none"
  PROVE  SWInv'
  <1> DEFINE q == pending[p]
             h == Head(pending[p])
  <1> USE DEF SWInv
  <1>1. /\ q # <<>> /\ q \in Seq(Ops)
        /\ writing' = (writing \ done) \cup {h}
        /\ pending' = [pending EXCEPT ![p] = Tail(q)]
        /\ queues' = queues /\ draining' = draining /\ scheduled' = scheduled
    BY DEF TakeNext, Types
  <1>2. /\ 1 \in DOMAIN q /\ h = q[1] /\ h \in Ops
        /\ Tail(q) \in Seq(Ops)
        /\ \A n \in DOMAIN Tail(q) : n + 1 \in DOMAIN q /\ Tail(q)[n] = q[n + 1] /\ n \in Nat \ {0}
    BY <1>1, HeadTail
  <1>3. \A x \in Stores : pending'[x] = IF x = p THEN Tail(q) ELSE pending[x]
    BY <1>1 DEF Types
  <1>4. path[h] = p /\ future[h] # "none" /\ h \notin writing
    BY <1>2 DEF QueueShape
  <1>5. Types'
    BY <1>1, <1>2 DEF Types
  <1>6. Called'
    BY <1>1, <1>2, <1>4 DEF Called, Types
  <1>7. QueueShape'
    <2> SUFFICES ASSUME NEW x \in Stores
                 PROVE  /\ \A n \in DOMAIN pending'[x] : /\ path'[pending'[x][n]] = x
                                                         /\ future'[pending'[x][n]] # "none"
                                                         /\ pending'[x][n] \notin writing'
                        /\ \A m, n \in DOMAIN pending'[x] : m < n => pending'[x][m] < pending'[x][n]
      BY DEF QueueShape
    <2>1. CASE x = p
      <3>1. pending'[x] = Tail(q)
        BY <1>3, <2>1
      <3>2. ASSUME NEW n \in DOMAIN Tail(q)
            PROVE  path[Tail(q)[n]] = p /\ future'[Tail(q)[n]] # "none" /\ Tail(q)[n] \notin writing'
        <4>1. n + 1 \in DOMAIN q /\ Tail(q)[n] = q[n + 1] /\ 1 < n + 1
          BY <1>2
        <4>2. q[n + 1] \in Ops /\ path[q[n + 1]] = p /\ future[q[n + 1]] # "none" /\ q[n + 1] \notin writing
          BY <1>1, <4>1 DEF QueueShape
        <4>3. q[1] < q[n + 1]
          BY <1>2, <4>1 DEF QueueShape
        <4>4. q[1] \in Nat /\ q[n + 1] \in Nat
          BY <1>2, <4>2, Workload DEF Ops
        <4> HIDE DEF q, h
        <4>5. h # q[n + 1]
          BY <1>2, <4>3, <4>4
        <4> QED
          BY <1>1, <4>1, <4>2, <4>5
      <3>3. ASSUME NEW m \in DOMAIN Tail(q), NEW n \in DOMAIN Tail(q), m < n
            PROVE  Tail(q)[m] < Tail(q)[n]
        <4>1. m + 1 \in DOMAIN q /\ n + 1 \in DOMAIN q /\ m + 1 < n + 1
          BY <1>2, <3>3
        <4>2. q[m + 1] < q[n + 1]
          BY <4>1 DEF QueueShape
        <4> QED
          BY <1>2, <4>2
      <3> HIDE DEF q, h
      <3> QED
        BY <2>1, <3>1, <3>2, <3>3
    <2>2. CASE x # p
      <3>1. pending'[x] = pending[x]
        BY <1>3, <2>2
      <3>2. \A n \in DOMAIN pending[x] : /\ pending[x][n] \in Ops
                                         /\ path[pending[x][n]] = x
                                         /\ future[pending[x][n]] # "none"
                                         /\ pending[x][n] \notin writing
        BY DEF Types, QueueShape
      <3>3. \A n \in DOMAIN pending[x] : pending[x][n] # h
        BY <1>4, <2>2, <3>2
      <3>4. \A m, n \in DOMAIN pending[x] : m < n => pending[x][m] < pending[x][n]
        BY DEF QueueShape
      <3> HIDE DEF q, h
      <3>5. \A n \in DOMAIN pending[x] : /\ path'[pending[x][n]] = x
                                         /\ future'[pending[x][n]] # "none"
                                         /\ pending[x][n] \notin writing'
        BY <1>1, <3>2, <3>3
      <3> QED
        BY <3>1, <3>4, <3>5
    <2> QED
      BY <2>1, <2>2
  <1>8. OneDrain'
    <2>1. \A i \in writing' : i = h \/ (i \in writing /\ path[i] # p)
      BY <1>1
    <2>2. \A i, j \in writing' : path[i] = path[j] => i = j
      BY <1>4, <2>1 DEF OneDrain
    <2>3. \A i \in writing' : draining[path[i]] /\ starting'[path[i]] = 0
      BY <1>4, <2>1 DEF OneDrain, Types
    <2>4. \A x \in Stores : starting'[x] > 0 => starting'[x] = 1 /\ draining[x]
      BY DEF OneDrain
    <2> QED
      BY <1>1, <2>2, <2>3, <2>4 DEF OneDrain
  <1>9. NoIdleQueue'
    <2>1. \A x \in Stores : x # p => pending'[x] = pending[x]
      BY <1>3
    <2> QED
      BY <1>1, <2>1 DEF NoIdleQueue
  <1> QED
    BY <1>5, <1>6, <1>7, <1>8, <1>9

\* When _do_drain ends, its store has no writer, and what is queued has a drain scheduled.
LEMMA FinallyStep ==
  ASSUME SWInv, NEW i \in writing, Finally(path[i], {i}), UNCHANGED <<path, starting>>,
         future' \in [Ops -> {"none", "pending", "resolved", "rejected", "cancelled"}],
         \A j \in Ops : future'[j] = "none" <=> future[j] = "none"
  PROVE  SWInv'
  <1> DEFINE p == path[i]
  <1> USE DEF SWInv
  <1>1. i \in Ops /\ p \in Stores /\ draining[p] /\ starting[p] = 0
    BY DEF Types, OneDrain
  <1>2. /\ draining' = [draining EXCEPT ![p] = FALSE]
        /\ writing' = writing \ {i}
        /\ pending' = pending
        /\ \/ pending[p] # <<>> /\ scheduled' = [scheduled EXCEPT ![p] = @ + 1] /\ queues' = queues
           \/ pending[p] = <<>> /\ queues' = queues \ {p} /\ scheduled' = scheduled
    BY DEF Finally
  <1>3. draining'[p] = FALSE /\ \A x \in Stores : x # p => draining'[x] = draining[x]
    BY <1>1, <1>2 DEF Types
  <1>4. Types'
    <2>1. scheduled' \in [Stores -> Nat]
      <3>1. CASE scheduled' = [scheduled EXCEPT ![p] = @ + 1]
        BY <1>1, <3>1 DEF Types
      <3>2. CASE scheduled' = scheduled
        BY <3>2 DEF Types
      <3> QED
        BY <1>2, <3>1, <3>2
    <2>2. queues' \in SUBSET Stores /\ writing' \in SUBSET Ops /\ draining' \in [Stores -> BOOLEAN]
      BY <1>1, <1>2 DEF Types
    <2> QED
      BY <1>2, <2>1, <2>2 DEF Types
  <1>5. Called'
    BY <1>2 DEF Called, Types
  <1>6. QueueShape'
    <2> SUFFICES ASSUME NEW x \in Stores
                 PROVE  /\ \A n \in DOMAIN pending'[x] : /\ path'[pending'[x][n]] = x
                                                         /\ future'[pending'[x][n]] # "none"
                                                         /\ pending'[x][n] \notin writing'
                        /\ \A m, n \in DOMAIN pending'[x] : m < n => pending'[x][m] < pending'[x][n]
      BY DEF QueueShape
    <2>1. \A n \in DOMAIN pending[x] : pending[x][n] \in Ops /\ future[pending[x][n]] # "none"
      BY DEF Types, QueueShape
    <2>2. \A n \in DOMAIN pending[x] : future'[pending[x][n]] # "none"
      BY <2>1
    <2>3. /\ \A n \in DOMAIN pending[x] : path[pending[x][n]] = x /\ pending[x][n] \notin writing'
          /\ \A m, n \in DOMAIN pending[x] : m < n => pending[x][m] < pending[x][n]
      BY <1>2 DEF QueueShape
    <2> QED
      BY <1>2, <2>2, <2>3
  <1>7. OneDrain'
    <2>1. \A j \in writing' : j \in writing /\ path[j] # p
      BY <1>2 DEF OneDrain
    <2>2. \A j \in writing' : draining'[path[j]] /\ starting[path[j]] = 0
      BY <1>3, <2>1 DEF OneDrain, Types
    <2>3. \A x \in Stores : starting[x] > 0 => starting[x] = 1 /\ draining'[x]
      BY <1>1, <1>3 DEF OneDrain
    <2>4. \A j, k \in writing' : path[j] = path[k] => j = k
      BY <2>1 DEF OneDrain
    <2> QED
      BY <2>2, <2>3, <2>4 DEF OneDrain
  <1>8. NoIdleQueue'
    <2>1. \A x \in Stores : x \in queues' <=> draining'[x] \/ pending[x] # <<>>
      <3>1. CASE pending[p] # <<>>
        BY <1>1, <1>2, <1>3, <3>1 DEF NoIdleQueue
      <3>2. CASE pending[p] = <<>>
        BY <1>1, <1>2, <1>3, <3>2 DEF NoIdleQueue
      <3> QED
        BY <3>1, <3>2
    <2>2. \A x \in Stores : pending[x] # <<>> => draining'[x] \/ scheduled'[x] > 0
      <3>1. CASE pending[p] # <<>>
        <4>1. scheduled'[p] > 0 /\ \A x \in Stores : x # p => scheduled'[x] = scheduled[x]
          BY <1>1, <1>2, <3>1 DEF Types
        <4> QED
          BY <1>3, <4>1 DEF NoIdleQueue
      <3>2. CASE pending[p] = <<>>
        BY <1>2, <1>3, <3>2 DEF NoIdleQueue
      <3> QED
        BY <3>1, <3>2
    <2>3. \A x \in Stores : starting[x] > 0 => pending[x] # <<>>
      BY DEF NoIdleQueue
    <2> QED
      BY <1>2, <2>1, <2>2, <2>3 DEF NoIdleQueue
  <1> QED
    BY <1>4, <1>5, <1>6, <1>7, <1>8

\* The end of a write's fn: the drain goes on with the next write or ends.
LEMMA FnStep ==
  ASSUME SWInv, NEW i \in Ops, FnEnds(i)
  PROVE  /\ SWInv'
         /\ i \in writing
         /\ TakeNext(path[i], {i}) \/ Finally(path[i], {i})
         /\ \A j \in Ops : future'[j] = "none" <=> future[j] = "none"
  <1>1. i \in writing /\ path' = path /\ starting' = starting /\ (TakeNext(path[i], {i}) \/ Finally(path[i], {i}))
    BY DEF FnEnds
  <1>2. /\ path[i] \in Stores /\ draining[path[i]] /\ starting[path[i]] = 0
        /\ starting \in [Stores -> Nat] /\ future[i] # "none"
        /\ future \in [Ops -> {"none", "pending", "resolved", "rejected", "cancelled"}]
        /\ \A j \in writing : path[j] = path[i] => j \in {i}
    BY <1>1 DEF SWInv, Types, OneDrain, Called
  <1>3. /\ future' \in [Ops -> {"none", "pending", "resolved", "rejected", "cancelled"}]
        /\ \A j \in Ops : future'[j] = "none" <=> future[j] = "none"
    BY <1>2 DEF FnEnds
  <1>4. CASE TakeNext(path[i], {i})
    BY <1>1, <1>2, <1>3, <1>4, TakeStep
  <1>5. CASE Finally(path[i], {i})
    BY <1>1, <1>3, <1>5, FinallyStep
  <1> QED
    BY <1>1, <1>3, <1>4, <1>5

\* The beginning of _do_drain: no write of the store is under way.
LEMMA BeginStep ==
  ASSUME SWInv, NEW p \in Stores, DoDrainBegins(p)
  PROVE  SWInv' /\ \A i \in writing : path[i] # p
  <1>1. /\ starting[p] = 1 /\ draining[p] /\ \A i \in writing : path[i] # p
        /\ starting \in [Stores -> Nat]
        /\ future \in [Ops -> {"none", "pending", "resolved", "rejected", "cancelled"}]
    BY DEF SWInv, OneDrain, Types, DoDrainBegins
  <1>2. TakeNext(p, {}) /\ starting' = [starting EXCEPT ![p] = @ - 1] /\ path' = path /\ future' = future
    BY DEF DoDrainBegins
  <1>3. /\ starting'[p] = 0 /\ \A x \in Stores : x # p => starting'[x] = starting[x]
        /\ starting' \in [Stores -> Nat]
    BY <1>1, <1>2
  <1> QED
    BY <1>1, <1>2, <1>3, TakeStep

\* Every step keeps the invariant.
LEMMA NextSWInv == SWInv /\ [Next]_vars => SWInv'
  <1> SUFFICES ASSUME SWInv, [Next]_vars
               PROVE  SWInv'
    OBVIOUS
  <1>1. ASSUME NEW i \in Ops, CancelCaller(i)
        PROVE  SWInv'
    <2>1. /\ path' = path /\ queues' = queues /\ pending' = pending /\ draining' = draining
          /\ scheduled' = scheduled /\ starting' = starting /\ writing' = writing
          /\ future' = [future EXCEPT ![i] = "cancelled"]
      BY <1>1 DEF CancelCaller
    <2>2. \A j \in Ops : future[j] # "none" => future'[j] # "none"
      BY <2>1 DEF SWInv, Types
    <2>3. \A j \in Ops : future'[j] # "none" => future[j] # "none"
      BY <1>1, <2>1 DEF SWInv, Types, CancelCaller
    <2>4. Types'
      BY <2>1 DEF SWInv, Types
    <2>5. Called'
      BY <2>1, <2>2, <2>3 DEF SWInv, Types, Called
    <2>6. QueueShape'
      <3>1. \A p \in Stores : \A n \in DOMAIN pending[p] : pending[p][n] \in Ops
        BY DEF SWInv, Types
      <3> QED
        BY <2>1, <2>2, <3>1 DEF SWInv, QueueShape
    <2>7. OneDrain' /\ NoIdleQueue'
      BY <2>1 DEF SWInv, OneDrain, NoIdleQueue
    <2> QED
      BY <2>4, <2>5, <2>6, <2>7 DEF SWInv
  <1>2. CASE UNCHANGED vars
    BY <1>2 DEF vars, SWInv, Types, Called, QueueShape, OneDrain, NoIdleQueue
  <1> QED
    BY <1>1, <1>2, CallStep, DrainStep, BeginStep, FnStep DEF Next, TaskStep

\* The invariant holds in every reachable state.
LEMMA SWInvHolds == Spec => []SWInv
  BY InitSWInv, NextSWInv, PTL DEF Spec

\* The queues dict and the drains agree, for any stores and writes: no entry is left over and
\* no queued write is left without a drain (run_queued_store_write and _do_drain).
THEOREM NoIdleQueueInvariant == Spec => []NoIdleQueue
  BY SWInvHolds, PTL DEF SWInv

-----------------------------------------------------------------------------
(* The refinement.                                                         *)

\* A call arrives in the executor; every other operation stays where it is.
LEMMA Arrives ==
  ASSUME SWInv, NEW i \in Ops, run_queued_store_write(i)
  PROVE  /\ Status(i) = "none" /\ Status(i)' = "waiting"
         /\ \A j \in Ops : j < i => Status(j) # "none"
         /\ \A j \in Ops : j # i => Status(j)' = Status(j)
  <1> DEFINE p == path[i]
             q == pending[path[i]]
  <1>1. p \in Stores /\ q \in Seq(Ops) /\ i \notin writing /\ future[i] = "none"
    BY DEF SWInv, Types, Called, run_queued_store_write
  <1>2. /\ \A j \in Ops : j < i => future[j] # "none"
        /\ path' = path /\ writing' = writing
        /\ future'[i] = "pending" /\ \A j \in Ops : j # i => future'[j] = future[j]
        /\ \A x \in Stores : pending'[x] = IF x = p THEN Append(q, i) ELSE pending[x]
    BY <1>1 DEF SWInv, Types, run_queued_store_write
  <1>3. /\ \A n \in DOMAIN q : n \in DOMAIN Append(q, i) /\ Append(q, i)[n] = q[n]
        /\ Len(q) + 1 \in DOMAIN Append(q, i) /\ Append(q, i)[Len(q) + 1] = i
        /\ \A n \in DOMAIN Append(q, i) : n \in DOMAIN q \/ n = Len(q) + 1
    BY <1>1, AppendAtEnd
  <1>4. \A j \in Ops : path[j] \in Stores
    BY DEF SWInv, Types
  <1>5. Status(i) = "none"
    BY <1>1 DEF Status
  <1>6. Status(i)' = "waiting"
    <2>1. Queued(i)'
      BY <1>1, <1>2, <1>3 DEF Queued
    <2> QED
      BY <1>1, <1>2, <2>1 DEF Status
  <1>7. \A j \in Ops : j < i => Status(j) # "none"
    BY <1>2 DEF Status
  <1>8. ASSUME NEW j \in Ops, j # i
        PROVE  Status(j)' = Status(j)
    <2>1. Queued(j)' <=> Queued(j)
      <3>1. CASE path[j] = p
        <4>1. pending'[path'[j]] = Append(q, i) /\ pending[path[j]] = q
          BY <1>1, <1>2, <3>1
        <4> HIDE DEF p, q
        <4>2. (\E n \in DOMAIN Append(q, i) : Append(q, i)[n] = j) <=> (\E n \in DOMAIN q : q[n] = j)
          BY <1>3, <1>8
        <4> QED
          BY <4>1, <4>2 DEF Queued
      <3>2. CASE path[j] # p
        BY <1>2, <1>4, <3>2 DEF Queued
      <3> QED
        BY <3>1, <3>2
    <2> QED
      BY <1>2, <1>8, <2>1 DEF Status
  <1> QED
    BY <1>5, <1>6, <1>7, <1>8

\* The oldest waiting write of a store begins when the one under way, if any, ends.
LEMMA Takes ==
  ASSUME SWInv, NEW p \in Stores, NEW done \in SUBSET writing, TakeNext(p, done),
         \A i \in writing : path[i] = p => i \in done,
         \A i \in done : path[i] = p,
         path' = path,
         \A i \in Ops : future'[i] = "none" <=> future[i] = "none"
  PROVE  \E first \in Ops :
           /\ path[first] = p /\ first \notin done /\ Status(first) = "waiting" /\ Status(first)' = "running"
           /\ \A i \in done : Status(i) = "running" /\ Status(i)' = "over"
           /\ \A j \in Ops : j # first /\ j \notin done => Status(j)' = Status(j)
           /\ \A k \in Ops : k < first /\ path[k] = p /\ k \notin done => Status(k) = "over"
  <1> DEFINE q == pending[p]
  <1>0. q # <<>> /\ q \in Seq(Ops)
    BY DEF SWInv, TakeNext, Types
  <1>h. PICK h \in Ops : h = Head(q)
    BY <1>0, HeadTail
  <1>1. /\ q # <<>> /\ q \in Seq(Ops)
        /\ writing' = (writing \ done) \cup {h}
        /\ \A x \in Stores : pending'[x] = IF x = p THEN Tail(q) ELSE pending[x]
        /\ writing \subseteq Ops
    BY <1>h DEF SWInv, TakeNext, Types
  <1>2. /\ 1 \in DOMAIN q /\ h = q[1] /\ h \in Ops
        /\ \A n \in DOMAIN Tail(q) : n + 1 \in DOMAIN q /\ Tail(q)[n] = q[n + 1] /\ n \in Nat \ {0}
        /\ \A n \in DOMAIN q : n # 1 => n - 1 \in DOMAIN Tail(q) /\ Tail(q)[n - 1] = q[n]
        /\ \A n \in DOMAIN q : n \in Nat \ {0}
    BY <1>1, <1>h, HeadTail
  <1>3. /\ \A n \in DOMAIN q : q[n] \in Ops /\ path[q[n]] = p /\ future[q[n]] # "none" /\ q[n] \notin writing
        /\ \A m, n \in DOMAIN q : m < n => q[m] < q[n]
    BY <1>1 DEF SWInv, QueueShape
  <1>4. \A n \in DOMAIN q : n # 1 => q[1] < q[n]
    BY <1>2, <1>3
  <1>5. Ops \subseteq Nat /\ \A j \in Ops : path[j] \in Stores
    BY Workload DEF SWInv, Types, Ops
  <1>6. /\ path[h] = p /\ future[h] # "none" /\ h \notin writing /\ h \notin done
        /\ \A i \in done : i \in writing /\ i \in Ops /\ future[i] # "none"
    BY <1>1, <1>2, <1>3 DEF SWInv, Called
  <1>7. Status(h) = "waiting" /\ Status(h)' = "running"
    <2>1. Queued(h)
      BY <1>2, <1>6 DEF Queued
    <2> QED
      BY <1>1, <1>2, <1>6, <2>1 DEF Status
  <1>8. ASSUME NEW i \in done
        PROVE  Status(i) = "running" /\ Status(i)' = "over"
    <2>1. pending'[path'[i]] = Tail(q) /\ i \in writing /\ i \in Ops
      BY <1>1, <1>6
    <2>2. \A n \in DOMAIN Tail(q) : Tail(q)[n] # i
      BY <1>2, <1>3, <2>1
    <2> HIDE DEF q
    <2>3. ~Queued(i)'
      BY <2>1, <2>2 DEF Queued
    <2>4. i \notin writing' /\ future'[i] # "none" /\ future[i] # "none"
      BY <1>1, <1>6, <2>1
    <2> QED
      BY <2>1, <2>3, <2>4 DEF Status
  <1>9. ASSUME NEW j \in Ops, j # h, j \notin done
        PROVE  Status(j)' = Status(j)
    <2>1. j \in writing' <=> j \in writing
      BY <1>1, <1>9
    <2>2. Queued(j)' <=> Queued(j)
      <3>1. CASE path[j] = p
        <4>1. pending'[path'[j]] = Tail(q) /\ pending[path[j]] = q
          BY <1>1, <3>1
        <4>2. j # q[1]
          BY <1>2, <1>9
        <4> HIDE DEF q
        <4>3. ASSUME NEW n \in DOMAIN Tail(q), Tail(q)[n] = j
              PROVE  \E m \in DOMAIN q : q[m] = j
          BY <1>2, <4>3
        <4>4. ASSUME NEW n \in DOMAIN q, q[n] = j
              PROVE  \E m \in DOMAIN Tail(q) : Tail(q)[m] = j
          BY <1>2, <4>2, <4>4
        <4> QED
          BY <4>1, <4>3, <4>4 DEF Queued
      <3>2. CASE path[j] # p
        BY <1>1, <1>5, <3>2 DEF Queued
      <3> QED
        BY <3>1, <3>2
    <2> QED
      BY <2>1, <2>2 DEF Status
  <1>10. ASSUME NEW k \in Ops, k < h, path[k] = p, k \notin done
         PROVE  Status(k) = "over"
    <2>1. k \notin writing
      BY <1>10
    <2>2. future[k] # "none"
      BY <1>2, <1>6, <1>10 DEF SWInv, Called
    <2>3. \A n \in DOMAIN q : q[n] # k
      <3> SUFFICES ASSUME NEW n \in DOMAIN q, q[n] = k
                   PROVE  FALSE
        OBVIOUS
      <3>1. q[1] \in Nat /\ k \in Nat
        BY <1>2, <1>3, <1>5
      <3>2. q[1] <= k
        BY <1>4, <3>1
      <3> HIDE DEF q
      <3> QED
        BY <1>2, <1>10, <3>1, <3>2
    <2>4. ~Queued(k)
      BY <1>10, <2>3 DEF Queued
    <2> QED
      BY <2>1, <2>2, <2>4 DEF Status
  <1> WITNESS h \in Ops
  <1> QED
    BY <1>6, <1>7, <1>8, <1>9, <1>10

\* A drain that ends leaves its last write behind it and everything else where it is.
LEMMA Ends ==
  ASSUME SWInv, NEW i \in Ops, i \in writing, Finally(path[i], {i}), path' = path,
         \A j \in Ops : future'[j] = "none" <=> future[j] = "none"
  PROVE  /\ Status(i) = "running" /\ Status(i)' = "over"
         /\ \A j \in Ops : j # i => Status(j)' = Status(j)
  <1>1. writing' = writing \ {i} /\ pending' = pending /\ future[i] # "none" /\ path[i] \in Stores
    BY DEF Finally, SWInv, Called, Types
  <1>2. ~Queued(i)
    BY <1>1 DEF Queued, SWInv, QueueShape
  <1>3. \A j \in Ops : Queued(j)' <=> Queued(j)
    BY <1>1 DEF Queued
  <1>4. Status(i) = "running" /\ Status(i)' = "over"
    BY <1>1, <1>2, <1>3 DEF Status
  <1>5. \A j \in Ops : j # i => Status(j)' = Status(j)
    BY <1>1, <1>3 DEF Status
  <1> QED
    BY <1>4, <1>5

\* store_writer_queue.py implements the abstract executor, for any stores and any number of
\* writes: the fns of one store run one at a time and in the order of the calls.
THEOREM WritesSerializedRefinement == Spec => WritesSerialized
  <1> DEFINE s == [i \in Ops |-> Status(i)]
  <1>1. Init => Serial!SerialInit
    <2> SUFFICES ASSUME Init
                 PROVE  Serial!SerialInit
      OBVIOUS
    <2>1. \A i \in Ops : Status(i) = "none"
      BY DEF Init, Status
    <2>2. path \in [Ops -> Stores]
      BY DEF Init
    <2> QED
      BY <2>1, <2>2 DEF Serial!SerialInit, Serial!Ops, Ops
  <1>2. SWInv /\ [Next]_vars => [Serial!SerialNext]_<<path, s>>
    <2> SUFFICES ASSUME SWInv, [Next]_vars
                 PROVE  Serial!SerialNext \/ UNCHANGED <<path, s>>
      OBVIOUS
    <2>1. ASSUME NEW i \in Ops, \A j \in Ops : j # i => Status(j)' = Status(j)
          PROVE  s' = [s EXCEPT ![i] = Status(i)']
      BY <2>1
    <2>2. ASSUME NEW i \in Ops, run_queued_store_write(i)
          PROVE  Serial!Arrive(i)
      <3>1. path' = path
        BY <2>2 DEF run_queued_store_write
      <3> QED
        BY <2>1, <2>2, <3>1, Arrives DEF Serial!Arrive, Serial!Goes, Serial!Ops, Ops
    <2>3. ASSUME NEW p \in Stores, DoDrainBegins(p)
          PROVE  \E h \in Ops : Serial!Begin(h)
      <3>1. TakeNext(p, {}) /\ path' = path /\ future' = future
        BY <2>3 DEF DoDrainBegins
      <3>2. PICK h \in Ops :
              /\ path[h] = p /\ Status(h) = "waiting" /\ Status(h)' = "running"
              /\ \A j \in Ops : j # h => Status(j)' = Status(j)
              /\ \A k \in Ops : k < h /\ path[k] = p => Status(k) = "over"
        BY <2>3, <3>1, BeginStep, Takes
      <3>3. Serial!Begin(h)
        BY <2>1, <3>1, <3>2 DEF Serial!Begin, Serial!Goes, Serial!Ops, Ops
      <3> QED
        BY <3>3
    <2>4. ASSUME NEW i \in Ops, FnEnds(i)
          PROVE  Serial!End(i) \/ \E h \in Ops : Serial!Handover(i, h)
      <3>1. /\ i \in writing /\ path' = path /\ path[i] \in Stores
            /\ TakeNext(path[i], {i}) \/ Finally(path[i], {i})
            /\ \A j \in Ops : future'[j] = "none" <=> future[j] = "none"
            /\ \A j \in writing : path[j] = path[i] => j \in {i}
        BY <2>4, FnStep DEF FnEnds, SWInv, OneDrain, Types
      <3>2. CASE TakeNext(path[i], {i})
        <4>1. PICK h \in Ops :
                /\ path[h] = path[i] /\ h # i /\ Status(h) = "waiting" /\ Status(h)' = "running"
                /\ Status(i) = "running" /\ Status(i)' = "over"
                /\ \A j \in Ops : j # h /\ j # i => Status(j)' = Status(j)
                /\ \A k \in Ops : k < h /\ path[k] = path[i] /\ k # i => Status(k) = "over"
          BY <3>1, <3>2, Takes
        <4>2. s' = [s EXCEPT ![i] = "over", ![h] = "running"]
          BY <4>1
        <4>3. Serial!Handover(i, h)
          BY <3>1, <4>1, <4>2 DEF Serial!Handover, Serial!Ops, Ops
        <4> QED
          BY <4>3
      <3>3. CASE Finally(path[i], {i})
        BY <2>1, <3>1, <3>3, Ends DEF Serial!End, Serial!Goes, Serial!Ops, Ops
      <3> QED
        BY <3>1, <3>2, <3>3
    <2>5. ASSUME path' = path, pending' = pending, writing' = writing,
                 \A i \in Ops : future'[i] = "none" <=> future[i] = "none"
          PROVE  UNCHANGED <<path, s>>
      BY <2>5 DEF Status, Queued
    <2>6. ASSUME NEW p \in Stores, _drain_store_writer_queue(p)
          PROVE  UNCHANGED <<path, s>>
      BY <2>5, <2>6 DEF _drain_store_writer_queue
    <2>7. ASSUME NEW i \in Ops, CancelCaller(i)
          PROVE  UNCHANGED <<path, s>>
      <3>1. \A j \in Ops : future'[j] = "none" <=> future[j] = "none"
        BY <2>7 DEF CancelCaller, SWInv, Types
      <3> QED
        BY <2>5, <2>7, <3>1 DEF CancelCaller
    <2>8. CASE UNCHANGED vars
      BY <2>5, <2>8 DEF vars
    <2> HIDE DEF s
    <2> QED
      BY <2>2, <2>3, <2>4, <2>6, <2>7, <2>8 DEF Next, TaskStep, Serial!SerialNext, Serial!Ops, Ops
  <1> QED
    BY <1>1, <1>2, SWInvHolds, PTL DEF Spec, WritesSerialized, Serial!SerialSpec, Serial!SerialVars
=============================================================================
