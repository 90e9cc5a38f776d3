-------------------------- MODULE CronLockedProofs --------------------------
(***************************************************************************)
(* locked() implements a serial executor, for every set of states and      *)
(* stores and every number of calls.                                       *)
(***************************************************************************)
EXTENDS CronLocked, TLAPS

\* What the two chains of keep_alive tasks guarantee.  A call's store_op is the last call on
\* its store before it, so a call that got past it has every earlier one behind it.
Chain ==
  /\ \A i \in Ops : keep[i] = "none" <=> run[i] = "none"
  /\ \A i \in Ops : keep[i] = "done" => run[i] = "returned"
  /\ \A i, j \in Ops : j < i /\ run[i] # "none" => run[j] # "none"

LastOnStore ==
  \A p \in Stores :
    /\ \A j \in Ops : run[j] # "none" /\ store(j) = p => j <= storeLocks[p]
    /\ storeLocks[p] # 0 => run[storeLocks[p]] # "none" /\ store(storeLocks[p]) = p

AwaitsLast ==
  \A i \in Ops : run[i] # "none" =>
    /\ awaited[i].store < i
    /\ awaited[i].store # 0 => run[awaited[i].store] # "none" /\ store(awaited[i].store) = store(i)
    /\ \A j \in Ops : j < i /\ store(j) = store(i) => j <= awaited[i].store

EarlierEnded ==
  \A i \in Ops : run[i] \in {"fn", "returned"} =>
    \A j \in Ops : j < i /\ store(j) = store(i) => run[j] \in Ended

Inv == TypeOK /\ Chain /\ LastOnStore /\ AwaitsLast /\ EarlierEnded

\* Nothing has been called at first.
LEMMA InitInv == Init => Inv
  <1> SUFFICES ASSUME Init
               PROVE  Inv
    OBVIOUS
  <1>1. TypeOK
    BY DEF Init, TypeOK
  <1>2. Chain
    BY DEF Init, Chain
  <1>3. LastOnStore
    BY DEF Init, LastOnStore
  <1>4. AwaitsLast /\ EarlierEnded
    BY DEF Init, AwaitsLast, EarlierEnded
  <1> QED
    BY <1>1, <1>2, <1>3, <1>4 DEF Inv

\* A call that is about to run its fn has every earlier call on its store behind it.
LEMMA PredecessorsEnded ==
  ASSUME Inv, NEW i \in Ops, run[i] # "none", KeepAliveOf(awaited[i].store) \notin {"pending", "cancelled"},
         NEW j \in Ops, j < i, store(j) = store(i)
  PROVE  run[j] \in Ended
  <1> DEFINE b == awaited[i].store
  <1>0. b \in {0} \cup Ops /\ Ops \subseteq Nat \ {0}
    BY Workload DEF Inv, TypeOK, Ops
  <1>1. j <= b /\ b # 0 /\ b \in Ops
    <2>1. j <= b
      BY DEF Inv, AwaitsLast
    <2>2. j # 0 /\ j \in Nat
      BY <1>0
    <2> QED
      BY <1>0, <2>1, <2>2
  <1>2. keep[b] = "done"
    <2>1. run[b] # "none"
      BY <1>1 DEF Inv, AwaitsLast
    <2> QED
      BY <1>1, <2>1 DEF KeepAliveOf, Inv, TypeOK, Chain
  <1>3. run[b] = "returned" /\ store(b) = store(i)
    BY <1>1, <1>2 DEF Inv, Chain, AwaitsLast
  <1>4. CASE j = b
    BY <1>3, <1>4 DEF Ended
  <1>5. CASE j < b
    BY <1>1, <1>3, <1>5 DEF Inv, EarlierEnded
  <1> HIDE DEF b
  <1>6. j \in Nat /\ b \in Nat /\ j <= b
    BY <1>0, <1>1
  <1>7. j = b \/ j < b
    BY <1>6
  <1> QED
    BY <1>4, <1>5, <1>7

\* Every step keeps the invariant.
LEMMA NextInv == Inv /\ [Next]_vars => Inv'
  <1> SUFFICES ASSUME Inv, [Next]_vars
               PROVE  Inv'
    OBVIOUS
  <1>types. TypeOK /\ Ops \subseteq Nat \ {0}
    BY Workload DEF Inv, Ops
  <1>1. ASSUME NEW i \in Ops, locked(i)
        PROVE  Inv'
    <2>1. TypeOK'
      BY <1>1, <1>types, Workload DEF locked, TypeOK, store, Waiting
    <2>2. /\ run' = [run EXCEPT ![i] = "stateOp"] /\ run[i] = "none" /\ owner' = owner
          /\ \A j \in Ops : run'[j] # "none" <=> run[j] # "none" \/ j = i
          /\ \A j \in Ops : j < i => run[j] # "none"
          /\ \A j \in Ops : i < j => run[j] = "none"
      BY <1>1, <1>types DEF locked, TypeOK, Inv, Chain
    <2>3. Chain'
      <3>1. \A j \in Ops : keep'[j] = "none" <=> run'[j] = "none"
        BY <1>1, <1>types, <2>2 DEF locked, TypeOK, Inv, Chain
      <3>2. \A j \in Ops : keep'[j] = "done" => run'[j] = "returned"
        BY <1>1, <1>types, <2>2 DEF locked, TypeOK, Inv, Chain
      <3>3. \A k, j \in Ops : j < k /\ run'[k] # "none" => run'[j] # "none"
        BY <1>types, <2>2
      <3> QED
        BY <3>1, <3>2, <3>3 DEF Chain
    <2>4. store(i) \in Stores /\ \A j \in Ops : store(j)' = store(j)
      BY <1>types, <2>2, Workload DEF store, TypeOK
    <2>5. LastOnStore'
      <3> SUFFICES ASSUME NEW p \in Stores
                   PROVE  /\ \A j \in Ops : run'[j] # "none" /\ store(j) = p => j <= storeLocks'[p]
                          /\ storeLocks'[p] # 0 => run'[storeLocks'[p]] # "none" /\ store(storeLocks'[p]) = p
        BY <2>1, <2>4 DEF LastOnStore, TypeOK
      <3>1. CASE p = store(i)
        <4>1. storeLocks'[p] = i
          BY <1>1, <1>types, <3>1 DEF locked, TypeOK
        <4> QED
          BY <1>types, <2>2, <3>1, <4>1
      <3>2. CASE p # store(i)
        <4>1. storeLocks'[p] = storeLocks[p] /\ storeLocks[p] \in {0} \cup Ops
          BY <1>1, <1>types, <2>4, <3>2 DEF locked, TypeOK
        <4> QED
          BY <2>2, <3>2, <4>1 DEF Inv, LastOnStore
      <3> QED
        BY <3>1, <3>2
    <2>6. AwaitsLast'
      <3> SUFFICES ASSUME NEW k \in Ops, run'[k] # "none"
                   PROVE  /\ awaited'[k].store < k
                          /\ awaited'[k].store # 0 =>
                               run'[awaited'[k].store] # "none" /\ store(awaited'[k].store) = store(k)
                          /\ \A j \in Ops : j < k /\ store(j) = store(k) => j <= awaited'[k].store
        BY <2>1, <2>4 DEF AwaitsLast, TypeOK
      <3>1. CASE k = i
        <4>1. awaited'[k].store = storeLocks[store(i)] /\ storeLocks[store(i)] \in {0} \cup Ops
          BY <1>1, <1>types, <2>4, <3>1 DEF locked, TypeOK
        <4>2. /\ \A j \in Ops : run[j] # "none" /\ store(j) = store(i) => j <= storeLocks[store(i)]
              /\ storeLocks[store(i)] # 0 => /\ run[storeLocks[store(i)]] # "none"
                                             /\ store(storeLocks[store(i)]) = store(i)
          BY <2>4 DEF Inv, LastOnStore
        <4>3. storeLocks[store(i)] < i
          BY <1>types, <2>2, <4>1, <4>2
        <4> QED
          BY <2>2, <3>1, <4>1, <4>2, <4>3
      <3>2. CASE k # i
        <4>1. awaited'[k] = awaited[k] /\ run[k] # "none" /\ awaited[k].store \in {0} \cup Ops
          BY <1>1, <1>types, <2>2, <3>2 DEF locked, TypeOK
        <4> QED
          BY <2>2, <4>1 DEF Inv, AwaitsLast
      <3> QED
        BY <3>1, <3>2
    <2>7. EarlierEnded'
      <3>1. \A k \in Ops : run'[k] \in {"fn", "returned"} => run[k] = run'[k] /\ k # i
        BY <1>types, <2>2 DEF TypeOK
      <3>2. \A j \in Ops : run[j] \in Ended => run'[j] = run[j]
        BY <1>types, <2>2 DEF TypeOK, Ended
      <3> QED
        BY <2>4, <3>1, <3>2 DEF Inv, EarlierEnded
    <2> QED
      BY <2>1, <2>3, <2>5, <2>6, <2>7 DEF Inv
  <1>2. ASSUME NEW i \in Ops, NEW end, run' = [run EXCEPT ![i] = end], run[i] \notin {"none"} \cup Ended,
               end \in Ended \cup Waiting \cup {"fn"},
               end \in {"fn", "returned"} => \A j \in Ops : j < i /\ store(j) = store(i) => run[j] \in Ended,
               asked' \in SUBSET Ops, UNCHANGED <<owner, keep, awaited, op, storeLocks>>
        PROVE  Inv'
    <2>1. TypeOK'
      BY <1>2, <1>types DEF TypeOK
    <2>2. /\ \A j \in Ops : run'[j] = IF j = i THEN end ELSE run[j]
          /\ \A j \in Ops : run'[j] # "none" <=> run[j] # "none"
          /\ \A j \in Ops : run[j] \in Ended => run'[j] = run[j]
      BY <1>2, <1>types DEF TypeOK, Ended, Waiting
    <2>3. Chain'
      BY <1>2, <2>2 DEF Inv, Chain, Ended
    <2>4. \A j \in Ops : store(j)' = store(j)
      BY <1>2 DEF store
    <2>5. LastOnStore'
      <3>1. \A p \in Stores : storeLocks[p] \in {0} \cup Ops
        BY <1>types DEF TypeOK
      <3> QED
        BY <1>2, <2>2, <2>4, <3>1 DEF Inv, LastOnStore
    <2>6. AwaitsLast'
      <3>1. \A k \in Ops : awaited[k].store \in {0} \cup Ops
        BY <1>types DEF TypeOK
      <3> QED
        BY <1>2, <2>2, <2>4, <3>1 DEF Inv, AwaitsLast
    <2>7. EarlierEnded'
      BY <1>2, <2>2, <2>4 DEF Inv, EarlierEnded
    <2> QED
      BY <2>1, <2>3, <2>5, <2>6, <2>7 DEF Inv
  <1>3. ASSUME NEW i \in Ops, StateOpSettles(i)
        PROVE  Inv'
    <2>1. PICK end \in {"cancelled", "storeOp"} : run' = [run EXCEPT ![i] = end]
      BY <1>3 DEF StateOpSettles, Await
    <2> QED
      BY <1>2, <1>3, <1>types, <2>1 DEF StateOpSettles, TypeOK, Ended, Waiting
  <1>4. ASSUME NEW i \in Ops, StoreOpSettles(i)
        PROVE  Inv'
    <2>1. CASE KeepAliveOf(awaited[i].store) = "cancelled"
      BY <1>2, <1>4, <1>types, <2>1 DEF StoreOpSettles, Await, TypeOK, Ended, Waiting
    <2>2. CASE KeepAliveOf(awaited[i].store) # "cancelled"
      <3>1. run[i] = "storeOp" /\ run' = [run EXCEPT ![i] = "fn"]
        BY <1>4, <2>2 DEF StoreOpSettles, Await
      <3>2. \A j \in Ops : j < i /\ store(j) = store(i) => run[j] \in Ended
        BY <1>4, <2>2, <3>1, PredecessorsEnded DEF StoreOpSettles, Await
      <3> QED
        BY <1>2, <1>4, <1>types, <3>1, <3>2 DEF StoreOpSettles, TypeOK, Ended
    <2> QED
      BY <2>1, <2>2
  <1>5. ASSUME NEW i \in Ops, FnEnds(i)
        PROVE  Inv'
    <2>1. PICK end \in Ended : run' = [run EXCEPT ![i] = end] /\ asked' \in SUBSET Ops
      BY <1>5, <1>types DEF FnEnds, TypeOK
    <2>2. \A j \in Ops : j < i /\ store(j) = store(i) => run[j] \in Ended
      BY <1>5 DEF FnEnds, Inv, EarlierEnded
    <2> QED
      BY <1>2, <1>5, <2>1, <2>2 DEF FnEnds, Ended
  <1>6. ASSUME NEW i \in Ops, Cancel(i)
        PROVE  Inv'
    BY <1>2, <1>6, <1>types DEF Cancel, TypeOK, Ended, Waiting
  <1>7. ASSUME NEW i \in Ops, _keep_alive(i)
        PROVE  Inv'
    <2>1. TypeOK'
      BY <1>7, <1>types DEF _keep_alive, TypeOK
    <2>2. Chain'
      BY <1>7, <1>types DEF _keep_alive, Inv, Chain, TypeOK, Ended
    <2>3. LastOnStore' /\ AwaitsLast' /\ EarlierEnded'
      BY <1>7 DEF _keep_alive, Inv, LastOnStore, AwaitsLast, EarlierEnded, store
    <2> QED
      BY <2>1, <2>2, <2>3 DEF Inv
  <1>8. CASE UNCHANGED vars
    BY <1>8 DEF vars, Inv, TypeOK, Chain, LastOnStore, AwaitsLast, EarlierEnded, store
  <1> QED
    BY <1>1, <1>3, <1>4, <1>5, <1>6, <1>7, <1>8 DEF Next, TaskStep

\* The invariant holds throughout.
LEMMA InvHolds == Spec => []Inv
  BY InitInv, NextInv, PTL DEF Spec

\* Two fns on one store never run at the same time, whatever is cancelled.
THEOREM CronExclusive == Spec => []StoreExclusive
  <1>1. Inv => StoreExclusive
    <2> SUFFICES ASSUME Inv, NEW i \in Ops, NEW j \in Ops, Status(i) = "running", Status(j) = "running",
                        store(i) = store(j)
                 PROVE  i = j
      BY DEF StoreExclusive, Serial!Exclusive, Serial!Ops, Ops
    <2>1. run[i] = "fn" /\ run[j] = "fn"
      BY DEF Status
    <2>2. ~(i < j) /\ ~(j < i)
      BY <2>1 DEF Inv, EarlierEnded, Ended
    <2>3. i \in Nat /\ j \in Nat
      BY Workload DEF Ops
    <2> QED
      BY <2>2, <2>3
  <1> QED
    BY <1>1, InvHolds, PTL

\* Every behaviour of locked() is one of a serial executor: calls on a store run one at a
\* time, in call order, and a call that is cancelled is only ever dropped.
THEOREM CronSerialized == Spec => Serialized
  <1> DEFINE s == [i \in Ops |-> Status(i)]
             Go(i, from, to) == Status(i) = from /\ s' = [s EXCEPT ![i] = to] /\ owner' = owner
  <1>1. Init => Serial!SerialInit
    <2> SUFFICES ASSUME Init
                 PROVE  Serial!SerialInit
      OBVIOUS
    <2>1. \A i \in Ops : store(i) \in Stores
      BY Workload DEF Init, store
    <2>2. \A i \in Ops : Status(i) = "none"
      <3>1. \A i \in Ops : run[i] = "none"
        BY DEF Init
      <3> QED
        BY <3>1 DEF Status, Waiting
    <2> QED
      BY <2>1, <2>2 DEF Serial!SerialInit, Serial!Ops, Ops
  <1>2. Inv /\ [Next]_vars => [Serial!SerialNext]_<<[i \in Ops |-> store(i)], s>>
    <2> SUFFICES ASSUME Inv, [Next]_vars
                 PROVE  Serial!SerialNext \/ UNCHANGED <<[i \in Ops |-> store(i)], s>>
      OBVIOUS
    <2>types. TypeOK
      BY DEF Inv
    <2>go. ASSUME NEW i \in Ops, NEW end, run' = [run EXCEPT ![i] = end]
           PROVE  s' = [s EXCEPT ![i] = Status(i)']
      <3>1. \A j \in Ops : j # i => run'[j] = run[j]
        BY <2>go, <2>types DEF TypeOK
      <3>2. \A j \in Ops : j # i => Status(j)' = Status(j)
        BY <3>1 DEF Status
      <3> QED
        BY <3>2
    <2>still. ASSUME owner' = owner, run' = run
              PROVE  UNCHANGED <<[i \in Ops |-> store(i)], s>>
      BY <2>still DEF store, Status
    <2>keys. ASSUME owner' = owner
             PROVE  UNCHANGED [i \in Ops |-> store(i)]
      BY <2>keys DEF store
    <2>1. ASSUME NEW i \in Ops, locked(i)
          PROVE  Serial!Arrive(i)
      <3>1. Status(i) = "none" /\ Status(i)' = "waiting"
        BY <2>1, <2>types DEF locked, Status, TypeOK, Waiting
      <3>2. \A j \in Ops : j < i => Status(j) # "none"
        BY <2>1 DEF locked, Status, Waiting
      <3> QED
        BY <2>1, <2>go, <2>keys, <3>1, <3>2 DEF locked, Serial!Arrive, Serial!Goes, Serial!Ops, Ops
    <2>2. ASSUME NEW i \in Ops, run[i] \in Waiting, run' = [run EXCEPT ![i] = "cancelled"], owner' = owner
          PROVE  Serial!Drop(i)
      <3>1. Status(i) = "waiting" /\ Status(i)' = "over"
        BY <2>2, <2>types DEF Status, TypeOK, Waiting
      <3> QED
        BY <2>2, <2>go, <2>keys, <3>1 DEF Serial!Drop, Serial!Goes, Serial!Ops, Ops
    <2>3. ASSUME NEW i \in Ops, StateOpSettles(i), run' = [run EXCEPT ![i] = "storeOp"]
          PROVE  UNCHANGED <<[k \in Ops |-> store(k)], s>>
      <3>1. Status(i) = "waiting" /\ Status(i)' = "waiting"
        BY <2>3, <2>types DEF StateOpSettles, Status, TypeOK, Waiting
      <3>2. s' = s
        BY <2>3, <2>go, <3>1
      <3> QED
        BY <2>3, <2>keys, <3>2 DEF StateOpSettles
    <2>4. ASSUME NEW i \in Ops, StoreOpSettles(i), KeepAliveOf(awaited[i].store) # "cancelled"
          PROVE  Serial!Begin(i)
      <3>1. run' = [run EXCEPT ![i] = "fn"] /\ run[i] = "storeOp" /\ owner' = owner
        BY <2>4 DEF StoreOpSettles, Await
      <3>2. Status(i) = "waiting" /\ Status(i)' = "running"
        BY <2>types, <3>1 DEF Status, TypeOK, Waiting
      <3>3. \A j \in Ops : j < i /\ store(j) = store(i) => Status(j) = "over"
        <4>1. \A j \in Ops : j < i /\ store(j) = store(i) => run[j] \in Ended
          BY <2>4, <3>1, PredecessorsEnded DEF StoreOpSettles, Await
        <4> QED
          BY <4>1 DEF Status, Ended, Waiting
      <3> QED
        BY <2>go, <2>keys, <3>1, <3>2, <3>3 DEF Serial!Begin, Serial!Goes, Serial!Ops, Ops
    <2>5. ASSUME NEW i \in Ops, FnEnds(i)
          PROVE  Serial!End(i)
      <3>1. PICK end \in Ended : run' = [run EXCEPT ![i] = end] /\ run[i] = "fn" /\ owner' = owner
        BY <2>5 DEF FnEnds
      <3>2. Status(i) = "running" /\ Status(i)' = "over"
        BY <2>types, <3>1 DEF Status, TypeOK, Waiting, Ended
      <3> QED
        BY <2>go, <2>keys, <3>1, <3>2 DEF Serial!End, Serial!Goes, Serial!Ops, Ops
    <2>6. ASSUME NEW i \in Ops, locked(i) \/ TaskStep(i) \/ Cancel(i)
          PROVE  \/ Serial!Arrive(i) \/ Serial!Drop(i) \/ Serial!Begin(i) \/ Serial!End(i)
                 \/ UNCHANGED <<[k \in Ops |-> store(k)], s>>
      <3>1. CASE StateOpSettles(i)
        BY <2>2, <2>3, <3>1 DEF StateOpSettles, Await, Waiting
      <3>2. CASE StoreOpSettles(i)
        BY <2>2, <2>4, <3>2 DEF StoreOpSettles, Await, Waiting
      <3>3. CASE Cancel(i)
        BY <2>2, <3>3 DEF Cancel
      <3>4. CASE _keep_alive(i)
        BY <2>still, <3>4 DEF _keep_alive
      <3> QED
        BY <2>1, <2>5, <2>6, <3>1, <3>2, <3>3, <3>4 DEF TaskStep
    <2>7. CASE UNCHANGED vars
      BY <2>7, <2>still DEF vars
    <2> HIDE DEF s
    <2> QED
      BY <2>6, <2>7 DEF Next, Serial!SerialNext, Serial!Ops, Ops
  <1> QED
    BY <1>1, <1>2, InvHolds, PTL DEF Spec, Serialized, Serial!SerialSpec, Serial!SerialVars
=============================================================================
