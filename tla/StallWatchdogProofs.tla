------------------------- MODULE StallWatchdogProofs -------------------------
(***************************************************************************)
(* Theorems about StallWatchdog, for any threads, timeout, interval and    *)
(* numbers of calls.                                                       *)
(***************************************************************************)
EXTENDS StallWatchdog, TLAPS

\* Every step keeps the types.
LEMMA TypeStep == TypeOK /\ [Next]_vars => TypeOK'
<1> SUFFICES ASSUME TypeOK, [Next]_vars PROVE TypeOK'
  OBVIOUS
<1> USE Limits DEF TypeOK, Armings, counters, threadVars
<1>1. CASE Arm
  <2>1. CASE timer # None
    BY <1>1, <2>1 DEF Arm, _ensure_timer
  <2>2. CASE timer = None
    <3>1. StartTimer(state)
      BY <1>1, <2>2 DEF Arm, _ensure_timer
    <3>2. PICK u \in Threads : /\ state' = [state EXCEPT ![u] = "waiting"]
                               /\ left' = [left EXCEPT ![u] = Interval]
                               /\ timer' = u
      BY <3>1 DEF StartTimer
    <3> QED
      BY <1>1, <3>2 DEF Arm
  <2> QED
    BY <2>1, <2>2
<1>2. CASE Touch
  BY <1>2 DEF Touch
<1>3. CASE Disarm
  BY <1>3 DEF Disarm
<1>4. CASE Stop
  BY <1>4 DEF Stop, _clear_timer
<1>5. ASSUME NEW t \in Threads, Fire(t) PROVE TypeOK'
  BY <1>5 DEF Fire
<1>6. ASSUME NEW t \in Threads, CheckOff(t) PROVE TypeOK'
  BY <1>6 DEF CheckOff
<1>7. ASSUME NEW t \in Threads, CheckEarly(t) PROVE TypeOK'
  <2>1. PICK u \in Threads : /\ state' = [[state EXCEPT ![t] = "free"] EXCEPT ![u] = "waiting"]
                             /\ left' = [left EXCEPT ![u] = Interval]
                             /\ timer' = u
    BY <1>7 DEF CheckEarly, StartTimer
  <2>2. state' \in [Threads -> {"free", "waiting", "fired", "reporting"}]
    BY <2>1
  <2>3. left' \in [Threads -> 0..Interval]
    BY <2>1
  <2>4. UNCHANGED <<armed, stopped, idle, arming, arms, touches, reports>>
    BY <1>7 DEF CheckEarly
  <2> QED
    BY <2>1, <2>2, <2>3, <2>4
<1>8. ASSUME NEW t \in Threads, CheckStalled(t) PROVE TypeOK'
  BY <1>8 DEF CheckStalled
<1>9. ASSUME NEW t \in Threads, Report(t) PROVE TypeOK'
  <2>1. reports' \in [Armings -> Nat]
    <3>1. PICK a : a = arming[t]
      OBVIOUS
    <3>2. reports' = [reports EXCEPT ![a] = reports[a] + 1]
      BY <1>9, <3>1 DEF Report
    <3>3. a \in Armings => reports[a] + 1 \in Nat
      OBVIOUS
    <3>4. reports' = [b \in Armings |-> IF b = a THEN reports[a] + 1 ELSE reports[b]]
      BY <3>2, Zenon
    <3> QED
      BY <3>3, <3>4
  <2>2. state' \in [Threads -> {"free", "waiting", "fired", "reporting"}]
    BY <1>9 DEF Report
  <2>3. UNCHANGED <<armed, stopped, idle, timer, left, arming, arms, touches>>
    BY <1>9 DEF Report
  <2> QED
    BY <2>1, <2>2, <2>3
<1>10. CASE Tick
  BY <1>10 DEF Tick
<1>11. CASE UNCHANGED vars
  BY <1>11 DEF vars
<1> QED
  BY <1>1, <1>2, <1>3, <1>4, <1>5, <1>6, <1>7, <1>8, <1>9, <1>10, <1>11 DEF Next, Call, Run

\* The variables of the watchdog keep their types: in particular a timer's remaining
\* time and the idle time stay within their limits.
THEOREM TypeInvariant == Spec => []TypeOK
<1>1. Init => TypeOK
  <2> SUFFICES ASSUME Init PROVE TypeOK
    OBVIOUS
  <2>1. /\ idle \in 0..Timeout
        /\ left \in [Threads -> 0..Interval]
        /\ arming \in [Threads -> 0..MaxArms]
        /\ arms \in 0..MaxArms /\ touches \in 0..MaxTouches
    BY Limits DEF Init
  <2>2. reports \in [Armings -> Nat]
    BY DEF Init
  <2> QED
    BY <2>1, <2>2 DEF Init, TypeOK
<1> QED
  BY <1>1, TypeStep, PTL DEF Spec

-----------------------------------------------------------------------------
(* One timer *)

\* _timer is the one thread whose check is still to come; only after stop() may a
\* thread that has already fired be left besides it.
OneTimer ==
  /\ armed => timer # None
  /\ timer # None => Watching(timer)
  /\ \A t \in Threads : Watching(t) => t = timer \/ (stopped /\ state[t] = "fired")
  /\ stopped => ~armed /\ timer = None

\* Every step leaves one thread with a check to come at most, save for a stopped one.
LEMMA OneTimerStep == TypeOK /\ OneTimer /\ [Next]_vars => OneTimer'
<1> SUFFICES ASSUME TypeOK, OneTimer, [Next]_vars PROVE OneTimer'
  OBVIOUS
<1> USE Limits DEF TypeOK, OneTimer, Watching
<1>1. CASE Arm
  <2>1. CASE timer # None
    BY <1>1, <2>1 DEF Arm, _ensure_timer
  <2>2. CASE timer = None
    <3>1. StartTimer(state)
      BY <1>1, <2>2 DEF Arm, _ensure_timer
    <3>2. PICK u \in Threads : state[u] = "free" /\ state' = [state EXCEPT ![u] = "waiting"] /\ timer' = u
      BY <3>1 DEF StartTimer
    <3> QED
      BY <1>1, <2>2, <3>2 DEF Arm
  <2> QED
    BY <2>1, <2>2
<1>2. CASE Touch
  BY <1>2 DEF Touch, threadVars
<1>3. CASE Disarm
  BY <1>3 DEF Disarm, threadVars
<1>4. CASE Stop
  BY <1>4 DEF Stop, _clear_timer
<1>5. ASSUME NEW t \in Threads, Fire(t) PROVE OneTimer'
  BY <1>5 DEF Fire
<1>6. ASSUME NEW t \in Threads, CheckOff(t) PROVE OneTimer'
  BY <1>6 DEF CheckOff
<1>7. ASSUME NEW t \in Threads, CheckEarly(t) PROVE OneTimer'
  <2>2. PICK u \in Threads : /\ [state EXCEPT ![t] = "free"][u] = "free"
                             /\ state' = [[state EXCEPT ![t] = "free"] EXCEPT ![u] = "waiting"]
                             /\ timer' = u
    BY <1>7 DEF CheckEarly, StartTimer
  <2>3. t = timer /\ armed' = armed /\ stopped' = stopped /\ ~stopped
    BY <1>7 DEF CheckEarly
  <2>4. state'[u] = "waiting" /\ \A v \in Threads \ {u} : v = t \/ ~Watching(v)
    BY <2>2, <2>3
  <2>5. \A v \in Threads \ {u} : state'[v] = IF v = t THEN "free" ELSE state[v]
    BY <2>2
  <2> QED
    BY <2>2, <2>3, <2>4, <2>5
<1>8. ASSUME NEW t \in Threads, CheckStalled(t) PROVE OneTimer'
  BY <1>8 DEF CheckStalled
<1>9. ASSUME NEW t \in Threads, Report(t) PROVE OneTimer'
  BY <1>9 DEF Report
<1>10. CASE Tick
  BY <1>10 DEF Tick
<1>11. CASE UNCHANGED vars
  BY <1>11 DEF vars, threadVars
<1> QED
  BY <1>1, <1>2, <1>3, <1>4, <1>5, <1>6, <1>7, <1>8, <1>9, <1>10, <1>11 DEF Next, Call, Run

\* One thread at most has a check to come, save for one that had fired before stop().
THEOREM OneTimerInvariant == Spec => []OneTimer
<1>1. Init => OneTimer
  BY Limits DEF Init, OneTimer, Watching
<1> QED
  BY <1>1, OneTimerStep, TypeInvariant, PTL DEF Spec

\* An armed watchdog always has a check to come (_ensure_timer, _check).
THEOREM ArmedIsWatchedInvariant == Spec => []ArmedIsWatched
<1>1. TypeOK /\ OneTimer => ArmedIsWatched
  BY DEF TypeOK, OneTimer, ArmedIsWatched
<1> QED
  BY <1>1, TypeInvariant, OneTimerInvariant, PTL

\* stop() leaves no timer waiting (_clear_timer).
THEOREM StopLeavesNoTimerInvariant == Spec => []StopLeavesNoTimer
<1>1. OneTimer => StopLeavesNoTimer
  BY Limits DEF OneTimer, StopLeavesNoTimer, Watching
<1> QED
  BY <1>1, OneTimerInvariant, PTL

-----------------------------------------------------------------------------
(* One report *)

\* Nothing has been reported, or is about to be, for armings to come and for the
\* present one while the watchdog is armed.
Unreported ==
  /\ armed => arms \in Armings
  /\ \A a \in Armings : a > arms \/ (armed /\ a = arms) =>
       /\ reports[a] = 0
       /\ \A t \in Threads : state[t] = "reporting" => arming[t] # a

ReportInv == ReportOnce /\ Unreported

\* A step that neither makes nor owes a report, nor begins an arming.
LEMMA QuietStep ==
  ASSUME TypeOK, ReportInv, armed' => armed, arms' = arms, reports' = reports, arming' = arming,
         \A t \in Threads : state'[t] = "reporting" => state[t] = "reporting"
  PROVE  ReportInv'
  BY DEF ReportInv, ReportOnce, Unreported, TypeOK

\* A report is made for the present arming only, which it ends.
LEMMA ReportStep == TypeOK /\ ReportInv /\ [Next]_vars => ReportInv'
<1> SUFFICES ASSUME TypeOK, ReportInv, [Next]_vars PROVE ReportInv'
  OBVIOUS
<1> USE Limits
<1>1. CASE Arm
  <2>1. \A t \in Threads : state'[t] = "reporting" => state[t] = "reporting"
    <3>1. CASE timer # None
      BY <1>1, <3>1 DEF Arm, _ensure_timer
    <3>2. CASE timer = None
      <4>1. StartTimer(state)
        BY <1>1, <3>2 DEF Arm, _ensure_timer
      <4>2. PICK u \in Threads : state' = [state EXCEPT ![u] = "waiting"]
        BY <4>1 DEF StartTimer
      <4> QED
        BY <4>2 DEF TypeOK
    <3> QED
      BY <3>1, <3>2
  <2>2. arms' = arms + 1 /\ arms' \in Armings /\ reports' = reports /\ arming' = arming
    BY <1>1 DEF Arm, Armings, TypeOK
  <2>3. \A a \in Armings : a > arms \/ a = arms + 1 =>
          reports[a] = 0 /\ \A t \in Threads : state[t] = "reporting" => arming[t] # a
    BY DEF ReportInv, Unreported, TypeOK, Armings
  <2>4. \A a \in Armings : a > arms' \/ a = arms' => a > arms
    BY <2>2 DEF TypeOK, Armings
  <2>5. Unreported'
    BY <2>1, <2>2, <2>3, <2>4 DEF Unreported
  <2>6. ReportOnce'
    BY <2>1, <2>2 DEF ReportInv, ReportOnce
  <2> QED
    BY <2>5, <2>6 DEF ReportInv
<1>2. CASE Touch
  BY <1>2, QuietStep DEF Touch, threadVars
<1>3. CASE Disarm
  BY <1>3, QuietStep DEF Disarm, threadVars, counters
<1>4. CASE Stop
  <2>1. \A t \in Threads : state'[t] = "reporting" => state[t] = "reporting"
    BY <1>4 DEF Stop, _clear_timer, TypeOK
  <2> QED
    BY <1>4, <2>1, QuietStep DEF Stop, counters
<1>5. ASSUME NEW t \in Threads, Fire(t) PROVE ReportInv'
  <2>1. \A u \in Threads : state'[u] = "reporting" => state[u] = "reporting"
    BY <1>5 DEF Fire, TypeOK
  <2> QED
    BY <1>5, <2>1, QuietStep DEF Fire, counters
<1>6. ASSUME NEW t \in Threads, CheckOff(t) PROVE ReportInv'
  <2>1. \A u \in Threads : state'[u] = "reporting" => state[u] = "reporting"
    BY <1>6 DEF CheckOff, TypeOK
  <2> QED
    BY <1>6, <2>1, QuietStep DEF CheckOff, counters
<1>7. ASSUME NEW t \in Threads, CheckEarly(t) PROVE ReportInv'
  <2>2. PICK u \in Threads : state' = [[state EXCEPT ![t] = "free"] EXCEPT ![u] = "waiting"]
    BY <1>7 DEF CheckEarly, StartTimer
  <2>3. \A v \in Threads : state'[v] = "reporting" => state[v] = "reporting"
    BY <2>2 DEF TypeOK
  <2> QED
    BY <1>7, <2>3, QuietStep DEF CheckEarly, counters
<1>8. ASSUME NEW t \in Threads, CheckStalled(t) PROVE ReportInv'
  <2>1. /\ armed /\ armed' = FALSE /\ arms' = arms /\ reports' = reports
        /\ state' = [state EXCEPT ![t] = "reporting"]
        /\ arming' = [arming EXCEPT ![t] = arms]
    BY <1>8 DEF CheckStalled, counters
  <2>2. arms \in Armings /\ reports[arms] = 0 /\ \A u \in Threads : state[u] = "reporting" => arming[u] # arms
    BY <2>1 DEF ReportInv, Unreported
  <2>3. state'[t] = "reporting" /\ arming'[t] = arms
    BY <2>1 DEF TypeOK
  <2>4. \A u \in Threads \ {t} : state'[u] = state[u] /\ arming'[u] = arming[u]
    BY <2>1 DEF TypeOK
  <2>5. ReportOnce'
    BY <2>1, <2>2, <2>3, <2>4 DEF ReportInv, ReportOnce
  <2>6. Unreported'
    BY <2>1, <2>2, <2>3, <2>4 DEF ReportInv, Unreported, TypeOK, Armings
  <2> QED
    BY <2>5, <2>6 DEF ReportInv
<1>9. ASSUME NEW t \in Threads, Report(t) PROVE ReportInv'
  <2>1. /\ state[t] = "reporting" /\ state' = [state EXCEPT ![t] = "free"]
        /\ reports' = [reports EXCEPT ![arming[t]] = @ + 1]
        /\ armed' = armed /\ arms' = arms /\ arming' = arming
    BY <1>9 DEF Report, counters
  <2>2. PICK a \in Armings : a = arming[t]
    BY <2>1 DEF ReportInv, ReportOnce
  <2>3. reports[a] = 0 /\ \A u \in Threads \ {t} : state[u] = "reporting" => arming[u] # a
    BY <2>1, <2>2 DEF ReportInv, ReportOnce
  <2>4. reports'[a] = 1 /\ \A b \in Armings \ {a} : reports'[b] = reports[b]
    BY <2>1, <2>2, <2>3 DEF TypeOK
  <2>5. state'[t] = "free" /\ \A u \in Threads \ {t} : state'[u] = state[u]
    BY <2>1 DEF TypeOK
  <2>6. ReportOnce'
    BY <2>1, <2>3, <2>4, <2>5 DEF ReportInv, ReportOnce
  <2>7. ~(a > arms \/ (armed /\ a = arms))
    BY <2>1, <2>2 DEF ReportInv, Unreported
  <2>8. Unreported'
    BY <2>1, <2>4, <2>5, <2>7 DEF ReportInv, Unreported
  <2> QED
    BY <2>6, <2>8 DEF ReportInv
<1>10. CASE Tick
  BY <1>10, QuietStep DEF Tick, counters
<1>11. CASE UNCHANGED vars
  BY <1>11, QuietStep DEF vars, counters, threadVars
<1> QED
  BY <1>1, <1>2, <1>3, <1>4, <1>5, <1>6, <1>7, <1>8, <1>9, <1>10, <1>11 DEF Next, Call, Run

\* No arming is reported twice, also when reports are delayed beyond later armings
\* (_check clears _armed before it releases the lock).
THEOREM ReportOnceInvariant == Spec => []ReportOnce
<1>1. Init => ReportInv
  BY DEF Init, ReportInv, ReportOnce, Unreported
<1>2. ReportInv => ReportOnce
  BY DEF ReportInv
<1> QED
  BY <1>1, <1>2, ReportStep, TypeInvariant, PTL DEF Spec

=============================================================================
