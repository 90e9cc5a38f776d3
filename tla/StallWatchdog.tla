--------------------------- MODULE StallWatchdog ---------------------------
(***************************************************************************)
(* ArmableStallWatchdog: reports once when an armed transport goes idle.   *)
(*                                                                         *)
(* Callers on any thread arm, touch, disarm and stop; timer threads check. *)
(* Every operation is one critical section, but a timer that has fired may *)
(* wait for the lock, and the report is made after the lock is released.   *)
(* Time is relative and saturates: how long the transport has been idle,   *)
(* up to Timeout, and how long a timer has left.                           *)
(***************************************************************************)
EXTENDS Naturals

CONSTANTS
  Threads,     \* threads that timers run on
  None,        \* no timer
  Timeout,     \* _timeout_ms, in ticks
  Interval,    \* _check_interval_ms, in ticks
  MaxArms,     \* calls of arm
  MaxTouches   \* calls of touch

ASSUME Limits ==
  /\ None \notin Threads
  /\ Timeout \in Nat \ {0}
  /\ Interval \in Nat \ {0}
  /\ MaxArms \in Nat
  /\ MaxTouches \in Nat

VARIABLES
  armed,       \* _armed
  stopped,     \* _stopped
  idle,        \* time since _last_activity_at, at most Timeout
  timer,       \* _timer: the thread of that Timer, or None
  state,       \* what a thread is doing
  left,        \* time until its timer is due
  arming,      \* history: the arming that a report is about
  arms,        \* number of calls of arm
  touches,     \* number of calls of touch
  reports      \* history: number of reports made for each arming

counters == <<arms, touches>>
threadVars == <<state, left, arming>>
vars == <<armed, stopped, idle, timer, threadVars, counters, reports>>

Armings == 1..MaxArms

\* A thread whose _check is still to come.
Watching(t) == state[t] \in {"waiting", "fired"}

-----------------------------------------------------------------------------

\* Fault: the timer is given the timeout for its interval.
StartLongTimer(st) ==
  \E t \in Threads :
    /\ st[t] = "free"
    /\ state' = [st EXCEPT ![t] = "waiting"]
    /\ left' = [left EXCEPT ![t] = Timeout]
    /\ timer' = t

\* A Timer is started, with the threads in states st.
StartTimer(st) ==
  \E t \in Threads :
    /\ st[t] = "free"
    /\ state' = [st EXCEPT ![t] = "waiting"]
    /\ left' = [left EXCEPT ![t] = Interval]
    /\ timer' = t

\* Fault: a timer is started whether or not there is one.
EnsureTimerAlways == StartTimer(state)

_ensure_timer ==
  IF timer # None
    THEN UNCHANGED <<timer, state, left>>
    ELSE StartTimer(state)

\* cancel() stops a timer that is waiting; one that has fired goes on to _check.
_clear_timer ==
  /\ timer' = None
  /\ state' = IF timer # None /\ state[timer] = "waiting"
                THEN [state EXCEPT ![timer] = "free"]
                ELSE state

\* The activity is now, or at a time at_ms that the caller gives, in the past.
Arm ==
  /\ ~stopped
  /\ arms < MaxArms
  /\ arms' = arms + 1
  /\ idle' \in 0..Timeout
  /\ armed' = TRUE
  /\ _ensure_timer
  /\ UNCHANGED <<stopped, arming, touches, reports>>

Touch ==
  /\ ~stopped
  /\ touches < MaxTouches
  /\ touches' = touches + 1
  /\ idle' \in 0..Timeout
  /\ UNCHANGED <<armed, stopped, timer, threadVars, arms, reports>>

Disarm ==
  /\ armed' = FALSE
  /\ UNCHANGED <<stopped, idle, timer, threadVars, counters, reports>>

Stop ==
  /\ ~stopped
  /\ stopped' = TRUE
  /\ armed' = FALSE
  /\ _clear_timer
  /\ UNCHANGED <<idle, left, arming, counters, reports>>

\* The timer is due and was not cancelled: its thread calls _check.
Fire(t) ==
  /\ state[t] = "waiting"
  /\ left[t] = 0
  /\ state' = [state EXCEPT ![t] = "fired"]
  /\ UNCHANGED <<armed, stopped, idle, timer, left, arming, counters, reports>>

\* Fault: the timer that has fired is kept in _timer.
CheckOffKeepsTimer(t) ==
  /\ state[t] = "fired"
  /\ ~armed \/ stopped
  /\ state' = [state EXCEPT ![t] = "free"]
  /\ UNCHANGED <<armed, stopped, idle, timer, left, arming, counters, reports>>

\* _check when disarmed or stopped.
CheckOff(t) ==
  /\ state[t] = "fired"
  /\ ~armed \/ stopped
  /\ state' = [state EXCEPT ![t] = "free"]
  /\ timer' = IF stopped THEN timer ELSE None
  /\ UNCHANGED <<armed, stopped, idle, left, arming, counters, reports>>

\* Fault: the next check is not scheduled.
CheckEarlyOnce(t) ==
  /\ state[t] = "fired"
  /\ armed /\ ~stopped
  /\ idle < Timeout
  /\ state' = [state EXCEPT ![t] = "free"]
  /\ timer' = None
  /\ UNCHANGED <<armed, stopped, idle, left, arming, counters, reports>>

\* _check before the timeout: another timer is started.
CheckEarly(t) ==
  /\ state[t] = "fired"
  /\ armed /\ ~stopped
  /\ idle < Timeout
  /\ StartTimer([state EXCEPT ![t] = "free"])
  /\ UNCHANGED <<armed, stopped, idle, arming, counters, reports>>

\* Fault: the watchdog stays armed.
CheckStalledArmed(t) ==
  /\ state[t] = "fired"
  /\ armed /\ ~stopped
  /\ idle >= Timeout
  /\ StartTimer([state EXCEPT ![t] = "reporting"])
  /\ arming' = [arming EXCEPT ![t] = arms]
  /\ UNCHANGED <<armed, stopped, idle, counters, reports>>

\* _check after the timeout.
CheckStalled(t) ==
  /\ state[t] = "fired"
  /\ armed /\ ~stopped
  /\ idle >= Timeout
  /\ armed' = FALSE
  /\ timer' = None
  /\ state' = [state EXCEPT ![t] = "reporting"]
  /\ arming' = [arming EXCEPT ![t] = arms]
  /\ UNCHANGED <<stopped, idle, left, counters, reports>>

\* on_timeout, called after the lock has been released.
Report(t) ==
  /\ state[t] = "reporting"
  /\ state' = [state EXCEPT ![t] = "free"]
  /\ reports' = [reports EXCEPT ![arming[t]] = @ + 1]
  /\ UNCHANGED <<armed, stopped, idle, timer, left, arming, counters>>

Tick ==
  /\ idle' = IF idle < Timeout THEN idle + 1 ELSE idle
  /\ left' = [t \in Threads |-> IF left[t] > 0 THEN left[t] - 1 ELSE 0]
  /\ UNCHANGED <<armed, stopped, timer, state, arming, counters, reports>>

-----------------------------------------------------------------------------

Init ==
  /\ armed = FALSE /\ stopped = FALSE
  /\ idle = 0
  /\ timer = None
  /\ state = [t \in Threads |-> "free"]
  /\ left = [t \in Threads |-> 0]
  /\ arming = [t \in Threads |-> 0]
  /\ arms = 0 /\ touches = 0
  /\ reports = [a \in Armings |-> 0]

Call == Arm \/ Touch \/ Disarm \/ Stop

Run(t) == Fire(t) \/ CheckOff(t) \/ CheckEarly(t) \/ CheckStalled(t) \/ Report(t)

Next == Call \/ (\E t \in Threads : Run(t)) \/ Tick

Spec == Init /\ [][Next]_vars

\* Time passes and threads run; nobody is bound to call.
FairSpec == Spec /\ WF_vars(Tick) /\ \A t \in Threads : WF_vars(Run(t))

-----------------------------------------------------------------------------
(* Properties *)

\* The types of the variables; no timer is longer than the check interval, so that a
\* stall waits for its check no longer than that (_ensure_timer).
TypeOK ==
  /\ armed \in BOOLEAN /\ stopped \in BOOLEAN
  /\ idle \in 0..Timeout
  /\ timer \in Threads \cup {None}
  /\ state \in [Threads -> {"free", "waiting", "fired", "reporting"}]
  /\ left \in [Threads -> 0..Interval]
  /\ arming \in [Threads -> 0..MaxArms]
  /\ arms \in 0..MaxArms /\ touches \in 0..MaxTouches
  /\ reports \in [Armings -> Nat]

\* An armed watchdog always has a check to come, and _timer is that timer: arm()
\* starts none when it finds one, and the one it finds may have been started for an
\* earlier arming, or have fired and be waiting for the lock (_ensure_timer, _check).
ArmedIsWatched == armed => timer \in Threads /\ Watching(timer)

\* stop() leaves no timer waiting, whichever of the timers started before was the
\* last: there is one at a time and _clear_timer cancels that one.
StopLeavesNoTimer == stopped => \A t \in Threads : state[t] # "waiting"

\* "Watchdog that reports once when an armed transport goes idle": no two reports
\* are made, or about to be made, for one arming, although arm() may be called again
\* while a report is on its way.
ReportOnce ==
  /\ \A a \in Armings : reports[a] <= 1
  /\ \A t \in Threads : state[t] = "reporting" =>
       /\ arming[t] \in Armings
       /\ reports[arming[t]] = 0
       /\ \A u \in Threads \ {t} : state[u] = "reporting" => arming[u] # arming[t]

\* The arming was taken back: disarmed or stopped before a stall was found.
Withdrawn(a) ==
  ~armed /\ \A t \in Threads : ~(state[t] = "reporting" /\ arming[t] = a)

\* Once the transport is silent for good, every arming ends in a report unless it is
\* taken back or replaced by a new one.
StallReported ==
  \A a \in Armings : (armed /\ arms = a) ~> (reports[a] > 0 \/ arms > a \/ Withdrawn(a))

=============================================================================
