---------------------------- MODULE BackoffProofs ----------------------------
(***************************************************************************)
(* What holds of one event's clock for any limits, intervals, windows and  *)
(* number of faults: first how often LHDN is called, then when an event is  *)
(* given up, how late a verdict is noticed, and when a cancellation may     *)
(* lapse without being sent.                                               *)
(***************************************************************************)
EXTENDS Backoff, TLAPS

\* Every wait of either schedule is a number of seconds.
LEMMA WaitsAreNat == \A n \in Nat : Wait(n) \in Nat
  BY DEF Wait, submit_backoff_for, poll_backoff_for

\* The type invariant, with what the calls so far owe to attempts and faults.
IInv ==
  /\ BackoffTypeOK
  /\ phase = "waiting" => calls <= attempts + faults
  /\ phase \in {"calling", "answered", "refused"} =>
       attempts < Limit[kind] /\ calls <= attempts + 1 + faults
  /\ phase \in {"given_up", "past_window"} => calls <= attempts + faults

\* It holds at first, and every step keeps it.
LEMMA InvStart == Init => IInv
  BY BackoffAssumption
  DEF Init, IInv, BackoffTypeOK, FirstDue, Ends, NoWindow, Undecided, Sent

LEMMA InvStep == IInv /\ [Next]_vars => IInv'
<1> SUFFICES ASSUME IInv, [Next]_vars PROVE IInv'
    OBVIOUS
<1> USE BackoffAssumption DEF IInv, BackoffTypeOK, Ends
<1>0. /\ kind \in Kinds /\ Limit[kind] \in Nat \ {0} /\ PollInterval[kind] \in Nat
      /\ \A lag \in Lags : lag \in Nat
      /\ Due \in Nat
    BY DEF Lags, Due
<1>01. \A t \in Nat : Unsent(t) \in Nat \cup {Sent}
    BY DEF Unsent, Sent
<1>1. CASE Take
  <2>1. /\ phase = "waiting"
        /\ UNCHANGED <<kind, attempts, available_at, cancellable_until, unsent, decided,
                       faults>>
        /\ \/ phase' = "past_window" /\ UNCHANGED calls
           \/ phase' = "calling" /\ calls' = calls + 1
      BY <1>1 DEF Take
  <2>2. now' \in Nat
      BY <1>0, <1>1 DEF Take
  <2> QED
      BY <1>0, <2>1, <2>2
<1>2. CASE Retry
  <2>1. /\ attempts' = attempts + 1
        /\ phase = "calling" /\ (faults' = faults \/ faults' = faults + 1)
        /\ faults' \in 0..MaxFaults
        /\ UNCHANGED <<kind, cancellable_until, calls, decided>>
      BY <1>2 DEF Retry
  <2>2. attempts' \in 1..Limit[kind]
      BY <1>0, <2>1
  <2>3. calls' <= attempts' + faults'
    <3>1. /\ calls <= attempts + 1 + faults
          /\ attempts \in Nat /\ faults \in Nat /\ calls \in Nat
        BY <1>0, <2>1
    <3>2. calls' = calls /\ attempts' = attempts + 1
        BY <2>1
    <3>3. faults' = faults \/ faults' = faults + 1
        BY <2>1
    <3> HIDE DEF IInv, BackoffTypeOK
    <3> QED
        BY <3>1, <3>2, <3>3
  <2>4. Wait(attempts') \in Nat
      BY <2>2, WaitsAreNat
  <2>5. now' \in Nat /\ unsent' \in Nat \cup {Sent}
    <3>1. PICK d \in CallTimes :
            now' = now + d /\ unsent' \in {Sent, Unsent(d + Wait(attempts'))}
        BY <1>2 DEF Retry
    <3> QED
        BY <1>01, <2>4, <3>1
  <2>6. \/ phase' = "given_up" /\ available_at' \in Nat
        \/ /\ phase' = "waiting" /\ available_at' \in Nat
           /\ attempts' < Limit[kind]
      BY <1>0, <1>2, <2>2, <2>4, <2>5 DEF Retry, Exhausted
  <2>7. BackoffTypeOK'
      BY <1>0, <2>1, <2>2, <2>5, <2>6
  <2>8. phase' \in {"given_up", "waiting"}
      BY <2>6
  <2> HIDE DEF BackoffTypeOK
  <2> QED
      BY <2>3, <2>7, <2>8
<1>3. CASE Answered
  <2>1. /\ now' \in Nat /\ phase' \in {"answered", "refused"} /\ phase = "calling"
        /\ unsent' \in Nat \cup {Sent}
        /\ UNCHANGED <<kind, attempts, available_at, cancellable_until, calls, decided,
                       faults>>
      BY <1>3 DEF Answered
  <2> QED
      BY <1>0, <2>1
<1>4. CASE Interrupted
  <2>1. /\ phase \in {"waiting", "calling"} /\ phase' = "waiting"
        /\ faults' = faults + 1 /\ faults' \in 0..MaxFaults
        /\ UNCHANGED <<kind, attempts, available_at, cancellable_until, calls, decided>>
      BY <1>4 DEF Interrupted
  <2>2. now' \in Nat /\ unsent' \in Nat \cup {Sent}
      BY <1>0, <1>01, <1>4 DEF Interrupted
  <2>3. calls' <= attempts' + faults'
      BY <2>1
  <2> QED
      BY <1>0, <2>1, <2>2, <2>3
<1>5. CASE LhdnDecides
  <2>1. /\ decided' \in Nat
        /\ UNCHANGED <<kind, phase, attempts, available_at, cancellable_until, now,
                       calls, unsent, faults>>
      BY <1>5 DEF LhdnDecides
  <2> QED
      BY <1>0, <2>1
<1>6. CASE UNCHANGED vars
    BY <1>6 DEF vars
<1> QED
    BY <1>1, <1>2, <1>3, <1>4, <1>5, <1>6 DEF Next

LEMMA InvHolds == Spec => []IInv
  BY InvStart, InvStep, PTL DEF Spec

\* However many restarts and failed writes there are, each costs LHDN at most
\* one call more than max_attempts.
THEOREM BoundedCalls == Spec => []CallsAreBounded
<1>1. IInv => CallsAreBounded
    BY BackoffAssumption DEF IInv, BackoffTypeOK, CallsAreBounded, Ends
<1> QED
    BY <1>1, InvHolds, PTL

\* The attempt counter stays below its limit while the event is alive.
THEOREM BackoffTypeCorrect == Spec => []BackoffTypeOK
<1>1. IInv => BackoffTypeOK
    BY DEF IInv
<1> QED
    BY <1>1, InvHolds, PTL
-----------------------------------------------------------------------------
(* Failures before the first request of a cancellation.                    *)

\* A cancellation none of whose requests has left is as old as the intervals its
\* loop has slept, one for each failure, and what the failures have cost.
UnsentInTime ==
  unsent # Sent =>
    /\ phase = "waiting" =>
         /\ now <= (attempts + faults) * PollInterval[kind] + unsent
         /\ available_at <= (attempts + faults) * PollInterval[kind] + unsent
    /\ phase = "calling" =>
         /\ now <= (attempts + faults + 1) * PollInterval[kind] + unsent
         /\ available_at <= now
    /\ phase = "past_window" =>
         cancellable_until <= (attempts + faults + 1) * PollInterval[kind] + unsent

UnsentInv == IInv /\ UnsentInTime

LEMMA Times == \A n, s \in Nat : n * s \in Nat /\ (n + 1) * s = n * s + s
  OBVIOUS

LEMMA UnsentStart == Init => UnsentInv
  <1> SUFFICES ASSUME Init PROVE UnsentInv
    OBVIOUS
  <1>1. IInv
    BY InvStart
  <1>2. /\ phase = "waiting" /\ attempts + faults = 0 /\ now = 0 /\ available_at = 0
        /\ unsent = 0 \/ unsent = Sent
    BY DEF Init, FirstDue
  <1>3. 0 * PollInterval[kind] = 0
    BY <1>1, BackoffAssumption DEF IInv, BackoffTypeOK
  <1> QED BY <1>1, <1>2, <1>3 DEF UnsentInv, UnsentInTime, Sent

LEMMA UnsentStep == UnsentInv /\ [Next]_vars => UnsentInv'
  <1> SUFFICES ASSUME UnsentInv, [Next]_vars PROVE UnsentInv'
    OBVIOUS
  <1>1. IInv /\ IInv'
    BY InvStep DEF UnsentInv
  <1>2. /\ now \in Nat /\ available_at \in Nat /\ attempts \in Nat /\ faults \in Nat
        /\ unsent # Sent => unsent \in Nat
        /\ now' \in Nat /\ PollInterval[kind] \in Nat
        /\ cancellable_until \in Int
        /\ CallTimes \subseteq Nat /\ Downtimes \subseteq Nat
    BY <1>1, BackoffAssumption DEF IInv, BackoffTypeOK, NoWindow
  <1> DEFINE interval == PollInterval[kind]
             slept == (attempts + faults) * interval
  <1>3. /\ slept \in Nat /\ interval \in Nat
        /\ (attempts + faults + 1) * interval = slept + interval
    BY <1>2, Times
  <1>4. interval' = interval
    BY DEF Next, vars, Take, Retry, Answered, Interrupted, LhdnDecides
  <1>5. \A t \in Nat : Unsent(t) # Sent => unsent # Sent /\ Unsent(t) = unsent + t
    BY DEF Unsent
  <1>6. unsent # Sent =>
          /\ phase = "waiting" => now <= slept + unsent /\ available_at <= slept + unsent
          /\ phase = "calling" => now <= slept + interval + unsent /\ available_at <= now
          /\ phase = "past_window" => cancellable_until <= slept + interval + unsent
    BY <1>3 DEF UnsentInv, UnsentInTime
  <1> HIDE DEF slept, interval
  <1>7. SUFFICES ASSUME unsent' # Sent PROVE UnsentInTime'
    BY <1>1 DEF UnsentInv, UnsentInTime
  <1>8. CASE Take
    <2>1. PICK lag \in Lags :
            /\ now' = Due + lag
            /\ IF PastWindow(now')
                 THEN phase' = "past_window" /\ UNCHANGED calls
                 ELSE phase' = "calling" /\ calls' = calls + 1
      BY <1>8 DEF Take
    <2>2. /\ phase = "waiting" /\ phase' \in {"calling", "past_window"}
          /\ UNCHANGED <<attempts, faults, unsent, cancellable_until, available_at>>
      BY <1>8 DEF Take
    <2>3. now' <= slept + interval + unsent /\ available_at' <= now'
      BY <1>2, <1>3, <1>6, <1>7, <2>1, <2>2 DEF Lags, Due, interval, slept
    <2>4. phase' = "past_window" => cancellable_until <= now'
      BY <1>2, <2>1 DEF PastWindow
    <2>5. slept' = slept /\ ((attempts + faults + 1) * PollInterval[kind])' = slept + interval
      BY <1>3, <1>4, <2>2 DEF slept, interval
    <2> QED BY <1>2, <1>3, <1>7, <2>2, <2>3, <2>4, <2>5 DEF UnsentInTime, slept, interval
  <1>9. CASE Retry
    <2>1. PICK d \in CallTimes :
            now' = now + d /\ unsent' \in {Sent, Unsent(d + Wait(attempts'))}
      BY <1>9 DEF Retry
    <2>2. /\ phase = "calling" /\ attempts' = attempts + 1
          /\ faults' \in {faults, faults + 1}
          /\ \/ phase' = "given_up"
             \/ phase' = "waiting" /\ available_at' = now' + Wait(attempts')
      BY <1>9 DEF Retry
    <2>3. Wait(attempts') \in Nat
      BY <1>2, <2>2, WaitsAreNat
    <2>4. unsent # Sent /\ unsent' = unsent + (d + Wait(attempts'))
      BY <1>2, <1>5, <1>7, <2>1, <2>3
    <2>5. slept' >= slept + interval /\ slept' \in Nat
      <3>1. CASE faults' = faults
        <4>1. slept' = (attempts + faults + 1) * interval
          BY <1>2, <1>4, <2>2, <3>1 DEF slept
        <4> QED BY <1>3, <4>1 DEF interval, slept
      <3>2. CASE faults' = faults + 1
        <4>1. slept' = ((attempts + faults + 1) + 1) * interval
          BY <1>2, <1>4, <2>2, <3>2 DEF slept
        <4>2. slept' = (attempts + faults + 1) * interval + interval
          BY <1>2, <1>3, <4>1, Times DEF interval
        <4> QED BY <1>3, <4>2 DEF interval, slept
      <3> QED BY <2>2, <3>1, <3>2
    <2>6. now' + Wait(attempts') <= slept' + unsent'
      BY <1>2, <1>3, <1>6, <2>1, <2>2, <2>3, <2>4, <2>5 DEF slept, interval
    <2>7. unsent' \in Nat
      BY <1>2, <2>1, <2>3, <2>4
    <2>8. /\ now' <= slept' + unsent'
          /\ phase' = "waiting" => available_at' <= slept' + unsent'
      BY <1>2, <2>2, <2>3, <2>5, <2>6, <2>7 DEF slept, interval
    <2> QED BY <2>2, <2>8 DEF UnsentInTime, slept, interval
  <1>10. CASE Interrupted
    <2>1. /\ phase' = "waiting" /\ faults' = faults + 1
          /\ UNCHANGED <<attempts, available_at>>
      BY <1>10 DEF Interrupted
    <2>2. slept' = slept + interval
      <3>1. slept' = (attempts + faults + 1) * interval
        BY <1>2, <1>4, <2>1 DEF slept
      <3> QED BY <1>3, <3>1 DEF interval, slept
    <2>3. PICK d \in Downtimes :
            \/ /\ phase = "waiting"
               /\ now' \in {now + d} \cup {Due + lag + d : lag \in Lags}
               /\ unsent' = Unsent(d)
            \/ /\ phase = "calling"
               /\ \E c \in CallTimes :
                    now' = now + c + d /\ unsent' \in {Sent, Unsent(c + d)}
      BY <1>10 DEF Interrupted
    <2>4. now' <= slept' + unsent' /\ available_at' <= slept' + unsent'
      <3>1. CASE phase = "waiting" /\ unsent' = Unsent(d)
        <4>1. unsent # Sent /\ unsent' = unsent + d
          BY <1>2, <1>5, <1>7, <3>1
        <4>2. now' \in {now + d} \cup {Due + lag + d : lag \in Lags}
          BY <2>3, <3>1
        <4>3. PICK lag \in Lags : now' = now + d \/ now' = Due + lag + d
          BY <4>2 DEF Lags
        <4> QED BY <1>2, <1>3, <1>6, <2>1, <2>2, <3>1, <4>1, <4>3 DEF Lags, Due, interval, slept
      <3>2. CASE phase = "calling"
        <4>1. PICK c \in CallTimes : now' = now + c + d /\ unsent' \in {Sent, Unsent(c + d)}
          BY <2>3, <3>2
        <4>2. unsent # Sent /\ unsent' = unsent + (c + d)
          BY <1>2, <1>5, <1>7, <4>1
        <4>3. now <= slept + interval + unsent /\ available_at <= now
          BY <1>6, <3>2, <4>2
        <4>4. now <= now' /\ now' <= slept' + unsent'
          BY <1>2, <1>3, <2>2, <4>1, <4>2, <4>3 DEF interval, slept
        <4>5. slept' + unsent' \in Nat
          BY <1>2, <1>3, <2>2, <4>2 DEF interval, slept
        <4> QED BY <1>2, <2>1, <4>3, <4>4, <4>5
      <3> QED BY <2>3, <3>1, <3>2
    <2> QED BY <2>1, <2>4 DEF UnsentInTime, slept, interval
  <1>11. CASE Answered
    BY <1>11 DEF Answered, UnsentInTime
  <1>12. CASE LhdnDecides \/ UNCHANGED vars
    BY <1>12 DEF LhdnDecides, vars, UnsentInv, UnsentInTime
  <1> QED BY <1>8, <1>9, <1>10, <1>11, <1>12 DEF Next

LEMMA UnsentHolds == Spec => []UnsentInv
  BY UnsentStart, UnsentStep, PTL DEF Spec

\* A cancellation that lapses unsent had no more of its window left than the
\* loop's interval, once and again for each failure, and what the failures cost:
\* whatever the intervals, windows, call times and downtimes.
THEOREM InTimeIsSent == Spec => []RequestInTimeIsSent
<1>1. ASSUME UnsentInv PROVE RequestInTimeIsSent
  <2>1. attempts \in Nat /\ faults \in Nat
      BY <1>1 DEF UnsentInv, IInv, BackoffTypeOK
  <2>2. 1 + attempts + faults = attempts + faults + 1
      BY <2>1
  <2> QED
      BY <1>1, <2>2 DEF UnsentInv, UnsentInTime, RequestInTimeIsSent
<1> QED
    BY <1>1, UnsentHolds, PTL
-----------------------------------------------------------------------------
(* When.  Waits is the schedules added up, and the clock of an event is    *)
(* that sum and what the calls and the loops' intervals took.              *)

\* Waits(k, n) is the sum of the first n waits: each more wait adds its own.
LEMMA WaitsAddUp ==
  ASSUME NEW n \in Nat
  PROVE  /\ Waits(kind, n) \in Nat
         /\ Waits(kind, 0) = 0
         /\ Waits(kind, n + 1) = Waits(kind, n) + Wait(n + 1)
  <1>1. CASE kind = "poll"
    <2>1. CASE n \in 0..3
      BY <1>1, <2>1 DEF Waits, Wait, poll_backoff_for
    <2>2. CASE n \in 4..9
      BY <1>1, <2>2 DEF Waits, Wait, poll_backoff_for
    <2>3. CASE n >= 10
      BY <1>1, <2>3 DEF Waits, Wait, poll_backoff_for
    <2> QED BY <2>1, <2>2, <2>3
  <1>2. CASE kind # "poll"
    <2>1. CASE n \in 0..2
      BY <1>2, <2>1 DEF Waits, Wait, submit_backoff_for
    <2>2. CASE n >= 3
      BY <1>2, <2>2 DEF Waits, Wait, submit_backoff_for
    <2> QED BY <2>1, <2>2
  <1> QED BY <1>1, <1>2

LEMMA SlackIsNat ==
  ASSUME IInv
  PROVE  /\ CallMax \in Nat /\ \A d \in CallTimes : d <= CallMax
         /\ PollInterval[kind] \in Nat
         /\ Slack \in Nat /\ Slack = PollInterval[kind] + CallMax
         /\ Limit[kind] \in Nat \ {0}
  <1>1. CallMax \in CallTimes /\ \A d \in CallTimes : d <= CallMax
    BY CallsTimeOut DEF CallMax
  <1>2. PollInterval[kind] \in Nat /\ Limit[kind] \in Nat \ {0} /\ CallMax \in Nat
    BY <1>1, BackoffAssumption DEF IInv, BackoffTypeOK
  <1> HIDE DEF CallMax
  <1> QED BY <1>1, <1>2 DEF Slack

\* No faster than the schedule, whatever happens.
NotEarly ==
  /\ phase \in {"waiting", "calling"} => available_at >= Waits(kind, attempts)
  /\ phase = "calling" => now >= Waits(kind, attempts)
  /\ phase = "given_up" => attempts = Limit[kind] /\ now >= Waits(kind, attempts - 1)

\* Without faults, no slower than the schedule with a slack for each call.
NotLate ==
  faults = 0 =>
    /\ phase = "waiting" =>
         now <= available_at /\ available_at <= Waits(kind, attempts) + attempts * Slack
    /\ phase = "calling" =>
         now <= Waits(kind, attempts) + attempts * Slack + PollInterval[kind]
    /\ phase = "given_up" => now <= Waits(kind, attempts - 1) + attempts * Slack

\* Without faults, a verdict is at most one wait and two calls old: the call it
\* was reached during, or just before, and the next.
NotOld ==
  faults = 0 =>
    /\ phase = "waiting" =>
         /\ available_at <= now + Wait(attempts)
         /\ attempts > 0 => now >= Waits(kind, attempts - 1)
    /\ decided # Undecided =>
         /\ kind = "poll"
         /\ attempts > 0 => decided >= Waits(kind, attempts - 1)
         /\ phase = "waiting" => available_at <= decided + CallMax + Wait(attempts)
         /\ phase = "calling" =>
              now <= decided + CallMax + Wait(attempts) + PollInterval[kind]
         /\ phase = "answered" => now <= decided + CallMax + Wait(attempts) + Slack

ClockInv == IInv /\ NotEarly /\ NotLate /\ NotOld

\* What the steps below need of the types.
LEMMA ClockTypes ==
  ASSUME IInv
  PROVE  /\ now \in Nat /\ available_at \in Nat /\ attempts \in Nat /\ faults \in Nat
         /\ phase \in {"waiting", "calling"} => attempts < Limit[kind]
         /\ phase \in {"waiting", "calling", "answered", "refused", "given_up", "past_window"}
         /\ decided # Undecided => decided \in Nat
  BY BackoffAssumption DEF IInv, BackoffTypeOK, Ends

LEMMA ClockStart == Init => ClockInv
  <1> SUFFICES ASSUME Init PROVE ClockInv
    OBVIOUS
  <1>1. IInv
    BY InvStart
  <1>2. Waits(kind, 0) = 0 /\ Wait(0) \in Nat /\ Slack \in Nat
    BY <1>1, WaitsAddUp, WaitsAreNat, SlackIsNat
  <1>3. /\ phase = "waiting" /\ attempts = 0 /\ available_at = 0 /\ now = 0
        /\ decided = Undecided
    BY DEF Init, FirstDue
  <1>4. attempts * Slack = 0
    BY <1>2, <1>3
  <1> HIDE DEF Slack
  <1> QED BY <1>1, <1>2, <1>3, <1>4 DEF ClockInv, NotEarly, NotLate, NotOld

LEMMA ClockStep == ClockInv /\ [Next]_vars => ClockInv'
  <1> SUFFICES ASSUME ClockInv, [Next]_vars PROVE ClockInv'
    OBVIOUS
  <1>1. IInv /\ NotEarly /\ NotLate /\ NotOld
    BY DEF ClockInv
  <1>2. IInv'
    BY <1>1, InvStep
  <1>3. /\ now \in Nat /\ available_at \in Nat /\ attempts \in Nat /\ faults \in Nat
        /\ phase \in {"waiting", "calling"} => attempts < Limit[kind]
        /\ decided # Undecided => decided \in Nat
    BY <1>1, ClockTypes
  <1>4. /\ CallMax \in Nat /\ \A d \in CallTimes : d \in Nat /\ d <= CallMax
        /\ PollInterval[kind] \in Nat /\ Limit[kind] \in Nat \ {0}
        /\ Slack \in Nat /\ Slack = PollInterval[kind] + CallMax
    BY <1>1, SlackIsNat, BackoffAssumption
  <1>5. kind' = kind /\ Slack' = Slack
    BY DEF Next, vars, Take, Retry, Answered, Interrupted, LhdnDecides, Slack
  <1>6. /\ Wait(attempts) \in Nat /\ Wait(attempts + 1) \in Nat
        /\ Waits(kind, attempts) \in Nat /\ Waits(kind, attempts + 1) \in Nat
        /\ Waits(kind, attempts + 1) = Waits(kind, attempts) + Wait(attempts + 1)
    BY <1>3, WaitsAreNat, WaitsAddUp
  <1>7. /\ attempts * Slack \in Nat
        /\ (attempts + 1) * Slack = attempts * Slack + Slack
    BY <1>3, <1>4, Times
  <1>8. \A n : Wait(n)' = Wait(n)
    BY <1>5 DEF Wait
  <1> DEFINE waits == Waits(kind, attempts)
             wait == Wait(attempts)
             taken == attempts * Slack
             interval == PollInterval[kind]
  <1>9. /\ phase \in {"waiting", "calling"} => available_at >= waits
        /\ phase = "calling" => now >= waits
        /\ phase = "given_up" => attempts = Limit[kind] /\ now >= Waits(kind, attempts - 1)
    BY <1>1 DEF NotEarly
  <1>10. faults = 0 =>
           /\ phase = "waiting" => now <= available_at /\ available_at <= waits + taken
           /\ phase = "calling" => now <= waits + taken + interval
           /\ phase = "given_up" => now <= Waits(kind, attempts - 1) + taken
    BY <1>1 DEF NotLate
  <1>11. faults = 0 =>
           /\ phase = "waiting" => available_at <= now + wait
           /\ phase = "waiting" /\ attempts > 0 => now >= Waits(kind, attempts - 1)
    BY <1>1 DEF NotOld
  <1>12. faults = 0 /\ decided # Undecided =>
           /\ kind = "poll"
           /\ attempts > 0 => decided >= Waits(kind, attempts - 1)
           /\ phase = "waiting" => available_at <= decided + CallMax + wait
           /\ phase = "calling" => now <= decided + CallMax + wait + interval
           /\ phase = "answered" => now <= decided + CallMax + wait + Slack
    BY <1>1 DEF NotOld
  <1>13. CASE Take
    <2>1. /\ phase = "waiting" /\ phase' \in {"calling", "past_window"}
          /\ UNCHANGED <<kind, attempts, available_at, decided, faults>>
      BY <1>13 DEF Take
    <2>2. PICK lag \in {0, interval} :
            now' = (IF available_at > now THEN available_at ELSE now) + lag
      BY <1>13 DEF Take, Lags, Due
    <2>3. now' >= available_at /\ (faults = 0 => now' <= available_at + interval)
      BY <1>3, <1>4, <1>10, <2>1, <2>2
    <2>4. now' \in Nat
      BY <1>3, <1>4, <2>2
    <2> HIDE DEF waits, wait, taken, interval
    <2>5. NotEarly'
      <3>1. now' >= waits
        BY <1>3, <1>6, <1>9, <2>1, <2>3, <2>4 DEF waits
      <3> QED BY <1>9, <2>1, <3>1 DEF NotEarly, waits
    <2>6. NotLate'
      <3>1. faults = 0 => now' <= waits + taken + interval
        BY <1>3, <1>4, <1>6, <1>7, <1>10, <2>1, <2>3, <2>4 DEF waits, taken, interval
      <3> QED BY <1>5, <2>1, <3>1 DEF NotLate, waits, taken, interval
    <2>7. NotOld'
      <3>1. faults = 0 /\ decided # Undecided => now' <= decided + CallMax + wait + interval
        BY <1>3, <1>4, <1>6, <1>12, <2>1, <2>3, <2>4 DEF wait, interval
      <3> QED BY <1>5, <1>8, <1>12, <2>1, <3>1 DEF NotOld, wait, interval
    <2> QED BY <1>2, <2>5, <2>6, <2>7 DEF ClockInv
  <1>14. CASE Retry
    <2>1. /\ phase = "calling" /\ attempts' = attempts + 1
          /\ faults' = IF Astray THEN faults + 1 ELSE faults
          /\ UNCHANGED <<kind, decided>>
      BY <1>14 DEF Retry
    <2>2. PICK d \in CallTimes : now' = now + d
      BY <1>14 DEF Retry
    <2>3. now' \in Nat /\ now' >= now /\ now' <= now + CallMax
      BY <1>3, <1>4, <2>2
    <2>4. \/ phase' = "given_up" /\ attempts' = Limit[kind]
          \/ phase' = "waiting" /\ available_at' = now' + Wait(attempts + 1)
      <3>1. \/ phase' = "given_up" /\ attempts' >= Limit[kind]
            \/ phase' = "waiting" /\ available_at' = now' + Wait(attempts')
        BY <1>5, <1>8, <1>14 DEF Retry, Exhausted
      <3>2. attempts' \in Nat /\ attempts' <= Limit[kind]
        BY <1>3, <1>4, <2>1
      <3> QED BY <1>4, <2>1, <3>1, <3>2
    <2>5. attempts' - 1 = attempts
      BY <1>3, <2>1
    <2>6. faults' = 0 => faults = 0 /\ (decided # Undecided => decided >= now)
      BY <1>3, <2>1 DEF Astray
    <2>7. now' >= waits /\ (faults = 0 => now' <= waits + taken + Slack)
      <3> HIDE DEF waits, taken, interval
      <3>1. now >= waits /\ (faults = 0 => now <= waits + taken + interval)
        BY <1>9, <1>10, <2>1
      <3> QED BY <1>3, <1>4, <1>6, <1>7, <2>3, <3>1 DEF waits, taken, interval
    <2>8. Wait(attempts)' = Wait(attempts + 1)
      BY <1>5, <2>1 DEF Wait
    <2> DEFINE next == Wait(attempts + 1)
               total == Waits(kind, attempts + 1)
    <2>9. next \in Nat /\ total \in Nat /\ total = waits + next /\ waits \in Nat /\ taken \in Nat
      BY <1>6, <1>7
    <2> HIDE DEF waits, taken, interval, next, total
    <2>10. NotEarly'
      <3>1. phase' = "waiting" => available_at' >= total
        BY <2>3, <2>4, <2>7, <2>9 DEF next
      <3> QED BY <1>5, <2>1, <2>4, <2>5, <2>7, <3>1 DEF NotEarly, waits, total
    <2>11. NotLate'
      <3>1. attempts' * Slack' = taken + Slack
        BY <1>5, <1>7, <2>1 DEF taken
      <3>2. faults = 0 /\ phase' = "waiting" =>
              now' <= available_at' /\ available_at' <= total + (taken + Slack)
        BY <1>4, <2>3, <2>4, <2>7, <2>9 DEF next
      <3>3. faults = 0 => now' <= waits + (taken + Slack)
        BY <1>4, <2>3, <2>7, <2>9
      <3> QED BY <1>5, <2>1, <2>4, <2>5, <2>6, <3>1, <3>2, <3>3 DEF NotLate, waits, total
    <2>12. NotOld'
      <3>1. phase' = "waiting" => available_at' <= now' + next
        BY <2>3, <2>4, <2>9 DEF next
      <3>2. faults' = 0 /\ decided # Undecided =>
              /\ kind = "poll" /\ decided >= waits
              /\ phase' = "waiting" => available_at' <= decided + CallMax + next
        <4>1. SUFFICES ASSUME faults' = 0, decided # Undecided
                       PROVE  /\ kind = "poll" /\ decided >= waits
                              /\ phase' = "waiting" => available_at' <= decided + CallMax + next
          OBVIOUS
        <4>2. kind = "poll" /\ decided >= now /\ decided \in Nat /\ now >= waits
          BY <1>3, <1>9, <1>12, <2>1, <2>6, <4>1 DEF waits
        <4>3. available_at' \in Nat
          BY <1>2 DEF IInv, BackoffTypeOK
        <4> QED BY <1>3, <1>4, <2>3, <2>9, <3>1, <4>2, <4>3 DEF next, waits
      <3>3. CallMax' = CallMax
        BY DEF CallMax
      <3> QED BY <1>5, <2>1, <2>4, <2>5, <2>6, <2>7, <2>8, <3>1, <3>2, <3>3
              DEF NotOld, waits, next
    <2> QED BY <1>2, <2>10, <2>11, <2>12 DEF ClockInv
  <1>15. CASE Answered
    <2>1. /\ phase = "calling" /\ phase' \in {"answered", "refused"}
          /\ UNCHANGED <<kind, attempts, available_at, decided, faults>>
      BY <1>15 DEF Answered
    <2>2. PICK d \in CallTimes : now' = now + d
      BY <1>15 DEF Answered
    <2>3. faults = 0 /\ decided # Undecided => now' <= decided + CallMax + wait + Slack
      <3> HIDE DEF wait, interval
      <3>1. faults = 0 /\ decided # Undecided => now <= decided + CallMax + wait + interval
        BY <1>12, <2>1
      <3> QED BY <1>3, <1>4, <1>6, <2>2, <3>1 DEF wait, interval
    <2>4. NotEarly' /\ NotLate'
      BY <2>1 DEF NotEarly, NotLate
    <2> HIDE DEF wait
    <2>5. NotOld'
      BY <1>5, <1>8, <1>12, <2>1, <2>3 DEF NotOld, wait
    <2> QED BY <1>2, <2>4, <2>5 DEF ClockInv
  <1>16. CASE Interrupted
    <2>1. /\ phase \in {"waiting", "calling"} /\ phase' = "waiting"
          /\ faults' = faults + 1
          /\ UNCHANGED <<kind, attempts, available_at>>
      BY <1>16 DEF Interrupted
    <2>2. faults' # 0
      BY <1>3, <2>1
    <2> QED BY <1>2, <1>9, <2>1, <2>2 DEF ClockInv, NotEarly, NotLate, NotOld
  <1>17. CASE LhdnDecides
    <2>1. /\ kind = "poll" /\ phase \in {"waiting", "calling"} /\ decided' = now
          /\ UNCHANGED <<kind, phase, attempts, available_at, now, faults>>
      BY <1>17 DEF LhdnDecides
    <2>2. NotEarly' /\ NotLate'
      BY <1>1, <1>5, <2>1 DEF NotEarly, NotLate
    <2>3. attempts > 0 => waits >= Waits(kind, attempts - 1) /\ Waits(kind, attempts - 1) \in Nat
      <3>1. SUFFICES ASSUME attempts > 0
                     PROVE  /\ Waits(kind, attempts - 1) <= waits
                            /\ Waits(kind, attempts - 1) \in Nat
        BY <1>6
      <3>2. attempts - 1 \in Nat /\ (attempts - 1) + 1 = attempts
        BY <1>3, <3>1
      <3>3. /\ Waits(kind, attempts - 1) \in Nat
            /\ Waits(kind, (attempts - 1) + 1) = Waits(kind, attempts - 1) + Wait((attempts - 1) + 1)
        BY <3>2, WaitsAddUp
      <3>4. waits = Waits(kind, attempts - 1) + wait
        BY <3>2, <3>3
      <3> HIDE DEF waits, wait
      <3> QED BY <1>6, <3>3, <3>4 DEF wait
    <2>4. faults = 0 /\ attempts > 0 => now >= Waits(kind, attempts - 1)
      <3> HIDE DEF waits
      <3> QED BY <1>3, <1>6, <1>9, <1>11, <2>1, <2>3 DEF waits
    <2>5. /\ faults = 0 /\ phase = "waiting" => available_at <= now + CallMax + wait
          /\ now <= now + CallMax + wait + interval
      <3> HIDE DEF wait, interval
      <3> QED BY <1>3, <1>4, <1>6, <1>11 DEF wait, interval
    <2>6. CallMax' = CallMax
      BY DEF CallMax
    <2> HIDE DEF wait
    <2>7. NotOld'
      BY <1>5, <1>8, <1>11, <2>1, <2>4, <2>5, <2>6 DEF NotOld, wait, interval
    <2> QED BY <1>2, <2>2, <2>7 DEF ClockInv
  <1>18. CASE UNCHANGED vars
    <2>1. NotEarly' /\ NotLate'
      BY <1>1, <1>5, <1>18 DEF NotEarly, NotLate, vars
    <2>2. NotOld'
      BY <1>1, <1>5, <1>8, <1>18 DEF NotOld, vars
    <2> QED BY <1>2, <2>1, <2>2 DEF ClockInv
  <1> QED BY <1>13, <1>14, <1>15, <1>16, <1>17, <1>18 DEF Next

LEMMA ClockHolds == Spec => []ClockInv
  BY ClockStart, ClockStep, PTL DEF Spec

\* An event whose every call fails is kept alive for the waits of its schedule
\* but the last, no less however often the process dies, and without faults no
\* more than the calls take: what the documents say of max_attempts, whatever
\* it is set to.
THEOREM OnTime == Spec => []GivesUpOnTime
<1>1. ASSUME ClockInv PROVE GivesUpOnTime
  <2> SUFFICES ASSUME phase = "given_up"
               PROVE  /\ now >= AtLeast[kind]
                      /\ faults = 0 => now <= AtMost[kind] + Limit[kind] * Slack
      BY DEF GivesUpOnTime
  <2> DEFINE total == Waits(kind, Limit[kind] - 1)
             taken == Limit[kind] * Slack
  <2>1. /\ attempts = Limit[kind] /\ now >= total
        /\ faults = 0 => now <= total + taken
      BY <1>1 DEF ClockInv, NotEarly, NotLate
  <2>2. Limit[kind] \in Nat \ {0} /\ Slack \in Nat /\ now \in Nat
      BY <1>1, SlackIsNat, ClockTypes DEF ClockInv
  <2>3. total \in Nat /\ taken \in Nat
      BY <2>2, WaitsAddUp, Times
  <2>4. /\ AtLeast[kind] \in Nat /\ AtLeast[kind] <= total
        /\ AtMost[kind] \in Nat /\ AtMost[kind] >= total
      BY <1>1, TotalsAssumption DEF ClockInv, IInv, BackoffTypeOK
  <2> HIDE DEF total, taken
  <2>5. now >= AtLeast[kind] /\ (faults = 0 => now <= AtMost[kind] + taken)
      BY <2>1, <2>2, <2>3, <2>4
  <2> QED
      BY <2>5 DEF taken
<1> QED
    BY <1>1, ClockHolds, PTL

\* A verdict waits for at most one wait of the schedule, its loop's interval and
\* two calls, that which just missed it and that which brings it: the long waits
\* begin only with the eleventh poll, when the first half hour is over.
THEOREM NoticedInTime == Spec => []VerdictIsNoticed
<1>1. ASSUME ClockInv PROVE VerdictIsNoticed
  <2> SUFFICES ASSUME decided # Undecided, phase = "answered", faults = 0
               PROVE  now - decided <=
                        (IF decided <= Early THEN EarlyGap ELSE LateGap) + CallMax + Slack
      BY DEF VerdictIsNoticed
  <2>1. /\ kind = "poll"
        /\ attempts > 0 => decided >= Waits("poll", attempts - 1)
        /\ now <= decided + CallMax + Wait(attempts) + Slack
      BY <1>1 DEF ClockInv, NotOld
  <2>2. /\ now \in Nat /\ decided \in Nat /\ attempts \in Nat /\ Slack \in Nat
        /\ CallMax \in Nat
      BY <1>1, SlackIsNat, ClockTypes DEF ClockInv
  <2>3. /\ Wait(attempts) \in Nat /\ Wait(attempts) <= 900
        /\ attempts <= 10 => Wait(attempts) <= 300
      BY <2>1, <2>2 DEF Wait, poll_backoff_for
  <2>4. decided <= Early => attempts <= 10
    <3>1. SUFFICES ASSUME attempts > 10 PROVE decided > Early
        BY <2>2, GapsAssumption
    <3>2. Waits("poll", attempts - 1) >= 1910
      <4>1. CASE attempts = 11
          BY <4>1 DEF Waits
      <4>2. CASE attempts > 11
          BY <2>2, <4>2 DEF Waits
      <4> QED
          BY <2>2, <3>1, <4>1, <4>2
    <3>3. Waits("poll", 10) = 1910
        BY DEF Waits
    <3>4. Waits("poll", attempts - 1) \in Nat
        BY <2>1, <2>2, <3>1, WaitsAddUp
    <3> QED
        BY <2>1, <2>2, <3>1, <3>2, <3>3, <3>4, GapsAssumption
  <2>5. Early \in Nat /\ EarlyGap \in Nat /\ EarlyGap >= 300 /\ LateGap \in Nat /\ LateGap >= 900
      BY GapsAssumption
  <2> QED
      BY <2>1, <2>2, <2>3, <2>4, <2>5
<1> QED
    BY <1>1, ClockHolds, PTL
=============================================================================
