------------------------------- MODULE Backoff -------------------------------
(***************************************************************************)
(* The clock of one outbox event: when each of its calls to LHDN is made,  *)
(* how long the schedules of worker/mod.rs keep it alive, and how late its *)
(* worker may notice that it is over.  Seconds since the event was         *)
(* inserted.  What the calls do is in Bridge, which event of several is    *)
(* taken in Scheduler; here there is one event and its worker is free.     *)
(***************************************************************************)
EXTENDS Integers

CONSTANTS
  Kinds,          \* the kinds of event considered
  Limit,          \* max_attempts of each worker
  PollInterval,   \* poll_interval of each worker, in seconds
  CallTimes,      \* how long a call may take: the token mutex, the token, the request
  Windows,        \* seconds a requested cancellation's window stays open
  Downtimes,      \* how long a restart, or a database that fails, may take
  MaxFaults       \* bound: restarts, failed writes, polls that go astray

ASSUME BackoffAssumption ==
  /\ Kinds \subseteq {"submit", "poll", "cancel"}
  /\ Limit \in [Kinds -> Nat \ {0}]
  /\ PollInterval \in [Kinds -> Nat]
  /\ CallTimes \subseteq Nat /\ Windows \subseteq Nat /\ Downtimes \subseteq Nat
  /\ MaxFaults \in Nat

\* A call times out: no call takes longer than the longest.
ASSUME CallsTimeOut == \E d \in CallTimes : \A e \in CallTimes : e <= d

VARIABLES
  kind,           \* the event's kind
  phase,          \* "waiting", "calling", or how it ended
  attempts,       \* outbox_events.attempts (invoices.attempts of a submission)
  available_at,   \* outbox_events.available_at
  cancellable_until, \* of the row, or NoWindow
  now,
  calls,          \* the calls begun so far
  unsent,         \* of a cancellation, Sent or the seconds failures have cost it
  decided,        \* when LHDN reached a verdict, or Undecided
  faults

vars == <<kind, phase, attempts, available_at, cancellable_until, now, calls,
          unsent, decided, faults>>

\* A request has left for LHDN; nothing depends on it but for a cancellation.
Sent == -1
Undecided == -1
NoWindow == 0
Ends == {"answered", "refused", "given_up", "past_window"}

BackoffTypeOK ==
  /\ kind \in Kinds
  /\ phase \in {"waiting", "calling"} \cup Ends
  /\ attempts \in 0..Limit[kind]
  /\ phase \in {"waiting", "calling"} => attempts < Limit[kind]
  /\ available_at \in Nat /\ now \in Nat /\ calls \in Nat
  /\ cancellable_until \in Windows \cup {NoWindow}
  /\ unsent \in Nat \cup {Sent}
  /\ decided \in Nat \cup {Undecided}
  /\ faults \in 0..MaxFaults

-----------------------------------------------------------------------------
(* The schedules.                                                          *)

\* Two slips: the attempt taken as the failures before this one, and the coarse
\* cadence one poll too early.
submit_backoff_for_ZeroBased(attempt) ==
  CASE attempt = 0 -> 30
    [] attempt = 1 -> 120
    [] attempt = 2 -> 600
    [] OTHER       -> 3600

poll_backoff_for_CoarseEarly(attempt) ==
  CASE attempt \in {0, 1} -> 5
    [] attempt = 2        -> 15
    [] attempt = 3        -> 30
    [] attempt = 4        -> 60
    [] attempt \in 5..9   -> 300
    [] OTHER              -> 900

submit_backoff_for(attempt) ==
  CASE attempt = 1 -> 30
    [] attempt = 2 -> 120
    [] attempt = 3 -> 600
    [] OTHER       -> 3600

poll_backoff_for(attempt) ==
  CASE attempt \in {0, 1} -> 5
    [] attempt = 2        -> 15
    [] attempt = 3        -> 30
    [] attempt = 4        -> 60
    [] attempt \in 5..10  -> 300
    [] OTHER              -> 900

Wait(attempt) ==
  IF kind = "poll" THEN poll_backoff_for(attempt) ELSE submit_backoff_for(attempt)

\* A slip: one attempt too many.
Exhausted_Later(attempt) == attempt > Limit[kind]

Exhausted(attempt) == attempt >= Limit[kind]

-----------------------------------------------------------------------------
\* A slip: a new event waits for a backoff it has not earned.
FirstDue_AfterBackoff == submit_backoff_for(1)

\* The row and its event are inserted in one transaction, due at once.
FirstDue == 0

Init ==
  /\ kind \in Kinds
  /\ phase = "waiting" /\ attempts = 0
  /\ available_at = FirstDue
  /\ cancellable_until \in IF kind = "cancel" THEN Windows ELSE {NoWindow}
  /\ now = 0 /\ calls = 0 /\ decided = Undecided /\ faults = 0
  /\ unsent = IF kind = "cancel" THEN 0 ELSE Sent

\* A loop with nothing to do looks again after poll_interval, so a due event
\* waits for its worker that long at most; a canceller then checks the window.
Due == IF available_at > now THEN available_at ELSE now
Lags == {0, PollInterval[kind]}
PastWindow(t) == kind = "cancel" /\ ~(cancellable_until > t)

Take ==
  /\ phase = "waiting"
  /\ \E lag \in Lags :
       /\ now' = Due + lag
       /\ IF PastWindow(now')
            THEN phase' = "past_window" /\ UNCHANGED calls
            ELSE phase' = "calling" /\ calls' = calls + 1
  /\ UNCHANGED <<kind, attempts, available_at, cancellable_until, unsent, decided,
                 faults>>

\* A request that has not left yet does not leave for another t seconds.
Unsent(t) == IF unsent = Sent THEN Sent ELSE unsent + t

\* LHDN had reached its verdict before this call began, and the call misses it.
Astray == decided # Undecided /\ decided < now

\* A slip: the event is put back with the attempts it had.
Retry_SameAttempt ==
  /\ phase = "calling"
  /\ Astray => faults < MaxFaults
  /\ faults' = IF Astray THEN faults + 1 ELSE faults
  /\ UNCHANGED attempts
  /\ \E d \in CallTimes :
       /\ now' = now + d
       /\ unsent' \in {Sent, Unsent(d + Wait(attempts + 1))}
  /\ IF Exhausted(attempts + 1)
       THEN phase' = "given_up" /\ UNCHANGED available_at
       ELSE phase' = "waiting" /\ available_at' = now' + Wait(attempts + 1)
  /\ UNCHANGED <<kind, cancellable_until, calls, decided>>

\* A transient failure, of the request or of access_token before it, or a poll of
\* a document LHDN is still validating.  A poll that should have brought the
\* verdict and does not counts as a fault.
Retry ==
  /\ phase = "calling"
  /\ Astray => faults < MaxFaults
  /\ faults' = IF Astray THEN faults + 1 ELSE faults
  /\ attempts' = attempts + 1
  /\ \E d \in CallTimes :
       /\ now' = now + d
       /\ unsent' \in {Sent, Unsent(d + Wait(attempts'))}
  /\ IF Exhausted(attempts')
       THEN phase' = "given_up" /\ UNCHANGED available_at
       ELSE phase' = "waiting" /\ available_at' = now' + Wait(attempts')
  /\ UNCHANGED <<kind, cancellable_until, calls, decided>>

\* LHDN's answer, or an error no retry would change (which may be of access_token).
Answered ==
  /\ phase = "calling"
  /\ \E d \in CallTimes : now' = now + d
  /\ \/ /\ kind = "poll" => decided # Undecided
        /\ phase' = "answered" /\ unsent' = Sent
     \/ /\ Astray => faults < MaxFaults
        /\ phase' = "refused" /\ unsent' \in {Sent, unsent}
  /\ UNCHANGED <<kind, attempts, available_at, cancellable_until, calls, decided,
                 faults>>

\* The process dies, or the database fails, before the event is taken or during
\* its call: the event is as it was, and is looked for anew d seconds later.
Interrupted ==
  /\ faults < MaxFaults /\ faults' = faults + 1
  /\ \E d \in Downtimes :
       \/ /\ phase = "waiting"
          /\ now' \in {now + d} \cup {Due + lag + d : lag \in Lags}
          /\ unsent' = Unsent(d)
       \/ /\ phase = "calling"
          /\ \E c \in CallTimes :
               now' = now + c + d /\ unsent' \in {Sent, Unsent(c + d)}
  /\ phase' = "waiting"
  /\ UNCHANGED <<kind, attempts, available_at, cancellable_until, calls, decided>>

\* LHDN reaches its verdict: at worst just after a poll has missed it, or just
\* after it has composed the answer a poll is about to get.
LhdnDecides ==
  /\ kind = "poll" /\ phase \in {"waiting", "calling"} /\ decided = Undecided
  /\ decided' = now
  /\ UNCHANGED <<kind, phase, attempts, available_at, cancellable_until, now, calls,
                 unsent, faults>>

Next == Take \/ Retry \/ Answered \/ Interrupted \/ LhdnDecides

Spec == Init /\ [][Next]_vars

-----------------------------------------------------------------------------
\* The time an attempt may add to its backoff.
CallMax == CHOOSE d \in CallTimes : \A e \in CallTimes : e <= d
Slack == PollInterval[kind] + CallMax

\* The seconds the first n waits of an event take together.
Waits(k, n) ==
  IF k = "poll"
  THEN CASE n = 0        -> 0
         [] n = 1        -> 5
         [] n = 2        -> 20
         [] n = 3        -> 50
         [] n \in 4..10  -> 110 + 300 * (n - 4)
         [] OTHER        -> 1910 + 900 * (n - 10)
  ELSE CASE n = 0 -> 0
         [] n = 1 -> 30
         [] n = 2 -> 150
         [] OTHER -> 750 + 3600 * (n - 3)

\* The seconds the documents give before giving up, by kind: those of all its
\* waits, as near as the documents put it.
CONSTANTS AtLeast, AtMost

ASSUME TotalsAssumption ==
  \A k \in Kinds :
    /\ AtLeast[k] \in Nat /\ AtLeast[k] <= Waits(k, Limit[k] - 1)
    /\ AtMost[k] \in Nat /\ AtMost[k] >= Waits(k, Limit[k] - 1)

\* An event whose every call fails is kept alive as long as the documents say:
\* not given up earlier, and, but for the time the calls themselves take and
\* the time the process was down, not later.
GivesUpOnTime ==
  phase = "given_up" =>
    /\ now >= AtLeast[kind]
    /\ faults = 0 => now <= AtMost[kind] + Limit[kind] * Slack

\* The seconds in which a verdict counts as early, and how long one may go
\* unnoticed.  The eleventh poll, the first that 900 seconds are waited after,
\* is made when 1910 have passed.
CONSTANTS Early, EarlyGap, LateGap

ASSUME GapsAssumption ==
  /\ Early \in Nat /\ Early < Waits("poll", 10)
  /\ EarlyGap \in Nat /\ EarlyGap >= 300
  /\ LateGap \in Nat /\ LateGap >= 900

\* A verdict is noticed soon: one of the first half hour within five minutes,
\* a later one within a quarter of an hour, plus what the poll that just missed
\* it and the one that brings it take.
VerdictIsNoticed ==
  decided # Undecided /\ phase = "answered" /\ faults = 0 =>
    now - decided <=
      (IF decided <= Early THEN EarlyGap ELSE LateGap) + CallMax + Slack

\* LHDN is not called more often than the limit says, but for the calls whose
\* outcome was never recorded.
CallsAreBounded == calls <= Limit[kind] + faults

\* A cancellation lapses without ever being sent to LHDN only if its window was
\* no longer than the loop's interval, once and again for each failure, and what
\* the failures themselves cost: downtime, and failed calls with the waits they
\* earned.  Without failures, an interval of the window is enough.
RequestInTimeIsSent ==
  phase = "past_window" /\ unsent # Sent =>
    cancellable_until <= (1 + attempts + faults) * PollInterval[kind] + unsent
=============================================================================
