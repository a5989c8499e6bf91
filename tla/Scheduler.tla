------------------------------ MODULE Scheduler ------------------------------
(***************************************************************************)
(* The run loops of the three workers and their end (run and tick of each  *)
(* worker, main.rs).  Bridge takes any due event and finishes it; here is  *)
(* which one is taken: a tick asks for the batch_size events that have     *)
(* been due longest and handles them one after the other from that         *)
(* snapshot, while other actors go on writing to the outbox; a loop looks  *)
(* at the shutdown channel only after a tick that found nothing to do.     *)
(*                                                                         *)
(* An event is known by its invoice, which has one event at most           *)
(* (Bridge!OneEventPerInvoice); an invoice without an event is decided or  *)
(* not accepted yet, and its name then stands for any such invoice.        *)
(* available_at orders the events that are due, so a queue is a sequence.  *)
(***************************************************************************)
EXTENDS Integers, Sequences, FiniteSets, SequencesExt

CONSTANTS
  Invoices,
  BatchSize,      \* batch_size
  MaxAttempts,    \* max_attempts
  NoUuid,         \* invoices whose poll event has no uuid to ask for
  Flaky,          \* bound: invoices whose calls may fail and be retried
  MaxFaults       \* bound: errors, failed queries, panics and aborts

ASSUME SchedulerAssumption ==
  /\ BatchSize \in Nat \ {0} /\ MaxAttempts \in Nat /\ MaxFaults \in Nat
  /\ NoUuid \subseteq Invoices /\ Flaky \subseteq Invoices

Submitter == "submitter"
Poller    == "poller"
Canceller == "canceller"
worker_handles == <<Submitter, Poller, Canceller>>
Workers == {Submitter, Poller, Canceller}

VARIABLES
  queue,     \* per worker, its due events in the order of available_at
  later,     \* per worker, its events that are not due yet
  attempts,  \* per invoice, the attempts of its event
  batch,     \* per worker, what is left of the tick's snapshot
  phase,     \* per worker, where its loop is
  main,      \* serving, draining (ctrl-c seen), joining, exited
  joined,    \* how many worker_handles main has awaited
  faults     \* how many faults there have been

vars == <<queue, later, attempts, batch, phase, main, joined, faults>>
outbox == <<queue, later, attempts>>

Phase == {"ticking", "handling", "selecting", "stopped", "panicked"}

SchedulerTypeOK ==
  /\ queue \in [Workers -> Seq(Invoices)]
  /\ later \in [Workers -> SUBSET Invoices]
  /\ attempts \in [Invoices -> 0..MaxAttempts]
  /\ batch \in [Workers -> Seq(Invoices)]
  /\ phase \in [Workers -> Phase]
  /\ main \in {"serving", "draining", "joining", "exited"}
  /\ joined \in 0..Len(worker_handles)
  /\ faults \in 0..MaxFaults

Idle == [w \in Workers |-> <<>>]
Ticking == [w \in Workers |-> "ticking"]

Init ==
  /\ queue = [w \in Workers |-> <<>>]
  /\ later = [w \in Workers |-> {}]
  /\ attempts = [i \in Invoices |-> 0]
  /\ batch = Idle /\ phase = Ticking
  /\ main = "serving" /\ joined = 0
  /\ faults = 0

Ended_Stopped(w) == phase[w] = "stopped"

Ended(w) == phase[w] \in {"stopped", "panicked"}
Due(w) == Range(queue[w])
HasEvent(i) == \E w \in Workers : i \in Due(w) \cup later[w]
Running == main # "exited"

\* The value of the watch channel.
shutdown == main # "serving"

Faulty == faults < MaxFaults /\ faults' = faults + 1

-----------------------------------------------------------------------------
(***************************************************************************)
(* The outbox as a worker loop sees it.  An event that is inserted is due  *)
(* at once, behind those that already are.                                 *)
(***************************************************************************)
Accept(i, w) ==
  /\ main \in {"serving", "draining"}
  /\ ~HasEvent(i)
  /\ queue' = [queue EXCEPT ![w] = Append(@, i)]
  /\ attempts' = [attempts EXCEPT ![i] = 0]
  /\ UNCHANGED <<later, batch, phase, main, joined, faults>>

\* The clock passes an event's available_at.
Elapse(w, i) ==
  /\ i \in later[w]
  /\ later' = [later EXCEPT ![w] = @ \ {i}]
  /\ queue' = [queue EXCEPT ![w] = Append(@, i)]
  /\ UNCHANGED <<attempts, batch, phase, main, joined, faults>>

\* ORDER BY available_at DESC
Due_NewestFirst(w) == Reverse(queue[w])

due_events(w) == queue[w]

Without(w, i) == [queue EXCEPT ![w] = RemoveFirst(@, i)]

-----------------------------------------------------------------------------
(***************************************************************************)
(* One turn of a loop.                                                     *)
(***************************************************************************)
LimitedTo(s) == SubSeq(s, 1, IF Len(s) < BatchSize THEN Len(s) ELSE BatchSize)

\* The query of a tick; with nothing due there is nothing to handle.
Tick(w) ==
  /\ Running /\ phase[w] = "ticking"
  /\ batch' = [batch EXCEPT ![w] = LimitedTo(due_events(w))]
  /\ phase' = [phase EXCEPT ![w] = IF queue[w] = <<>> THEN "selecting" ELSE "handling"]
  /\ UNCHANGED <<outbox, main, joined, faults>>

\* The query fails: logged, and counted as nothing handled.
TickFails(w) ==
  /\ Running /\ phase[w] = "ticking"
  /\ Faulty
  /\ phase' = [phase EXCEPT ![w] = "selecting"]
  /\ UNCHANGED <<outbox, batch, main, joined>>

\* The next event of the batch is dealt with, and after the last one, the tick
\* having handled something, the loop goes round without a look at the channel.
Advance(w) ==
  /\ batch' = [batch EXCEPT ![w] = Tail(@)]
  /\ phase' = [phase EXCEPT ![w] = IF Len(batch[w]) = 1 THEN "ticking" ELSE "handling"]
  /\ UNCHANGED <<main, joined>>

Handling(w) == Running /\ phase[w] = "handling"

\* The event is deleted: what it asked for is done, or given up.
Deletes(w) ==
  /\ Handling(w)
  /\ LET i == Head(batch[w])
     IN  /\ ~(w = Poller /\ i \in NoUuid)
         /\ queue' = Without(w, i)
         /\ UNCHANGED <<later, attempts>>
  /\ Advance(w)
  /\ UNCHANGED faults

\* complete_submission: deleted, and a poll event inserted.
Submits(w) ==
  /\ Handling(w) /\ w = Submitter
  /\ LET i == Head(batch[w])
     IN  /\ queue' = [Without(w, i) EXCEPT ![Poller] = Append(@, i)]
         /\ attempts' = [attempts EXCEPT ![i] = 0]
         /\ UNCHANGED later
  /\ Advance(w)
  /\ UNCHANGED faults

Reschedules_Always(w) ==
  /\ Handling(w)
  /\ LET i == Head(batch[w])
     IN  /\ i \in Flaky /\ ~(w = Poller /\ i \in NoUuid)
         /\ attempts' = [attempts EXCEPT ![i] = @ + 1]
         /\ queue' = Without(w, i)
         /\ later' = [later EXCEPT ![w] = @ \cup {i}]
  /\ Advance(w)
  /\ UNCHANGED faults

Reschedules_Inserts(w) ==
  /\ Handling(w)
  /\ LET i == Head(batch[w])
     IN  /\ i \in Flaky /\ ~(w = Poller /\ i \in NoUuid)
         /\ attempts[i] + 1 < MaxAttempts
         /\ attempts' = [attempts EXCEPT ![i] = @ + 1]
         /\ later' = [later EXCEPT ![w] = @ \cup {i}]
         /\ UNCHANGED queue
  /\ Advance(w)
  /\ UNCHANGED faults

\* reschedule, reschedule_poll, reschedule_cancel with a backoff.
Reschedules(w) ==
  /\ Handling(w)
  /\ LET i == Head(batch[w])
     IN  /\ i \in Flaky /\ ~(w = Poller /\ i \in NoUuid)
         /\ attempts[i] + 1 < MaxAttempts
         /\ attempts' = [attempts EXCEPT ![i] = @ + 1]
         /\ queue' = Without(w, i)
         /\ later' = [later EXCEPT ![w] = @ \cup {i}]
  /\ Advance(w)
  /\ UNCHANGED faults

\* reschedule_poll with available_at 0: due at once, and before all others.
PutsBack(w) ==
  /\ Handling(w) /\ w = Poller
  /\ LET i == Head(batch[w])
     IN  /\ i \in NoUuid
         /\ attempts' = [attempts EXCEPT ![i] = MaxAttempts]
         /\ queue' = [queue EXCEPT ![w] = <<i>> \o RemoveFirst(@, i)]
         /\ UNCHANGED later
  /\ Advance(w)
  /\ UNCHANGED faults

\* The handler returns an error: logged, and the event is as it was.
Errors(w) ==
  /\ Handling(w)
  /\ Faulty
  /\ Advance(w)
  /\ UNCHANGED outbox

\* The task panics with an event in hand.
Panics(w) ==
  /\ Handling(w)
  /\ Faulty
  /\ phase' = [phase EXCEPT ![w] = "panicked"]
  /\ UNCHANGED <<outbox, batch, main, joined>>

\* The sleep ends.
Wakes(w) ==
  /\ Running /\ phase[w] = "selecting"
  /\ phase' = [phase EXCEPT ![w] = "ticking"]
  /\ UNCHANGED <<outbox, batch, main, joined, faults>>

\* shutdown.changed() returns and the value is true.
SeesShutdown(w) ==
  /\ Running /\ phase[w] = "selecting"
  /\ shutdown
  /\ phase' = [phase EXCEPT ![w] = "stopped"]
  /\ UNCHANGED <<outbox, batch, main, joined, faults>>

-----------------------------------------------------------------------------
(***************************************************************************)
(* main: serve until ctrl-c, drain, then await the workers in order.       *)
(***************************************************************************)
Signal ==
  /\ main = "serving"
  /\ main' = "draining"
  /\ UNCHANGED <<outbox, batch, phase, joined, faults>>

ServerCloses ==
  /\ main = "draining"
  /\ main' = "joining"
  /\ UNCHANGED <<outbox, batch, phase, joined, faults>>

Joins_WithoutWaiting ==
  /\ main = "joining"
  /\ joined < Len(worker_handles)
  /\ joined' = joined + 1
  /\ main' = IF joined' = Len(worker_handles) THEN "exited" ELSE "joining"
  /\ UNCHANGED <<outbox, batch, phase, faults>>

\* A worker that panicked is noticed here, and only here.
Joins ==
  /\ main = "joining"
  /\ joined < Len(worker_handles)
  /\ Ended(worker_handles[joined + 1])
  /\ joined' = joined + 1
  /\ main' = IF joined' = Len(worker_handles) THEN "exited" ELSE "joining"
  /\ UNCHANGED <<outbox, batch, phase, faults>>

\* A process on the same database, with new tasks and a new channel.
Starts ==
  /\ batch' = Idle /\ phase' = Ticking
  /\ main' = "serving" /\ joined' = 0
  /\ UNCHANGED outbox

\* It is killed, or main returns early: tasks end where they are.
Aborts == Running /\ Faulty /\ Starts

Restarts == main = "exited" /\ Starts /\ UNCHANGED faults

Handles(w) == Deletes(w) \/ Submits(w) \/ Reschedules(w) \/ PutsBack(w) \/ Errors(w)
Turns(w) == Tick(w) \/ Handles(w) \/ Wakes(w)

Next ==
  \/ \E i \in Invoices, w \in {Submitter, Canceller} : Accept(i, w)
  \/ \E w \in Workers, i \in Invoices : Elapse(w, i)
  \/ \E w \in Workers : Turns(w) \/ TickFails(w) \/ Panics(w) \/ SeesShutdown(w)
  \/ Signal \/ ServerCloses \/ Joins \/ Aborts \/ Restarts

Spec == Init /\ [][Next]_vars

\* A call to LHDN ends by REQUEST_TIMEOUT and a sleep by its interval, so loops
\* turn; a channel that is ready when a select begins wins over a sleep that
\* begins with it; requests under way end, so the server closes.  Nothing makes
\* anyone press ctrl-c.
FairSpec ==
  /\ Spec
  /\ \A w \in Workers :
       WF_vars(Turns(w)) /\ SF_vars(SeesShutdown(w))
  /\ \A i \in Invoices : WF_vars(\E w \in Workers : Elapse(w, i))
  /\ WF_vars(ServerCloses) /\ WF_vars(Joins)

-----------------------------------------------------------------------------
\* What is left of a tick's snapshot is still in the outbox and still due when
\* its turn comes, once each: nobody but the worker takes its events away,
\* however long the events before it took.  Bridge rests on this where it takes
\* a due event at the moment it is handled.
SnapshotIsCurrent ==
  \A w \in Workers :
    /\ IsInjective(batch[w])
    /\ Range(batch[w]) \subseteq Due(w)
    /\ \A i \in Range(batch[w]) : \A v \in Workers : i \notin later[v]

\* When main returns after ctrl-c, no worker is in the middle of an event: none
\* is cut off between LHDN's answer and the transaction that records it.
ExitIsClean ==
  main = "exited" =>
    \A w \in Workers : Ended(w) /\ (phase[w] = "stopped" => batch[w] = <<>>)

\* What keeps a worker's loop busy for ever.
Stuck(w) == {i \in Due(w) : w = Poller /\ i \in NoUuid}

\* A due event gets its turn, unless its worker ends first: whatever else is due
\* and keeps coming, whichever other worker has panicked, as long as fewer than
\* batch_size events are stuck.
DueIsHandled ==
  \A i \in Invoices :
    (\E w \in Workers : i \in Due(w)) ~>
      \E w \in Workers :
        \/ i \in Range(batch[w])
        \/ i \in Due(w) /\ (Ended(w) \/ Cardinality(Stuck(w)) >= BatchSize)

\* After ctrl-c the process exits, also when a worker has panicked, unless an
\* event is stuck (or the process is started again).
ExitsOnShutdown ==
  shutdown ~> main \in {"exited", "serving"} \/ \E w \in Workers : Stuck(w) # {}
=============================================================================
