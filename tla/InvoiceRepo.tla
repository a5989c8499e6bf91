----------------------------- MODULE InvoiceRepo -----------------------------
(***************************************************************************)
(* The SQLite store of repo.rs: the tables invoices and outbox_events and  *)
(* one action per method of InvoiceRepo.  Each method is one transaction,  *)
(* and SQLite serialises transactions, so each is one step; a transaction  *)
(* that fails is rolled back and is a step of nobody (Bridge models what   *)
(* the caller does then).                                                  *)
(*                                                                         *)
(* Abstractions.  An invoice is its invoice_ref: UNIQUE makes it as good   *)
(* an identity as the primary key.  An event's id is the pair (inv, n), n  *)
(* counting the events ever created for that invoice: the code uses ids    *)
(* for equality only and AUTOINCREMENT never hands one out twice.          *)
(* available_at is reduced to "has it elapsed" and cancellable_until to    *)
(* "unset, ahead of the clock, past"; the clock is the pair of actions     *)
(* Elapse and DeadlinePasses.                                              *)
(*                                                                         *)
(* A definition named M_Slip, before M, is M with a plausible mistake.  No *)
(* specification uses one; replacing M by it is how a property shows that  *)
(* it would notice.                                                        *)
(***************************************************************************)
EXTENDS Names

CONSTANT MaxEvents       \* bound: events ever created for one invoice

ASSUME MaxEventsAssumption == MaxEvents \in Nat

VARIABLES invoices, outbox, nextId

repoVars == <<invoices, outbox, nextId>>

Status == {"Absent", "Pending", "Submitted", "Valid", "Invalid", "Cancelled",
           "Failed"}
Kind == {"submit", "poll", "cancel"}
Window == {"unset", "open", "past"}

Row == [status : Status, uuid : Uuids \cup {NoUuid}, attempts : Nat,
        error : ErrorBody, window : Window, reason : Reasons \cup {NoReason}]
Event == [inv : Invoices, n : Nat, kind : Kind, attempts : Nat, due : BOOLEAN]

RepoTypeOK ==
  /\ invoices \in [Invoices -> Row]
  /\ outbox \subseteq Event
  /\ nextId \in [Invoices -> Nat]

AbsentRow == [status |-> "Absent", uuid |-> NoUuid, attempts |-> 0,
              error |-> NoError, window |-> "unset", reason |-> NoReason]

RepoInit ==
  /\ invoices = [i \in Invoices |-> AbsentRow]
  /\ outbox = {}
  /\ nextId = [i \in Invoices |-> 0]

-----------------------------------------------------------------------------
(* What the statements do.                                                 *)

\* UPDATE invoices SET ... WHERE id = ?
Update(i, row) == invoices' = [invoices EXCEPT ![i] = row]

IsEvent_ByNumber(e, i, n) == e.n = n
IsEvent(e, i, n) == e.inv = i /\ e.n = n

\* DELETE FROM outbox_events WHERE id = ?
Without(i, n) == {e \in outbox : ~IsEvent(e, i, n)}

\* INSERT INTO outbox_events (invoice_id, kind, available_at) VALUES (?, k, now)
NewEvent(i, k) ==
  [inv |-> i, n |-> nextId[i], kind |-> k, attempts |-> 0, due |-> TRUE]

NextIdOf(i) == nextId' = [nextId EXCEPT ![i] = @ + 1]

\* UPDATE outbox_events SET available_at = ?, attempts = ? WHERE id = ?
Rescheduled(i, n, attempts, due) ==
  {IF IsEvent(e, i, n) THEN [e EXCEPT !.attempts = attempts, !.due = due] ELSE e
     : e \in outbox}

\* SELECT ... FROM outbox_events WHERE kind = k AND available_at <= now
DueEvents(k) == {e \in outbox : e.kind = k /\ e.due}

-----------------------------------------------------------------------------
(* The API's transactions.                                                 *)

create_pending_Upserts(i) ==
  /\ Update(i, [AbsentRow EXCEPT !.status = "Pending"])
  /\ outbox' = outbox \cup {NewEvent(i, "submit")}
  /\ NextIdOf(i)

create_pending(i) ==
  /\ invoices[i].status = "Absent"                  \* else DuplicateRef
  /\ Update(i, [invoices[i] EXCEPT !.status = "Pending"])
  /\ outbox' = outbox \cup {NewEvent(i, "submit")}
  /\ NextIdOf(i)

request_cancellation_Repeats(i, reason) ==
  /\ invoices[i].status = "Valid"
  /\ invoices[i].window = "open"
  /\ nextId[i] < MaxEvents
  /\ Update(i, [invoices[i] EXCEPT !.reason = reason])
  /\ outbox' = outbox \cup {NewEvent(i, "cancel")}
  /\ NextIdOf(i)

request_cancellation_DropsReason(i, reason) ==
  /\ invoices[i].status = "Valid"
  /\ invoices[i].window = "open"
  /\ \A e \in outbox : ~(e.inv = i /\ e.kind = "cancel")
  /\ nextId[i] < MaxEvents
  /\ outbox' = outbox \cup {NewEvent(i, "cancel")}
  /\ NextIdOf(i)
  /\ UNCHANGED invoices

\* NotFound, NotCancellable, PastWindow and AlreadyRequested are the guards.
request_cancellation(i, reason) ==
  /\ invoices[i].status = "Valid"
  /\ invoices[i].window = "open"
  /\ \A e \in outbox : ~(e.inv = i /\ e.kind = "cancel")
  /\ nextId[i] < MaxEvents
  /\ Update(i, [invoices[i] EXCEPT !.reason = reason])
  /\ outbox' = outbox \cup {NewEvent(i, "cancel")}
  /\ NextIdOf(i)

-----------------------------------------------------------------------------
(* The submitter's transactions.                                           *)

complete_submission_KeepsSubmit(i, n, uuid) ==
  /\ Update(i, [invoices[i] EXCEPT !.status = "Submitted",
                                   !.uuid = uuid,
                                   !.error = NoError])
  /\ outbox' = outbox \cup {NewEvent(i, "poll")}
  /\ NextIdOf(i)

complete_submission_ForgetsPoll(i, n, uuid) ==
  /\ Update(i, [invoices[i] EXCEPT !.status = "Submitted",
                                   !.uuid = uuid,
                                   !.error = NoError])
  /\ outbox' = Without(i, n)
  /\ UNCHANGED nextId

complete_submission(i, n, uuid) ==
  /\ Update(i, [invoices[i] EXCEPT !.status = "Submitted",
                                   !.uuid = uuid,
                                   !.error = NoError])
  /\ outbox' = Without(i, n) \cup {NewEvent(i, "poll")}
  /\ NextIdOf(i)

fail_permanently(i, n, attempts, body) ==
  /\ Update(i, [invoices[i] EXCEPT !.status = "Failed",
                                   !.attempts = attempts,
                                   !.error = body])
  /\ outbox' = Without(i, n)
  /\ UNCHANGED nextId

reschedule_RowOnly(i, n, attempts, body) ==
  /\ Update(i, [invoices[i] EXCEPT !.attempts = attempts, !.error = body])
  /\ UNCHANGED <<outbox, nextId>>

reschedule_LosesEvent(i, n, attempts, body) ==
  /\ Update(i, [invoices[i] EXCEPT !.attempts = attempts, !.error = body])
  /\ outbox' = Without(i, n)
  /\ UNCHANGED nextId

reschedule(i, n, attempts, body) ==
  /\ Update(i, [invoices[i] EXCEPT !.attempts = attempts, !.error = body])
  /\ outbox' = Rescheduled(i, n, attempts, FALSE)
  /\ UNCHANGED nextId

-----------------------------------------------------------------------------
(* The poller's transactions.                                              *)

\* cancellable_until = validated_at + 72h may already be past: validated_at is
\* LHDN's timestamp, and the answer may be read long after it.
mark_valid(i, n, window) ==
  /\ Update(i, [invoices[i] EXCEPT !.status = "Valid",
                                   !.window = window,
                                   !.error = NoError])
  /\ outbox' = Without(i, n)
  /\ UNCHANGED nextId

mark_invalid_KeepsEvent(i, n, body) ==
  /\ Update(i, [invoices[i] EXCEPT !.status = "Invalid", !.error = body])
  /\ UNCHANGED <<outbox, nextId>>

mark_invalid(i, n, body) ==
  /\ Update(i, [invoices[i] EXCEPT !.status = "Invalid", !.error = body])
  /\ outbox' = Without(i, n)
  /\ UNCHANGED nextId

mark_cancelled_via_poll(i, n) ==
  /\ Update(i, [invoices[i] EXCEPT !.status = "Cancelled"])
  /\ outbox' = Without(i, n)
  /\ UNCHANGED nextId

fail_poll_ForgetsError(i, n, body) ==
  /\ outbox' = Without(i, n)
  /\ UNCHANGED <<invoices, nextId>>

fail_poll(i, n, body) ==
  /\ Update(i, [invoices[i] EXCEPT !.error = body])
  /\ outbox' = Without(i, n)
  /\ UNCHANGED nextId

\* next_at is the backoff's (not due) or, on the poller's dead ends, 0 (due).
reschedule_poll(i, n, attempts, due) ==
  /\ outbox' = Rescheduled(i, n, attempts, due)
  /\ UNCHANGED <<invoices, nextId>>

-----------------------------------------------------------------------------
(* The canceller's transactions.                                           *)

complete_cancel(i, n) ==
  /\ Update(i, [invoices[i] EXCEPT !.status = "Cancelled", !.error = NoError])
  /\ outbox' = Without(i, n)
  /\ UNCHANGED nextId

fail_cancel_ForgetsError(i, n, body) ==
  /\ outbox' = Without(i, n)
  /\ UNCHANGED <<invoices, nextId>>

fail_cancel(i, n, body) ==
  /\ Update(i, [invoices[i] EXCEPT !.error = body])
  /\ outbox' = Without(i, n)
  /\ UNCHANGED nextId

reschedule_cancel(i, n, attempts) ==
  /\ outbox' = Rescheduled(i, n, attempts, FALSE)
  /\ UNCHANGED <<invoices, nextId>>

-----------------------------------------------------------------------------
(* The clock, as the queries see it.                                       *)

\* now reaches the available_at of an event that was put off.
Elapse(e) ==
  /\ e \in outbox /\ ~e.due
  /\ outbox' = Rescheduled(e.inv, e.n, e.attempts, TRUE)
  /\ UNCHANGED <<invoices, nextId>>

\* now reaches the cancellable_until of an invoice.
DeadlinePasses(i) ==
  /\ invoices[i].window = "open"
  /\ Update(i, [invoices[i] EXCEPT !.window = "past"])
  /\ UNCHANGED <<outbox, nextId>>
=============================================================================
