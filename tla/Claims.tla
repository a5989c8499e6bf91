-------------------------------- MODULE Claims -------------------------------
(***************************************************************************)
(* What the repository's own text says of the bridge and the code does     *)
(* not do.  Each is checked by a run that shows a counterexample.          *)
(***************************************************************************)
EXTENDS Bridge

\* repo.rs, mark_invalid: "LHDN reported `Invalid`"; fail_poll: a poll whose
\* "budget [is] exhausted" "Does NOT change `lhdn_status`: LHDN may still be
\* processing the document".  The poller calls mark_invalid when its attempts
\* run out on a document that is still Submitted.
InvalidOnlyByLhdn ==
  \A i \in Invoices :
    invoices[i].status = "Invalid" => docs[invoices[i].uuid].status = "Invalid"

\* canceller.rs: on a non-transient error the row "is left at `Valid` because
\* LHDN did not in fact cancel the document".  A PUT whose answer was lost and
\* that took effect makes the retry fail with 409, already cancelled.
RefusedCancelLeftDocumentValid ==
  \A i \in Invoices :
    LET row == invoices[i]
    IN  /\ row.status = "Valid"
        /\ row.error.stage = "cancel" /\ ~is_transient(row.error.kind)
        => ~ /\ docs[row.uuid].status = "Cancelled"
             /\ docs[row.uuid].reason = row.reason

\* poller.rs: a poll event with no uuid to poll for is "marking as failed poll"
\* ("faking an exhausted retry" is how the branch above drops its event).  It
\* is rescheduled to be due at once, with no limit on how often.
MissingUuidIsGivenUp ==
  \A i \in Invoices :
    invoices[i].status = "Submitted" /\ invoices[i].uuid = NoUuid ~>
      EventsOf(i) = {}

\* README.md: "If LHDN is unreachable [...] the row stays `Pending` and is
\* retried with backoff.  Nothing is lost."  After max_attempts the row Fails
\* for a transient error, and its event is deleted.
PendingWhileUnreachable ==
  \A i \in Invoices :
    invoices[i].status = "Failed" => ~is_transient(invoices[i].error.kind)
=============================================================================
