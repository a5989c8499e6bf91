------------------------------ MODULE Canceller ------------------------------
(***************************************************************************)
(* The canceller worker (worker/canceller.rs): load, check_preconditions,  *)
(* PUT /documents/state/{uuid}/state, write the outcome.                   *)
(***************************************************************************)
EXTENDS InvoiceRepo, Lhdn

CONSTANT CancelMax       \* CancellerConfig.max_attempts

ASSUME CancellerAssumption == CancelMax \in Nat \ {0}

VARIABLE can

NoCancel == [answer |-> "idle"]

CancelJob == [inv : Invoices, n : Nat, attempts : Nat, uuid : Uuids,
              reason : Reasons, answer : {"awaited", "cancelled", "error"},
              error : Variant \cup {"none"}]

CancellerTypeOK == can \in {NoCancel} \cup CancelJob

check_preconditions(row) ==
  row.uuid # NoUuid /\ row.reason # NoReason /\ row.window = "open"

\* tick, load_for_cancel and the check.
CancelLoad(i) ==
  /\ can = NoCancel
  /\ \E e \in DueEvents("cancel") :
       /\ e.inv = i
       /\ IF check_preconditions(invoices[i])
          THEN /\ can' = [inv |-> i, n |-> e.n, attempts |-> e.attempts,
                          uuid |-> invoices[i].uuid,
                          reason |-> invoices[i].reason,
                          answer |-> "awaited", error |-> "none"]
               /\ UNCHANGED repoVars
          ELSE /\ fail_cancel(i, e.n, Body("cancel_precondition"))
               /\ UNCHANGED can
  /\ UNCHANGED lhdnVars

CancelAnswered(answer, error) ==
  can' = [can EXCEPT !.answer = answer, !.error = error]

CancelAccepted ==
  /\ can.answer = "awaited"
  /\ CancelDocument(can.uuid, can.reason)
  /\ CancelAnswered("cancelled", "none")
  /\ UNCHANGED <<repoVars, lateSubmits, lateCancels>>

CancelRefused ==
  /\ can.answer = "awaited"
  /\ \E error \in CallErrors : CancelAnswered("error", error)
  /\ UNCHANGED <<repoVars, lhdnVars>>

\* The PUT fails and LHDN may still act on it.
CancelInterrupted ==
  /\ can.answer = "awaited"
  /\ \E error \in UncertainErrors \ {"Schema"} : CancelAnswered("error", error)
  /\ CancelGoesLate(can.uuid, can.reason)
  /\ UNCHANGED repoVars

CancelFailure_ConflictIsDone ==
  LET attempts == can.attempts + 1
  IN  IF can.error = "Conflict"
      THEN complete_cancel(can.inv, can.n)
      ELSE IF ~is_transient(can.error) \/ attempts >= CancelMax
      THEN fail_cancel(can.inv, can.n, VariantBody("cancel", can.error))
      ELSE reschedule_cancel(can.inv, can.n, attempts)

\* handle_failure.
CancelFailure ==
  LET attempts == can.attempts + 1
  IN  IF ~is_transient(can.error) \/ attempts >= CancelMax
      THEN fail_cancel(can.inv, can.n, VariantBody("cancel", can.error))
      ELSE reschedule_cancel(can.inv, can.n, attempts)

CancelFinish ==
  /\ \/ can.answer = "cancelled" /\ complete_cancel(can.inv, can.n)
     \/ can.answer = "error" /\ CancelFailure
  /\ can' = NoCancel
  /\ UNCHANGED lhdnVars
=============================================================================
