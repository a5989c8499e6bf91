------------------------------ MODULE Submitter ------------------------------
(***************************************************************************)
(* The submitter worker (worker/submitter.rs): one loop, one event at a    *)
(* time.  A job is an event the worker took, what it read from the row,    *)
(* and what LHDN answered; between its steps every other actor may move.   *)
(*                                                                         *)
(* tick reads up to batch_size due events and handles them in order.  Only *)
(* this worker changes submit events, so taking any due event at the start *)
(* of its handling is the same as taking it from the snapshot.             *)
(***************************************************************************)
EXTENDS InvoiceRepo, Lhdn

CONSTANTS
  SubmitMax,             \* SubmitterConfig.max_attempts
  Malformed,             \* invoices build_signed_document rejects
  OmitsDocuments         \* may LHDN accept a submission and list our document
                         \* in neither array of its answer?

ASSUME SubmitterAssumption ==
  /\ SubmitMax \in Nat \ {0}
  /\ Malformed \subseteq Invoices
  /\ OmitsDocuments \in BOOLEAN

VARIABLE sub

Idle == [answer |-> "idle"]

SubmitJob == [inv : Invoices, n : Nat, attempts : Nat,
              answer : {"awaited", "accepted", "rejected", "error"},
              uuid : Uuids \cup {NoUuid}, error : Variant \cup {"none"}]

SubmitterTypeOK == sub \in {Idle} \cup SubmitJob

\* tick, load_for_submit and build_doc, which no other step can disturb.
SubmitLoad(i) ==
  /\ sub = Idle
  /\ \E e \in DueEvents("submit") :
       /\ e.inv = i
       /\ IF i \in Malformed
          THEN /\ fail_permanently(i, e.n, invoices[i].attempts,
                                   Body("build_signed_document"))
               /\ UNCHANGED sub
          ELSE /\ sub' = [inv |-> i, n |-> e.n,
                          attempts |-> invoices[i].attempts,
                          answer |-> "awaited", uuid |-> NoUuid,
                          error |-> "none"]
               /\ UNCHANGED repoVars
  /\ UNCHANGED lhdnVars

SubmitAnswered(answer, uuid, error) ==
  sub' = [sub EXCEPT !.answer = answer, !.uuid = uuid, !.error = error]

\* POST /documentsubmissions is accepted; the answer names our document, or
\* (only if OmitsDocuments) does not.
SubmitAccepted ==
  /\ sub.answer = "awaited"
  /\ \E u \in Uuids :
       /\ Register(u, sub.inv)
       /\ \E named \in {u} \cup (IF OmitsDocuments THEN {NoUuid} ELSE {}) :
            SubmitAnswered("accepted", named, "none")
  /\ UNCHANGED <<repoVars, lateSubmits, lateCancels>>

SubmitRejected ==
  /\ sub.answer = "awaited"
  /\ SubmitAnswered("rejected", NoUuid, "none")
  /\ UNCHANGED <<repoVars, lhdnVars>>

\* The call fails and LHDN did nothing.
SubmitRefused ==
  /\ sub.answer = "awaited"
  /\ \E error \in CallErrors : SubmitAnswered("error", NoUuid, error)
  /\ UNCHANGED <<repoVars, lhdnVars>>

\* The call fails and LHDN may still register the document.
SubmitInterrupted ==
  /\ sub.answer = "awaited"
  /\ \E error \in UncertainErrors : SubmitAnswered("error", NoUuid, error)
  /\ SubmitGoesLate(sub.inv)
  /\ UNCHANGED repoVars

\* handle_success: a rejection reads the row's attempts again.
SubmitSuccess ==
  \/ /\ sub.answer = "rejected"
     /\ fail_permanently(sub.inv, sub.n, invoices[sub.inv].attempts,
                         Body("lhdn_rejection"))
  \/ /\ sub.answer = "accepted"
     /\ complete_submission(sub.inv, sub.n, sub.uuid)

\* handle_failure.
SubmitFailure ==
  /\ sub.answer = "error"
  /\ LET attempts == sub.attempts + 1
         body == VariantBody("submit", sub.error)
     IN  IF ~is_transient(sub.error) \/ attempts >= SubmitMax
         THEN fail_permanently(sub.inv, sub.n, attempts, body)
         ELSE reschedule(sub.inv, sub.n, attempts, body)

SubmitFinish ==
  /\ SubmitSuccess \/ SubmitFailure
  /\ sub' = Idle
  /\ UNCHANGED lhdnVars
=============================================================================
