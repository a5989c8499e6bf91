-------------------------------- MODULE Poller -------------------------------
(***************************************************************************)
(* The poller worker (worker/poller.rs).  Its jobs have the shape of the   *)
(* submitter's: load, GET /documents/{uuid}/details, write the outcome.    *)
(***************************************************************************)
EXTENDS InvoiceRepo, Lhdn

CONSTANT PollMax         \* PollerConfig.max_attempts

ASSUME PollerAssumption == PollMax \in Nat \ {0}

VARIABLE pol

NoPoll == [answer |-> "idle"]

PollJob == [inv : Invoices, n : Nat, attempts : Nat, uuid : Uuids,
            answer : {"awaited", "Submitted", "Valid", "Invalid", "Cancelled",
                      "error"},
            error : Variant \cup {"none"}]

PollerTypeOK == pol \in {NoPoll} \cup PollJob

\* A slip: LHDN is asked about the empty uuid.
PollLoad_AsksAnyway(i) ==
  /\ pol = NoPoll
  /\ \E e \in DueEvents("poll") :
       /\ e.inv = i
       /\ pol' = [inv |-> i, n |-> e.n, attempts |-> e.attempts,
                  uuid |-> invoices[i].uuid, answer |-> "awaited", error |-> "none"]
       /\ UNCHANGED repoVars
  /\ UNCHANGED lhdnVars

\* tick and load_for_poll; without a uuid there is nothing to ask for, and the
\* event is put back with its attempts at the maximum and available_at 0.
PollLoad(i) ==
  /\ pol = NoPoll
  /\ \E e \in DueEvents("poll") :
       /\ e.inv = i
       /\ IF invoices[i].uuid = NoUuid
          THEN /\ reschedule_poll(i, e.n, PollMax, TRUE)
               /\ UNCHANGED pol
          ELSE /\ pol' = [inv |-> i, n |-> e.n, attempts |-> e.attempts,
                          uuid |-> invoices[i].uuid, answer |-> "awaited",
                          error |-> "none"]
               /\ UNCHANGED repoVars
  /\ UNCHANGED lhdnVars

\* get_document_details answers with the document's status or fails.
PollCall ==
  /\ pol.answer = "awaited"
  /\ \/ /\ docs[pol.uuid] # Unused
        /\ pol' = [pol EXCEPT !.answer = docs[pol.uuid].status]
     \/ \E error \in CallErrors :
          pol' = [pol EXCEPT !.answer = "error", !.error = error]
  /\ UNCHANGED <<repoVars, lhdnVars>>

\* handle_details, for a document LHDN is still validating.
StillSubmitted ==
  LET attempts == pol.attempts + 1
  IN  IF attempts >= PollMax
      THEN mark_invalid(pol.inv, pol.n, Body("poll_exhausted"))
      ELSE reschedule_poll(pol.inv, pol.n, attempts, FALSE)

\* handle_details.
PollDetails ==
  \/ /\ pol.answer = "Valid"
     /\ \E window \in {"open", "past"} : mark_valid(pol.inv, pol.n, window)
  \/ /\ pol.answer = "Invalid"
     /\ mark_invalid(pol.inv, pol.n, Body("lhdn_validation"))
  \/ /\ pol.answer = "Cancelled"
     /\ mark_cancelled_via_poll(pol.inv, pol.n)
  \/ /\ pol.answer = "Submitted"
     /\ StillSubmitted

\* handle_failure.
PollFailure ==
  /\ pol.answer = "error"
  /\ LET attempts == pol.attempts + 1
     IN  IF ~is_transient(pol.error) \/ attempts >= PollMax
         THEN fail_poll(pol.inv, pol.n, VariantBody("poll", pol.error))
         ELSE reschedule_poll(pol.inv, pol.n, attempts, FALSE)

PollFinish ==
  /\ PollDetails \/ PollFailure
  /\ pol' = NoPoll
  /\ UNCHANGED lhdnVars
=============================================================================
