-------------------------------- MODULE Bridge -------------------------------
(***************************************************************************)
(* The whole bridge: the HTTP API, the three workers, their shared store,  *)
(* and LHDN, in one process that may crash and restart (bin/main.rs).      *)
(***************************************************************************)
EXTENDS Submitter, Poller, Canceller, FiniteSets

CONSTANT MaxFaults       \* bound: crashes, lost answers, failed writes

ASSUME BridgeAssumption == MaxFaults \in Nat

VARIABLE faults

jobs == <<sub, pol, can>>
vars == <<repoVars, lhdnVars, jobs, faults>>

TypeOK ==
  /\ RepoTypeOK /\ LhdnTypeOK
  /\ SubmitterTypeOK /\ PollerTypeOK /\ CancellerTypeOK
  /\ faults \in 0..MaxFaults

Init ==
  /\ RepoInit /\ LhdnInit
  /\ sub = Idle /\ pol = NoPoll /\ can = NoCancel
  /\ faults = 0

-----------------------------------------------------------------------------
(* The API.  GET and the refused requests change nothing.                  *)

submit_invoice(i) == create_pending(i) /\ UNCHANGED <<lhdnVars, jobs, faults>>

cancel_invoice(i) ==
  /\ \E reason \in Reasons : request_cancellation(i, reason)
  /\ UNCHANGED <<lhdnVars, jobs, faults>>

-----------------------------------------------------------------------------
(* The workers, each with the other two standing still.                    *)

SubmitterLoads(i) == SubmitLoad(i) /\ UNCHANGED <<pol, can, faults>>
SubmitterCalls ==
  /\ SubmitAccepted \/ SubmitRejected \/ SubmitRefused
  /\ UNCHANGED <<pol, can, faults>>
SubmitterFinishes == SubmitFinish /\ UNCHANGED <<pol, can, faults>>

PollerLoads(i) == PollLoad(i) /\ UNCHANGED <<sub, can, faults>>
PollerCalls == PollCall /\ UNCHANGED <<sub, can, faults>>
PollerFinishes == PollFinish /\ UNCHANGED <<sub, can, faults>>

CancellerLoads(i) == CancelLoad(i) /\ UNCHANGED <<sub, pol, faults>>
CancellerCalls ==
  /\ CancelAccepted \/ CancelRefused
  /\ UNCHANGED <<sub, pol, faults>>
CancellerFinishes == CancelFinish /\ UNCHANGED <<sub, pol, faults>>

-----------------------------------------------------------------------------
(* LHDN and the clock.                                                     *)

LhdnActs ==
  /\ \E u \in Uuids :
       \/ Decides(u)
       \/ LhdnCancels(u)
       \/ \E i \in Invoices : LateSubmit(u, i)
       \/ \E reason \in Reasons : LateCancel(u, reason)
  /\ UNCHANGED <<repoVars, jobs, faults>>

BackoffEnds(i) ==
  /\ \E e \in outbox : e.inv = i /\ Elapse(e)
  /\ UNCHANGED <<lhdnVars, jobs, faults>>

WindowCloses(i) == DeadlinePasses(i) /\ UNCHANGED <<lhdnVars, jobs, faults>>

-----------------------------------------------------------------------------
(* Faults.  Every one of them is counted.                                  *)

Fault == faults < MaxFaults /\ faults' = faults + 1

LosesSubmitAnswer == Fault /\ SubmitInterrupted /\ UNCHANGED <<pol, can>>
LosesCancelAnswer == Fault /\ CancelInterrupted /\ UNCHANGED <<sub, pol>>

\* The transaction that records an outcome fails (SQLITE_BUSY, disk full) and
\* is rolled back; process_event returns the error and tick logs it.
DbError ==
  /\ Fault
  /\ \/ /\ sub.answer \notin {"idle", "awaited"}
        /\ sub' = Idle /\ UNCHANGED <<pol, can>>
     \/ /\ pol.answer \notin {"idle", "awaited"}
        /\ pol' = NoPoll /\ UNCHANGED <<sub, can>>
     \/ /\ can.answer \notin {"idle", "awaited"}
        /\ can' = NoCancel /\ UNCHANGED <<sub, pol>>
  /\ UNCHANGED <<repoVars, lhdnVars>>

\* The process dies and starts again: the store survives, the jobs do not, and
\* a request on the wire may have left.
Crash ==
  /\ Fault
  /\ jobs # <<Idle, NoPoll, NoCancel>>
  /\ sub' = Idle /\ pol' = NoPoll /\ can' = NoCancel
  /\ \/ UNCHANGED lhdnVars
     \/ sub.answer = "awaited" /\ SubmitGoesLate(sub.inv)
     \/ can.answer = "awaited" /\ CancelGoesLate(can.uuid, can.reason)
     \/ /\ sub.answer = "awaited" /\ can.answer = "awaited"
        /\ lateSubmits' = [lateSubmits EXCEPT ![sub.inv] = @ + 1]
        /\ lateCancels' = lateCancels \cup {<<can.uuid, can.reason>>}
        /\ UNCHANGED docs
  /\ UNCHANGED repoVars

-----------------------------------------------------------------------------
PerInvoice(i) ==
  \/ submit_invoice(i) \/ cancel_invoice(i)
  \/ SubmitterLoads(i) \/ PollerLoads(i) \/ CancellerLoads(i)
  \/ BackoffEnds(i) \/ WindowCloses(i)

Worker ==
  \/ SubmitterCalls \/ SubmitterFinishes
  \/ PollerCalls \/ PollerFinishes
  \/ CancellerCalls \/ CancellerFinishes

Faulty == LosesSubmitAnswer \/ LosesCancelAnswer \/ DbError \/ Crash

Next == (\E i \in Invoices : PerInvoice(i)) \/ Worker \/ LhdnActs \/ Faulty

Spec == Init /\ [][Next]_vars

\* The loops poll for ever and REQUEST_TIMEOUT ends every call, so a job under
\* way is finished.  With at most batch_size events due, each tick takes them
\* all, so an event that is due again and again is taken.
Fairness ==
  /\ \A i \in Invoices :
       /\ SF_vars(SubmitterLoads(i)) /\ SF_vars(PollerLoads(i))
       /\ SF_vars(CancellerLoads(i)) /\ WF_vars(BackoffEnds(i))
  /\ WF_vars(SubmitterCalls) /\ WF_vars(SubmitterFinishes)
  /\ WF_vars(PollerCalls) /\ WF_vars(PollerFinishes)
  /\ WF_vars(CancellerCalls) /\ WF_vars(CancellerFinishes)

FairSpec == Spec /\ Fairness

-----------------------------------------------------------------------------
(* Safety.                                                                 *)

EventsOf(i) == {e \in outbox : e.inv = i}

\* The bridge never owes one invoice two things.  A second event would run two
\* workers on the row (or the same one twice), each overwriting the other.
OneEventPerInvoice == \A e, f \in outbox : e.inv = f.inv => e = f

\* The work in the outbox is the work the status calls for, and none is lost:
\* a Pending invoice always has its submit event, a Submitted one its poll
\* event unless polling was given up and the row says so, and an event of a
\* decided invoice would undo the decision.
OutboxMatchesStatus ==
  \A i \in Invoices :
    LET row == invoices[i]
        kinds == {e.kind : e \in EventsOf(i)}
    IN  CASE row.status = "Pending"   -> kinds = {"submit"}
          [] row.status = "Submitted" ->
               kinds = {"poll"} \/ (kinds = {} /\ row.error.stage = "poll")
          [] row.status = "Valid"     -> kinds \subseteq {"cancel"}
          [] OTHER                    -> kinds = {}

SubmitJobIsCurrent ==
  sub # Idle =>
    /\ [inv |-> sub.inv, n |-> sub.n, kind |-> "submit",
        attempts |-> sub.attempts, due |-> TRUE] \in outbox
    /\ invoices[sub.inv].attempts = sub.attempts

PollJobIsCurrent ==
  pol # NoPoll =>
    /\ [inv |-> pol.inv, n |-> pol.n, kind |-> "poll",
        attempts |-> pol.attempts, due |-> TRUE] \in outbox
    /\ invoices[pol.inv].uuid = pol.uuid

CancelJobIsCurrent ==
  can # NoCancel =>
    /\ [inv |-> can.inv, n |-> can.n, kind |-> "cancel",
        attempts |-> can.attempts, due |-> TRUE] \in outbox
    /\ invoices[can.inv].uuid = can.uuid
    /\ invoices[can.inv].reason = can.reason

\* What a worker read before its call to LHDN is still what the store says
\* when it writes the outcome, whatever the other actors did meanwhile: its
\* event is still there, and the row's uuid, attempts and reason are those of
\* the job.  (complete_cancel would otherwise record a reason LHDN never saw.)
JobsAreCurrent ==
  SubmitJobIsCurrent /\ PollJobIsCurrent /\ CancelJobIsCurrent

\* A decided status agrees with the document LHDN holds under the recorded
\* uuid, and that document is this invoice's.  A row is Cancelled with a reason
\* only if LHDN cancelled it for that reason.  Without faults a Failed invoice
\* left no document behind unless LHDN's answer did not parse.
StatusAgreesWithLhdn ==
  \A i \in Invoices :
    LET row == invoices[i]
        doc == docs[row.uuid]
    IN  /\ row.uuid # NoUuid => doc # Unused /\ doc.inv = i
        /\ row.status = "Valid" => doc.status \in {"Valid", "Cancelled"}
        /\ row.status = "Invalid" =>
             doc.status = "Invalid" \/ row.error.stage = "poll_exhausted"
        /\ row.status = "Cancelled" =>
             doc.status = "Cancelled" /\ doc.reason = row.reason
        /\ row.status = "Failed" /\ faults = 0 => DocumentsOf(i) = {}

\* Retries alone never register an invoice twice: each further document of it
\* was paid for by a crash, a lost answer or a write that failed.
DuplicatesNeedFaults ==
  \A i \in Invoices : Cardinality(DocumentsOf(i)) <= 1 + faults

\* A tax document that was recorded is never forgotten, and a status LHDN
\* decided is never taken back, by a late worker or after a restart.
DecisionsStand ==
  [][\A i \in Invoices :
       LET old == invoices[i]
           new == invoices'[i]
       IN  /\ old.uuid # NoUuid => new.uuid = old.uuid
           /\ old.status \in {"Failed", "Invalid", "Cancelled"} =>
                [new EXCEPT !.window = old.window] = old
           /\ old.status = "Valid" => new.status \in {"Valid", "Cancelled"}
    ]_vars

\* Every invoice moves as InvoiceLifecycle says, one move per transaction.
Lifecycle == INSTANCE InvoiceLifecycle WITH
  status <- [i \in Invoices |-> invoices[i].status],
  work   <- [i \in Invoices |-> {e.kind : e \in EventsOf(i)}],
  reason <- [i \in Invoices |-> invoices[i].reason]

ImplementsLifecycle == Lifecycle!Spec

-----------------------------------------------------------------------------
(* Liveness, under FairSpec, when LHDN names the documents it accepts.     *)

CancelPending(i) == \E e \in EventsOf(i) : e.kind = "cancel"

\* Every invoice the API accepted is delivered or refused: no crash, lost
\* answer or failed write leaves it Pending without anyone trying.
PendingIsDecided ==
  \A i \in Invoices :
    invoices[i].status = "Pending" ~> invoices[i].status # "Pending"

\* Every submitted invoice gets a verdict, or an error an operator can see.
SubmittedIsSettled ==
  \A i \in Invoices :
    invoices[i].status = "Submitted" ~>
      \/ invoices[i].status \in {"Valid", "Invalid", "Cancelled"}
      \/ invoices[i].error.stage = "poll" /\ EventsOf(i) = {}

\* Every cancellation the API accepted ends in Cancelled, or in an error.
CancellationIsAnswered ==
  \A i \in Invoices :
    CancelPending(i) ~>
      \/ invoices[i].status = "Cancelled"
      \/ /\ invoices[i].error.stage \in {"cancel", "cancel_precondition"}
         /\ ~CancelPending(i)
=============================================================================
