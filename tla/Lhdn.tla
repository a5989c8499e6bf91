-------------------------------- MODULE Lhdn ---------------------------------
(***************************************************************************)
(* LHDN MyInvois as client.rs sees it, an external service: the documents  *)
(* it holds and the requests it was sent whose answer nobody waits for any *)
(* more (a 30 s timeout, a dropped connection, a crash of the bridge).     *)
(* Such a request may take effect later, or never.                         *)
(*                                                                         *)
(* What is assumed of LHDN is what the client is written for: a submission *)
(* registers a document under a fresh uuid, validation ends in Valid or    *)
(* Invalid, only a Valid document is cancelled, a cancelled one stays so.  *)
(* Nothing in the client or the worker tells LHDN that two submissions are *)
(* the same one, so nothing here merges them.                              *)
(***************************************************************************)
EXTENDS Names

CONSTANTS
  ErrorStatuses,         \* the HTTP statuses a refused call may carry
  LocalErrors            \* how a call fails with no status to classify

ASSUME LhdnAssumption ==
  /\ ErrorStatuses \subseteq 300..599
  /\ LocalErrors \subseteq {"Transport", "Schema", "Storage"}

VARIABLES docs, lateSubmits, lateCancels

lhdnVars == <<docs, lateSubmits, lateCancels>>

Unused == [status |-> "unused"]
Document == [status : {"Submitted", "Valid", "Invalid", "Cancelled"},
             inv : Invoices, reason : Reasons \cup {NoReason}]

LhdnTypeOK ==
  /\ docs \in [Uuids -> {Unused} \cup Document]
  /\ lateSubmits \in [Invoices -> Nat]
  /\ lateCancels \subseteq Uuids \X Reasons

LhdnInit ==
  /\ docs = [u \in Uuids |-> Unused]
  /\ lateSubmits = [i \in Invoices |-> 0]
  /\ lateCancels = {}

\* The variants a call that had no effect may end in.  Storage, Schema and
\* Transport also stand for access_token failing before the request is sent.
CallErrors == {classify_error(s) : s \in ErrorStatuses} \cup LocalErrors

\* The variants that leave open whether LHDN acted: a 5xx, no answer, or an
\* answer that does not parse.
UncertainErrors == CallErrors \cap {"Server", "Transport", "Schema"}

\* The documents LHDN holds for an invoice.
DocumentsOf(i) == {u \in Uuids : docs[u] # Unused /\ docs[u].inv = i}

-----------------------------------------------------------------------------

Register(u, i) ==
  /\ docs[u] = Unused
  /\ docs' = [docs EXCEPT ![u] =
                [status |-> "Submitted", inv |-> i, reason |-> NoReason]]

CancelDocument(u, reason) ==
  /\ docs[u].status = "Valid"
  /\ docs' = [docs EXCEPT ![u].status = "Cancelled", ![u].reason = reason]

\* Asynchronous validation.
Decides(u) ==
  /\ docs[u].status = "Submitted"
  /\ \E verdict \in {"Valid", "Invalid"} :
       docs' = [docs EXCEPT ![u].status = verdict]
  /\ UNCHANGED <<lateSubmits, lateCancels>>

\* A cancellation this bridge did not ask for.
LhdnCancels(u) ==
  /\ CancelDocument(u, NoReason)
  /\ UNCHANGED <<lateSubmits, lateCancels>>

SubmitGoesLate(i) ==
  /\ lateSubmits' = [lateSubmits EXCEPT ![i] = @ + 1]
  /\ UNCHANGED <<docs, lateCancels>>

CancelGoesLate(u, reason) ==
  /\ lateCancels' = lateCancels \cup {<<u, reason>>}
  /\ UNCHANGED <<docs, lateSubmits>>

LateSubmit(u, i) ==
  /\ lateSubmits[i] > 0
  /\ lateSubmits' = [lateSubmits EXCEPT ![i] = @ - 1]
  /\ Register(u, i)
  /\ UNCHANGED lateCancels

LateCancel(u, reason) ==
  /\ <<u, reason>> \in lateCancels
  /\ lateCancels' = lateCancels \ {<<u, reason>>}
  /\ CancelDocument(u, reason)
  /\ UNCHANGED lateSubmits
=============================================================================
