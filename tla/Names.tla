-------------------------------- MODULE Names --------------------------------
(***************************************************************************)
(* The identifiers the bridge and LHDN exchange.                           *)
(***************************************************************************)
EXTENDS LhdnError

CONSTANTS
  Invoices,              \* invoice_refs the point of sale may send; also the
                         \* code_number of the document built for each
  Uuids, NoUuid,         \* LHDN document uuids; NULL or the empty string
  Reasons, NoReason      \* cancellation reasons; NULL

ASSUME NamesAssumption ==
  /\ NoUuid \notin Uuids
  /\ NoReason \notin Reasons
=============================================================================
