--------------------------- MODULE InvoiceLifecycle --------------------------
(***************************************************************************)
(* What the bridge promises of each invoice, without workers, retries,     *)
(* timers or LHDN: a status, the work the bridge still owes it, and the    *)
(* reason of its latest cancellation request.  Every step concerns one     *)
(* invoice; the bridge never owes two things at once for the same one.     *)
(***************************************************************************)
CONSTANTS Invoices, Reasons, NoReason

VARIABLES status, work, reason

vars == <<status, work, reason>>

Init ==
  /\ status = [i \in Invoices |-> "Absent"]
  /\ work = [i \in Invoices |-> {}]
  /\ reason = [i \in Invoices |-> NoReason]

\* Invoice i, in status s with work w, goes to status t with work v.
Moves(i, s, w, t, v) ==
  /\ status[i] = s /\ work[i] = w
  /\ status' = [status EXCEPT ![i] = t]
  /\ work' = [work EXCEPT ![i] = v]
  /\ UNCHANGED reason

Accept(i)     == Moves(i, "Absent", {}, "Pending", {"submit"})
Deliver(i)    == Moves(i, "Pending", {"submit"}, "Submitted", {"poll"})
Refuse(i)     == Moves(i, "Pending", {"submit"}, "Failed", {})
Judge(i)      == \E verdict \in {"Valid", "Invalid", "Cancelled"} :
                   Moves(i, "Submitted", {"poll"}, verdict, {})
StopAsking(i) == Moves(i, "Submitted", {"poll"}, "Submitted", {})
Cancel(i)     == Moves(i, "Valid", {"cancel"}, "Cancelled", {})
KeepValid(i)  == Moves(i, "Valid", {"cancel"}, "Valid", {})

RequestCancel(i) ==
  /\ status[i] = "Valid" /\ work[i] = {}
  /\ work' = [work EXCEPT ![i] = {"cancel"}]
  /\ \E r \in Reasons : reason' = [reason EXCEPT ![i] = r]
  /\ UNCHANGED status

Next ==
  \E i \in Invoices :
    \/ Accept(i) \/ Deliver(i) \/ Refuse(i) \/ Judge(i) \/ StopAsking(i)
    \/ RequestCancel(i) \/ Cancel(i) \/ KeepValid(i)

Spec == Init /\ [][Next]_vars
=============================================================================
