------------------------ MODULE BridgeLifecycleProofs ------------------------
(***************************************************************************)
(* The bridge implements InvoiceLifecycle, and decisions stand.            *)
(*                                                                         *)
(* No UPDATE of the store looks at the status it overwrites.  What decides *)
(* it is the event the worker holds: by IInv its job is current, and the   *)
(* event's kind is the one its invoice's status calls for.  So every step  *)
(* of the bridge is a StoreMove of one invoice: one of the moves of the    *)
(* abstract life cycle, or one that changes nothing the life cycle sees.   *)
(***************************************************************************)
EXTENDS BridgeSafetyProofs

WorkOf(i) == {e.kind : e \in EventsOf(i)}

\* Invoice i, in status s with work w, is left with work v.
Goes(i, s, w, v) ==
  invoices[i].status = s /\ WorkOf(i) = w /\ WorkOf(i)' = v

SameDocument(i, row) ==
  row.uuid = invoices[i].uuid /\ row.reason = invoices[i].reason

Decided == {"Failed", "Invalid", "Cancelled"}

\* The step changes nothing of i but its timers, attempts and error, and of a
\* decided invoice only the window.
Stays(i, row) ==
  /\ row.status = invoices[i].status /\ SameDocument(i, row)
  /\ WorkOf(i)' = WorkOf(i)
  /\ row.status \in Decided =>
       [row EXCEPT !.window = invoices[i].window] = invoices[i]

SubmitMove(i, row) ==
  \/ /\ Goes(i, "Absent", {}, {"submit"}) /\ row.status = "Pending"
     /\ SameDocument(i, row)
  \/ /\ Goes(i, "Pending", {"submit"}, {"poll"}) /\ row.status = "Submitted"
     /\ row.reason = invoices[i].reason
  \/ /\ Goes(i, "Pending", {"submit"}, {}) /\ row.status = "Failed"
     /\ SameDocument(i, row)

PollMove(i, row) ==
  /\ Goes(i, "Submitted", {"poll"}, {})
  /\ row.status \in {"Valid", "Invalid", "Cancelled", "Submitted"}
  /\ SameDocument(i, row)

CancelMove(i, row) ==
  \/ /\ Goes(i, "Valid", {}, {"cancel"}) /\ row.status = "Valid"
     /\ row.uuid = invoices[i].uuid /\ row.reason \in Reasons
  \/ /\ Goes(i, "Valid", {"cancel"}, {}) /\ row.status \in {"Valid", "Cancelled"}
     /\ SameDocument(i, row)

Others(i) == \A j \in Invoices : j # i => WorkOf(j)' = WorkOf(j)

StoreMove(i, row) ==
  /\ Update(i, row) /\ Others(i)
  /\ \/ Stays(i, row) \/ SubmitMove(i, row) \/ PollMove(i, row)
     \/ CancelMove(i, row)

-----------------------------------------------------------------------------
(* What the three changes of the outbox do to the work owed.               *)

\* An invoice with an event owes that event's kind and nothing else.
LEMMA WorkIsEvent ==
  ASSUME OneEventPerInvoice, NEW e \in outbox
  PROVE  WorkOf(e.inv) = {e.kind}
  <1>1. EventsOf(e.inv) = {e}
    BY DEF EventsOf, OneEventPerInvoice
  <1> QED BY <1>1 DEF WorkOf

LEMMA WorkRemoved ==
  ASSUME OneEventPerInvoice, NEW i, NEW n, NEW e \in outbox, e.inv = i, e.n = n,
         outbox' = Without(i, n)
  PROVE  WorkOf(i)' = {} /\ Others(i)
  <1>1. \A f : f \in outbox' <=> f \in outbox /\ f.inv # i
    BY DEF OneEventPerInvoice, Without, IsEvent
  <1>2. EventsOf(i)' = {} /\ \A j : j # i => EventsOf(j)' = EventsOf(j)
    BY <1>1 DEF EventsOf
  <1> QED BY <1>2 DEF WorkOf, Others

LEMMA WorkPostponed ==
  ASSUME RepoTypeOK, NEW i, NEW n, NEW attempts, NEW due,
         outbox' = Rescheduled(i, n, attempts, due)
  PROVE  \A j : WorkOf(j)' = WorkOf(j)
  <1> DEFINE put(e) == IF IsEvent(e, i, n)
                       THEN [e EXCEPT !.attempts = attempts, !.due = due] ELSE e
  <1>1. \A e \in outbox : put(e).inv = e.inv /\ put(e).kind = e.kind
    BY DEF RepoTypeOK, Event
  <1>2. outbox' = {put(e) : e \in outbox}
    BY DEF Rescheduled
  <1> HIDE DEF put
  <1> SUFFICES ASSUME NEW j PROVE WorkOf(j)' = WorkOf(j)
    OBVIOUS
  <1>3. \A k : k \in WorkOf(j) <=> \E e \in outbox : e.inv = j /\ e.kind = k
    BY DEF WorkOf, EventsOf
  <1>4. \A k : k \in WorkOf(j)' <=> \E e \in outbox' : e.inv = j /\ e.kind = k
    BY DEF WorkOf, EventsOf
  <1>5. \A k : k \in WorkOf(j)' <=> k \in WorkOf(j)
    BY <1>1, <1>2, <1>3, <1>4
  <1> QED BY <1>5

LEMMA WorkAdded ==
  ASSUME NEW i, NEW k, NEW rest, \A f \in rest : f.inv # i,
         \A f : f \in outbox /\ f.inv # i => f \in rest,
         rest \subseteq outbox,
         outbox' = rest \cup {NewEvent(i, k)}
  PROVE  WorkOf(i)' = {k} /\ Others(i)
  <1> DEFINE new == NewEvent(i, k)
  <1>1. new.inv = i /\ new.kind = k
    BY DEF NewEvent
  <1>2. outbox' = rest \cup {new}
    OBVIOUS
  <1> HIDE DEF new
  <1>3. EventsOf(i)' = {new} /\ \A j : j # i => EventsOf(j)' = EventsOf(j)
    BY <1>1, <1>2 DEF EventsOf
  <1> QED BY <1>1, <1>3 DEF WorkOf, Others

\* An event in hand says what its invoice's status and work are.
LEMMA EventInHand ==
  ASSUME RepoTypeOK, OutboxInv, NEW e \in outbox
  PROVE  /\ e.inv \in Invoices /\ invoices[e.inv] \in Row
         /\ invoices[e.inv].status = Calls(e.kind)
         /\ WorkOf(e.inv) = {e.kind}
  BY WorkIsEvent DEF RepoTypeOK, Event, OutboxInv, KindsMatch

\* A status that has no event owes nothing.
LEMMA NothingOwed ==
  ASSUME RepoTypeOK, OutboxInv, NEW i \in Invoices,
         \A e \in outbox : e.inv # i
  PROVE  WorkOf(i) = {}
  BY DEF WorkOf, EventsOf

-----------------------------------------------------------------------------
(* Every transaction is a StoreMove.                                       *)

LEMMA ApiMoves ==
  ASSUME RepoTypeOK, OutboxInv, NEW i \in Invoices,
         create_pending(i) \/ \E r \in Reasons : request_cancellation(i, r)
  PROVE  \E row : StoreMove(i, row)
  <1>r. invoices[i] \in Row
    BY DEF RepoTypeOK
  <1>1. CASE create_pending(i)
    <2> DEFINE row == [invoices[i] EXCEPT !.status = "Pending"]
    <2>1. row.status = "Pending" /\ SameDocument(i, row)
      BY <1>r DEF Row, SameDocument
    <2>2. /\ Update(i, row) /\ invoices[i].status = "Absent"
          /\ outbox' = outbox \cup {NewEvent(i, "submit")}
      BY <1>1 DEF create_pending
    <2> HIDE DEF row
    <2>3. \A f \in outbox : f.inv # i
      BY <2>2, EventInHand DEF Calls, Kind, RepoTypeOK, Event
    <2>4. WorkOf(i) = {} /\ WorkOf(i)' = {"submit"} /\ Others(i)
      BY <2>2, <2>3, NothingOwed, WorkAdded
    <2> QED BY <2>1, <2>2, <2>4 DEF StoreMove, SubmitMove, Goes
  <1>2. ASSUME NEW r \in Reasons, request_cancellation(i, r)
        PROVE  \E row : StoreMove(i, row)
    <2> DEFINE row == [invoices[i] EXCEPT !.reason = r]
    <2>1. /\ row.status = invoices[i].status /\ row.uuid = invoices[i].uuid
          /\ row.reason = r
      BY <1>r DEF Row
    <2>2. /\ Update(i, row) /\ invoices[i].status = "Valid"
          /\ outbox' = outbox \cup {NewEvent(i, "cancel")}
          /\ \A e \in outbox : ~(e.inv = i /\ e.kind = "cancel")
      BY <1>2 DEF request_cancellation
    <2> HIDE DEF row
    <2>3. \A f \in outbox : f.inv # i
      BY <2>2, EventInHand DEF Calls, Kind, RepoTypeOK, Event
    <2>4. WorkOf(i) = {} /\ WorkOf(i)' = {"cancel"} /\ Others(i)
      BY <2>2, <2>3, NothingOwed, WorkAdded
    <2> QED BY <2>1, <2>2, <2>4 DEF StoreMove, CancelMove, Goes
  <1> QED BY <1>1, <1>2

LEMMA SubmitMoves ==
  ASSUME RepoTypeOK, OutboxInv, NEW i \in Invoices, NEW n, NEW u, NEW attempts,
         NEW body, NEW e \in outbox, e.inv = i, e.n = n, e.kind = "submit",
         \/ complete_submission(i, n, u) \/ fail_permanently(i, n, attempts, body)
         \/ reschedule(i, n, attempts, body)
  PROVE  \E row : StoreMove(i, row)
  <1>r. /\ invoices[i] \in Row /\ invoices[i].status = "Pending"
        /\ WorkOf(i) = {"submit"}
    BY EventInHand DEF Calls
  <1>1. CASE complete_submission(i, n, u)
    <2> DEFINE row == [invoices[i] EXCEPT !.status = "Submitted", !.uuid = u,
                                          !.error = NoError]
    <2>1. row.status = "Submitted" /\ row.reason = invoices[i].reason
      BY <1>r DEF Row
    <2>2. Update(i, row) /\ outbox' = Without(i, n) \cup {NewEvent(i, "poll")}
      BY <1>1 DEF complete_submission
    <2> HIDE DEF row
    <2>3. /\ \A f \in Without(i, n) : f.inv # i
          /\ \A f : f \in outbox /\ f.inv # i => f \in Without(i, n)
          /\ Without(i, n) \subseteq outbox
      BY DEF Without, IsEvent, OutboxInv, OneEventPerInvoice
    <2>4. WorkOf(i)' = {"poll"} /\ Others(i)
      BY <2>2, <2>3, WorkAdded
    <2> QED BY <1>r, <2>1, <2>2, <2>4 DEF StoreMove, SubmitMove, Goes
  <1>2. CASE fail_permanently(i, n, attempts, body)
    <2> DEFINE row == [invoices[i] EXCEPT !.status = "Failed",
                                          !.attempts = attempts, !.error = body]
    <2>1. row.status = "Failed" /\ SameDocument(i, row)
      BY <1>r DEF Row, SameDocument
    <2>2. Update(i, row) /\ outbox' = Without(i, n)
      BY <1>2 DEF fail_permanently
    <2> HIDE DEF row
    <2>3. WorkOf(i)' = {} /\ Others(i)
      BY <2>2, WorkRemoved DEF OutboxInv
    <2> QED BY <1>r, <2>1, <2>2, <2>3 DEF StoreMove, SubmitMove, Goes
  <1>3. CASE reschedule(i, n, attempts, body)
    <2> DEFINE row == [invoices[i] EXCEPT !.attempts = attempts, !.error = body]
    <2>1. row.status = "Pending" /\ SameDocument(i, row)
      BY <1>r DEF Row, SameDocument
    <2>2. Update(i, row) /\ outbox' = Rescheduled(i, n, attempts, FALSE)
      BY <1>3 DEF reschedule
    <2> HIDE DEF row
    <2>3. WorkOf(i)' = WorkOf(i) /\ Others(i)
      BY <2>2, WorkPostponed DEF Others
    <2> QED BY <1>r, <2>1, <2>2, <2>3 DEF StoreMove, Stays, Decided
  <1> QED BY <1>1, <1>2, <1>3

LEMMA PollMoves ==
  ASSUME RepoTypeOK, OutboxInv, NEW i \in Invoices, NEW n, NEW attempts, NEW due,
         NEW body, NEW w, NEW e \in outbox, e.inv = i, e.n = n, e.kind = "poll",
         \/ mark_valid(i, n, w) \/ mark_invalid(i, n, body)
         \/ mark_cancelled_via_poll(i, n) \/ fail_poll(i, n, body)
         \/ reschedule_poll(i, n, attempts, due)
  PROVE  \E row : StoreMove(i, row)
  <1>r. /\ invoices[i] \in Row /\ invoices[i].status = "Submitted"
        /\ WorkOf(i) = {"poll"}
    BY EventInHand DEF Calls
  <1>1. CASE ~reschedule_poll(i, n, attempts, due)
    <2>1. \E row : /\ Update(i, row)
                   /\ row.status \in {"Valid", "Invalid", "Cancelled", "Submitted"}
                   /\ SameDocument(i, row)
      <3>1. CASE mark_valid(i, n, w)
        <4> DEFINE row == [invoices[i] EXCEPT !.status = "Valid", !.window = w,
                                              !.error = NoError]
        <4>1. row.status = "Valid" /\ SameDocument(i, row)
          BY <1>r DEF Row, SameDocument
        <4>2. Update(i, row)
          BY <3>1 DEF mark_valid
        <4> HIDE DEF row
        <4> QED BY <4>1, <4>2
      <3>2. CASE mark_invalid(i, n, body)
        <4> DEFINE row == [invoices[i] EXCEPT !.status = "Invalid", !.error = body]
        <4>1. row.status = "Invalid" /\ SameDocument(i, row)
          BY <1>r DEF Row, SameDocument
        <4>2. Update(i, row)
          BY <3>2 DEF mark_invalid
        <4> HIDE DEF row
        <4> QED BY <4>1, <4>2
      <3>3. CASE mark_cancelled_via_poll(i, n)
        <4> DEFINE row == [invoices[i] EXCEPT !.status = "Cancelled"]
        <4>1. row.status = "Cancelled" /\ SameDocument(i, row)
          BY <1>r DEF Row, SameDocument
        <4>2. Update(i, row)
          BY <3>3 DEF mark_cancelled_via_poll
        <4> HIDE DEF row
        <4> QED BY <4>1, <4>2
      <3>4. CASE fail_poll(i, n, body)
        <4> DEFINE row == [invoices[i] EXCEPT !.error = body]
        <4>1. row.status = "Submitted" /\ SameDocument(i, row)
          BY <1>r DEF Row, SameDocument
        <4>2. Update(i, row)
          BY <3>4 DEF fail_poll
        <4> HIDE DEF row
        <4> QED BY <4>1, <4>2
      <3> QED BY <1>1, <3>1, <3>2, <3>3, <3>4
    <2>2. outbox' = Without(i, n)
      BY <1>1 DEF mark_valid, mark_invalid, mark_cancelled_via_poll, fail_poll
    <2>3. WorkOf(i)' = {} /\ Others(i)
      BY <2>2, WorkRemoved DEF OutboxInv
    <2> QED BY <1>r, <2>1, <2>3 DEF StoreMove, PollMove, Goes
  <1>2. CASE reschedule_poll(i, n, attempts, due)
    <2>1. Update(i, invoices[i]) /\ outbox' = Rescheduled(i, n, attempts, due)
      BY <1>2 DEF reschedule_poll, Update, RepoTypeOK
    <2>2. WorkOf(i)' = WorkOf(i) /\ Others(i)
      BY <2>1, WorkPostponed DEF Others
    <2> QED BY <1>r, <2>1, <2>2 DEF StoreMove, Stays, SameDocument, Decided
  <1> QED BY <1>1, <1>2

LEMMA CancelMoves ==
  ASSUME RepoTypeOK, OutboxInv, NEW i \in Invoices, NEW n, NEW attempts, NEW body,
         NEW e \in outbox, e.inv = i, e.n = n, e.kind = "cancel",
         \/ complete_cancel(i, n) \/ fail_cancel(i, n, body)
         \/ reschedule_cancel(i, n, attempts)
  PROVE  \E row : StoreMove(i, row)
  <1>r. /\ invoices[i] \in Row /\ invoices[i].status = "Valid"
        /\ WorkOf(i) = {"cancel"}
    BY EventInHand DEF Calls
  <1>1. CASE complete_cancel(i, n)
    <2> DEFINE row == [invoices[i] EXCEPT !.status = "Cancelled", !.error = NoError]
    <2>1. row.status = "Cancelled" /\ SameDocument(i, row)
      BY <1>r DEF Row, SameDocument
    <2>2. Update(i, row) /\ outbox' = Without(i, n)
      BY <1>1 DEF complete_cancel
    <2> HIDE DEF row
    <2>3. WorkOf(i)' = {} /\ Others(i)
      BY <2>2, WorkRemoved DEF OutboxInv
    <2> QED BY <1>r, <2>1, <2>2, <2>3 DEF StoreMove, CancelMove, Goes
  <1>2. CASE fail_cancel(i, n, body)
    <2> DEFINE row == [invoices[i] EXCEPT !.error = body]
    <2>1. row.status = "Valid" /\ SameDocument(i, row)
      BY <1>r DEF Row, SameDocument
    <2>2. Update(i, row) /\ outbox' = Without(i, n)
      BY <1>2 DEF fail_cancel
    <2> HIDE DEF row
    <2>3. WorkOf(i)' = {} /\ Others(i)
      BY <2>2, WorkRemoved DEF OutboxInv
    <2> QED BY <1>r, <2>1, <2>2, <2>3 DEF StoreMove, CancelMove, Goes
  <1>3. CASE reschedule_cancel(i, n, attempts)
    <2>1. Update(i, invoices[i]) /\ outbox' = Rescheduled(i, n, attempts, FALSE)
      BY <1>3 DEF reschedule_cancel, Update, RepoTypeOK
    <2>2. WorkOf(i)' = WorkOf(i) /\ Others(i)
      BY <2>1, WorkPostponed DEF Others
    <2> QED BY <1>r, <2>1, <2>2 DEF StoreMove, Stays, SameDocument, Decided
  <1> QED BY <1>1, <1>2, <1>3

LEMMA ClockMoves ==
  ASSUME RepoTypeOK, NEW i \in Invoices,
         DeadlinePasses(i) \/ \E e \in outbox : e.inv = i /\ Elapse(e)
  PROVE  \E row : StoreMove(i, row)
  <1>r. invoices[i] \in Row
    BY DEF RepoTypeOK
  <1>1. CASE DeadlinePasses(i)
    <2> DEFINE row == [invoices[i] EXCEPT !.window = "past"]
    <2>1. /\ row.status = invoices[i].status /\ SameDocument(i, row)
          /\ [row EXCEPT !.window = invoices[i].window] = invoices[i]
      BY <1>r DEF Row, SameDocument
    <2>2. Update(i, row) /\ outbox' = outbox
      BY <1>1 DEF DeadlinePasses
    <2> HIDE DEF row
    <2>3. \A j : WorkOf(j)' = WorkOf(j)
      BY <2>2 DEF WorkOf, EventsOf
    <2> QED BY <2>1, <2>2, <2>3 DEF StoreMove, Stays, Others
  <1>2. ASSUME NEW e \in outbox, e.inv = i, Elapse(e)
        PROVE  \E row : StoreMove(i, row)
    <2>1. /\ Update(i, invoices[i])
          /\ outbox' = Rescheduled(i, e.n, e.attempts, TRUE)
      BY <1>2 DEF Elapse, Update, RepoTypeOK
    <2>2. WorkOf(i)' = WorkOf(i) /\ Others(i)
      BY <2>1, WorkPostponed DEF Others
    <2>3. [invoices[i] EXCEPT !.window = invoices[i].window] = invoices[i]
      BY <1>r DEF Row
    <2> QED BY <2>1, <2>2, <2>3 DEF StoreMove, Stays, SameDocument
  <1> QED BY <1>1, <1>2

-----------------------------------------------------------------------------
(* Every step of the bridge.                                               *)

Moves == \E i \in Invoices : \E row : StoreMove(i, row)

LEMMA LoadMoves ==
  ASSUME IInv, NEW i \in Invoices,
         SubmitterLoads(i) \/ PollerLoads(i) \/ CancellerLoads(i)
  PROVE  UNCHANGED repoVars \/ Moves
  <1> USE DEF IInv
  <1>t. RepoTypeOK
    BY DEF TypeOK
  <1>1. CASE SubmitterLoads(i)
    <2>1. PICK e \in outbox :
            /\ e.inv = i /\ e.kind = "submit"
            /\ \/ UNCHANGED repoVars
               \/ fail_permanently(i, e.n, invoices[i].attempts,
                                   Body("build_signed_document"))
      BY <1>1 DEF SubmitterLoads, SubmitLoad, DueEvents
    <2> QED BY <1>t, <2>1, SubmitMoves DEF Moves
  <1>2. CASE PollerLoads(i)
    <2>1. PICK e \in outbox :
            /\ e.inv = i /\ e.kind = "poll"
            /\ UNCHANGED repoVars \/ reschedule_poll(i, e.n, PollMax, TRUE)
      BY <1>2 DEF PollerLoads, PollLoad, DueEvents
    <2> QED BY <1>t, <2>1, PollMoves DEF Moves
  <1>3. CASE CancellerLoads(i)
    <2>1. PICK e \in outbox :
            /\ e.inv = i /\ e.kind = "cancel"
            /\ UNCHANGED repoVars \/ fail_cancel(i, e.n, Body("cancel_precondition"))
      BY <1>3 DEF CancellerLoads, CancelLoad, DueEvents
    <2> QED BY <1>t, <2>1, CancelMoves DEF Moves
  <1> QED BY <1>1, <1>2, <1>3

\* The job in hand is current, so its event is there to be completed.
LEMMA FinishMoves ==
  ASSUME IInv, SubmitterFinishes \/ PollerFinishes \/ CancellerFinishes
  PROVE  Moves
  <1> USE DEF IInv
  <1>t. RepoTypeOK
    BY DEF TypeOK
  <1>1. CASE SubmitterFinishes
    <2>1. sub # Idle /\ (SubmitSuccess \/ SubmitFailure)
      BY <1>1 DEF SubmitterFinishes, SubmitFinish, SubmitSuccess, SubmitFailure, Idle
    <2>2. PICK e \in outbox : e.inv = sub.inv /\ e.n = sub.n /\ e.kind = "submit"
      BY <2>1 DEF JobsAreCurrent, SubmitJobIsCurrent
    <2>3. sub.inv \in Invoices
      BY <2>1, JobStatus DEF SubmitJob
    <2>4. \E u, attempts, body :
            \/ complete_submission(sub.inv, sub.n, u)
            \/ fail_permanently(sub.inv, sub.n, attempts, body)
            \/ reschedule(sub.inv, sub.n, attempts, body)
      BY <2>1 DEF SubmitSuccess, SubmitFailure
    <2> QED BY <1>t, <2>2, <2>3, <2>4, SubmitMoves DEF Moves
  <1>2. CASE PollerFinishes
    <2>0. PollDetails \/ PollFailure
      BY <1>2 DEF PollerFinishes, PollFinish
    <2>1. pol # NoPoll /\ (PollDetails \/ PollFailure)
      <3>1. pol.answer # "idle"
        BY <2>0 DEF PollDetails, PollFailure
      <3> QED BY <2>0, <3>1 DEF NoPoll
    <2>2. PICK e \in outbox : e.inv = pol.inv /\ e.n = pol.n /\ e.kind = "poll"
      BY <2>1 DEF JobsAreCurrent, PollJobIsCurrent
    <2>3. pol.inv \in Invoices
      BY <2>1, JobStatus DEF PollJob
    <2>4. \E attempts, due, body, w :
            \/ mark_valid(pol.inv, pol.n, w) \/ mark_invalid(pol.inv, pol.n, body)
            \/ mark_cancelled_via_poll(pol.inv, pol.n)
            \/ fail_poll(pol.inv, pol.n, body)
            \/ reschedule_poll(pol.inv, pol.n, attempts, due)
      BY <2>1 DEF PollDetails, StillSubmitted, PollFailure
    <2> QED BY <1>t, <2>2, <2>3, <2>4, PollMoves DEF Moves
  <1>3. CASE CancellerFinishes
    <2>1. can # NoCancel
      BY <1>3 DEF CancellerFinishes, CancelFinish, NoCancel
    <2>2. PICK e \in outbox : e.inv = can.inv /\ e.n = can.n /\ e.kind = "cancel"
      BY <2>1 DEF JobsAreCurrent, CancelJobIsCurrent
    <2>3. can.inv \in Invoices
      BY <2>1, JobStatus DEF CancelJob
    <2>4. \E attempts, body :
            \/ complete_cancel(can.inv, can.n) \/ fail_cancel(can.inv, can.n, body)
            \/ reschedule_cancel(can.inv, can.n, attempts)
      BY <1>3 DEF CancellerFinishes, CancelFinish, CancelFailure
    <2> QED BY <1>t, <2>2, <2>3, <2>4, CancelMoves DEF Moves
  <1> QED BY <1>1, <1>2, <1>3

LEMMA EveryStep ==
  ASSUME IInv, [Next]_vars
  PROVE  UNCHANGED repoVars \/ Moves
  <1>t. RepoTypeOK /\ OutboxInv
    BY DEF IInv, TypeOK
  <1>1. CASE UNCHANGED vars
    BY <1>1 DEF vars
  <1>2. ASSUME NEW i \in Invoices, PerInvoice(i)
        PROVE  UNCHANGED repoVars \/ Moves
    <2>1. CASE submit_invoice(i) \/ cancel_invoice(i)
      BY <1>t, <2>1, ApiMoves DEF submit_invoice, cancel_invoice, Moves
    <2>2. CASE BackoffEnds(i) \/ WindowCloses(i)
      BY <1>t, <2>2, ClockMoves DEF BackoffEnds, WindowCloses, Moves
    <2> QED BY <1>2, <2>1, <2>2, LoadMoves DEF PerInvoice
  <1>3. CASE Worker
    <2>1. SubmitterCalls \/ PollerCalls \/ CancellerCalls => UNCHANGED repoVars
      BY DEF SubmitterCalls, SubmitAccepted, SubmitRejected, SubmitRefused,
             PollerCalls, PollCall, CancellerCalls, CancelAccepted, CancelRefused
    <2> QED BY <1>3, <2>1, FinishMoves DEF Worker
  <1>4. CASE LhdnActs
    BY <1>4 DEF LhdnActs
  <1>5. CASE Faulty
    BY <1>5 DEF Faulty, LosesSubmitAnswer, SubmitInterrupted, LosesCancelAnswer,
                CancelInterrupted, DbError, Crash
  <1> QED BY <1>1, <1>2, <1>3, <1>4, <1>5 DEF Next

-----------------------------------------------------------------------------
(* The abstract life cycle.                                                *)

\* A StoreMove is a step of InvoiceLifecycle, or one it does not see.
LEMMA MoveIsLifecycleStep ==
  ASSUME RepoTypeOK, NEW i \in Invoices, NEW row, StoreMove(i, row)
  PROVE  [Lifecycle!Next]_(Lifecycle!vars)
  <1> DEFINE status == [j \in Invoices |-> invoices[j].status]
             work   == [j \in Invoices |-> WorkOf(j)]
             reason == [j \in Invoices |-> invoices[j].reason]
  <1>1. /\ invoices'[i] = row
        /\ \A j \in Invoices : j # i =>
             invoices'[j] = invoices[j] /\ WorkOf(j)' = WorkOf(j)
    BY DEF StoreMove, Update, Others, RepoTypeOK
  <1>2. /\ status' = [status EXCEPT ![i] = row.status]
        /\ work' = [work EXCEPT ![i] = WorkOf(i)']
        /\ reason' = [reason EXCEPT ![i] = row.reason]
    BY <1>1
  <1>3. status[i] = invoices[i].status /\ work[i] = WorkOf(i)
        /\ reason[i] = invoices[i].reason
    OBVIOUS
  <1>4. /\ Lifecycle!vars = <<status, work, reason>>
        /\ Lifecycle!vars' = <<status', work', reason'>>
    BY DEF Lifecycle!vars, WorkOf
  <1>5. ASSUME NEW s, NEW w, NEW t, NEW v, Goes(i, s, w, v), row.status = t,
               row.reason = invoices[i].reason
        PROVE  Lifecycle!Moves(i, s, w, t, v)
    <2>1. /\ status[i] = s /\ work[i] = w
          /\ status' = [status EXCEPT ![i] = t]
          /\ work' = [work EXCEPT ![i] = v]
          /\ reason' = reason
      BY <1>2, <1>3, <1>5 DEF Goes
    <2> QED BY <2>1 DEF Lifecycle!Moves, WorkOf
  <1>6. CASE Stays(i, row)
    <2>1. status' = status /\ work' = work /\ reason' = reason
      BY <1>2, <1>3, <1>6 DEF Stays, SameDocument
    <2> QED BY <1>4, <2>1
  <1>7. CASE SubmitMove(i, row)
    <2>1. Lifecycle!Accept(i) \/ Lifecycle!Deliver(i) \/ Lifecycle!Refuse(i)
      BY <1>5, <1>7 DEF SubmitMove, SameDocument, Lifecycle!Accept,
                        Lifecycle!Deliver, Lifecycle!Refuse
    <2> QED BY <2>1 DEF Lifecycle!Next
  <1>8. CASE PollMove(i, row)
    <2>1. Lifecycle!Judge(i) \/ Lifecycle!StopAsking(i)
      BY <1>5, <1>8 DEF PollMove, SameDocument, Lifecycle!Judge,
                        Lifecycle!StopAsking
    <2> QED BY <2>1 DEF Lifecycle!Next
  <1>9. CASE CancelMove(i, row)
    <2>1. CASE /\ Goes(i, "Valid", {}, {"cancel"})
               /\ row.status = "Valid" /\ row.reason \in Reasons
      <3>1. /\ status[i] = "Valid" /\ work[i] = {}
            /\ work' = [work EXCEPT ![i] = {"cancel"}]
            /\ \E r \in Reasons : reason' = [reason EXCEPT ![i] = r]
            /\ status' = status
        BY <1>2, <1>3, <2>1 DEF Goes
      <3>2. Lifecycle!RequestCancel(i)
        BY <3>1 DEF Lifecycle!RequestCancel, WorkOf
      <3> QED BY <3>2 DEF Lifecycle!Next
    <2>2. CASE /\ Goes(i, "Valid", {"cancel"}, {})
               /\ row.status \in {"Valid", "Cancelled"} /\ SameDocument(i, row)
      <3>1. Lifecycle!Cancel(i) \/ Lifecycle!KeepValid(i)
        BY <1>5, <2>2 DEF SameDocument, Lifecycle!Cancel, Lifecycle!KeepValid
      <3> QED BY <3>1 DEF Lifecycle!Next
    <2> QED BY <1>9, <2>1, <2>2 DEF CancelMove
  <1> QED BY <1>6, <1>7, <1>8, <1>9 DEF StoreMove

LEMMA LifecycleInit == Init => Lifecycle!Init
  BY DEF Init, RepoInit, AbsentRow, EventsOf, Lifecycle!Init

LEMMA LifecycleStep == IInv /\ [Next]_vars => [Lifecycle!Next]_(Lifecycle!vars)
  <1> SUFFICES ASSUME IInv, [Next]_vars
               PROVE  [Lifecycle!Next]_(Lifecycle!vars)
    OBVIOUS
  <1>1. CASE UNCHANGED repoVars
    BY <1>1 DEF repoVars, EventsOf, Lifecycle!vars
  <1>2. CASE Moves
    BY <1>2, MoveIsLifecycleStep DEF Moves, IInv, TypeOK
  <1> QED BY <1>1, <1>2, EveryStep

\* The bridge implements the abstract life cycle: whatever the workers, the
\* network and the restarts do, each invoice is accepted once, delivered or
\* refused once, and judged at most once, a Valid one is cancelled only while a
\* request is open, and at each moment the outbox owes it exactly the work the
\* life cycle says.
THEOREM Refinement == Spec => ImplementsLifecycle
  <1>1. Init => Lifecycle!Init
    BY LifecycleInit
  <1>2. IInv /\ [Next]_vars => [Lifecycle!Next]_(Lifecycle!vars)
    BY LifecycleStep
  <1> QED BY <1>1, <1>2, SafetyInit, SafetyStep, PTL
          DEF Spec, ImplementsLifecycle, Lifecycle!Spec

-----------------------------------------------------------------------------
(* Decisions.                                                              *)

\* An invoice that was not delivered has no uuid to lose.
UuidInv ==
  \A i \in Invoices :
    invoices[i].status \in {"Absent", "Pending"} => invoices[i].uuid = NoUuid

LEMMA UuidStep == IInv /\ UuidInv /\ [Next]_vars => UuidInv'
  <1> SUFFICES ASSUME IInv, UuidInv, [Next]_vars PROVE UuidInv'
    OBVIOUS
  <1>1. CASE UNCHANGED repoVars
    BY <1>1 DEF UuidInv, repoVars
  <1>2. ASSUME NEW i \in Invoices, NEW row, StoreMove(i, row) PROVE UuidInv'
    <2>1. /\ invoices'[i] = row
          /\ \A j \in Invoices : j # i => invoices'[j] = invoices[j]
      BY <1>2 DEF StoreMove, Update, IInv, TypeOK, RepoTypeOK
    <2>2. row.status \in {"Absent", "Pending"} => row.uuid = NoUuid
      BY <1>2 DEF StoreMove, Stays, SubmitMove, PollMove, CancelMove, Goes,
                  SameDocument, UuidInv
    <2> QED BY <2>1, <2>2 DEF UuidInv
  <1> QED BY <1>1, <1>2, EveryStep DEF Moves

Stands(old, new) ==
  /\ old.uuid # NoUuid => new.uuid = old.uuid
  /\ old.status \in Decided => [new EXCEPT !.window = old.window] = old
  /\ old.status = "Valid" => new.status \in {"Valid", "Cancelled"}

LEMMA DecisionsStep ==
  ASSUME IInv, UuidInv, [Next]_vars, NEW i \in Invoices
  PROVE  Stands(invoices[i], invoices'[i])
  <1>r. invoices[i] \in Row
    BY DEF IInv, TypeOK, RepoTypeOK
  <1>1. Stands(invoices[i], invoices[i])
    BY <1>r DEF Stands, Row
  <1>2. CASE UNCHANGED repoVars
    BY <1>1, <1>2 DEF repoVars
  <1>3. ASSUME NEW j \in Invoices, NEW row, StoreMove(j, row)
        PROVE  Stands(invoices[i], invoices'[i])
    <2>1. /\ invoices'[j] = row
          /\ j # i => invoices'[i] = invoices[i]
      BY <1>3 DEF StoreMove, Update, IInv, TypeOK, RepoTypeOK
    <2>2. CASE j # i
      BY <1>1, <2>1, <2>2
    <2>3. CASE j = i
      <3>1. Stays(i, row) => Stands(invoices[i], row)
        BY DEF Stays, Stands, SameDocument, Decided
      <3>2. SubmitMove(i, row) => Stands(invoices[i], row)
        BY DEF SubmitMove, Goes, Stands, SameDocument, Decided, UuidInv
      <3>3. PollMove(i, row) \/ CancelMove(i, row) => Stands(invoices[i], row)
        BY DEF PollMove, CancelMove, Goes, Stands, SameDocument, Decided
      <3> QED BY <1>3, <2>1, <2>3, <3>1, <3>2, <3>3 DEF StoreMove
    <2> QED BY <2>2, <2>3
  <1> QED BY <1>2, <1>3, EveryStep DEF Moves

\* A recorded document is never forgotten, and a decided status is never taken
\* back, whichever worker comes late.
THEOREM DecisionsFinal == Spec => DecisionsStand
  <1>1. Init => UuidInv
    BY DEF Init, RepoInit, AbsentRow, UuidInv
  <1>2. IInv /\ UuidInv /\ [Next]_vars =>
          [\A i \in Invoices :
             LET old == invoices[i]
                 new == invoices'[i]
             IN  /\ old.uuid # NoUuid => new.uuid = old.uuid
                 /\ old.status \in {"Failed", "Invalid", "Cancelled"} =>
                      [new EXCEPT !.window = old.window] = old
                 /\ old.status = "Valid" => new.status \in {"Valid", "Cancelled"}
          ]_vars
    BY DecisionsStep DEF Stands, Decided
  <1> QED BY <1>1, <1>2, SafetyInit, SafetyStep, UuidStep, PTL
          DEF Spec, DecisionsStand
=============================================================================
