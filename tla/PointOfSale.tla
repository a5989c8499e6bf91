----------------------------- MODULE PointOfSale -----------------------------
(***************************************************************************)
(* The bridge as its tills see it (adapters/api.rs): what a till may       *)
(* conclude from an answer, when answers are lost, two tills use the same  *)
(* reference, requests of both are in the handlers at once, and the        *)
(* workers go on meanwhile.  The workers are the moves of InvoiceLifecycle,*)
(* which Bridge implements; here the API's own transactions are shown to   *)
(* be such moves too, step by step.                                        *)
(*                                                                         *)
(* create_pending writes first, so it holds SQLite's write lock from its   *)
(* first statement and is one step.  request_cancellation reads first: its *)
(* transaction (BEGIN DEFERRED) can be overtaken by any commit between its *)
(* SELECTs and its UPDATE, and SQLite then refuses the UPDATE.             *)
(***************************************************************************)
EXTENDS Integers, FiniteSets

CONSTANTS
  Tills,           \* clients of the API
  Invoices,        \* references; the tills share them
  Reasons, NoReason,
  NoTill,
  MaxLost          \* bound: answers lost, requests dropped, statements failed

ASSUME PointOfSaleAssumption ==
  /\ NoReason \notin Reasons /\ NoTill \notin Tills
  /\ MaxLost \in Nat

VARIABLES
  status, work, reason,   \* as in InvoiceLifecycle
  past,                   \* invoices past cancellable_until
  payload,                \* whose payload_json the row holds
  request,                \* the request of each till, or none
  overtaken,              \* tills whose transaction's snapshot is out of date
  told,                   \* the codes a till has been answered, per invoice
  author,                 \* whose 202 the pending cancellation was, with what reason
  lost

lifecycleVars == <<status, work, reason>>
storeVars == <<status, work, reason, past, payload, author>>
vars == <<status, work, reason, past, payload, request, overtaken, told, author, lost>>

Lifecycle == INSTANCE InvoiceLifecycle

-----------------------------------------------------------------------------
\* A request: on its way in, between the SELECTs and the UPDATE of a
\* cancellation, or answered with a status code that is on its way back.
Op == {"post", "get", "cancel"}
Code == {200, 202, 404, 409, 422, 500}
Request ==
  [op : Op, inv : Invoices, reason : Reasons \cup {NoReason},
   step : {"sent", "checked", "answered"}, code : Code \cup {0}]
NoRequest == [op |-> "none"]

Sent(op, i, r) == [op |-> op, inv |-> i, reason |-> r, step |-> "sent", code |-> 0]
Answered(t, code) == [request[t] EXCEPT !.step = "answered", !.code = code]
IsAt(t, op, step) == request[t].op = op /\ request[t].step = step

\* The answers a till remembers: those that say its invoice was taken.
Lasting == {<<"post", 202>>, <<"post", 409>>}

PosTypeOK ==
  /\ status \in [Invoices -> {"Absent", "Pending", "Submitted", "Valid", "Invalid",
                             "Cancelled", "Failed"}]
  /\ work \in [Invoices -> SUBSET {"submit", "poll", "cancel"}]
  /\ reason \in [Invoices -> Reasons \cup {NoReason}]
  /\ payload \in [Invoices -> Tills \cup {NoTill}]
  /\ author \in [Invoices -> SUBSET (Tills \X Reasons)]
  /\ request \in [Tills -> Request \cup {NoRequest}]
  /\ told \in [Tills -> [Invoices -> SUBSET Lasting]]
  /\ past \subseteq Invoices
  /\ overtaken \subseteq {t \in Tills : IsAt(t, "cancel", "checked")}
  /\ lost \in 0..MaxLost

Init ==
  /\ Lifecycle!Init
  /\ past = {} /\ overtaken = {} /\ lost = 0
  /\ payload = [i \in Invoices |-> NoTill]
  /\ request = [t \in Tills |-> NoRequest]
  /\ told = [t \in Tills |-> [i \in Invoices |-> {}]]
  /\ author = [i \in Invoices |-> {}]

-----------------------------------------------------------------------------
(* The tills (external): one request at a time each, in any order.         *)

Send(t, req) ==
  /\ request[t] = NoRequest
  /\ request' = [request EXCEPT ![t] = req]
  /\ UNCHANGED <<storeVars, overtaken, told, lost>>

Posts(t, i) == Send(t, Sent("post", i, NoReason))
Gets(t, i) == Send(t, Sent("get", i, NoReason))
Cancels(t, i) == \E r \in Reasons : Send(t, Sent("cancel", i, r))

\* The answer arrives.
Learns(t) ==
  LET req == request[t]
  IN  /\ req # NoRequest /\ req.step = "answered"
      /\ told' = [told EXCEPT ![t][req.inv] = @ \cup ({<<req.op, req.code>>} \cap Lasting)]
      /\ request' = [request EXCEPT ![t] = NoRequest]
      /\ UNCHANGED <<storeVars, overtaken, lost>>

-----------------------------------------------------------------------------
(* The handlers.                                                           *)

Answers(t, code) == request' = [request EXCEPT ![t] = Answered(t, code)]

\* A commit, by till t or a worker: every other open transaction that has read
\* now has an old snapshot.
Committed(others) ==
  overtaken' = {u \in others : IsAt(u, "cancel", "checked")}

\* Two slips: a second POST replaces the payload, and a duplicate is answered as
\* any other database error.
submit_invoice_Upserts(t) ==
  LET i == request[t].inv
  IN  /\ IsAt(t, "post", "sent")
      /\ IF status[i] = "Absent" THEN Lifecycle!Accept(i) ELSE UNCHANGED lifecycleVars
      /\ payload' = [payload EXCEPT ![i] = t]
      /\ Answers(t, 202)
      /\ Committed(Tills)
      /\ UNCHANGED <<past, author, told, lost>>

submit_invoice_Internal(t) ==
  LET i == request[t].inv
  IN  /\ IsAt(t, "post", "sent")
      /\ \/ /\ Lifecycle!Accept(i)
            /\ payload' = [payload EXCEPT ![i] = t]
            /\ Answers(t, 202)
            /\ Committed(Tills)
         \/ /\ status[i] # "Absent"
            /\ Answers(t, 500)
            /\ UNCHANGED <<lifecycleVars, payload, overtaken>>
      /\ UNCHANGED <<past, author, told, lost>>

\* create_pending: the reference is unique.
submit_invoice(t) ==
  LET i == request[t].inv
  IN  /\ IsAt(t, "post", "sent")
      /\ \/ /\ Lifecycle!Accept(i)
            /\ payload' = [payload EXCEPT ![i] = t]
            /\ Answers(t, 202)
            /\ Committed(Tills)
         \/ /\ status[i] # "Absent"
            /\ Answers(t, 409)
            /\ UNCHANGED <<lifecycleVars, payload, overtaken>>
      /\ UNCHANGED <<past, author, told, lost>>

Finds(i) == status[i] # "Absent"

get_invoice(t) ==
  /\ IsAt(t, "get", "sent")
  /\ Answers(t, IF Finds(request[t].inv) THEN 200 ELSE 404)
  /\ UNCHANGED <<storeVars, overtaken, told, lost>>

\* A slip: the pending cancellation is not looked for.
CancelChecks_Unaware(t) ==
  LET i == request[t].inv
  IN  /\ IsAt(t, "cancel", "sent")
      /\ CASE ~Finds(i)         -> Answers(t, 404)
           [] status[i] # "Valid"
              \/ i \in past        -> Answers(t, 422)
           [] OTHER -> request' = [request EXCEPT ![t].step = "checked"]
      /\ UNCHANGED <<storeVars, overtaken, told, lost>>

\* cancel_invoice: the SELECTs of request_cancellation, on one snapshot.
CancelChecks(t) ==
  LET i == request[t].inv
  IN  /\ IsAt(t, "cancel", "sent")
      /\ CASE ~Finds(i)         -> Answers(t, 404)
           [] status[i] # "Valid"
              \/ i \in past        -> Answers(t, 422)
           [] "cancel" \in work[i] -> Answers(t, 409)
           [] OTHER -> request' = [request EXCEPT ![t].step = "checked"]
      /\ UNCHANGED <<storeVars, overtaken, told, lost>>

\* A slip: the SELECTs run outside the transaction.
Current_Always(t) == TRUE

\* Its UPDATE, INSERT and COMMIT, if the snapshot is still current.
Current(t) == t \notin overtaken

CancelWrites(t) ==
  LET i == request[t].inv
      r == request[t].reason
  IN  /\ IsAt(t, "cancel", "checked")
      /\ \/ /\ Current(t)
            /\ reason' = [reason EXCEPT ![i] = r]
            /\ work' = [work EXCEPT ![i] = @ \cup {"cancel"}]
            /\ author' = [author EXCEPT ![i] = @ \cup {<<t, r>>}]
            /\ Answers(t, 202)
            /\ Committed(Tills \ {t})
         \/ /\ ~Current(t)
            /\ Answers(t, 500)
            /\ overtaken' = overtaken \ {t}
            /\ UNCHANGED <<reason, work, author>>
      /\ UNCHANGED <<status, past, payload, told, lost>>

-----------------------------------------------------------------------------
(* The rest of the bridge.                                                 *)

\* A worker's transaction that ends the event it handled, or moves it on.
WorkerCommits(i) ==
  /\ \/ Lifecycle!Deliver(i) \/ Lifecycle!Refuse(i)
     \/ Lifecycle!Judge(i) \/ Lifecycle!StopAsking(i)
     \/ Lifecycle!Cancel(i) \/ Lifecycle!KeepValid(i)
  /\ author' = [author EXCEPT ![i] = {}]
  /\ Committed(Tills)
  /\ UNCHANGED <<past, payload, request, told, lost>>

\* Any other commit on the database: a reschedule, a token.
OtherCommit ==
  /\ Committed(Tills) /\ overtaken' # overtaken
  /\ UNCHANGED <<storeVars, request, told, lost>>

WindowCloses(i) ==
  /\ status[i] = "Valid" /\ i \notin past
  /\ past' = past \cup {i}
  /\ UNCHANGED <<lifecycleVars, payload, author, request, overtaken, told, lost>>

-----------------------------------------------------------------------------
(* Faults, each of them counted.                                           *)

Fault == lost < MaxLost /\ lost' = lost + 1

\* A slip: the dropped request's transaction is left open.
Disconnects_LeavesOpen(t) ==
  /\ Fault /\ request[t] # NoRequest
  /\ request' = [request EXCEPT ![t] = NoRequest]
  /\ UNCHANGED <<storeVars, overtaken, told>>

\* The connection breaks: the handler's future is dropped, and its transaction
\* rolled back if it was open, or the answer goes nowhere.
Disconnects(t) ==
  /\ Fault /\ request[t] # NoRequest
  /\ request' = [request EXCEPT ![t] = NoRequest]
  /\ overtaken' = overtaken \ {t}
  /\ UNCHANGED <<storeVars, told>>

\* A statement fails: the transaction is rolled back and ApiError::Internal says
\* so.
Internal(t) ==
  /\ Fault /\ request[t] # NoRequest /\ request[t].step # "answered"
  /\ Answers(t, 500)
  /\ overtaken' = overtaken \ {t}
  /\ UNCHANGED <<storeVars, told>>

\* The process restarts: no request survives.
Restarts ==
  /\ Fault /\ \E t \in Tills : request[t] # NoRequest
  /\ request' = [t \in Tills |-> NoRequest]
  /\ overtaken' = {}
  /\ UNCHANGED <<storeVars, told>>

-----------------------------------------------------------------------------
Handles(t) == submit_invoice(t) \/ get_invoice(t) \/ CancelChecks(t) \/ CancelWrites(t)

Next ==
  \/ \E t \in Tills :
       \/ \E i \in Invoices : Posts(t, i) \/ Gets(t, i) \/ Cancels(t, i)
       \/ Handles(t) \/ Learns(t)
       \/ Disconnects(t) \/ Internal(t)
  \/ \E i \in Invoices : WorkerCommits(i) \/ WindowCloses(i)
  \/ OtherCommit \/ Restarts

Spec == Init /\ [][Next]_vars

\* A till that does not know whether its invoice was taken posts it again
\* (external); the server handles every request and sends its answer.
Knows(t, i) == told[t][i] # {}
PostsAgain(t, i) == ~Knows(t, i) /\ Posts(t, i)

Fairness ==
  \A t \in Tills :
    /\ WF_vars(Handles(t)) /\ WF_vars(Learns(t))
    /\ \A i \in Invoices : SF_vars(PostsAgain(t, i))

FairSpec == Spec /\ Fairness

-----------------------------------------------------------------------------
\* What till t has been answered for invoice i, or is about to be.
Hears(t, i) ==
  told[t][i] \cup
    IF request[t] # NoRequest /\ request[t].inv = i
      THEN {<<request[t].op, request[t].code>>}
      ELSE {}

\* What a till concludes from an answer stays true, whatever was lost before it
\* and whatever the other tills and the workers do: after a 202 the stored
\* payload is its own; after a 409 or a 200 the invoice is there.  So posting
\* again is safe, and a 409 after a lost 202 is no reason to post under
\* another reference.
AnswersHold ==
  \A t \in Tills, i \in Invoices :
    /\ <<"post", 202>> \in Hears(t, i) => payload[i] = t
    /\ <<"post", 409>> \in Hears(t, i) => status[i] # "Absent"
    /\ <<"get", 200>> \in Hears(t, i) => status[i] # "Absent"

\* Of all the requests to cancel an invoice that ran side by side one was
\* accepted, and the reason the canceller will give LHDN is that one's.
OneAuthor ==
  \A i \in Invoices :
    IF "cancel" \in work[i]
      THEN \E t \in Tills : author[i] = {<<t, reason[i]>>}
      ELSE author[i] = {}

\* With the API's transactions interleaved as SQLite allows, every commit is
\* still one move of the life cycle: no request is accepted for an invoice that
\* is no longer Valid, or has a cancellation pending.
KeepsLifecycle == Lifecycle!Spec

\* A till that posts, and posts again as long as it has no answer, learns in the
\* end that its invoice is there.
PostIsAnswered ==
  \A t \in Tills, i \in Invoices :
    (request[t] # NoRequest /\ request[t].op = "post" /\ request[t].inv = i)
      ~> Knows(t, i)
=============================================================================
