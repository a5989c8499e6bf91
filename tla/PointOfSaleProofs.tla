-------------------------- MODULE PointOfSaleProofs --------------------------
(***************************************************************************)
(* What a till may conclude from an answer, and that concurrent            *)
(* cancellation requests have one winner, for any tills, invoices and      *)
(* number of lost answers.  The argument is the snapshot: a request between*)
(* its SELECTs and its UPDATE that nobody has overtaken still finds the    *)
(* invoice as it read it.                                                  *)
(***************************************************************************)
EXTENDS PointOfSale, TLAPS

USE PointOfSaleAssumption

-----------------------------------------------------------------------------
(* Requests.                                                               *)

Requests == Request \cup {NoRequest}
RequestsTyped == request \in [Tills -> Requests]

\* A request with an operation is a request.
LEMMA RealRequest ==
  ASSUME RequestsTyped, NEW t \in Tills, request[t].op # "none"
  PROVE  request[t] \in Request /\ request[t] # NoRequest
  BY DEF RequestsTyped, Requests, NoRequest

\* Answering changes one till's request, which keeps what it asked.
LEMMA AnswerFacts ==
  ASSUME RequestsTyped, NEW t \in Tills, request[t] \in Request,
         NEW code \in Code, Answers(t, code)
  PROVE  /\ RequestsTyped'
         /\ \A u \in Tills \ {t} : request'[u] = request[u]
         /\ request'[t] \in Request
         /\ request'[t].op = request[t].op /\ request'[t].inv = request[t].inv
         /\ request'[t].reason = request[t].reason
         /\ request'[t].step = "answered" /\ request'[t].code = code
<1>1. request' = [request EXCEPT ![t] = [request[t] EXCEPT !.step = "answered", !.code = code]]
    BY DEF Answers, Answered
<1>2. [request[t] EXCEPT !.step = "answered", !.code = code] \in Request
    BY DEF Request
<1>3. request'[t] = [request[t] EXCEPT !.step = "answered", !.code = code]
    BY <1>1 DEF RequestsTyped
<1> QED
    BY <1>1, <1>2, <1>3 DEF RequestsTyped, Requests, Request

\* A worker's commit moves one invoice that was not Absent, and leaves it
\* without a cancellation.
LEMMA WorkerMoves ==
  ASSUME PosTypeOK, NEW i \in Invoices, WorkerCommits(i)
  PROVE  /\ UNCHANGED <<reason, past, payload, request, told, lost>>
         /\ status[i] # "Absent"
         /\ \E s \in {"Submitted", "Failed", "Valid", "Invalid", "Cancelled"} :
              status' = [status EXCEPT ![i] = s]
         /\ \E v \in {{}, {"poll"}} :
              /\ work' = [work EXCEPT ![i] = v]
              /\ status'[i] = "Valid" => v = {}
         /\ author' = [author EXCEPT ![i] = {}]
         /\ Committed(Tills)
<1>1. UNCHANGED <<reason, past, payload, request, told, lost>>
    BY DEF WorkerCommits, Lifecycle!Deliver, Lifecycle!Refuse, Lifecycle!Judge,
           Lifecycle!StopAsking, Lifecycle!Cancel, Lifecycle!KeepValid, Lifecycle!Moves
<1>2. status \in [Invoices -> {"Absent", "Pending", "Submitted", "Valid", "Invalid",
                              "Cancelled", "Failed"}]
    BY DEF PosTypeOK
<1>3. CASE Lifecycle!Deliver(i)
    BY <1>1, <1>2, <1>3 DEF WorkerCommits, Lifecycle!Deliver, Lifecycle!Moves
<1>4. CASE Lifecycle!Refuse(i)
    BY <1>1, <1>2, <1>4 DEF WorkerCommits, Lifecycle!Refuse, Lifecycle!Moves
<1>5. CASE Lifecycle!Judge(i)
    BY <1>1, <1>2, <1>5 DEF WorkerCommits, Lifecycle!Judge, Lifecycle!Moves
<1>6. CASE Lifecycle!StopAsking(i)
    BY <1>1, <1>2, <1>6 DEF WorkerCommits, Lifecycle!StopAsking, Lifecycle!Moves
<1>7. CASE Lifecycle!Cancel(i)
    BY <1>1, <1>2, <1>7 DEF WorkerCommits, Lifecycle!Cancel, Lifecycle!Moves
<1>8. CASE Lifecycle!KeepValid(i)
    BY <1>1, <1>2, <1>8 DEF WorkerCommits, Lifecycle!KeepValid, Lifecycle!Moves
<1> QED
    BY <1>3, <1>4, <1>5, <1>6, <1>7, <1>8 DEF WorkerCommits

\* An accepted POST moves one Absent invoice to Pending.
LEMMA AcceptMoves ==
  ASSUME NEW i, Lifecycle!Accept(i)
  PROVE  /\ status[i] = "Absent" /\ status' = [status EXCEPT ![i] = "Pending"]
         /\ work[i] = {} /\ work' = [work EXCEPT ![i] = {"submit"}]
         /\ UNCHANGED reason
  BY DEF Lifecycle!Accept, Lifecycle!Moves

-----------------------------------------------------------------------------
(* Types.                                                                  *)

TypeInv ==
  /\ PosTypeOK
  /\ \A t \in Tills : request[t].op = "cancel" => request[t].reason \in Reasons

StoreTyped ==
  /\ status \in [Invoices -> {"Absent", "Pending", "Submitted", "Valid", "Invalid",
                             "Cancelled", "Failed"}]
  /\ work \in [Invoices -> SUBSET {"submit", "poll", "cancel"}]
  /\ reason \in [Invoices -> Reasons \cup {NoReason}]
  /\ payload \in [Invoices -> Tills \cup {NoTill}]
  /\ author \in [Invoices -> SUBSET (Tills \X Reasons)]
  /\ past \subseteq Invoices

\* The requests are typed and the snapshots out of date are those of requests
\* between check and write.
CallsTyped ==
  /\ RequestsTyped
  /\ \A t \in Tills : request[t].op = "cancel" => request[t].reason \in Reasons
  /\ overtaken \subseteq {t \in Tills : IsAt(t, "cancel", "checked")}

MemoryTyped == told \in [Tills -> [Invoices -> SUBSET Lasting]] /\ lost \in 0..MaxLost

LEMMA TypeParts == TypeInv <=> StoreTyped /\ CallsTyped /\ MemoryTyped
  BY DEF TypeInv, PosTypeOK, StoreTyped, CallsTyped, MemoryTyped, RequestsTyped, Requests

\* Init and every action keep the types.
LEMMA TypeStart == Init => TypeInv
  BY DEF Init, Lifecycle!Init, TypeInv, PosTypeOK, NoRequest

\* A step that changes one till's request to a typed one, or leaves it, and adds
\* nothing to overtaken but transactions under way.
LEMMA CallsKept ==
  ASSUME CallsTyped, NEW t \in Tills, RequestsTyped',
         \A u \in Tills \ {t} : request'[u] = request[u],
         request'[t].op = "cancel" => request'[t].reason \in Reasons,
         overtaken' \subseteq
           {u \in Tills : request'[u].op = "cancel" /\ request'[u].step = "checked"}
  PROVE  CallsTyped'
  BY DEF CallsTyped, IsAt

LEMMA TypeStep == TypeInv /\ [Next]_vars => TypeInv'
<1> SUFFICES ASSUME StoreTyped, CallsTyped, MemoryTyped, [Next]_vars
             PROVE  StoreTyped' /\ CallsTyped' /\ MemoryTyped'
    BY TypeParts, PTL
<1>0. RequestsTyped
    BY DEF CallsTyped
<1>t. PosTypeOK
    BY TypeParts DEF TypeInv
<1>1. ASSUME NEW t \in Tills, NEW i \in Invoices, Posts(t, i) \/ Gets(t, i) \/ Cancels(t, i)
      PROVE  StoreTyped' /\ CallsTyped' /\ MemoryTyped'
  <2>1. PICK req \in Request :
          /\ Send(t, req)
          /\ req.op = "cancel" => req.reason \in Reasons
          /\ req.step = "sent"
    <3>1. CASE Posts(t, i)
        BY <3>1 DEF Posts, Sent, Request, Op
    <3>2. CASE Gets(t, i)
        BY <3>2 DEF Gets, Sent, Request, Op
    <3>3. CASE Cancels(t, i)
        BY <3>3 DEF Cancels, Sent, Request, Op
    <3> QED
        BY <1>1, <3>1, <3>2, <3>3
  <2>2. StoreTyped' /\ MemoryTyped'
      BY <2>1 DEF Send, storeVars, StoreTyped, MemoryTyped
  <2>3. request' = [request EXCEPT ![t] = req] /\ overtaken' = overtaken /\ request[t] = NoRequest
      BY <2>1 DEF Send
  <2>4. RequestsTyped' /\ request'[t] = req
      BY <1>0, <2>3 DEF RequestsTyped, Requests
  <2>5. t \notin overtaken
      BY <2>3 DEF CallsTyped, IsAt, NoRequest
  <2>6. overtaken' \subseteq
           {u \in Tills : request'[u].op = "cancel" /\ request'[u].step = "checked"}
      BY <1>0, <2>3, <2>5 DEF CallsTyped, IsAt, RequestsTyped
  <2>7. \A u \in Tills \ {t} : request'[u] = request[u]
      BY <1>0, <2>3 DEF RequestsTyped
  <2>8. CallsTyped'
      BY <2>1, <2>4, <2>6, <2>7, CallsKept
  <2> QED
      BY <2>2, <2>8
<1>2. ASSUME NEW t \in Tills, submit_invoice(t)
      PROVE  StoreTyped' /\ CallsTyped' /\ MemoryTyped'
  <2> DEFINE i == request[t].inv
  <2>1. request[t] \in Request /\ i \in Invoices /\ request[t].op = "post"
      BY <1>0, <1>2, RealRequest DEF submit_invoice, IsAt, Request
  <2>2. PICK code \in Code : Answers(t, code)
      BY <1>2 DEF submit_invoice, Code
  <2>3. StoreTyped' /\ MemoryTyped'
    <3>1. CASE Lifecycle!Accept(i) /\ payload' = [payload EXCEPT ![i] = t]
        BY <1>2, <2>1, <3>1, AcceptMoves DEF submit_invoice, StoreTyped, MemoryTyped
    <3>2. CASE UNCHANGED <<lifecycleVars, payload, overtaken>>
        BY <1>2, <3>2 DEF submit_invoice, StoreTyped, MemoryTyped, lifecycleVars
    <3> QED
        BY <1>2, <3>1, <3>2 DEF submit_invoice
  <2>4. overtaken' \subseteq {u \in Tills : IsAt(u, "cancel", "checked")}
      BY <1>2 DEF submit_invoice, Committed, CallsTyped
  <2>5. overtaken' \subseteq
           {u \in Tills : request'[u].op = "cancel" /\ request'[u].step = "checked"}
      BY <1>0, <2>1, <2>2, <2>4, AnswerFacts DEF IsAt
  <2>6. CallsTyped'
      BY <1>0, <2>1, <2>2, <2>5, CallsKept, AnswerFacts DEF CallsTyped
  <2> QED
      BY <2>3, <2>6
<1>3. ASSUME NEW t \in Tills, get_invoice(t)
      PROVE  StoreTyped' /\ CallsTyped' /\ MemoryTyped'
  <2>1. request[t] \in Request /\ request[t].op = "get"
      BY <1>0, <1>3, RealRequest DEF get_invoice, IsAt
  <2>2. PICK code \in Code : Answers(t, code)
      BY <1>3 DEF get_invoice, Code
  <2>3. StoreTyped' /\ MemoryTyped'
      BY <1>3 DEF get_invoice, StoreTyped, MemoryTyped, storeVars
  <2>4. overtaken' \subseteq {u \in Tills : IsAt(u, "cancel", "checked")}
      BY <1>3 DEF get_invoice, CallsTyped
  <2>5. overtaken' \subseteq
           {u \in Tills : request'[u].op = "cancel" /\ request'[u].step = "checked"}
      BY <1>0, <2>1, <2>2, <2>4, AnswerFacts DEF IsAt
  <2>6. CallsTyped'
      BY <1>0, <2>1, <2>2, <2>5, CallsKept, AnswerFacts DEF CallsTyped
  <2> QED
      BY <2>3, <2>6
<1>4. ASSUME NEW t \in Tills, CancelChecks(t)
      PROVE  StoreTyped' /\ CallsTyped' /\ MemoryTyped'
  <2>1. request[t] \in Request /\ IsAt(t, "cancel", "sent")
      BY <1>0, <1>4, RealRequest DEF CancelChecks, IsAt
  <2>2. StoreTyped' /\ MemoryTyped' /\ overtaken' = overtaken
      BY <1>4 DEF CancelChecks, StoreTyped, MemoryTyped, storeVars
  <2>3. t \notin overtaken
      BY <2>1 DEF CallsTyped, IsAt
  <2>4. CASE \E code \in Code : Answers(t, code)
    <3>1. PICK code \in Code : Answers(t, code)
        BY <2>4
    <3>2. overtaken' \subseteq
           {u \in Tills : request'[u].op = "cancel" /\ request'[u].step = "checked"}
        BY <1>0, <2>1, <2>2, <2>3, <3>1, AnswerFacts DEF CallsTyped, IsAt
    <3>3. CallsTyped'
        BY <1>0, <2>1, <3>1, <3>2, CallsKept, AnswerFacts DEF CallsTyped
    <3> QED
        BY <2>2, <3>3
  <2>5. CASE request' = [request EXCEPT ![t].step = "checked"]
    <3>1. /\ \A u \in Tills \ {t} : request'[u] = request[u]
          /\ request'[t] = [request[t] EXCEPT !.step = "checked"]
        BY <1>0, <2>5 DEF RequestsTyped
    <3>2. request'[t] \in Request /\ request'[t].reason = request[t].reason
        BY <2>1, <3>1 DEF Request
    <3>3. RequestsTyped'
        BY <1>0, <2>5, <3>1, <3>2 DEF RequestsTyped, Requests
    <3>4. overtaken' \subseteq
           {u \in Tills : request'[u].op = "cancel" /\ request'[u].step = "checked"}
        BY <2>2, <2>3, <3>1 DEF CallsTyped, IsAt
    <3>5. request'[t].reason \in Reasons
        BY <2>1, <3>2 DEF CallsTyped, IsAt
    <3>6. CallsTyped'
        BY <3>1, <3>3, <3>4, <3>5, CallsKept
    <3> QED
        BY <2>2, <3>6
  <2> QED
      BY <1>4, <2>4, <2>5 DEF CancelChecks, Code
<1>5. ASSUME NEW t \in Tills, CancelWrites(t)
      PROVE  StoreTyped' /\ CallsTyped' /\ MemoryTyped'
  <2> DEFINE i == request[t].inv
  <2>1. /\ request[t] \in Request /\ i \in Invoices
        /\ request[t].reason \in Reasons
      BY <1>0, <1>5, RealRequest DEF CancelWrites, IsAt, CallsTyped, Request
  <2>2. PICK code \in Code : Answers(t, code)
      BY <1>5 DEF CancelWrites, Code
  <2>3. StoreTyped' /\ MemoryTyped'
      BY <1>5, <2>1 DEF CancelWrites, StoreTyped, MemoryTyped
  <2>4. overtaken' \subseteq {u \in Tills \ {t} : IsAt(u, "cancel", "checked")}
      BY <1>5 DEF CancelWrites, Committed, CallsTyped
  <2>5. overtaken' \subseteq
           {u \in Tills : request'[u].op = "cancel" /\ request'[u].step = "checked"}
      BY <1>0, <2>1, <2>2, <2>4, AnswerFacts DEF IsAt
  <2>6. CallsTyped'
      BY <1>0, <2>1, <2>2, <2>5, CallsKept, AnswerFacts DEF CallsTyped
  <2> QED
      BY <2>3, <2>6
<1>6. ASSUME NEW t \in Tills, Learns(t) \/ Disconnects(t)
      PROVE  StoreTyped' /\ CallsTyped' /\ MemoryTyped'
  <2>1. /\ UNCHANGED storeVars /\ request[t] # NoRequest
        /\ request' = [request EXCEPT ![t] = NoRequest]
        /\ overtaken' \subseteq overtaken
      BY <1>6 DEF Learns, Disconnects
  <2>2. StoreTyped'
      BY <2>1 DEF StoreTyped, storeVars
  <2>3. MemoryTyped'
    <3>1. CASE Disconnects(t)
        BY <3>1 DEF Disconnects, Fault, MemoryTyped
    <3>2. CASE Learns(t)
      <4>1. request[t] \in Request
          BY <1>0, <2>1 DEF RequestsTyped, Requests
      <4>2. request[t].inv \in Invoices
          BY <4>1 DEF Request
      <4> QED
          BY <3>2, <4>2 DEF Learns, MemoryTyped
    <3> QED
        BY <1>6, <3>1, <3>2
  <2>4. /\ RequestsTyped' /\ request'[t] = NoRequest
        /\ \A u \in Tills \ {t} : request'[u] = request[u]
      BY <1>0, <2>1 DEF RequestsTyped, Requests
  <2>5. t \notin overtaken'
    <3>1. CASE Disconnects(t)
        BY <3>1 DEF Disconnects
    <3>2. CASE Learns(t)
        BY <2>1, <3>2 DEF Learns, CallsTyped, IsAt
    <3> QED
        BY <1>6, <3>1, <3>2
  <2>6. overtaken' \subseteq
           {u \in Tills : request'[u].op = "cancel" /\ request'[u].step = "checked"}
      BY <2>1, <2>4, <2>5 DEF CallsTyped, IsAt
  <2>7. CallsTyped'
      BY <2>4, <2>6, CallsKept DEF NoRequest
  <2> QED
      BY <2>2, <2>3, <2>7
<1>7. ASSUME NEW t \in Tills, Internal(t)
      PROVE  StoreTyped' /\ CallsTyped' /\ MemoryTyped'
  <2>1. request[t] \in Request /\ 500 \in Code
      BY <1>0, <1>7 DEF Internal, RequestsTyped, Requests, Code
  <2>2. Answers(t, 500) /\ overtaken' = overtaken \ {t}
      BY <1>7 DEF Internal
  <2>3. StoreTyped' /\ MemoryTyped'
      BY <1>7 DEF Internal, Fault, StoreTyped, MemoryTyped, storeVars
  <2>4. overtaken' \subseteq
           {u \in Tills : request'[u].op = "cancel" /\ request'[u].step = "checked"}
      BY <1>0, <2>1, <2>2, AnswerFacts DEF CallsTyped, IsAt
  <2>5. CallsTyped'
      BY <1>0, <2>1, <2>2, <2>4, CallsKept, AnswerFacts DEF CallsTyped
  <2> QED
      BY <2>3, <2>5
<1>8. ASSUME NEW i \in Invoices, WorkerCommits(i)
      PROVE  StoreTyped' /\ CallsTyped' /\ MemoryTyped'
  <2>a. PICK s \in {"Submitted", "Failed", "Valid", "Invalid", "Cancelled"} :
          status' = [status EXCEPT ![i] = s]
      BY <1>t, <1>8, WorkerMoves
  <2>b. PICK v \in {{}, {"poll"}} : work' = [work EXCEPT ![i] = v]
      BY <1>t, <1>8, WorkerMoves
  <2>c. /\ UNCHANGED <<reason, past, payload, request, told, lost>>
        /\ author' = [author EXCEPT ![i] = {}]
      BY <1>t, <1>8, WorkerMoves
  <2>1. StoreTyped' /\ MemoryTyped' /\ UNCHANGED request
    <3>1. status' \in [Invoices -> {"Absent", "Pending", "Submitted", "Valid", "Invalid",
                                    "Cancelled", "Failed"}]
        BY <2>a DEF StoreTyped
    <3>2. work' \in [Invoices -> SUBSET {"submit", "poll", "cancel"}]
        BY <2>b DEF StoreTyped
    <3>3. author' \in [Invoices -> SUBSET (Tills \X Reasons)]
        BY <2>c DEF StoreTyped
    <3> QED
        BY <2>c, <3>1, <3>2, <3>3 DEF StoreTyped, MemoryTyped
  <2>2. CallsTyped'
      BY <1>8, <2>1 DEF WorkerCommits, Committed, CallsTyped, RequestsTyped, IsAt
  <2> QED
      BY <2>1, <2>2
<1>9. CASE OtherCommit
  <2>1. /\ UNCHANGED <<storeVars, request, told, lost>>
        /\ overtaken' = {u \in Tills : IsAt(u, "cancel", "checked")}
      BY <1>9 DEF OtherCommit, Committed
  <2>2. StoreTyped' /\ MemoryTyped'
      BY <2>1 DEF storeVars, StoreTyped, MemoryTyped
  <2>3. CallsTyped'
      BY <2>1 DEF CallsTyped, RequestsTyped, IsAt
  <2> QED
      BY <2>2, <2>3
<1>10. ASSUME NEW i \in Invoices, WindowCloses(i)
       PROVE  StoreTyped' /\ CallsTyped' /\ MemoryTyped'
    BY <1>10 DEF WindowCloses, lifecycleVars, StoreTyped, CallsTyped, MemoryTyped,
                 RequestsTyped, IsAt
<1>11. CASE Restarts
  <2>1. StoreTyped' /\ MemoryTyped'
      BY <1>11 DEF Restarts, Fault, storeVars, StoreTyped, MemoryTyped
  <2>2. CallsTyped'
      BY <1>11 DEF Restarts, CallsTyped, RequestsTyped, Requests, NoRequest
  <2> QED
      BY <2>1, <2>2
<1>12. CASE UNCHANGED vars
    BY <1>12 DEF vars, StoreTyped, CallsTyped, MemoryTyped, RequestsTyped, IsAt
<1> QED
    BY <1>1, <1>2, <1>3, <1>4, <1>5, <1>6, <1>7, <1>8, <1>9, <1>10, <1>11, <1>12
    DEF Next, Handles

LEMMA TypeInvariance == Spec => []TypeInv
  BY TypeStart, TypeStep, PTL DEF Spec

\* Rows, requests and what the tills remember are well typed, and no
\* transaction outlives its request.
THEOREM PosTypeCorrect == Spec => []PosTypeOK
<1>1. TypeInv => PosTypeOK
    BY DEF TypeInv
<1> QED
    BY <1>1, TypeInvariance, PTL

-----------------------------------------------------------------------------
(* Cancellation requests side by side.                                     *)

\* The store on its own: a cancellation is pending only for a Valid invoice.
Discipline ==
  \A i \in Invoices :
    /\ "cancel" \in work[i] => status[i] = "Valid" /\ work[i] = {"cancel"}
    /\ status[i] = "Valid" => work[i] \subseteq {"cancel"}

\* A request between check and write that nobody overtook would pass its checks
\* again.
Snapshot ==
  \A t \in Tills \ overtaken :
    IsAt(t, "cancel", "checked") =>
      /\ request[t].inv \in Invoices
      /\ status[request[t].inv] = "Valid" /\ work[request[t].inv] = {}

CancelInv == Discipline /\ Snapshot /\ OneAuthor

LEMMA CancelStart == Init => CancelInv
  BY DEF Init, Lifecycle!Init, CancelInv, Discipline, Snapshot, OneAuthor, IsAt, NoRequest

\* A step that leaves the store alone and brings no request to its write.
LEMMA QuietStep ==
  ASSUME CancelInv, UNCHANGED <<status, work, reason, author>>,
         \A t \in Tills \ overtaken' :
           request'[t].op = "cancel" /\ request'[t].step = "checked" =>
             request'[t] = request[t] /\ t \notin overtaken
  PROVE  CancelInv'
<1>1. Discipline' /\ OneAuthor'
    BY DEF CancelInv, Discipline, OneAuthor
<1>2. Snapshot'
    BY DEF CancelInv, Snapshot, IsAt
<1> QED
    BY <1>1, <1>2 DEF CancelInv

\* A commit leaves no request with a current snapshot but the committer's.
LEMMA CommitOvertakes ==
  ASSUME NEW others \in SUBSET Tills, Committed(others), UNCHANGED request \/
         \E t \in Tills :
           /\ others \in {Tills, Tills \ {t}}
           /\ \A u \in Tills \ {t} : request'[u] = request[u]
           /\ request'[t].step = "answered",
         UNCHANGED request => others = Tills
  PROVE  Snapshot'
  BY DEF Committed, Snapshot, IsAt

LEMMA CancelStep == TypeInv /\ CancelInv /\ [Next]_vars => CancelInv'
<1> SUFFICES ASSUME TypeInv, CancelInv, [Next]_vars
             PROVE  CancelInv'
    OBVIOUS
<1>0. PosTypeOK /\ StoreTyped /\ CallsTyped /\ RequestsTyped
    BY TypeParts DEF TypeInv, CallsTyped
<1>1. ASSUME NEW t \in Tills, NEW i \in Invoices, Posts(t, i) \/ Gets(t, i) \/ Cancels(t, i)
      PROVE  CancelInv'
  <2>1. PICK req : Send(t, req) /\ req.step = "sent"
    <3>1. CASE Posts(t, i)
        BY <3>1 DEF Posts, Sent
    <3>2. CASE Gets(t, i)
        BY <3>2 DEF Gets, Sent
    <3>3. CASE Cancels(t, i)
        BY <3>3 DEF Cancels, Sent
    <3> QED
        BY <1>1, <3>1, <3>2, <3>3
  <2>2. /\ UNCHANGED <<status, work, reason, author, overtaken>>
        /\ request' = [request EXCEPT ![t] = req]
      BY <2>1 DEF Send, storeVars
  <2>3. request'[t].step = "sent" /\ \A u \in Tills \ {t} : request'[u] = request[u]
      BY <1>0, <2>1, <2>2 DEF RequestsTyped
  <2> QED
      BY <2>2, <2>3, QuietStep
<1>2. ASSUME NEW t \in Tills, submit_invoice(t)
      PROVE  CancelInv'
  <2> DEFINE i == request[t].inv
  <2>1. request[t] \in Request /\ i \in Invoices
      BY <1>0, <1>2, RealRequest DEF submit_invoice, IsAt, Request
  <2>2. PICK code \in Code : Answers(t, code)
      BY <1>2 DEF submit_invoice, Code
  <2>3. /\ \A u \in Tills \ {t} : request'[u] = request[u]
        /\ request'[t].step = "answered"
      BY <1>0, <2>1, <2>2, AnswerFacts
  <2>4. CASE Lifecycle!Accept(i) /\ Committed(Tills)
    <3>1. /\ status[i] = "Absent" /\ status' = [status EXCEPT ![i] = "Pending"]
          /\ work[i] = {} /\ work' = [work EXCEPT ![i] = {"submit"}]
          /\ UNCHANGED <<reason, author>>
        BY <1>2, <2>4, AcceptMoves DEF submit_invoice
    <3>2. Discipline' /\ OneAuthor'
        BY <1>0, <2>1, <3>1 DEF CancelInv, Discipline, OneAuthor, StoreTyped
    <3>3. Snapshot'
        BY <2>3, <2>4, CommitOvertakes
    <3> QED
        BY <3>2, <3>3 DEF CancelInv
  <2>5. CASE UNCHANGED <<lifecycleVars, payload, overtaken>>
      BY <1>2, <2>3, <2>5, QuietStep DEF submit_invoice, lifecycleVars
  <2> QED
      BY <1>2, <2>4, <2>5 DEF submit_invoice
<1>3. ASSUME NEW t \in Tills, get_invoice(t)
      PROVE  CancelInv'
  <2>1. request[t] \in Request
      BY <1>0, <1>3, RealRequest DEF get_invoice, IsAt
  <2>2. PICK code \in Code : Answers(t, code)
      BY <1>3 DEF get_invoice, Code
  <2>3. /\ \A u \in Tills \ {t} : request'[u] = request[u]
        /\ request'[t].step = "answered"
      BY <1>0, <2>1, <2>2, AnswerFacts
  <2> QED
      BY <1>3, <2>3, QuietStep DEF get_invoice, storeVars
<1>4. ASSUME NEW t \in Tills, CancelChecks(t)
      PROVE  CancelInv'
  <2> DEFINE i == request[t].inv
  <2>1. request[t] \in Request /\ i \in Invoices
      BY <1>0, <1>4, RealRequest DEF CancelChecks, IsAt, Request
  <2>2. UNCHANGED <<status, work, reason, author, overtaken>>
      BY <1>4 DEF CancelChecks, storeVars
  <2>3. CASE \E code \in Code : Answers(t, code)
    <3>1. PICK code \in Code : Answers(t, code)
        BY <2>3
    <3>2. /\ \A u \in Tills \ {t} : request'[u] = request[u]
          /\ request'[t].step = "answered"
        BY <1>0, <2>1, <3>1, AnswerFacts
    <3> QED
        BY <2>2, <3>2, QuietStep
  <2>4. CASE /\ request' = [request EXCEPT ![t].step = "checked"]
             /\ status[i] = "Valid" /\ "cancel" \notin work[i]
    <3>1. /\ \A u \in Tills \ {t} : request'[u] = request[u]
          /\ request'[t].inv = i
        BY <1>0, <2>1, <2>4 DEF RequestsTyped, Request
    <3>2. work[i] = {}
        BY <1>0, <2>1, <2>4 DEF CancelInv, Discipline, StoreTyped
    <3>3. Discipline' /\ OneAuthor'
        BY <2>2 DEF CancelInv, Discipline, OneAuthor
    <3>4. Snapshot'
        BY <2>1, <2>2, <2>4, <3>1, <3>2 DEF CancelInv, Snapshot, IsAt
    <3> QED
        BY <3>3, <3>4 DEF CancelInv
  <2> QED
      BY <1>4, <2>3, <2>4 DEF CancelChecks, Code
<1>5. ASSUME NEW t \in Tills, CancelWrites(t)
      PROVE  CancelInv'
  <2> DEFINE i == request[t].inv
             r == request[t].reason
  <2>1. request[t] \in Request /\ i \in Invoices /\ IsAt(t, "cancel", "checked")
      BY <1>0, <1>5, RealRequest DEF CancelWrites, IsAt, Request
  <2>2. PICK code \in Code : Answers(t, code)
      BY <1>5 DEF CancelWrites, Code
  <2>3. /\ \A u \in Tills \ {t} : request'[u] = request[u]
        /\ request'[t].step = "answered"
      BY <1>0, <2>1, <2>2, AnswerFacts
  <2>4. CASE Current(t)
    <3>1. /\ reason' = [reason EXCEPT ![i] = r]
          /\ work' = [work EXCEPT ![i] = work[i] \cup {"cancel"}]
          /\ author' = [author EXCEPT ![i] = author[i] \cup {<<t, r>>}]
          /\ Committed(Tills \ {t}) /\ UNCHANGED status
        BY <1>5, <2>4 DEF CancelWrites
    <3>2. status[i] = "Valid" /\ work[i] = {}
        BY <2>1, <2>4 DEF CancelInv, Snapshot, Current
    <3>3. author[i] = {}
        BY <2>1, <3>2 DEF CancelInv, OneAuthor
    <3>4. /\ work' = [work EXCEPT ![i] = {"cancel"}]
          /\ author' = [author EXCEPT ![i] = {<<t, r>>}]
        BY <3>1, <3>2, <3>3
    <3>5. Discipline'
        BY <1>0, <2>1, <3>1, <3>2, <3>4 DEF CancelInv, Discipline, StoreTyped
    <3>6. OneAuthor'
      <4> SUFFICES ASSUME NEW j \in Invoices
                   PROVE  IF "cancel" \in work'[j]
                            THEN \E u \in Tills : author'[j] = {<<u, reason'[j]>>}
                            ELSE author'[j] = {}
          BY DEF OneAuthor
      <4>1. CASE j = i
        <5>1. work'[j] = {"cancel"} /\ author'[j] = {<<t, r>>} /\ reason'[j] = r
            BY <1>0, <2>1, <3>1, <3>4, <4>1 DEF StoreTyped
        <5> QED
            BY <5>1
      <4>2. CASE j # i
        <5>1. work'[j] = work[j] /\ author'[j] = author[j] /\ reason'[j] = reason[j]
            BY <1>0, <3>1, <3>4, <4>2 DEF StoreTyped
        <5>2. IF "cancel" \in work[j]
                THEN \E u \in Tills : author[j] = {<<u, reason[j]>>}
                ELSE author[j] = {}
            BY DEF CancelInv, OneAuthor
        <5> QED
            BY <5>1, <5>2
      <4> QED
          BY <4>1, <4>2
    <3>7. Snapshot'
      <4>1. ~UNCHANGED request
          BY <2>1, <2>3 DEF IsAt
      <4> QED
          BY <2>3, <3>1, <4>1, CommitOvertakes
    <3> QED
        BY <3>5, <3>6, <3>7 DEF CancelInv
  <2>5. CASE ~Current(t)
    <3>1. /\ UNCHANGED <<status, work, reason, author>>
          /\ overtaken' = overtaken \ {t}
        BY <1>5, <2>5 DEF CancelWrites
    <3> QED
        BY <2>3, <3>1, QuietStep
  <2> QED
      BY <2>4, <2>5
<1>6. ASSUME NEW t \in Tills, Learns(t) \/ Disconnects(t)
      PROVE  CancelInv'
  <2>1. /\ UNCHANGED <<status, work, reason, author>>
        /\ request' = [request EXCEPT ![t] = NoRequest]
        /\ \A u \in Tills \ {t} : u \in overtaken => u \in overtaken'
      BY <1>6 DEF Learns, Disconnects, storeVars
  <2>2. request'[t] = NoRequest /\ \A u \in Tills \ {t} : request'[u] = request[u]
      BY <1>0, <2>1 DEF RequestsTyped
  <2> QED
      BY <2>1, <2>2, QuietStep DEF NoRequest
<1>7. ASSUME NEW t \in Tills, Internal(t)
      PROVE  CancelInv'
  <2>1. request[t] \in Request /\ 500 \in Code
      BY <1>0, <1>7 DEF Internal, RequestsTyped, Requests, Code
  <2>2. /\ \A u \in Tills \ {t} : request'[u] = request[u]
        /\ request'[t].step = "answered"
      BY <1>0, <1>7, <2>1, AnswerFacts DEF Internal
  <2> QED
      BY <1>7, <2>2, QuietStep DEF Internal, storeVars
<1>8. ASSUME NEW i \in Invoices, WorkerCommits(i)
      PROVE  CancelInv'
  <2>1. PICK s \in {"Submitted", "Failed", "Valid", "Invalid", "Cancelled"} :
          status' = [status EXCEPT ![i] = s]
      BY <1>0, <1>8, WorkerMoves
  <2>2. PICK v \in {{}, {"poll"}} :
          work' = [work EXCEPT ![i] = v] /\ (status'[i] = "Valid" => v = {})
      BY <1>0, <1>8, WorkerMoves
  <2>3. /\ UNCHANGED <<reason, request>>
        /\ author' = [author EXCEPT ![i] = {}]
        /\ Committed(Tills)
      BY <1>0, <1>8, WorkerMoves
  <2>4. Discipline'
      BY <1>0, <2>1, <2>2 DEF CancelInv, Discipline, StoreTyped
  <2>5. OneAuthor'
      BY <1>0, <2>2, <2>3 DEF CancelInv, OneAuthor, StoreTyped
  <2>6. Snapshot'
      BY <2>3, CommitOvertakes
  <2> QED
      BY <2>4, <2>5, <2>6 DEF CancelInv
<1>9. CASE OtherCommit
  <2>1. /\ UNCHANGED <<status, work, reason, author, request>>
        /\ overtaken' = {u \in Tills : IsAt(u, "cancel", "checked")}
      BY <1>9 DEF OtherCommit, Committed, storeVars
  <2> QED
      BY <2>1, QuietStep DEF IsAt
<1>10. ASSUME NEW i \in Invoices, WindowCloses(i)
       PROVE  CancelInv'
    BY <1>10, QuietStep DEF WindowCloses, lifecycleVars
<1>11. CASE Restarts
  <2>1. /\ UNCHANGED <<status, work, reason, author>>
        /\ \A t \in Tills : request'[t] = NoRequest
      BY <1>11 DEF Restarts, storeVars
  <2> QED
      BY <2>1, QuietStep DEF NoRequest
<1>12. CASE UNCHANGED vars
    BY <1>12, QuietStep DEF vars
<1> QED
    BY <1>1, <1>2, <1>3, <1>4, <1>5, <1>6, <1>7, <1>8, <1>9, <1>10, <1>11, <1>12
    DEF Next, Handles

LEMMA CancelInvariance == Spec => []CancelInv
  BY CancelStart, CancelStep, TypeInvariance, PTL DEF Spec

\* Whatever requests run side by side, at most one cancellation of an invoice is
\* pending, and its reason is that of the one request that was answered 202.
THEOREM CancelHasOneAuthor == Spec => []OneAuthor
<1>1. CancelInv => OneAuthor
    BY DEF CancelInv
<1> QED
    BY <1>1, CancelInvariance, PTL

-----------------------------------------------------------------------------
(* The API's transactions are moves of the life cycle.                     *)

LEMMA LifecycleStep ==
  TypeInv /\ CancelInv /\ [Next]_vars => [Lifecycle!Next]_(Lifecycle!vars)
<1> SUFFICES ASSUME TypeInv, CancelInv, [Next]_vars
             PROVE  Lifecycle!Next \/ UNCHANGED <<status, work, reason>>
    BY DEF Lifecycle!vars
<1>0. PosTypeOK /\ StoreTyped /\ CallsTyped /\ RequestsTyped
    BY TypeParts DEF TypeInv, CallsTyped
<1>1. ASSUME NEW t \in Tills, submit_invoice(t)
      PROVE  Lifecycle!Next \/ UNCHANGED <<status, work, reason>>
  <2>1. request[t] \in Request /\ request[t].inv \in Invoices
      BY <1>0, <1>1, RealRequest DEF submit_invoice, IsAt, Request
  <2> QED
      BY <1>1, <2>1 DEF submit_invoice, lifecycleVars, Lifecycle!Next
<1>2. ASSUME NEW t \in Tills, CancelWrites(t)
      PROVE  Lifecycle!Next \/ UNCHANGED <<status, work, reason>>
  <2> DEFINE i == request[t].inv
             r == request[t].reason
  <2>1. /\ request[t] \in Request /\ i \in Invoices /\ r \in Reasons
        /\ IsAt(t, "cancel", "checked")
      BY <1>0, <1>2, RealRequest DEF CancelWrites, IsAt, Request, CallsTyped
  <2>2. CASE Current(t)
    <3>1. status[i] = "Valid" /\ work[i] = {}
        BY <2>1, <2>2 DEF CancelInv, Snapshot, Current
    <3>2. work' = [work EXCEPT ![i] = work[i] \cup {"cancel"}]
        BY <1>2, <2>2 DEF CancelWrites
    <3>3. work' = [work EXCEPT ![i] = {"cancel"}]
        BY <3>1, <3>2
    <3>4. reason' = [reason EXCEPT ![i] = r] /\ UNCHANGED status
        BY <1>2, <2>2 DEF CancelWrites
    <3>5. Lifecycle!RequestCancel(i)
        BY <2>1, <3>1, <3>3, <3>4 DEF Lifecycle!RequestCancel
    <3> QED
        BY <2>1, <3>5 DEF Lifecycle!Next
  <2>3. CASE ~Current(t)
      BY <1>2, <2>3 DEF CancelWrites
  <2> QED
      BY <2>2, <2>3
<1>3. ASSUME NEW i \in Invoices, WorkerCommits(i)
      PROVE  Lifecycle!Next \/ UNCHANGED <<status, work, reason>>
    BY <1>3 DEF WorkerCommits, Lifecycle!Next
<1>4. ASSUME NEW t \in Tills, NEW i \in Invoices, Posts(t, i) \/ Gets(t, i) \/ Cancels(t, i)
      PROVE  UNCHANGED <<status, work, reason>>
    BY <1>4 DEF Posts, Gets, Cancels, Send, storeVars
<1>5. ASSUME NEW t \in Tills,
             get_invoice(t) \/ CancelChecks(t) \/ Learns(t) \/ Disconnects(t) \/ Internal(t)
      PROVE  UNCHANGED <<status, work, reason>>
    BY <1>5 DEF get_invoice, CancelChecks, Learns, Disconnects, Internal, storeVars
<1>6. ASSUME NEW i \in Invoices, WindowCloses(i)
      PROVE  UNCHANGED <<status, work, reason>>
    BY <1>6 DEF WindowCloses, lifecycleVars
<1>7. CASE OtherCommit \/ Restarts \/ UNCHANGED vars
    BY <1>7 DEF OtherCommit, Restarts, storeVars, vars
<1> QED
    BY <1>1, <1>2, <1>3, <1>4, <1>5, <1>6, <1>7 DEF Next, Handles

\* The requests of the tills, interleaved as SQLite's transactions allow, take
\* every invoice through its life cycle one move at a time.
THEOREM PosRefinement == Spec => KeepsLifecycle
<1>1. Init => Lifecycle!Init
    BY DEF Init
<1> QED
    BY <1>1, LifecycleStep, TypeInvariance, CancelInvariance, PTL
    DEF Spec, KeepsLifecycle, Lifecycle!Spec

-----------------------------------------------------------------------------
(* What the tills conclude.                                                *)

\* The answer a to till t about invoice i is borne out by the store.
Holds(t, i, a) ==
  /\ a = <<"post", 202>> => payload[i] = t
  /\ a = <<"post", 409>> => status[i] # "Absent"
  /\ a = <<"get", 200>> => status[i] # "Absent"

ToldHolds == \A t \in Tills, i \in Invoices : \A a \in told[t][i] : Holds(t, i, a)
FlightHolds ==
  \A t \in Tills :
    request[t].op # "none" => Holds(t, request[t].inv, <<request[t].op, request[t].code>>)

\* An invoice that is not there is nobody's.
Owned == \A i \in Invoices : status[i] = "Absent" => payload[i] = NoTill

AnswerInv == ToldHolds /\ FlightHolds /\ Owned

LEMMA AnswerStart == Init => AnswerInv
  BY DEF Init, Lifecycle!Init, AnswerInv, ToldHolds, FlightHolds, Owned, NoRequest

LEMMA AnswersFollow == TypeInv /\ AnswerInv => AnswersHold
<1> SUFFICES ASSUME TypeInv, AnswerInv, NEW t \in Tills, NEW i \in Invoices,
                    NEW a \in Hears(t, i)
             PROVE  Holds(t, i, a)
    BY DEF AnswersHold, Holds
<1>1. CASE a \in told[t][i]
    BY <1>1 DEF AnswerInv, ToldHolds
<1>2. CASE /\ request[t] # NoRequest /\ request[t].inv = i
           /\ a = <<request[t].op, request[t].code>>
  <2>1. request[t] \in Request
      BY <1>2 DEF TypeInv, PosTypeOK
  <2>2. request[t].op # "none"
      BY <2>1 DEF Request, Op
  <2> QED
      BY <1>2, <2>2 DEF AnswerInv, FlightHolds
<1> QED
    BY <1>1, <1>2 DEF Hears

\* No step takes an invoice away, or gives its payload to another till.
Keeps ==
  \A i \in Invoices :
    status[i] # "Absent" => status'[i] # "Absent" /\ payload'[i] = payload[i]

\* A step that keeps the store's promises and answers nothing keeps the answers.
LEMMA KeepsAnswers ==
  ASSUME TypeInv, AnswerInv, Keeps, NEW t \in Tills, NEW i \in Invoices, NEW a,
         Holds(t, i, a)
  PROVE  Holds(t, i, a)'
<1>1. payload[i] = t => status[i] # "Absent"
    BY DEF AnswerInv, Owned
<1> QED
    BY <1>1 DEF Keeps, Holds

LEMMA InFlight ==
  ASSUME TypeInv, NEW t \in Tills, request[t].op # "none"
  PROVE  request[t] \in Request /\ request[t].inv \in Invoices
  BY RealRequest, TypeParts DEF TypeInv, CallsTyped, Request

LEMMA AnswerStep == TypeInv /\ AnswerInv /\ [Next]_vars => AnswerInv'
<1> SUFFICES ASSUME TypeInv, AnswerInv, [Next]_vars
             PROVE  AnswerInv'
    OBVIOUS
<1>0. PosTypeOK /\ StoreTyped /\ CallsTyped /\ RequestsTyped /\ MemoryTyped
    BY TypeParts DEF TypeInv, CallsTyped
<1>k. ASSUME Keeps, UNCHANGED told PROVE ToldHolds'
  <2> SUFFICES ASSUME NEW t \in Tills, NEW i \in Invoices, NEW a \in told[t][i]
               PROVE  Holds(t, i, a)'
      BY <1>k DEF ToldHolds
  <2>1. Holds(t, i, a)
      BY DEF AnswerInv, ToldHolds
  <2> QED
      BY <1>k, <2>1, KeepsAnswers
<1>s. ASSUME UNCHANGED storeVars PROVE Keeps /\ Owned'
    BY <1>s DEF storeVars, Keeps, AnswerInv, Owned
<1>f. ASSUME Keeps, NEW t \in Tills, \A u \in Tills \ {t} : request'[u] = request[u],
             request'[t].op # "none" =>
               Holds(t, request[t].inv, <<request[t].op, request[t].code>>)'
      PROVE  FlightHolds'
  <2> SUFFICES ASSUME NEW u \in Tills \ {t}, request'[u].op # "none"
               PROVE  Holds(u, request[u].inv, <<request[u].op, request[u].code>>)'
      BY <1>f DEF FlightHolds
  <2>1. request'[u] = request[u] /\ request[u].op # "none"
      BY <1>f
  <2>a. PICK j \in Invoices : j = request[u].inv
      BY <2>1, InFlight
  <2>b. PICK a : a = <<request[u].op, request[u].code>>
      OBVIOUS
  <2>2. j = request[u].inv /\ a = <<request[u].op, request[u].code>>
      BY <2>a, <2>b
  <2>3. Holds(u, j, a)
      BY <2>1, <2>2 DEF AnswerInv, FlightHolds
  <2>4. Holds(u, j, a)'
      BY <1>f, <2>3, KeepsAnswers
  <2> QED
      BY <2>1, <2>2, <2>4 DEF Holds
<1>u. ASSUME Keeps, UNCHANGED request PROVE FlightHolds'
  <2> SUFFICES ASSUME NEW u \in Tills, request'[u].op # "none"
               PROVE  Holds(u, request[u].inv, <<request[u].op, request[u].code>>)'
      BY <1>u DEF FlightHolds
  <2>1. request'[u] = request[u] /\ request[u].op # "none"
      BY <1>u
  <2>a. PICK j \in Invoices : j = request[u].inv
      BY <2>1, InFlight
  <2>b. PICK a : a = <<request[u].op, request[u].code>>
      OBVIOUS
  <2>2. j = request[u].inv /\ a = <<request[u].op, request[u].code>>
      BY <2>a, <2>b
  <2>3. Holds(u, j, a)
      BY <2>1, <2>2 DEF AnswerInv, FlightHolds
  <2>4. Holds(u, j, a)'
      BY <1>u, <2>3, KeepsAnswers
  <2> QED
      BY <2>1, <2>2, <2>4 DEF Holds
<1>1. ASSUME NEW t \in Tills, NEW i \in Invoices, Posts(t, i) \/ Gets(t, i) \/ Cancels(t, i)
      PROVE  AnswerInv'
  <2>1. PICK req : Send(t, req) /\ req.code = 0
    <3>1. CASE Posts(t, i)
        BY <3>1 DEF Posts, Sent
    <3>2. CASE Gets(t, i)
        BY <3>2 DEF Gets, Sent
    <3>3. CASE Cancels(t, i)
        BY <3>3 DEF Cancels, Sent
    <3> QED
        BY <1>1, <3>1, <3>2, <3>3
  <2>2. UNCHANGED storeVars /\ UNCHANGED told /\ request' = [request EXCEPT ![t] = req]
      BY <2>1 DEF Send
  <2>3. request'[t] = req /\ \A u \in Tills \ {t} : request'[u] = request[u]
      BY <1>0, <2>2 DEF RequestsTyped
  <2>4. Holds(t, request[t].inv, <<request[t].op, request[t].code>>)'
      BY <2>1, <2>3 DEF Holds
  <2> QED
      BY <2>2, <2>3, <2>4, <1>k, <1>s, <1>f DEF AnswerInv
<1>2. ASSUME NEW t \in Tills, submit_invoice(t)
      PROVE  AnswerInv'
  <2> DEFINE i == request[t].inv
  <2>1. /\ request[t] \in Request /\ i \in Invoices /\ request[t].op = "post"
        /\ UNCHANGED told
      BY <1>0, <1>2, RealRequest DEF submit_invoice, IsAt, Request
  <2>2. CASE Lifecycle!Accept(i) /\ payload' = [payload EXCEPT ![i] = t] /\ Answers(t, 202)
    <3>1. status[i] = "Absent" /\ status' = [status EXCEPT ![i] = "Pending"]
        BY <2>2, AcceptMoves
    <3>2. Keeps
        BY <1>0, <2>2, <3>1 DEF Keeps, StoreTyped
    <3>3. Owned'
        BY <1>0, <2>1, <2>2, <3>1 DEF AnswerInv, Owned, StoreTyped
    <3>4. 202 \in Code
        BY DEF Code
    <3>5. /\ \A u \in Tills \ {t} : request'[u] = request[u]
          /\ request'[t].op = "post" /\ request'[t].inv = i /\ request'[t].code = 202
        BY <1>0, <2>1, <2>2, <3>4, AnswerFacts
    <3>6. payload'[i] = t
        BY <1>0, <2>1, <2>2 DEF StoreTyped
    <3>7. Holds(t, request[t].inv, <<request[t].op, request[t].code>>)'
        BY <3>5, <3>6 DEF Holds
    <3> QED
        BY <2>1, <3>2, <3>3, <3>5, <3>7, <1>k, <1>f DEF AnswerInv
  <2>3. CASE /\ status[i] # "Absent" /\ Answers(t, 409)
             /\ UNCHANGED <<lifecycleVars, payload, overtaken>>
    <3>1. Keeps /\ Owned' /\ status'[i] # "Absent"
        BY <2>3 DEF lifecycleVars, Keeps, AnswerInv, Owned
    <3>2. 409 \in Code
        BY DEF Code
    <3>3. /\ \A u \in Tills \ {t} : request'[u] = request[u]
          /\ request'[t].op = "post" /\ request'[t].inv = i /\ request'[t].code = 409
        BY <1>0, <2>1, <2>3, <3>2, AnswerFacts
    <3>4. Holds(t, request[t].inv, <<request[t].op, request[t].code>>)'
        BY <3>1, <3>3 DEF Holds
    <3> QED
        BY <2>1, <3>1, <3>3, <3>4, <1>k, <1>f DEF AnswerInv
  <2> QED
      BY <1>2, <2>2, <2>3 DEF submit_invoice
<1>3. ASSUME NEW t \in Tills, get_invoice(t)
      PROVE  AnswerInv'
  <2> DEFINE i == request[t].inv
             code == IF Finds(i) THEN 200 ELSE 404
  <2>1. request[t] \in Request /\ request[t].op = "get" /\ code \in Code
      BY <1>0, <1>3, RealRequest DEF get_invoice, IsAt, Code
  <2>2. Answers(t, code) /\ UNCHANGED storeVars /\ UNCHANGED told
      BY <1>3 DEF get_invoice
  <2>3. /\ \A u \in Tills \ {t} : request'[u] = request[u]
        /\ request'[t].op = "get" /\ request'[t].inv = i /\ request'[t].code = code
      BY <1>0, <2>1, <2>2, AnswerFacts
  <2>4. Holds(t, request[t].inv, <<request[t].op, request[t].code>>)'
      BY <2>2, <2>3 DEF Holds, Finds, storeVars
  <2> QED
      BY <2>2, <2>3, <2>4, <1>k, <1>s, <1>f DEF AnswerInv
<1>4. ASSUME NEW t \in Tills, CancelChecks(t)
      PROVE  AnswerInv'
  <2>1. /\ request[t] \in Request /\ request[t].op = "cancel"
        /\ UNCHANGED storeVars /\ UNCHANGED told
      BY <1>0, <1>4, RealRequest DEF CancelChecks, IsAt
  <2>2. /\ \A u \in Tills \ {t} : request'[u] = request[u]
        /\ request'[t].op = "cancel"
    <3>1. CASE \E code \in Code : Answers(t, code)
        BY <1>0, <2>1, <3>1, AnswerFacts
    <3>2. CASE request' = [request EXCEPT ![t].step = "checked"]
        BY <1>0, <2>1, <3>2 DEF RequestsTyped, Request
    <3> QED
        BY <1>4, <3>1, <3>2 DEF CancelChecks, Code
  <2>3. Holds(t, request[t].inv, <<request[t].op, request[t].code>>)'
      BY <2>2 DEF Holds
  <2> QED
      BY <2>1, <2>2, <2>3, <1>k, <1>s, <1>f DEF AnswerInv
<1>5. ASSUME NEW t \in Tills, CancelWrites(t)
      PROVE  AnswerInv'
  <2>1. /\ request[t] \in Request /\ request[t].op = "cancel"
        /\ UNCHANGED <<status, payload, told>>
      BY <1>0, <1>5, RealRequest DEF CancelWrites, IsAt
  <2>2. PICK code \in Code : Answers(t, code)
      BY <1>5 DEF CancelWrites, Code
  <2>3. /\ \A u \in Tills \ {t} : request'[u] = request[u]
        /\ request'[t].op = "cancel"
      BY <1>0, <2>1, <2>2, AnswerFacts
  <2>4. Holds(t, request[t].inv, <<request[t].op, request[t].code>>)'
      BY <2>3 DEF Holds
  <2>5. Keeps /\ Owned'
      BY <2>1 DEF Keeps, AnswerInv, Owned
  <2> QED
      BY <2>1, <2>3, <2>4, <2>5, <1>k, <1>f DEF AnswerInv
<1>6. ASSUME NEW t \in Tills, Learns(t) \/ Disconnects(t)
      PROVE  AnswerInv'
  <2>1. /\ UNCHANGED storeVars /\ request[t] # NoRequest
        /\ request' = [request EXCEPT ![t] = NoRequest]
      BY <1>6 DEF Learns, Disconnects
  <2>2. Keeps /\ Owned'
      BY <2>1, <1>s
  <2>3. request'[t].op = "none" /\ \A u \in Tills \ {t} : request'[u] = request[u]
      BY <1>0, <2>1 DEF RequestsTyped, NoRequest
  <2>4. FlightHolds'
      BY <2>2, <2>3, <1>f
  <2>5. ToldHolds'
    <3>1. CASE Disconnects(t)
        BY <2>2, <3>1, <1>k DEF Disconnects
    <3>2. CASE Learns(t)
      <4> DEFINE i == request[t].inv
                 a == <<request[t].op, request[t].code>>
      <4>1. /\ request[t] \in Request /\ i \in Invoices
            /\ request[t].op # "none"
          BY <1>0, <2>1 DEF RequestsTyped, Requests, Request, Op
      <4>2. told' = [told EXCEPT ![t][i] = told[t][i] \cup ({a} \cap Lasting)]
          BY <3>2 DEF Learns
      <4>3. Holds(t, i, a)
          BY <4>1 DEF AnswerInv, FlightHolds
      <4> SUFFICES ASSUME NEW u \in Tills, NEW j \in Invoices, NEW b \in told'[u][j]
                   PROVE  Holds(u, j, b)'
          BY DEF ToldHolds
      <4>4. Holds(u, j, b)
        <5>1. CASE u = t /\ j = i
          <6>1. told'[u][j] = told[t][i] \cup ({a} \cap Lasting)
              BY <1>0, <4>1, <4>2, <5>1 DEF MemoryTyped
          <6>2. b \in told[t][i] \/ b = a
              BY <6>1
          <6> QED
              BY <4>3, <5>1, <6>2 DEF AnswerInv, ToldHolds
        <5>2. CASE ~(u = t /\ j = i)
          <6>1. told'[u][j] = told[u][j]
              BY <1>0, <4>1, <4>2, <5>2 DEF MemoryTyped
          <6> QED
              BY <6>1 DEF AnswerInv, ToldHolds
        <5> QED
            BY <5>1, <5>2
      <4> QED
          BY <2>2, <4>4, KeepsAnswers
    <3> QED
        BY <1>6, <3>1, <3>2
  <2> QED
      BY <2>2, <2>4, <2>5 DEF AnswerInv
<1>7. ASSUME NEW t \in Tills, Internal(t)
      PROVE  AnswerInv'
  <2>1. request[t] \in Request /\ 500 \in Code
      BY <1>0, <1>7 DEF Internal, RequestsTyped, Requests, Code
  <2>2. Answers(t, 500) /\ UNCHANGED storeVars /\ UNCHANGED told
      BY <1>7 DEF Internal
  <2>3. request'[t].code = 500 /\ \A u \in Tills \ {t} : request'[u] = request[u]
      BY <1>0, <2>1, <2>2, AnswerFacts
  <2>4. Holds(t, request[t].inv, <<request[t].op, request[t].code>>)'
      BY <2>3 DEF Holds
  <2> QED
      BY <2>2, <2>3, <2>4, <1>k, <1>s, <1>f DEF AnswerInv
<1>8. ASSUME NEW i \in Invoices, WorkerCommits(i)
      PROVE  AnswerInv'
  <2>1. PICK s \in {"Submitted", "Failed", "Valid", "Invalid", "Cancelled"} :
          status' = [status EXCEPT ![i] = s]
      BY <1>0, <1>8, WorkerMoves
  <2>2. UNCHANGED <<payload, request, told>>
      BY <1>0, <1>8, WorkerMoves
  <2>3. Keeps /\ Owned'
      BY <1>0, <2>1, <2>2 DEF Keeps, AnswerInv, Owned, StoreTyped
  <2> QED
      BY <2>2, <2>3, <1>k, <1>u DEF AnswerInv
<1>9. CASE OtherCommit
    BY <1>9, <1>k, <1>s, <1>u DEF OtherCommit, AnswerInv
<1>10. ASSUME NEW i \in Invoices, WindowCloses(i)
       PROVE  AnswerInv'
  <2>1. UNCHANGED <<status, payload, request, told>>
      BY <1>10 DEF WindowCloses, lifecycleVars
  <2>2. Keeps /\ Owned'
      BY <2>1 DEF Keeps, AnswerInv, Owned
  <2> QED
      BY <2>1, <2>2, <1>k, <1>u DEF AnswerInv
<1>11. CASE Restarts
  <2>1. /\ UNCHANGED storeVars /\ UNCHANGED told
        /\ \A t \in Tills : request'[t] = NoRequest
      BY <1>11 DEF Restarts
  <2>2. FlightHolds'
      BY <2>1 DEF FlightHolds, NoRequest
  <2> QED
      BY <2>1, <2>2, <1>k, <1>s DEF AnswerInv
<1>12. CASE UNCHANGED vars
    BY <1>12, <1>k, <1>s, <1>u DEF vars, storeVars, AnswerInv
<1> QED
    BY <1>1, <1>2, <1>3, <1>4, <1>5, <1>6, <1>7, <1>8, <1>9, <1>10, <1>11, <1>12
    DEF Next, Handles

LEMMA AnswerInvariance == Spec => []AnswerInv
  BY AnswerStart, AnswerStep, TypeInvariance, PTL DEF Spec

\* What a till was answered about its invoice stays true, whatever else was lost,
\* and whoever else posts under the same reference.
THEOREM AnswersAreTrue == Spec => []AnswersHold
  BY AnswersFollow, AnswerInvariance, TypeInvariance, PTL
=============================================================================
