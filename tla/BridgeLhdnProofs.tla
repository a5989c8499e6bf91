--------------------------- MODULE BridgeLhdnProofs --------------------------
(***************************************************************************)
(* What the store says and what LHDN has: StatusAgreesWithLhdn and         *)
(* DuplicatesNeedFaults, for every value of the constants.                 *)
(*                                                                         *)
(* Two invariants carry the induction.  SentInv counts, per invoice, the   *)
(* documents LHDN has and the requests that may still register one: as     *)
(* long as the invoice is not delivered, every one of them was paid for by *)
(* a fault, and delivery itself accounts for one more.  AgreeInv compares  *)
(* each row, each answer a worker has in hand, and each cancellation under *)
(* way, with the document it is about: a document only moves forward, so   *)
(* what was true when LHDN answered is true when the answer is written.    *)
(***************************************************************************)
EXTENDS BridgeLifecycleProofs, FiniteSetTheorems

Registered(u, i) == docs[u] # Unused /\ docs[u].inv = i

-----------------------------------------------------------------------------
(* What a step does to LHDN's documents.                                   *)

Judges(u) ==
  /\ docs[u].status = "Submitted"
  /\ \E verdict \in {"Valid", "Invalid"} :
       docs' = [docs EXCEPT ![u].status = verdict]

\* The bridge has a request to cancel this document under way.
Wanted(u) ==
  \/ can.answer = "awaited" /\ can.uuid = u
  \/ \E c \in lateCancels : c[1] = u

\* LHDN cancels a document of its own accord, or because the bridge wants it.
Cancels(u) ==
  \/ CancelDocument(u, NoReason)
  \/ Wanted(u) /\ \E r \in Reasons : CancelDocument(u, r)

\* A document, once registered, is its invoice's for good; Valid can only become
\* Cancelled, and Invalid and Cancelled are final.
Advances(u) ==
  docs[u] # Unused =>
    /\ docs'[u] # Unused /\ docs'[u].inv = docs[u].inv
    /\ docs[u].status = "Valid" => docs'[u].status \in {"Valid", "Cancelled"}
    /\ docs[u].status \in {"Invalid", "Cancelled"} => docs'[u] = docs[u]

\* A document's status tells that there is one, and its shape.
LEMMA DocumentShape ==
  ASSUME LhdnTypeOK, NEW u \in Uuids
  PROVE  /\ docs[u] # Unused => docs[u] \in Document
         /\ docs[u].status \in {"Submitted", "Valid", "Invalid", "Cancelled"} =>
              docs[u] # Unused
  BY DEF LhdnTypeOK, Unused

LEMMA JudgesAdvances ==
  ASSUME LhdnTypeOK, NEW v \in Uuids, Judges(v)
  PROVE  /\ \A u \in Uuids : Advances(u)
         /\ \A u \in Uuids :
              docs'[u] = docs[u] \/ (docs[u].reason = docs'[u].reason
                                     /\ docs[u] # Unused)
  <1>1. PICK verdict \in {"Valid", "Invalid"} :
          docs' = [docs EXCEPT ![v].status = verdict]
    BY DEF Judges
  <1>2. docs[v].status = "Submitted" /\ docs[v] \in Document
    BY DocumentShape DEF Judges
  <1>3. /\ docs'[v] = [docs[v] EXCEPT !.status = verdict]
        /\ \A u \in Uuids : u # v => docs'[u] = docs[u]
    BY <1>1 DEF LhdnTypeOK
  <1>4. /\ docs'[v].status = verdict /\ docs'[v].inv = docs[v].inv
        /\ docs'[v].reason = docs[v].reason
    BY <1>2, <1>3 DEF Document
  <1>5. docs'[v] # Unused /\ docs[v] # Unused
    BY <1>2, <1>4 DEF Unused
  <1> QED BY <1>2, <1>3, <1>4, <1>5 DEF Advances

LEMMA CancelAdvances ==
  ASSUME LhdnTypeOK, NEW v \in Uuids, NEW r \in Reasons \cup {NoReason},
         CancelDocument(v, r)
  PROVE  /\ \A u \in Uuids : Advances(u)
         /\ docs[v] # Unused /\ docs'[v].status = "Cancelled" /\ docs'[v].reason = r
         /\ \A u \in Uuids : u # v => docs'[u] = docs[u]
  <1>1. docs[v].status = "Valid" /\ docs[v] \in Document
    BY DocumentShape DEF CancelDocument
  <1>2. /\ docs'[v] = [docs[v] EXCEPT !.status = "Cancelled", !.reason = r]
        /\ \A u \in Uuids : u # v => docs'[u] = docs[u]
    BY DEF CancelDocument, LhdnTypeOK
  <1>3. /\ docs'[v].status = "Cancelled" /\ docs'[v].inv = docs[v].inv
        /\ docs'[v].reason = r
    BY <1>1, <1>2 DEF Document
  <1>4. docs'[v] # Unused /\ docs[v] # Unused
    BY <1>1, <1>3 DEF Unused
  <1> QED BY <1>1, <1>2, <1>3, <1>4 DEF Advances

LEMMA RegisterAdvances ==
  ASSUME LhdnTypeOK, NEW v \in Uuids, NEW i \in Invoices, Register(v, i)
  PROVE  /\ \A u \in Uuids : Advances(u)
         /\ docs[v] = Unused /\ Registered(v, i)' /\ docs'[v].reason = NoReason
         /\ \A u \in Uuids : u # v => docs'[u] = docs[u]
  <1>1. /\ docs'[v] = [status |-> "Submitted", inv |-> i, reason |-> NoReason]
        /\ \A u \in Uuids : u # v => docs'[u] = docs[u]
    BY DEF Register, LhdnTypeOK
  <1>2. docs'[v].status = "Submitted" /\ docs'[v].inv = i /\ docs'[v].reason = NoReason
    BY <1>1
  <1>3. docs'[v] # Unused
    BY <1>2 DEF Unused
  <1> QED BY <1>1, <1>2, <1>3 DEF Register, Advances, Registered

\* The steps that touch a document leave the store alone.
LEMMA DocsMove ==
  ASSUME TypeOK, [Next]_vars
  PROVE  \/ UNCHANGED docs
         \/ /\ UNCHANGED repoVars
            /\ \E u \in Uuids :
                 \/ Judges(u) \/ Cancels(u)
                 \/ \E i \in Invoices : Register(u, i)
  <1>1. CASE UNCHANGED vars
    BY <1>1 DEF vars, lhdnVars
  <1>2. ASSUME NEW i \in Invoices, PerInvoice(i) PROVE UNCHANGED docs
    BY <1>2 DEF PerInvoice, submit_invoice, cancel_invoice, SubmitterLoads,
         SubmitLoad, PollerLoads, PollLoad, CancellerLoads, CancelLoad, BackoffEnds,
         WindowCloses, lhdnVars
  <1>3. CASE SubmitterCalls \/ LosesSubmitAnswer
    <2>1. sub.answer = "awaited" => sub.inv \in Invoices
      BY DEF TypeOK, SubmitterTypeOK, Idle, SubmitJob
    <2> QED BY <1>3, <2>1
            DEF SubmitterCalls, SubmitAccepted, SubmitRejected, SubmitRefused,
                LosesSubmitAnswer, SubmitInterrupted, SubmitGoesLate, lhdnVars
  <1>4. CASE CancellerCalls \/ LosesCancelAnswer
    <2>1. can.answer = "awaited" => can.uuid \in Uuids /\ can.reason \in Reasons
      BY DEF TypeOK, CancellerTypeOK, NoCancel, CancelJob
    <2> QED BY <1>4, <2>1
            DEF CancellerCalls, CancelAccepted, CancelRefused, LosesCancelAnswer,
                CancelInterrupted, CancelGoesLate, Cancels, Wanted, lhdnVars
  <1>5. CASE SubmitterFinishes \/ PollerCalls \/ PollerFinishes \/ CancellerFinishes
    BY <1>5 DEF SubmitterFinishes, SubmitFinish, PollerCalls, PollCall,
         PollerFinishes, PollFinish, CancellerFinishes, CancelFinish, lhdnVars
  <1>6. CASE LhdnActs
    BY <1>6 DEF LhdnActs, Decides, LhdnCancels, LateSubmit, LateCancel, Judges,
         Cancels, Wanted
  <1>7. CASE DbError \/ Crash
    BY <1>7 DEF DbError, Crash, SubmitGoesLate, CancelGoesLate, lhdnVars
  <1> QED BY <1>1, <1>2, <1>3, <1>4, <1>5, <1>6, <1>7 DEF Next, Worker, Faulty

\* Documents only move forward.
LEMMA DocsAdvance ==
  ASSUME TypeOK, [Next]_vars, NEW u \in Uuids
  PROVE  Advances(u)
  <1>t. LhdnTypeOK
    BY DEF TypeOK
  <1>1. CASE UNCHANGED docs
    BY <1>1 DEF Advances
  <1>2. CASE \E v \in Uuids : \/ Judges(v) \/ Cancels(v)
                              \/ \E i \in Invoices : Register(v, i)
    BY <1>t, <1>2, JudgesAdvances, CancelAdvances, RegisterAdvances DEF Cancels
  <1> QED BY <1>1, <1>2, DocsMove

-----------------------------------------------------------------------------
(* Rows, answers and cancellations agree with the documents.               *)

\* What a row of invoice i may say of LHDN.
Agrees(i, row) ==
  /\ row.uuid # NoUuid => Registered(row.uuid, i)
  /\ row.status \in {"Valid", "Invalid", "Cancelled"} => row.uuid # NoUuid
  /\ row.reason # NoReason => row.status \in {"Valid", "Cancelled"}
  /\ row.status = "Valid" => docs[row.uuid].status \in {"Valid", "Cancelled"}
  /\ row.status = "Invalid" =>
       docs[row.uuid].status = "Invalid" \/ row.error.stage = "poll_exhausted"
  /\ row.status = "Cancelled" =>
       docs[row.uuid].status = "Cancelled" /\ docs[row.uuid].reason = row.reason

RowsAgree == \A i \in Invoices : Agrees(i, invoices[i])

\* What a worker has in hand is, and stays, what LHDN has.
SubmitAnswerAgrees ==
  sub.answer = "accepted" /\ sub.uuid # NoUuid => Registered(sub.uuid, sub.inv)

PollAnswerAgrees ==
  /\ pol.answer = "Valid" => docs[pol.uuid].status \in {"Valid", "Cancelled"}
  /\ pol.answer \in {"Invalid", "Cancelled"} => docs[pol.uuid].status = pol.answer

CancelAnswerAgrees ==
  can.answer = "cancelled" =>
    docs[can.uuid].status = "Cancelled" /\ docs[can.uuid].reason = can.reason

AnswersAgree == SubmitAnswerAgrees /\ PollAnswerAgrees /\ CancelAnswerAgrees

\* The bridge asked for this document to be cancelled, so its row says Valid, or
\* already Cancelled.
Asked(u) ==
  /\ docs[u] # Unused
  /\ LET row == invoices[docs[u].inv]
     IN  row.uuid = u /\ row.status \in {"Valid", "Cancelled"}

CancelsWereAsked ==
  /\ \A u \in Uuids : docs[u] # Unused /\ docs[u].reason # NoReason => Asked(u)
  /\ \A c \in lateCancels : Asked(c[1])

AgreeInv == RowsAgree /\ AnswersAgree /\ CancelsWereAsked

-----------------------------------------------------------------------------
(* The documents move, the rows stand still.                               *)

LEMMA AgreesForward ==
  ASSUME \A u \in Uuids : Advances(u), NEW i \in Invoices, NEW row \in Row,
         Agrees(i, row)
  PROVE  Agrees(i, row)'
  <1>1. row.uuid # NoUuid => row.uuid \in Uuids
    BY DEF Row
  <1>2. row.uuid # NoUuid => Registered(row.uuid, i) /\ Registered(row.uuid, i)'
    BY <1>1 DEF Agrees, Advances, Registered
  <1> QED BY <1>1, <1>2 DEF Agrees, Advances, Registered

LEMMA RowsForward ==
  ASSUME RepoTypeOK, RowsAgree, UNCHANGED invoices, \A u \in Uuids : Advances(u)
  PROVE  RowsAgree'
  <1> SUFFICES ASSUME NEW i \in Invoices PROVE Agrees(i, invoices[i])'
    BY DEF RowsAgree
  <1>1. PICK row \in Row : row = invoices[i]
    BY DEF RepoTypeOK
  <1>2. Agrees(i, row)'
    BY <1>1, AgreesForward DEF RowsAgree
  <1> QED BY <1>1, <1>2

-----------------------------------------------------------------------------
(* The answers in hand.                                                    *)

\* A worker's answer comes from its call, and from nowhere else.
LEMMA AnswerOrigins ==
  ASSUME [Next]_vars
  PROVE  /\ sub' = sub \/ sub'.answer # "accepted" \/ SubmitAccepted
         /\ \/ pol' = pol \/ PollCall
            \/ pol'.answer \notin {"Valid", "Invalid", "Cancelled"}
         /\ can' = can \/ can'.answer # "cancelled" \/ CancelAccepted
  <1>1. CASE UNCHANGED vars
    BY <1>1 DEF vars, jobs
  <1>2. ASSUME NEW i \in Invoices, PerInvoice(i)
        PROVE  /\ sub' = sub \/ sub'.answer # "accepted"
               /\ \/ pol' = pol
                  \/ pol'.answer \notin {"Valid", "Invalid", "Cancelled"}
               /\ can' = can \/ can'.answer # "cancelled"
    <2>1. CASE \/ submit_invoice(i) \/ cancel_invoice(i)
               \/ BackoffEnds(i) \/ WindowCloses(i)
      BY <2>1 DEF submit_invoice, cancel_invoice, BackoffEnds, WindowCloses, jobs
    <2>2. CASE SubmitterLoads(i)
      <3>1. UNCHANGED <<pol, can>> /\ (sub' = sub \/ sub'.answer = "awaited")
        BY <2>2 DEF SubmitterLoads, SubmitLoad
      <3> QED BY <3>1
    <2>3. CASE PollerLoads(i)
      <3>1. UNCHANGED <<sub, can>> /\ (pol' = pol \/ pol'.answer = "awaited")
        <4>1. UNCHANGED <<sub, can>>
          BY <2>3 DEF PollerLoads
        <4>2. pol' = pol \/ \E e \in outbox :
                pol' = [inv |-> i, n |-> e.n, attempts |-> e.attempts,
                        uuid |-> invoices[i].uuid, answer |-> "awaited",
                        error |-> "none"]
          BY <2>3 DEF PollerLoads, PollLoad, DueEvents
        <4> QED BY <4>1, <4>2
      <3> QED BY <3>1
    <2>4. CASE CancellerLoads(i)
      <3>1. UNCHANGED <<sub, pol>> /\ (can' = can \/ can'.answer = "awaited")
        BY <2>4 DEF CancellerLoads, CancelLoad
      <3> QED BY <3>1
    <2> QED BY <1>2, <2>1, <2>2, <2>3, <2>4 DEF PerInvoice
  <1>3. CASE SubmitterCalls \/ LosesSubmitAnswer
    <2>1. SubmitRejected \/ SubmitRefused \/ SubmitInterrupted =>
            \E u, err : \/ SubmitAnswered("rejected", u, err)
                        \/ SubmitAnswered("error", u, err)
      BY DEF SubmitRejected, SubmitRefused, SubmitInterrupted
    <2>2. ASSUME NEW a \in {"rejected", "error"}, NEW u, NEW err,
                 SubmitAnswered(a, u, err)
          PROVE  sub' = sub \/ sub'.answer # "accepted"
      BY <2>2 DEF SubmitAnswered
    <2>3. UNCHANGED <<pol, can>>
      BY <1>3 DEF SubmitterCalls, LosesSubmitAnswer
    <2> QED BY <1>3, <2>1, <2>2, <2>3 DEF SubmitterCalls, LosesSubmitAnswer
  <1>4. CASE PollerCalls
    BY <1>4 DEF PollerCalls
  <1>5. CASE CancellerCalls \/ LosesCancelAnswer
    <2>1. CancelRefused \/ CancelInterrupted => \E err : CancelAnswered("error", err)
      BY DEF CancelRefused, CancelInterrupted
    <2>2. ASSUME NEW err, CancelAnswered("error", err)
          PROVE  can' = can \/ can'.answer # "cancelled"
      BY <2>2 DEF CancelAnswered
    <2>3. UNCHANGED <<sub, pol>>
      BY <1>5 DEF CancellerCalls, LosesCancelAnswer
    <2> QED BY <1>5, <2>1, <2>2, <2>3 DEF CancellerCalls, LosesCancelAnswer
  <1>6. CASE SubmitterFinishes \/ PollerFinishes \/ CancellerFinishes
    BY <1>6 DEF SubmitterFinishes, SubmitFinish, PollerFinishes, PollFinish,
         CancellerFinishes, CancelFinish, Idle, NoPoll, NoCancel
  <1>7. CASE LhdnActs
    BY <1>7 DEF LhdnActs, jobs
  <1>8. CASE DbError \/ Crash
    BY <1>8 DEF DbError, Crash, Idle, NoPoll, NoCancel
  <1> QED BY <1>1, <1>2, <1>3, <1>4, <1>5, <1>6, <1>7, <1>8
          DEF Next, Worker, Faulty

LEMMA AnswersStep ==
  ASSUME TypeOK, AnswersAgree, [Next]_vars
  PROVE  AnswersAgree'
  <1>a. \A u \in Uuids : Advances(u)
    BY DocsAdvance
  <1>1. SubmitAnswerAgrees'
    <2>1. CASE sub' = sub
      <3>1. sub.answer = "accepted" => sub.uuid \in Uuids \cup {NoUuid}
        BY DEF TypeOK, SubmitterTypeOK, Idle, SubmitJob
      <3> QED BY <1>a, <2>1, <3>1
              DEF AnswersAgree, SubmitAnswerAgrees, Registered, Advances
    <2>2. CASE SubmitAccepted
      <3>1. sub \in SubmitJob
        BY <2>2 DEF SubmitAccepted, TypeOK, SubmitterTypeOK, Idle
      <3>2. PICK u \in Uuids, named \in Uuids \cup {NoUuid} :
              /\ Register(u, sub.inv) /\ SubmitAnswered("accepted", named, "none")
              /\ named \in {u, NoUuid}
        BY <2>2 DEF SubmitAccepted
      <3>3. sub'.inv = sub.inv /\ sub'.uuid \in {u, NoUuid}
        BY <3>1, <3>2 DEF SubmitAnswered, SubmitJob
      <3>4. Registered(u, sub.inv)'
        <4>1. sub.inv \in Invoices /\ LhdnTypeOK
          BY <3>1 DEF SubmitJob, TypeOK
        <4>2. PICK i \in Invoices : i = sub.inv
          BY <4>1
        <4>3. Registered(u, i)'
          BY <3>2, <4>1, <4>2, RegisterAdvances
        <4> QED BY <3>3, <4>2, <4>3 DEF Registered
      <3> QED BY <3>3, <3>4 DEF SubmitAnswerAgrees, Registered
    <2>3. CASE sub'.answer # "accepted"
      BY <2>3 DEF SubmitAnswerAgrees
    <2> QED BY <2>1, <2>2, <2>3, AnswerOrigins
  <1>2. PollAnswerAgrees'
    <2>1. CASE pol' = pol
      <3>1. pol.answer \in {"Valid", "Invalid", "Cancelled"} => pol.uuid \in Uuids
        BY DEF TypeOK, PollerTypeOK, NoPoll, PollJob
      <3>2. pol.answer \in {"Valid", "Invalid", "Cancelled"} => docs[pol.uuid] # Unused
        BY DEF AnswersAgree, PollAnswerAgrees, Unused
      <3> QED BY <1>a, <2>1, <3>1, <3>2 DEF AnswersAgree, PollAnswerAgrees, Advances
    <2>2. CASE PollCall
      <3>1. pol \in PollJob /\ docs' = docs
        <4>1. pol.answer = "awaited" /\ docs' = docs
          BY <2>2 DEF PollCall, lhdnVars
        <4> QED BY <4>1 DEF TypeOK, PollerTypeOK, NoPoll
      <3>2. /\ pol'.uuid = pol.uuid
            /\ pol'.answer = docs[pol.uuid].status \/ pol'.answer = "error"
        BY <2>2, <3>1 DEF PollCall, PollJob
      <3> QED BY <3>1, <3>2 DEF PollAnswerAgrees
    <2>3. CASE pol'.answer \notin {"Valid", "Invalid", "Cancelled"}
      BY <2>3 DEF PollAnswerAgrees
    <2> QED BY <2>1, <2>2, <2>3, AnswerOrigins
  <1>3. CancelAnswerAgrees'
    <2>1. CASE can' = can
      <3>1. can.answer = "cancelled" => can.uuid \in Uuids
        BY DEF TypeOK, CancellerTypeOK, NoCancel, CancelJob
      <3>2. can.answer = "cancelled" => docs[can.uuid] # Unused
        BY DEF AnswersAgree, CancelAnswerAgrees, Unused
      <3> QED BY <1>a, <2>1, <3>1, <3>2 DEF AnswersAgree, CancelAnswerAgrees, Advances
    <2>2. CASE CancelAccepted
      <3>1. can \in CancelJob
        BY <2>2 DEF CancelAccepted, TypeOK, CancellerTypeOK, NoCancel
      <3>2. can'.uuid = can.uuid /\ can'.reason = can.reason
        BY <2>2, <3>1 DEF CancelAccepted, CancelAnswered, CancelJob
      <3>3. PICK u \in Uuids, r \in Reasons \cup {NoReason} :
              u = can.uuid /\ r = can.reason
        BY <3>1 DEF CancelJob
      <3>4. docs'[u].status = "Cancelled" /\ docs'[u].reason = r
        BY <2>2, <3>3, CancelAdvances DEF CancelAccepted, TypeOK
      <3> QED BY <3>2, <3>3, <3>4 DEF CancelAnswerAgrees
    <2>3. CASE can'.answer # "cancelled"
      BY <2>3 DEF CancelAnswerAgrees
    <2> QED BY <2>1, <2>2, <2>3, AnswerOrigins
  <1> QED BY <1>1, <1>2, <1>3 DEF AnswersAgree

-----------------------------------------------------------------------------
(* A cancellation under way is of a document whose row says Valid, and     *)
(* goes on being so: nothing takes Valid back but the cancellation itself. *)

LEMMA AskedStays ==
  ASSUME IInv, UuidInv, [Next]_vars, NEW u \in Uuids, Asked(u)
  PROVE  Asked(u)'
  <1>1. docs[u] # Unused /\ docs[u] \in Document
    BY DocumentShape DEF Asked, IInv, TypeOK
  <1>2. docs'[u] # Unused /\ docs'[u].inv = docs[u].inv
    BY <1>1, DocsAdvance DEF Advances, IInv
  <1>3. PICK i \in Invoices : i = docs[u].inv
    BY <1>1 DEF Document
  <1>4. invoices[i] \in Row /\ invoices'[i] \in Row
    BY SafetyStep DEF IInv, TypeOK, RepoTypeOK
  <1>5. Stands(invoices[i], invoices'[i])
    BY DecisionsStep
  <1>6. /\ invoices[i].uuid = u /\ u # NoUuid
        /\ invoices[i].status \in {"Valid", "Cancelled"}
    BY <1>3, NamesAssumption DEF Asked
  <1>7. invoices[i].status = "Cancelled" => invoices'[i].status = "Cancelled"
    BY <1>4, <1>5 DEF Stands, Decided, Row
  <1>8. invoices'[i].uuid = u /\ invoices'[i].status \in {"Valid", "Cancelled"}
    BY <1>5, <1>6, <1>7 DEF Stands
  <1> QED BY <1>2, <1>3, <1>8 DEF Asked

LEMMA WantedIsAsked ==
  ASSUME IInv, RowsAgree, CancelsWereAsked, NEW u, Wanted(u)
  PROVE  Asked(u)
  <1>1. CASE can.answer = "awaited" /\ can.uuid = u
    <2>1. can # NoCancel
      BY <1>1 DEF NoCancel
    <2>2. can \in CancelJob /\ invoices[can.inv].status = "Valid"
      BY <2>1, JobStatus
    <2>3. invoices[can.inv].uuid = u
      BY <1>1, <2>1 DEF IInv, JobsAreCurrent, CancelJobIsCurrent
    <2>4. u \in Uuids /\ can.inv \in Invoices
      BY <1>1, <2>2 DEF CancelJob
    <2>5. Registered(u, can.inv)
      BY <2>3, <2>4, NamesAssumption DEF RowsAgree, Agrees
    <2> QED BY <2>2, <2>3, <2>5 DEF Registered, Asked
  <1>2. CASE \E c \in lateCancels : c[1] = u
    BY <1>2 DEF CancelsWereAsked
  <1> QED BY <1>1, <1>2 DEF Wanted

\* A request goes late only when it was on the wire.
LEMMA LateCancelsWanted ==
  ASSUME [Next]_vars, NEW c \in lateCancels'
  PROVE  Wanted(c[1])
  <1>1. CASE UNCHANGED lateCancels
    BY <1>1 DEF Wanted
  <1>2. CASE /\ can.answer = "awaited"
             /\ lateCancels' = lateCancels \cup {<<can.uuid, can.reason>>}
    BY <1>2 DEF Wanted
  <1>3. CASE \E u \in Uuids, r \in Reasons : LateCancel(u, r)
    BY <1>3 DEF LateCancel, Wanted
  <1>4. CASE UNCHANGED vars
    BY <1>1, <1>4 DEF vars, lhdnVars
  <1>5. CASE \E i \in Invoices : PerInvoice(i)
    BY <1>1, <1>5 DEF PerInvoice, submit_invoice, cancel_invoice, SubmitterLoads,
         SubmitLoad, PollerLoads, PollLoad, CancellerLoads, CancelLoad, BackoffEnds,
         WindowCloses, lhdnVars
  <1>6. CASE Worker
    BY <1>1, <1>6 DEF Worker, SubmitterCalls, SubmitAccepted, SubmitRejected,
         SubmitRefused, SubmitterFinishes, SubmitFinish, PollerCalls, PollCall,
         PollerFinishes, PollFinish, CancellerCalls, CancelAccepted, CancelRefused,
         CancellerFinishes, CancelFinish, lhdnVars
  <1>7. CASE LhdnActs
    BY <1>1, <1>3, <1>7 DEF LhdnActs, Decides, LhdnCancels, LateSubmit
  <1>8. CASE Faulty
    BY <1>1, <1>2, <1>8 DEF Faulty, LosesSubmitAnswer, SubmitInterrupted,
         SubmitGoesLate, LosesCancelAnswer, CancelInterrupted, CancelGoesLate,
         DbError, Crash, lhdnVars
  <1> QED BY <1>4, <1>5, <1>6, <1>7, <1>8 DEF Next

LEMMA CancelsStep ==
  ASSUME IInv, UuidInv, RowsAgree, CancelsWereAsked, [Next]_vars
  PROVE  CancelsWereAsked'
  <1>t. LhdnTypeOK /\ LhdnTypeOK'
    BY SafetyStep DEF IInv, TypeOK
  <1>1. ASSUME NEW u \in Uuids, docs'[u] # Unused, docs'[u].reason # NoReason
        PROVE  Asked(u)'
    <2>1. (docs[u] # Unused /\ docs[u].reason # NoReason) \/ Wanted(u)
      <3>1. CASE UNCHANGED docs
        BY <1>1, <3>1
      <3>2. ASSUME NEW v \in Uuids, Judges(v)
            PROVE  docs[u] # Unused /\ docs[u].reason # NoReason
        BY <1>t, <1>1, <3>2, JudgesAdvances
      <3>3. ASSUME NEW v \in Uuids, NEW i \in Invoices, Register(v, i)
            PROVE  docs[u] # Unused /\ docs[u].reason # NoReason
        BY <1>t, <1>1, <3>3, RegisterAdvances
      <3>4. ASSUME NEW v \in Uuids, Cancels(v)
            PROVE  (docs[u] # Unused /\ docs[u].reason # NoReason) \/ Wanted(u)
        BY <1>t, <1>1, <3>4, CancelAdvances DEF Cancels
      <3> QED BY <3>1, <3>2, <3>3, <3>4, DocsMove DEF IInv
    <2> QED BY <2>1, WantedIsAsked, AskedStays DEF CancelsWereAsked
  <1>2. ASSUME NEW c \in lateCancels' PROVE Asked(c[1])'
    <2>1. c[1] \in Uuids
      BY <1>t DEF LhdnTypeOK
    <2> QED BY <2>1, LateCancelsWanted, WantedIsAsked, AskedStays
  <1> QED BY <1>1, <1>2 DEF CancelsWereAsked

-----------------------------------------------------------------------------
(* What the workers write is what LHDN answered.                           *)

\* The only ways a status changes, each with what it says of LHDN.
Written(i, old, new) ==
  \/ new.status \in {"Pending", "Failed"}
  \/ /\ new.status = "Submitted"
     /\ new.uuid # NoUuid => Registered(new.uuid, i)
  \/ /\ old.status = "Submitted" /\ old.uuid # NoUuid
     /\ \/ new.status = "Valid" /\ docs[old.uuid].status \in {"Valid", "Cancelled"}
        \/ /\ new.status = "Invalid"
           /\ docs[old.uuid].status = "Invalid" \/ new.error.stage = "poll_exhausted"
        \/ new.status = "Cancelled" /\ docs[old.uuid].status = "Cancelled"
  \/ /\ old.status = "Valid" /\ old.uuid # NoUuid
     /\ new.status = "Cancelled" /\ docs[old.uuid].status = "Cancelled"
     /\ docs[old.uuid].reason = old.reason

\* Every UPDATE is of one row.
LEMMA UpdateRow ==
  ASSUME RepoTypeOK, NEW i \in Invoices, NEW row, Update(i, row)
  PROVE  /\ invoices'[i] = row
         /\ \A j \in Invoices : j # i => invoices'[j] = invoices[j]
  BY DEF Update, RepoTypeOK

\* The transactions that leave the status alone, or only give up on delivery.
LEMMA QuietTransactions ==
  ASSUME RepoTypeOK, NEW i \in Invoices, NEW n, NEW attempts, NEW body, NEW due,
         \/ create_pending(i) \/ \E r \in Reasons : request_cancellation(i, r)
         \/ fail_permanently(i, n, attempts, body)
         \/ reschedule(i, n, attempts, body)
         \/ fail_poll(i, n, body) \/ reschedule_poll(i, n, attempts, due)
         \/ fail_cancel(i, n, body) \/ reschedule_cancel(i, n, attempts)
         \/ DeadlinePasses(i) \/ \E e \in outbox : Elapse(e)
  PROVE  \A j \in Invoices : \/ invoices'[j].status = invoices[j].status
                             \/ invoices'[j].status \in {"Pending", "Failed"}
  <1>r. invoices[i] \in Row
    BY DEF RepoTypeOK
  <1>1. CASE \/ reschedule_poll(i, n, attempts, due) \/ reschedule_cancel(i, n, attempts)
             \/ \E e \in outbox : Elapse(e)
    BY <1>1 DEF reschedule_poll, reschedule_cancel, Elapse
  <1>2. ASSUME NEW row, Update(i, row),
               row.status \in {invoices[i].status, "Pending", "Failed"}
        PROVE  \A j \in Invoices : \/ invoices'[j].status = invoices[j].status
                                   \/ invoices'[j].status \in {"Pending", "Failed"}
    BY <1>2, UpdateRow
  <1>3. CASE create_pending(i)
    <2>1. [invoices[i] EXCEPT !.status = "Pending"].status = "Pending"
      BY <1>r DEF Row
    <2> QED BY <1>2, <1>3, <2>1 DEF create_pending
  <1>4. ASSUME NEW r \in Reasons, request_cancellation(i, r)
        PROVE  \A j \in Invoices : \/ invoices'[j].status = invoices[j].status
                                   \/ invoices'[j].status \in {"Pending", "Failed"}
    <2>1. [invoices[i] EXCEPT !.reason = r].status = invoices[i].status
      BY <1>r DEF Row
    <2> QED BY <1>2, <1>4, <2>1 DEF request_cancellation
  <1>5. CASE fail_permanently(i, n, attempts, body)
    <2>1. [invoices[i] EXCEPT !.status = "Failed", !.attempts = attempts,
                              !.error = body].status = "Failed"
      BY <1>r DEF Row
    <2> QED BY <1>2, <1>5, <2>1 DEF fail_permanently
  <1>6. CASE reschedule(i, n, attempts, body)
    <2>1. [invoices[i] EXCEPT !.attempts = attempts, !.error = body].status
            = invoices[i].status
      BY <1>r DEF Row
    <2> QED BY <1>2, <1>6, <2>1 DEF reschedule
  <1>7. CASE fail_poll(i, n, body) \/ fail_cancel(i, n, body)
    <2>1. [invoices[i] EXCEPT !.error = body].status = invoices[i].status
      BY <1>r DEF Row
    <2> QED BY <1>2, <1>7, <2>1 DEF fail_poll, fail_cancel
  <1>8. CASE DeadlinePasses(i)
    <2>1. [invoices[i] EXCEPT !.window = "past"].status = invoices[i].status
      BY <1>r DEF Row
    <2> QED BY <1>2, <1>8, <2>1 DEF DeadlinePasses
  <1> QED BY <1>1, <1>3, <1>4, <1>5, <1>6, <1>7, <1>8

Unwritten(i) == invoices'[i].status = invoices[i].status

LEMMA SubmitWrites ==
  ASSUME IInv, AnswersAgree, SubmitFinish, NEW i \in Invoices
  PROVE  Unwritten(i) \/ Written(i, invoices[i], invoices'[i])
  <1>1. sub # Idle
    BY DEF SubmitFinish, SubmitSuccess, SubmitFailure, Idle
  <1>2. sub.inv \in Invoices /\ invoices[sub.inv] \in Row /\ RepoTypeOK
    BY <1>1, JobStatus DEF SubmitJob, IInv, TypeOK, RepoTypeOK
  <1>3. PICK j, n, u : j \in Invoices /\ j = sub.inv /\ n = sub.n /\ u = sub.uuid
    BY <1>2
  <1>4. CASE sub.answer = "accepted"
    <2> DEFINE row == [invoices[j] EXCEPT !.status = "Submitted", !.uuid = u,
                                          !.error = NoError]
    <2>1. row.status = "Submitted" /\ row.uuid = u
      BY <1>2, <1>3 DEF Row
    <2>2. Update(j, row)
      BY <1>3, <1>4 DEF SubmitFinish, SubmitSuccess, SubmitFailure,
                        complete_submission
    <2> HIDE DEF row
    <2>3. u # NoUuid => Registered(u, j)
      BY <1>3, <1>4 DEF AnswersAgree, SubmitAnswerAgrees
    <2> QED BY <1>2, <1>3, <2>1, <2>2, <2>3, UpdateRow DEF Unwritten, Written
  <1>5. CASE sub.answer # "accepted"
    <2>1. \E attempts, body : \/ fail_permanently(j, n, attempts, body)
                              \/ reschedule(j, n, attempts, body)
      BY <1>3, <1>5 DEF SubmitFinish, SubmitSuccess, SubmitFailure
    <2>2. \/ invoices'[i].status = invoices[i].status
          \/ invoices'[i].status \in {"Pending", "Failed"}
      BY <1>2, <1>3, <2>1, QuietTransactions
    <2> QED BY <2>2 DEF Unwritten, Written
  <1> QED BY <1>4, <1>5

LEMMA PollWrites ==
  ASSUME IInv, AnswersAgree, PollFinish, NEW i \in Invoices
  PROVE  Unwritten(i) \/ Written(i, invoices[i], invoices'[i])
  <1>1. pol # NoPoll
    <2>1. pol.answer # "idle"
      BY DEF PollFinish, PollDetails, PollFailure
    <2> QED BY <2>1 DEF NoPoll
  <1>2. /\ pol.inv \in Invoices /\ invoices[pol.inv] \in Row /\ RepoTypeOK
        /\ invoices[pol.inv].status = "Submitted" /\ pol.uuid \in Uuids
        /\ invoices[pol.inv].uuid = pol.uuid
    BY <1>1, JobStatus
       DEF PollJob, IInv, TypeOK, RepoTypeOK, JobsAreCurrent, PollJobIsCurrent
  <1>3. PICK j, n : j \in Invoices /\ j = pol.inv /\ n = pol.n
    BY <1>2
  <1>4. /\ pol.uuid # NoUuid
        /\ pol.answer = "Valid" => docs[invoices[j].uuid].status \in {"Valid", "Cancelled"}
        /\ pol.answer \in {"Invalid", "Cancelled"} =>
             docs[invoices[j].uuid].status = pol.answer
    BY <1>2, <1>3, NamesAssumption DEF AnswersAgree, PollAnswerAgrees
  <1>5. ASSUME NEW w, pol.answer = "Valid", mark_valid(j, n, w)
        PROVE  Written(j, invoices[j], invoices'[j])
               /\ \A k \in Invoices : k # j => Unwritten(k)
    <2> DEFINE row == [invoices[j] EXCEPT !.status = "Valid", !.window = w,
                                          !.error = NoError]
    <2>1. row.status = "Valid" /\ Update(j, row)
      BY <1>2, <1>3, <1>5 DEF Row, mark_valid
    <2> HIDE DEF row
    <2> QED BY <1>2, <1>3, <1>4, <1>5, <2>1, UpdateRow DEF Written, Unwritten
  <1>6. ASSUME NEW body, mark_invalid(j, n, body),
               pol.answer = "Invalid" \/ body.stage = "poll_exhausted"
        PROVE  Written(j, invoices[j], invoices'[j])
               /\ \A k \in Invoices : k # j => Unwritten(k)
    <2> DEFINE row == [invoices[j] EXCEPT !.status = "Invalid", !.error = body]
    <2>1. row.status = "Invalid" /\ row.error = body /\ Update(j, row)
      BY <1>2, <1>3, <1>6 DEF Row, mark_invalid
    <2> HIDE DEF row
    <2> QED BY <1>2, <1>3, <1>4, <1>6, <2>1, UpdateRow DEF Written, Unwritten
  <1>7. ASSUME pol.answer = "Cancelled", mark_cancelled_via_poll(j, n)
        PROVE  Written(j, invoices[j], invoices'[j])
               /\ \A k \in Invoices : k # j => Unwritten(k)
    <2> DEFINE row == [invoices[j] EXCEPT !.status = "Cancelled"]
    <2>1. row.status = "Cancelled" /\ Update(j, row)
      BY <1>2, <1>3, <1>7 DEF Row, mark_cancelled_via_poll
    <2> HIDE DEF row
    <2> QED BY <1>2, <1>3, <1>4, <1>7, <2>1, UpdateRow DEF Written, Unwritten
  <1>8. ASSUME NEW attempts, NEW body, NEW due,
               fail_poll(j, n, body) \/ reschedule_poll(j, n, attempts, due)
        PROVE  Unwritten(i) \/ Written(i, invoices[i], invoices'[i])
    BY <1>2, <1>3, <1>8, QuietTransactions DEF Unwritten, Written
  <1>9. Body("poll_exhausted").stage = "poll_exhausted"
    BY DEF Body
  <1>10. CASE pol.answer = "Submitted"
    <2>1. StillSubmitted
      BY <1>10 DEF PollFinish, PollDetails, PollFailure
    <2> QED BY <1>3, <1>6, <1>8, <1>9, <2>1 DEF StillSubmitted
  <1>11. CASE pol.answer # "Submitted"
    BY <1>3, <1>5, <1>6, <1>7, <1>8, <1>11
       DEF PollFinish, PollDetails, PollFailure
  <1> QED BY <1>10, <1>11

LEMMA CancelWrites ==
  ASSUME IInv, AnswersAgree, CancelFinish, NEW i \in Invoices
  PROVE  Unwritten(i) \/ Written(i, invoices[i], invoices'[i])
  <1>1. can # NoCancel
    BY DEF CancelFinish, NoCancel
  <1>2. /\ can.inv \in Invoices /\ invoices[can.inv] \in Row /\ RepoTypeOK
        /\ invoices[can.inv].status = "Valid" /\ can.uuid \in Uuids
        /\ invoices[can.inv].uuid = can.uuid
        /\ invoices[can.inv].reason = can.reason
    BY <1>1, JobStatus
       DEF CancelJob, IInv, TypeOK, RepoTypeOK, JobsAreCurrent, CancelJobIsCurrent
  <1>3. PICK j, n : j \in Invoices /\ j = can.inv /\ n = can.n
    BY <1>2
  <1>4. CASE can.answer = "cancelled"
    <2> DEFINE row == [invoices[j] EXCEPT !.status = "Cancelled", !.error = NoError]
    <2>1. row.status = "Cancelled" /\ Update(j, row)
      BY <1>2, <1>3, <1>4 DEF Row, CancelFinish, complete_cancel
    <2> HIDE DEF row
    <2>2. /\ invoices[j].uuid # NoUuid
          /\ docs[invoices[j].uuid].status = "Cancelled"
          /\ docs[invoices[j].uuid].reason = invoices[j].reason
      BY <1>2, <1>3, <1>4, NamesAssumption DEF AnswersAgree, CancelAnswerAgrees
    <2> QED BY <1>2, <1>3, <2>1, <2>2, UpdateRow DEF Written, Unwritten
  <1>5. CASE can.answer # "cancelled"
    <2>1. \E attempts, body : \/ fail_cancel(j, n, body)
                              \/ reschedule_cancel(j, n, attempts)
      BY <1>3, <1>5 DEF CancelFinish, CancelFailure
    <2>2. \/ invoices'[i].status = invoices[i].status
          \/ invoices'[i].status \in {"Pending", "Failed"}
      BY <1>2, <1>3, <2>1, QuietTransactions
    <2> QED BY <2>2 DEF Unwritten, Written
  <1> QED BY <1>4, <1>5

LEMMA EveryWrite ==
  ASSUME IInv, AnswersAgree, [Next]_vars, NEW i \in Invoices
  PROVE  Unwritten(i) \/ Written(i, invoices[i], invoices'[i])
  <1>t. RepoTypeOK
    BY DEF IInv, TypeOK
  <1>1. CASE UNCHANGED repoVars
    BY <1>1 DEF Unwritten, repoVars
  <1>2. ASSUME NEW j \in Invoices, PerInvoice(j)
        PROVE  Unwritten(i) \/ Written(i, invoices[i], invoices'[i])
    <2>1. \/ UNCHANGED repoVars
          \/ create_pending(j) \/ \E r \in Reasons : request_cancellation(j, r)
          \/ \E n, attempts, body : fail_permanently(j, n, attempts, body)
          \/ \E n, attempts, due : reschedule_poll(j, n, attempts, due)
          \/ \E n, body : fail_cancel(j, n, body)
          \/ DeadlinePasses(j) \/ \E e \in outbox : Elapse(e)
      BY <1>2 DEF PerInvoice, submit_invoice, cancel_invoice, SubmitterLoads,
           SubmitLoad, PollerLoads, PollLoad, CancellerLoads, CancelLoad,
           BackoffEnds, WindowCloses
    <2>2. UNCHANGED repoVars \/
            \/ invoices'[i].status = invoices[i].status
            \/ invoices'[i].status \in {"Pending", "Failed"}
      BY <1>t, <2>1, QuietTransactions
    <2> QED BY <1>1, <2>2 DEF Unwritten, Written
  <1>3. CASE Worker
    <2>1. UNCHANGED repoVars \/ SubmitFinish \/ PollFinish \/ CancelFinish
      BY <1>3 DEF Worker, SubmitterCalls, SubmitAccepted, SubmitRejected,
           SubmitRefused, SubmitterFinishes, PollerCalls, PollCall, PollerFinishes,
           CancellerCalls, CancelAccepted, CancelRefused, CancellerFinishes
    <2> QED BY <1>1, <2>1, SubmitWrites, PollWrites, CancelWrites
  <1>4. CASE LhdnActs \/ Faulty \/ UNCHANGED vars
    BY <1>1, <1>4 DEF LhdnActs, Faulty, LosesSubmitAnswer, SubmitInterrupted,
         LosesCancelAnswer, CancelInterrupted, DbError, Crash, vars, repoVars
  <1> QED BY <1>2, <1>3, <1>4 DEF Next

-----------------------------------------------------------------------------
(* The induction.                                                          *)

LEMMA RowsStep ==
  ASSUME IInv, UuidInv, AgreeInv, [Next]_vars
  PROVE  RowsAgree'
  <1>t. /\ TypeOK /\ RepoTypeOK /\ RepoTypeOK' /\ LhdnTypeOK
        /\ RowsAgree /\ AnswersAgree /\ CancelsWereAsked
    BY SafetyStep DEF IInv, TypeOK, AgreeInv
  <1>1. CASE UNCHANGED repoVars
    BY <1>1, <1>t, RowsForward, DocsAdvance DEF repoVars
  <1>2. ASSUME UNCHANGED docs, NEW i \in Invoices, NEW row, StoreMove(i, row)
        PROVE  RowsAgree'
    <2>1. /\ invoices'[i] = row
          /\ \A j \in Invoices : j # i => invoices'[j] = invoices[j]
      BY <1>t, <1>2, UpdateRow DEF StoreMove
    <2>2. row \in Row /\ invoices[i] \in Row
      BY <1>t, <2>1 DEF RepoTypeOK
    <2>3. Unwritten(i) \/ Written(i, invoices[i], row)
      BY <1>t, <2>1, EveryWrite
    <2>4. Agrees(i, invoices[i])
      BY <1>t DEF RowsAgree
    <2>5. CASE Stays(i, row)
      <3>1. row.status = "Invalid" => row.error = invoices[i].error
        BY <2>2, <2>5 DEF Stays, Decided, Row
      <3>2. Agrees(i, row)
        BY <2>4, <2>5, <3>1 DEF Stays, SameDocument, Agrees
      <3> QED BY <1>2, <1>t, <2>1, <3>2 DEF RowsAgree, Agrees, Registered
    <2>6. CASE SubmitMove(i, row)
      <3>1. Agrees(i, row)
        BY <2>1, <2>3, <2>4, <2>6
           DEF SubmitMove, Goes, SameDocument, Agrees, Written, Unwritten
      <3> QED BY <1>2, <1>t, <2>1, <3>1 DEF RowsAgree, Agrees, Registered
    <2>7. CASE PollMove(i, row)
      <3>1. /\ row.uuid = invoices[i].uuid /\ row.reason = NoReason
            /\ invoices[i].status = "Submitted"
        BY <2>4, <2>7 DEF PollMove, Goes, SameDocument, Agrees
      <3>2. row.uuid # NoUuid => docs[row.uuid].reason = NoReason
        <4>1. row.uuid # NoUuid => row.uuid \in Uuids /\ Registered(row.uuid, i)
          BY <2>2, <2>4, <3>1 DEF Row, Agrees
        <4> QED BY <1>t, <3>1, <4>1 DEF CancelsWereAsked, Asked, Registered
      <3>3. Agrees(i, row)
        BY <2>1, <2>3, <2>4, <2>7, <3>1, <3>2
           DEF PollMove, Agrees, Written, Unwritten
      <3> QED BY <1>2, <1>t, <2>1, <3>3 DEF RowsAgree, Agrees, Registered
    <2>8. CASE CancelMove(i, row)
      <3>1. Agrees(i, row)
        BY <2>1, <2>3, <2>4, <2>8
           DEF CancelMove, Goes, SameDocument, Agrees, Written, Unwritten
      <3> QED BY <1>2, <1>t, <2>1, <3>1 DEF RowsAgree, Agrees, Registered
    <2> QED BY <1>2, <2>5, <2>6, <2>7, <2>8 DEF StoreMove
  <1> QED BY <1>t, <1>1, <1>2, DocsMove, EveryStep DEF Moves

LEMMA AgreeInit == Init => AgreeInv
  <1> SUFFICES ASSUME Init PROVE AgreeInv
    OBVIOUS
  <1>1. RowsAgree
    BY DEF Init, RepoInit, AbsentRow, RowsAgree, Agrees
  <1>2. AnswersAgree
    BY DEF Init, Idle, NoPoll, NoCancel, AnswersAgree, SubmitAnswerAgrees,
           PollAnswerAgrees, CancelAnswerAgrees
  <1>3. CancelsWereAsked
    BY DEF Init, LhdnInit, CancelsWereAsked
  <1> QED BY <1>1, <1>2, <1>3 DEF AgreeInv

LEMMA AgreeStep == IInv /\ UuidInv /\ AgreeInv /\ [Next]_vars => AgreeInv'
  <1> SUFFICES ASSUME IInv, UuidInv, AgreeInv, [Next]_vars PROVE AgreeInv'
    OBVIOUS
  <1>1. RowsAgree'
    BY RowsStep
  <1>2. AnswersAgree'
    BY AnswersStep DEF IInv, AgreeInv
  <1>3. CancelsWereAsked'
    BY CancelsStep DEF AgreeInv
  <1> QED BY <1>1, <1>2, <1>3 DEF AgreeInv

-----------------------------------------------------------------------------
(* Every document of an invoice was paid for.                              *)

\* LHDN accepted the invoice, and the bridge knows it.
Delivered(i) ==
  \/ invoices[i].status \in {"Submitted", "Valid", "Invalid", "Cancelled"}
  \/ sub.answer = "accepted" /\ sub.inv = i

\* The documents LHDN has of the invoice, and those it may still register.
Sent(i) == Cardinality(DocumentsOf(i)) + lateSubmits[i]

SentInv ==
  \A i \in Invoices :
    /\ IsFiniteSet(DocumentsOf(i))
    /\ Delivered(i) => Sent(i) <= faults + 1
    /\ ~Delivered(i) => Sent(i) <= faults

\* A submission goes late only by a fault, while its answer is awaited.
GoesLate ==
  /\ sub.answer = "awaited" /\ faults' = faults + 1
  /\ lateSubmits' = [lateSubmits EXCEPT ![sub.inv] = @ + 1]
  /\ UNCHANGED docs

LEMMA Sends ==
  ASSUME [Next]_vars
  PROVE  \/ UNCHANGED <<docs, lateSubmits>>
         \/ UNCHANGED lateSubmits /\ \E u \in Uuids : Judges(u)
         \/ /\ UNCHANGED lateSubmits
            /\ \E u \in Uuids, r \in Reasons \cup {NoReason} : CancelDocument(u, r)
         \/ SubmitAccepted
         \/ \E u \in Uuids, i \in Invoices : LateSubmit(u, i)
         \/ GoesLate
         \/ /\ can.answer = "awaited" /\ UNCHANGED lateSubmits
            /\ CancelDocument(can.uuid, can.reason)
  <1>1. CASE UNCHANGED vars
    BY <1>1 DEF vars, lhdnVars
  <1>2. CASE \E i \in Invoices : PerInvoice(i)
    BY <1>2 DEF PerInvoice, submit_invoice, cancel_invoice, SubmitterLoads,
         SubmitLoad, PollerLoads, PollLoad, CancellerLoads, CancelLoad, BackoffEnds,
         WindowCloses, lhdnVars
  <1>3. CASE Worker
    BY <1>3 DEF Worker, SubmitterCalls, SubmitRejected, SubmitRefused,
         SubmitterFinishes, SubmitFinish, PollerCalls, PollCall, PollerFinishes,
         PollFinish, CancellerCalls, CancelAccepted, CancelRefused,
         CancellerFinishes, CancelFinish, lhdnVars
  <1>4. CASE LhdnActs
    BY <1>4 DEF LhdnActs, Decides, LhdnCancels, LateCancel, Judges
  <1>5. CASE Faulty
    BY <1>5 DEF Faulty, Fault, LosesSubmitAnswer, SubmitInterrupted, SubmitGoesLate,
         LosesCancelAnswer, CancelInterrupted, CancelGoesLate, DbError, Crash,
         lhdnVars, GoesLate
  <1> QED BY <1>1, <1>2, <1>3, <1>4, <1>5 DEF Next

\* What is delivered stays so, but for a fault.
LEMMA DeliveredStays ==
  ASSUME IInv, [Next]_vars, NEW i \in Invoices
  PROVE  /\ faults \in Nat /\ faults' \in {faults, faults + 1}
         /\ Delivered(i) => Delivered(i)' \/ faults' = faults + 1
  <1>1. faults \in Nat /\ MaxFaults \in Nat
    BY BridgeAssumption DEF IInv, TypeOK
  <1>2. faults' \in {faults, faults + 1}
    BY DEF Next, PerInvoice, submit_invoice, cancel_invoice, SubmitterLoads,
       PollerLoads, CancellerLoads, BackoffEnds, WindowCloses, Worker,
       SubmitterCalls, SubmitterFinishes, PollerCalls, PollerFinishes,
       CancellerCalls, CancellerFinishes, LhdnActs, Faulty, Fault,
       LosesSubmitAnswer, LosesCancelAnswer, DbError, Crash, vars
  <1>3. ASSUME invoices[i].status \in {"Submitted", "Valid", "Invalid", "Cancelled"}
        PROVE  Delivered(i)'
    <2>1. CASE UNCHANGED repoVars
      BY <1>3, <2>1 DEF Delivered, repoVars
    <2>2. ASSUME NEW j \in Invoices, NEW row, StoreMove(j, row)
          PROVE  Delivered(i)'
      <3>1. /\ invoices'[j] = row
            /\ \A k \in Invoices : k # j => invoices'[k] = invoices[k]
        BY <2>2, UpdateRow DEF StoreMove, IInv, TypeOK
      <3>2. j = i => row.status \in {"Submitted", "Valid", "Invalid", "Cancelled"}
        BY <1>3, <2>2 DEF StoreMove, Stays, SubmitMove, PollMove, CancelMove, Goes
      <3> QED BY <1>3, <3>1, <3>2 DEF Delivered
    <2> QED BY <2>1, <2>2, EveryStep DEF Moves
  <1>4. ASSUME sub.answer = "accepted", sub.inv = i
        PROVE  Delivered(i)' \/ faults' = faults + 1
    <2>1. sub # Idle /\ invoices[i] \in Row /\ RepoTypeOK
      BY <1>4 DEF Idle, IInv, TypeOK, RepoTypeOK
    <2>2. sub' = sub \/ SubmitterFinishes \/ faults' = faults + 1
      BY <1>4, <2>1 DEF Next, PerInvoice, submit_invoice, cancel_invoice,
         SubmitterLoads, SubmitLoad, PollerLoads, CancellerLoads, BackoffEnds,
         WindowCloses, Worker, SubmitterCalls, SubmitAccepted, SubmitRejected,
         SubmitRefused, PollerCalls, PollerFinishes, CancellerCalls,
         CancellerFinishes, LhdnActs, Faulty, Fault, LosesSubmitAnswer,
         LosesCancelAnswer, DbError, Crash, jobs, vars
    <2>3. CASE SubmitterFinishes
      <3> DEFINE row == [invoices[i] EXCEPT !.status = "Submitted", !.uuid = sub.uuid,
                                            !.error = NoError]
      <3>1. row.status = "Submitted"
        BY <2>1 DEF Row
      <3>2. Update(i, row)
        BY <1>4, <2>3 DEF SubmitterFinishes, SubmitFinish, SubmitSuccess,
                          SubmitFailure, complete_submission
      <3> HIDE DEF row
      <3> QED BY <2>1, <3>1, <3>2, UpdateRow DEF Delivered
    <2> QED BY <1>4, <2>2, <2>3 DEF Delivered
  <1> QED BY <1>1, <1>2, <1>3, <1>4 DEF Delivered

LEMMA SameDocuments ==
  ASSUME LhdnTypeOK, NEW v \in Uuids,
         \A u \in Uuids : u # v => docs'[u] = docs[u],
         docs[v] # Unused, docs'[v] # Unused, docs'[v].inv = docs[v].inv
  PROVE  \A i \in Invoices : DocumentsOf(i)' = DocumentsOf(i)
  BY DEF DocumentsOf

LEMMA OneMoreDocument ==
  ASSUME LhdnTypeOK, NEW v \in Uuids, NEW j \in Invoices, Register(v, j),
         NEW i \in Invoices, IsFiniteSet(DocumentsOf(i))
  PROVE  /\ IsFiniteSet(DocumentsOf(i)')
         /\ i # j => DocumentsOf(i)' = DocumentsOf(i)
         /\ i = j => Cardinality(DocumentsOf(i)') = Cardinality(DocumentsOf(i)) + 1
  <1>1. /\ docs[v] = Unused /\ Registered(v, j)'
        /\ \A u \in Uuids : u # v => docs'[u] = docs[u]
    BY RegisterAdvances
  <1>2. i # j => DocumentsOf(i)' = DocumentsOf(i)
    BY <1>1 DEF DocumentsOf, Registered
  <1>3. i = j => DocumentsOf(i)' = DocumentsOf(i) \cup {v} /\ v \notin DocumentsOf(i)
    BY <1>1 DEF DocumentsOf, Registered
  <1> QED BY <1>2, <1>3, FS_AddElement

LEMMA SentStep ==
  ASSUME IInv, SentInv, [Next]_vars
  PROVE  SentInv'
  <1> SUFFICES ASSUME NEW i \in Invoices
               PROVE  /\ IsFiniteSet(DocumentsOf(i)')
                      /\ Delivered(i)' => Sent(i)' <= faults' + 1
                      /\ ~Delivered(i)' => Sent(i)' <= faults'
    BY DEF SentInv
  <1>t. LhdnTypeOK /\ lateSubmits \in [Invoices -> Nat] /\ lateSubmits[i] \in Nat
    BY DEF IInv, TypeOK, LhdnTypeOK
  <1>f. /\ faults \in Nat /\ faults' \in {faults, faults + 1}
        /\ Delivered(i) => Delivered(i)' \/ faults' = faults + 1
    BY DeliveredStays
  <1>s. /\ IsFiniteSet(DocumentsOf(i))
        /\ Delivered(i) => Sent(i) <= faults + 1
        /\ ~Delivered(i) => Sent(i) <= faults
    BY DEF SentInv
  <1>c. Cardinality(DocumentsOf(i)) \in Nat
    BY <1>s, FS_CardinalityType
  <1>1. ASSUME DocumentsOf(i)' = DocumentsOf(i), lateSubmits'[i] = lateSubmits[i]
        PROVE  /\ IsFiniteSet(DocumentsOf(i)')
               /\ Delivered(i)' => Sent(i)' <= faults' + 1
               /\ ~Delivered(i)' => Sent(i)' <= faults'
    <2>1. Sent(i)' = Sent(i) /\ Sent(i) \in Nat
      BY <1>t, <1>c, <1>1 DEF Sent
    <2> QED BY <1>f, <1>s, <1>1, <2>1
  <1>2. CASE UNCHANGED <<docs, lateSubmits>>
    BY <1>1, <1>2 DEF DocumentsOf
  <1>3. ASSUME NEW u \in Uuids, Judges(u), UNCHANGED lateSubmits
        PROVE  DocumentsOf(i)' = DocumentsOf(i)
    <2>1. /\ docs[u] # Unused
          /\ \A v \in Uuids : v # u => docs'[v] = docs[v]
      BY <1>t, <1>3, DocumentShape DEF Judges, LhdnTypeOK
    <2> QED BY <1>t, <1>3, <2>1, JudgesAdvances, SameDocuments DEF Advances
  <1>4. ASSUME NEW u \in Uuids, NEW r \in Reasons \cup {NoReason},
               CancelDocument(u, r), UNCHANGED lateSubmits
        PROVE  DocumentsOf(i)' = DocumentsOf(i)
    BY <1>t, <1>4, CancelAdvances, SameDocuments DEF Advances
  <1>5. CASE SubmitAccepted
    <2>1. sub # Idle
      BY <1>5 DEF SubmitAccepted, Idle
    <2>2. sub \in SubmitJob /\ invoices[sub.inv].status = "Pending"
      BY <2>1, JobStatus
    <2>3. PICK u \in Uuids, j \in Invoices : j = sub.inv /\ Register(u, j)
      BY <1>5, <2>2 DEF SubmitAccepted, SubmitJob
    <2>4. lateSubmits' = lateSubmits
      BY <1>5 DEF SubmitAccepted
    <2>5. CASE i = j
      <3>1. ~Delivered(i)
        BY <1>5, <2>2, <2>3, <2>5 DEF SubmitAccepted, Delivered
      <3>2. Delivered(i)'
        <4>1. sub'.answer = "accepted" /\ sub'.inv = sub.inv
          BY <1>5, <2>2 DEF SubmitAccepted, SubmitAnswered, SubmitJob
        <4> QED BY <2>3, <2>5, <4>1 DEF Delivered
      <3>3. IsFiniteSet(DocumentsOf(i)') /\ Sent(i)' = Sent(i) + 1 /\ Sent(i) \in Nat
        BY <1>t, <1>s, <1>c, <2>3, <2>4, <2>5, OneMoreDocument DEF Sent
      <3> QED BY <1>f, <1>s, <3>1, <3>2, <3>3
    <2>6. CASE i # j
      <3>1. DocumentsOf(i)' = DocumentsOf(i)
        BY <1>t, <1>s, <2>3, <2>6, OneMoreDocument
      <3> QED BY <1>1, <2>4, <3>1
    <2> QED BY <2>5, <2>6
  <1>6. ASSUME NEW u \in Uuids, NEW j \in Invoices, LateSubmit(u, j)
        PROVE  /\ IsFiniteSet(DocumentsOf(i)')
               /\ Delivered(i)' => Sent(i)' <= faults' + 1
               /\ ~Delivered(i)' => Sent(i)' <= faults'
    <2>1. /\ Register(u, j)
          /\ lateSubmits' = [lateSubmits EXCEPT ![j] = @ - 1]
      BY <1>6 DEF LateSubmit
    <2>2. CASE i = j
      <3>1. IsFiniteSet(DocumentsOf(i)') /\ Sent(i)' = Sent(i) /\ Sent(i) \in Nat
        BY <1>t, <1>s, <1>c, <2>1, <2>2, OneMoreDocument DEF Sent
      <3> QED BY <1>f, <1>s, <3>1
    <2>3. CASE i # j
      <3>1. DocumentsOf(i)' = DocumentsOf(i) /\ lateSubmits'[i] = lateSubmits[i]
        BY <1>t, <1>s, <2>1, <2>3, OneMoreDocument
      <3> QED BY <1>1, <3>1
    <2> QED BY <2>2, <2>3
  <1>7. CASE GoesLate
    <2>1. sub # Idle
      BY <1>7 DEF GoesLate, Idle
    <2>2. sub \in SubmitJob /\ invoices[sub.inv].status = "Pending"
      BY <2>1, JobStatus
    <2>3. DocumentsOf(i)' = DocumentsOf(i)
      BY <1>7 DEF GoesLate, DocumentsOf
    <2>4. CASE i = sub.inv
      <3>1. ~Delivered(i)
        BY <1>7, <2>2, <2>4 DEF GoesLate, Delivered
      <3>2. lateSubmits'[i] = lateSubmits[i] + 1
        BY <1>t, <1>7, <2>4 DEF GoesLate
      <3>3. Sent(i)' = Sent(i) + 1 /\ Sent(i) \in Nat
        BY <1>t, <1>c, <2>3, <3>2 DEF Sent
      <3> QED BY <1>f, <1>s, <1>7, <2>3, <3>1, <3>3 DEF GoesLate
    <2>5. CASE i # sub.inv
      BY <1>1, <1>t, <1>7, <2>3, <2>5 DEF GoesLate
    <2> QED BY <2>4, <2>5
  <1>8. CASE /\ can.answer = "awaited" /\ UNCHANGED lateSubmits
             /\ CancelDocument(can.uuid, can.reason)
    <2>1. PICK u \in Uuids, r \in Reasons \cup {NoReason} :
            u = can.uuid /\ r = can.reason
      BY <1>8 DEF IInv, TypeOK, CancellerTypeOK, NoCancel, CancelJob
    <2> QED BY <1>1, <1>4, <1>8, <2>1
  <1> QED BY <1>1, <1>2, <1>3, <1>4, <1>5, <1>6, <1>7, <1>8, Sends

LEMMA SentInit == Init => SentInv
  <1> SUFFICES ASSUME Init, NEW i \in Invoices
               PROVE  /\ IsFiniteSet(DocumentsOf(i))
                      /\ Delivered(i) => Sent(i) <= faults + 1
                      /\ ~Delivered(i) => Sent(i) <= faults
    BY DEF SentInv
  <1>1. DocumentsOf(i) = {}
    BY DEF Init, LhdnInit, DocumentsOf
  <1>2. IsFiniteSet({}) /\ Cardinality({}) = 0
    BY FS_EmptySet
  <1>3. Sent(i) = 0 /\ faults = 0
    BY <1>1, <1>2 DEF Init, LhdnInit, Sent
  <1> QED BY <1>1, <1>2, <1>3

-----------------------------------------------------------------------------
(* The theorems.                                                           *)

LEMMA AgreeInvAgrees == IInv /\ AgreeInv /\ SentInv => StatusAgreesWithLhdn
  <1> SUFFICES ASSUME IInv, AgreeInv, SentInv PROVE StatusAgreesWithLhdn
    OBVIOUS
  <1>1. ASSUME NEW i \in Invoices, invoices[i].status = "Failed", faults = 0
        PROVE  DocumentsOf(i) = {}
    <2>1. ~(sub.answer = "accepted" /\ sub.inv = i)
      <3>1. sub.answer = "accepted" => sub # Idle
        BY DEF Idle
      <3> QED BY <1>1, <3>1, JobStatus
    <2>2. ~Delivered(i)
      BY <1>1, <2>1 DEF Delivered
    <2>3. IsFiniteSet(DocumentsOf(i)) /\ Sent(i) <= 0 /\ lateSubmits[i] \in Nat
      BY <1>1, <2>2 DEF SentInv, IInv, TypeOK, LhdnTypeOK
    <2>4. Cardinality(DocumentsOf(i)) = 0
      BY <2>3, FS_CardinalityType DEF Sent
    <2> QED BY <2>3, <2>4, FS_EmptySet
  <1>2. ASSUME NEW i \in Invoices PROVE Agrees(i, invoices[i])
    BY DEF AgreeInv, RowsAgree
  <1> QED BY <1>1, <1>2 DEF StatusAgreesWithLhdn, Agrees, Registered

LEMMA SentInvBounds == IInv /\ SentInv => DuplicatesNeedFaults
  <1> SUFFICES ASSUME IInv, SentInv, NEW i \in Invoices
               PROVE  Cardinality(DocumentsOf(i)) <= 1 + faults
    BY DEF DuplicatesNeedFaults
  <1>1. IsFiniteSet(DocumentsOf(i)) /\ lateSubmits[i] \in Nat /\ faults \in Nat
    BY BridgeAssumption DEF SentInv, IInv, TypeOK, LhdnTypeOK
  <1>2. Cardinality(DocumentsOf(i)) \in Nat
    BY <1>1, FS_CardinalityType
  <1>3. Sent(i) <= faults + 1
    BY <1>1, <1>2 DEF SentInv, Sent
  <1> QED BY <1>1, <1>2, <1>3 DEF Sent

\* What the store says of a document is what LHDN has: the uuid is of a document
\* of this invoice, a decided status agrees with it, and an invoice is Cancelled
\* with a reason only if LHDN cancelled it for that reason, however late the
\* answers were written; without faults a Failed invoice left no document behind.
THEOREM LhdnAgrees == Spec => []StatusAgreesWithLhdn
  <1>1. Init => UuidInv
    BY DEF Init, RepoInit, AbsentRow, UuidInv
  <1>2. IInv /\ SentInv /\ [Next]_vars => SentInv'
    BY SentStep
  <1> QED BY <1>1, <1>2, SafetyInit, SafetyStep, UuidStep, AgreeInit, AgreeStep,
             SentInit, AgreeInvAgrees, PTL DEF Spec

\* Retries alone never register an invoice twice: the documents LHDN has of an
\* invoice, beyond the first, are at most the faults.
THEOREM DuplicatesPaidFor == Spec => []DuplicatesNeedFaults
  <1>1. IInv /\ SentInv /\ [Next]_vars => SentInv'
    BY SentStep
  <1> QED BY <1>1, SafetyInit, SafetyStep, SentInit, SentInvBounds, PTL DEF Spec
=============================================================================
