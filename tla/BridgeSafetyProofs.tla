-------------------------- MODULE BridgeSafetyProofs -------------------------
(***************************************************************************)
(* Theorems about Bridge for every set of invoices, uuids and reasons and  *)
(* every limit.  First the type invariant, transaction by transaction of   *)
(* the store and then step by step.  Then:                                 *)
(*                                                                         *)
(* The outbox and the rows never drift apart, and no worker ever writes    *)
(* from a stale job: OneEventPerInvoice, OutboxMatchesStatus and           *)
(* JobsAreCurrent hold in every state, for every value of the constants.   *)
(*                                                                         *)
(* None of the three is inductive.  What makes the induction go through is *)
(* OutboxInv, about the store alone: an invoice has one event, its kind is *)
(* the one its status calls for, so a worker of one kind cannot touch the  *)
(* invoice another one has a job for.  Each transaction of the store is    *)
(* shown to keep it and to leave the other invoices alone (Frame); the     *)
(* jobs then follow because two jobs are never on the same invoice.        *)
(***************************************************************************)
EXTENDS Bridge, TLAPS

-----------------------------------------------------------------------------
(* Types.                                                                  *)

\* Whatever status LHDN answers with, the client returns a declared variant.
LEMMA CallErrorsType == CallErrors \subseteq Variant
  <1>1. ASSUME NEW s \in ErrorStatuses PROVE classify_error(s) \in Variant
    BY DEF classify_error, Variant
  <1>2. LocalErrors \subseteq Variant
    BY LhdnAssumption DEF Variant
  <1> QED BY <1>1, <1>2 DEF CallErrors

LEMMA BodyTypes ==
  /\ NoError \in ErrorBody
  /\ \A stage \in Stage : Body(stage) \in ErrorBody
  /\ \A stage \in Stage, err \in Variant \cup {"none"} :
       VariantBody(stage, err) \in ErrorBody
  BY DEF NoError, Body, VariantBody, ErrorBody, Stage

\* A transaction on event n of invoice i keeps the tables well typed.
LEMMA RepoTypes ==
  ASSUME RepoTypeOK, NEW i \in Invoices, NEW n \in Nat,
         NEW attempts \in Nat, NEW body \in ErrorBody
  PROVE  /\ create_pending(i) => RepoTypeOK'
         /\ \A r \in Reasons : request_cancellation(i, r) => RepoTypeOK'
         /\ \A u \in Uuids \cup {NoUuid} :
              complete_submission(i, n, u) => RepoTypeOK'
         /\ fail_permanently(i, n, attempts, body) => RepoTypeOK'
         /\ reschedule(i, n, attempts, body) => RepoTypeOK'
         /\ \A w \in {"open", "past"} : mark_valid(i, n, w) => RepoTypeOK'
         /\ mark_invalid(i, n, body) => RepoTypeOK'
         /\ mark_cancelled_via_poll(i, n) => RepoTypeOK'
         /\ fail_poll(i, n, body) => RepoTypeOK'
         /\ \A due \in BOOLEAN :
              reschedule_poll(i, n, attempts, due) => RepoTypeOK'
         /\ complete_cancel(i, n) => RepoTypeOK'
         /\ fail_cancel(i, n, body) => RepoTypeOK'
         /\ reschedule_cancel(i, n, attempts) => RepoTypeOK'
  <1> USE DEF RepoTypeOK
  <1>a. NoError \in ErrorBody
    BY BodyTypes
  <1>b. /\ \A k \in Kind : NewEvent(i, k) \in Event
        /\ Without(i, n) \subseteq Event
        /\ \A due \in BOOLEAN : Rescheduled(i, n, attempts, due) \subseteq Event
    BY DEF NewEvent, Without, Rescheduled, Event
  <1>c. NextIdOf(i) => nextId' \in [Invoices -> Nat]
    BY DEF NextIdOf
  <1>d. \A row \in Row : Update(i, row) => invoices' \in [Invoices -> Row]
    BY DEF Update
  <1>e. invoices[i] \in Row
    OBVIOUS
  <1>1. create_pending(i) => RepoTypeOK'
    <2>1. [invoices[i] EXCEPT !.status = "Pending"] \in Row
      BY <1>e DEF Row, Status
    <2> QED BY <2>1, <1>b, <1>c, <1>d DEF create_pending, Kind
  <1>2. \A r \in Reasons : request_cancellation(i, r) => RepoTypeOK'
    <2>1. \A r \in Reasons : [invoices[i] EXCEPT !.reason = r] \in Row
      BY <1>e DEF Row
    <2> QED BY <2>1, <1>b, <1>c, <1>d DEF request_cancellation, Kind
  <1>3. \A u \in Uuids \cup {NoUuid} :
          complete_submission(i, n, u) => RepoTypeOK'
    <2>1. \A u \in Uuids \cup {NoUuid} :
            [invoices[i] EXCEPT !.status = "Submitted", !.uuid = u,
                                !.error = NoError] \in Row
      BY <1>a, <1>e DEF Row, Status
    <2>2. Without(i, n) \cup {NewEvent(i, "poll")} \subseteq Event
      BY <1>b DEF Kind
    <2> QED BY <2>1, <2>2, <1>c, <1>d DEF complete_submission
  <1>4. fail_permanently(i, n, attempts, body) => RepoTypeOK'
    <2>1. [invoices[i] EXCEPT !.status = "Failed", !.attempts = attempts,
                              !.error = body] \in Row
      BY <1>e DEF Row, Status
    <2> QED BY <2>1, <1>b, <1>d DEF fail_permanently
  <1>5. reschedule(i, n, attempts, body) => RepoTypeOK'
    <2>1. [invoices[i] EXCEPT !.attempts = attempts, !.error = body] \in Row
      BY <1>e DEF Row
    <2> QED BY <2>1, <1>b, <1>d DEF reschedule
  <1>6. \A w \in {"open", "past"} : mark_valid(i, n, w) => RepoTypeOK'
    <2>1. \A w \in {"open", "past"} :
            [invoices[i] EXCEPT !.status = "Valid", !.window = w,
                                !.error = NoError] \in Row
      BY <1>a, <1>e DEF Row, Status, Window
    <2> QED BY <2>1, <1>b, <1>d DEF mark_valid
  <1>7. mark_invalid(i, n, body) => RepoTypeOK'
    <2>1. [invoices[i] EXCEPT !.status = "Invalid", !.error = body] \in Row
      BY <1>e DEF Row, Status
    <2> QED BY <2>1, <1>b, <1>d DEF mark_invalid
  <1>8. mark_cancelled_via_poll(i, n) => RepoTypeOK'
    <2>1. [invoices[i] EXCEPT !.status = "Cancelled"] \in Row
      BY <1>e DEF Row, Status
    <2> QED BY <2>1, <1>b, <1>d DEF mark_cancelled_via_poll
  <1>9. /\ fail_poll(i, n, body) => RepoTypeOK'
        /\ fail_cancel(i, n, body) => RepoTypeOK'
    <2>1. [invoices[i] EXCEPT !.error = body] \in Row
      BY <1>e DEF Row
    <2> QED BY <2>1, <1>b, <1>d DEF fail_poll, fail_cancel
  <1>10. /\ \A due \in BOOLEAN :
              reschedule_poll(i, n, attempts, due) => RepoTypeOK'
         /\ reschedule_cancel(i, n, attempts) => RepoTypeOK'
    BY <1>b DEF reschedule_poll, reschedule_cancel
  <1>11. complete_cancel(i, n) => RepoTypeOK'
    <2>1. [invoices[i] EXCEPT !.status = "Cancelled", !.error = NoError] \in Row
      BY <1>a, <1>e DEF Row, Status
    <2> QED BY <2>1, <1>b, <1>d DEF complete_cancel
  <1> QED BY <1>1, <1>2, <1>3, <1>4, <1>5, <1>6, <1>7, <1>8, <1>9, <1>10, <1>11

\* So does the clock.
LEMMA ClockTypes ==
  ASSUME RepoTypeOK, NEW i \in Invoices
  PROVE  /\ \A e \in outbox : Elapse(e) => RepoTypeOK'
         /\ DeadlinePasses(i) => RepoTypeOK'
  <1> USE DEF RepoTypeOK
  <1>1. \A e \in outbox : Elapse(e) => RepoTypeOK'
    <2>1. \A e \in outbox :
            Rescheduled(e.inv, e.n, e.attempts, TRUE) \subseteq Event
      BY DEF Rescheduled, Event
    <2> QED BY <2>1 DEF Elapse
  <1>2. DeadlinePasses(i) => RepoTypeOK'
    <2>1. [invoices[i] EXCEPT !.window = "past"] \in Row
      BY DEF Row, Window
    <2> QED BY <2>1 DEF DeadlinePasses, Update
  <1> QED BY <1>1, <1>2

THEOREM TypeInit == Init => TypeOK
  <1> SUFFICES ASSUME Init PROVE TypeOK
    OBVIOUS
  <1>1. RepoTypeOK
    BY BodyTypes DEF Init, RepoInit, RepoTypeOK, AbsentRow, Row, Status, Window
  <1>2. LhdnTypeOK
    BY DEF Init, LhdnInit, LhdnTypeOK
  <1> QED BY <1>1, <1>2, BridgeAssumption
          DEF Init, TypeOK, SubmitterTypeOK, PollerTypeOK, CancellerTypeOK

\* Whatever LHDN does, at once or late, leaves its side well typed.
LEMMA LhdnSideTypes ==
  ASSUME LhdnTypeOK, NEW u \in Uuids
  PROVE  /\ \A i \in Invoices :
              Register(u, i) => docs' \in [Uuids -> {Unused} \cup Document]
         /\ \A r \in Reasons \cup {NoReason} :
              CancelDocument(u, r) => docs' \in [Uuids -> {Unused} \cup Document]
         /\ Decides(u) \/ LhdnCancels(u) => LhdnTypeOK'
         /\ \A i \in Invoices : LateSubmit(u, i) => LhdnTypeOK'
         /\ \A r \in Reasons : LateCancel(u, r) => LhdnTypeOK'
  <1> USE DEF LhdnTypeOK
  <1>1. \A i \in Invoices :
          Register(u, i) => docs' \in [Uuids -> {Unused} \cup Document]
    BY DEF Register, Document
  <1>2. \A r \in Reasons \cup {NoReason} :
          CancelDocument(u, r) => docs' \in [Uuids -> {Unused} \cup Document]
    <2> SUFFICES ASSUME NEW r \in Reasons \cup {NoReason}, CancelDocument(u, r)
                 PROVE  docs' \in [Uuids -> {Unused} \cup Document]
      OBVIOUS
    <2>1. docs[u] \in Document
      BY DEF CancelDocument, Unused
    <2>2. [docs[u] EXCEPT !.status = "Cancelled", !.reason = r] \in Document
      BY <2>1 DEF Document
    <2>3. docs' = [docs EXCEPT ![u] =
                     [docs[u] EXCEPT !.status = "Cancelled", !.reason = r]]
      BY <2>1 DEF CancelDocument, Document
    <2> QED BY <2>2, <2>3
  <1>3. Decides(u) => LhdnTypeOK'
    <2> SUFFICES ASSUME Decides(u) PROVE LhdnTypeOK'
      OBVIOUS
    <2>1. docs[u] \in Document
      BY DEF Decides, Unused
    <2>2. \A v \in {"Valid", "Invalid"} : [docs[u] EXCEPT !.status = v] \in Document
      BY <2>1 DEF Document
    <2> QED BY <2>2 DEF Decides
  <1>4. \A i \in Invoices : LateSubmit(u, i) => LhdnTypeOK'
    BY <1>1 DEF LateSubmit
  <1>5. LhdnCancels(u) => LhdnTypeOK'
    BY <1>2 DEF LhdnCancels
  <1>6. \A r \in Reasons : LateCancel(u, r) => LhdnTypeOK'
    BY <1>2 DEF LateCancel
  <1> QED BY <1>1, <1>2, <1>3, <1>4, <1>5, <1>6

LEMMA SubmitterTypes ==
  ASSUME TypeOK,
         \/ \E i \in Invoices : SubmitterLoads(i)
         \/ SubmitterCalls \/ SubmitterFinishes \/ LosesSubmitAnswer
  PROVE  RepoTypeOK' /\ LhdnTypeOK' /\ SubmitterTypeOK'
  <1> USE DEF TypeOK
  <1>j. sub.answer # "idle" => sub \in SubmitJob
    BY DEF SubmitterTypeOK, Idle
  <1>1. ASSUME NEW i \in Invoices, SubmitterLoads(i)
        PROVE  RepoTypeOK' /\ LhdnTypeOK' /\ SubmitterTypeOK'
    <2>1. PICK e \in outbox : e.inv = i /\
            IF i \in Malformed
            THEN /\ fail_permanently(i, e.n, invoices[i].attempts,
                                     Body("build_signed_document"))
                 /\ UNCHANGED sub
            ELSE /\ sub' = [inv |-> i, n |-> e.n,
                            attempts |-> invoices[i].attempts,
                            answer |-> "awaited", uuid |-> NoUuid,
                            error |-> "none"]
                 /\ UNCHANGED repoVars
      BY <1>1 DEF SubmitterLoads, SubmitLoad, DueEvents
    <2>2. e.n \in Nat /\ invoices[i].attempts \in Nat
      BY DEF RepoTypeOK, Event, Row
    <2>3. Body("build_signed_document") \in ErrorBody
      BY BodyTypes DEF Stage
    <2>4. LhdnTypeOK'
      BY <1>1 DEF SubmitterLoads, SubmitLoad, lhdnVars, LhdnTypeOK
    <2>5. CASE i \in Malformed
      BY <2>1, <2>2, <2>3, <2>4, <2>5, RepoTypes DEF SubmitterTypeOK
    <2>6. CASE i \notin Malformed
      <3>1. sub' \in SubmitJob
        BY <2>1, <2>2, <2>6 DEF SubmitJob
      <3>2. RepoTypeOK'
        BY <2>1, <2>6 DEF repoVars, RepoTypeOK
      <3> QED BY <3>1, <3>2, <2>4 DEF SubmitterTypeOK
    <2> QED BY <2>5, <2>6
  <1>2. ASSUME SubmitterCalls \/ LosesSubmitAnswer
        PROVE  RepoTypeOK' /\ LhdnTypeOK' /\ SubmitterTypeOK'
    <2>1. sub \in SubmitJob /\ UNCHANGED repoVars
      BY <1>2, <1>j DEF SubmitterCalls, LosesSubmitAnswer, SubmitAccepted,
           SubmitRejected, SubmitRefused, SubmitInterrupted
    <2>2. RepoTypeOK'
      BY <2>1 DEF repoVars, RepoTypeOK
    <2>3. \A a \in {"accepted", "rejected", "error"}, u \in Uuids \cup {NoUuid},
             err \in Variant \cup {"none"} :
            SubmitAnswered(a, u, err) => SubmitterTypeOK'
      BY <2>1 DEF SubmitAnswered, SubmitJob, SubmitterTypeOK
    <2>4. CASE SubmitAccepted
      <3>1. SubmitterTypeOK'
        BY <2>3, <2>4 DEF SubmitAccepted
      <3>2. LhdnTypeOK'
        BY <2>1, <2>4, LhdnSideTypes DEF SubmitAccepted, SubmitJob, LhdnTypeOK
      <3> QED BY <2>2, <3>1, <3>2
    <2>5. CASE SubmitRejected \/ SubmitRefused
      <3>1. SubmitterTypeOK'
        BY <2>3, <2>5, CallErrorsType DEF SubmitRejected, SubmitRefused
      <3>2. LhdnTypeOK'
        BY <2>5 DEF SubmitRejected, SubmitRefused, lhdnVars, LhdnTypeOK
      <3> QED BY <2>2, <3>1, <3>2
    <2>6. CASE SubmitInterrupted
      <3>1. SubmitterTypeOK'
        BY <2>3, <2>6, CallErrorsType DEF SubmitInterrupted, UncertainErrors
      <3>2. LhdnTypeOK'
        BY <2>1, <2>6 DEF SubmitInterrupted, SubmitJob, SubmitGoesLate, LhdnTypeOK
      <3> QED BY <2>2, <3>1, <3>2
    <2> QED BY <1>2, <2>4, <2>5, <2>6 DEF SubmitterCalls, LosesSubmitAnswer
  <1>3. ASSUME SubmitterFinishes
        PROVE  RepoTypeOK' /\ LhdnTypeOK' /\ SubmitterTypeOK'
    <2>1. sub \in SubmitJob
      BY <1>3, <1>j DEF SubmitterFinishes, SubmitFinish, SubmitSuccess,
           SubmitFailure
    <2>2. /\ sub.inv \in Invoices /\ sub.n \in Nat /\ sub.attempts + 1 \in Nat
          /\ sub.uuid \in Uuids \cup {NoUuid}
          /\ invoices[sub.inv].attempts \in Nat
      BY <2>1 DEF SubmitJob, RepoTypeOK, Row
    <2>3. /\ Body("lhdn_rejection") \in ErrorBody
          /\ VariantBody("submit", sub.error) \in ErrorBody
      BY <2>1, BodyTypes DEF Stage, SubmitJob
    <2>4. SubmitSuccess => RepoTypeOK'
      BY <2>2, <2>3, RepoTypes DEF SubmitSuccess
    <2>5. SubmitFailure => RepoTypeOK'
      BY <2>2, <2>3, RepoTypes DEF SubmitFailure
    <2> QED BY <1>3, <2>4, <2>5 DEF SubmitterFinishes, SubmitFinish, lhdnVars,
              LhdnTypeOK, SubmitterTypeOK
  <1> QED BY <1>1, <1>2, <1>3

LEMMA PollerTypes ==
  ASSUME TypeOK,
         (\E i \in Invoices : PollerLoads(i)) \/ PollerCalls \/ PollerFinishes
  PROVE  RepoTypeOK' /\ LhdnTypeOK' /\ PollerTypeOK'
  <1> USE DEF TypeOK
  <1>j. pol.answer # "idle" => pol \in PollJob
    BY DEF PollerTypeOK, NoPoll
  <1>l. LhdnTypeOK'
    BY DEF PollerLoads, PollLoad, PollerCalls, PollCall, PollerFinishes,
         PollFinish, lhdnVars, LhdnTypeOK
  <1>1. ASSUME NEW i \in Invoices, PollerLoads(i)
        PROVE  RepoTypeOK' /\ PollerTypeOK'
    <2>1. PICK e \in outbox : e.inv = i /\
            IF invoices[i].uuid = NoUuid
            THEN /\ reschedule_poll(i, e.n, PollMax, TRUE)
                 /\ UNCHANGED pol
            ELSE /\ pol' = [inv |-> i, n |-> e.n, attempts |-> e.attempts,
                            uuid |-> invoices[i].uuid, answer |-> "awaited",
                            error |-> "none"]
                 /\ UNCHANGED repoVars
      BY <1>1 DEF PollerLoads, PollLoad, DueEvents
    <2>2. /\ e.n \in Nat /\ e.attempts \in Nat
          /\ invoices[i].uuid \in Uuids \cup {NoUuid}
      BY DEF RepoTypeOK, Event, Row
    <2>3. CASE invoices[i].uuid = NoUuid
      <3>1. PollMax \in Nat /\ NoError \in ErrorBody
        BY PollerAssumption, BodyTypes
      <3> QED BY <2>1, <2>2, <2>3, <3>1, RepoTypes DEF PollerTypeOK
    <2>4. CASE invoices[i].uuid # NoUuid
      <3>1. pol' \in PollJob
        BY <2>1, <2>2, <2>4 DEF PollJob
      <3>2. RepoTypeOK'
        BY <2>1, <2>4 DEF repoVars, RepoTypeOK
      <3> QED BY <3>1, <3>2 DEF PollerTypeOK
    <2> QED BY <2>3, <2>4
  <1>2. ASSUME PollerCalls PROVE RepoTypeOK' /\ PollerTypeOK'
    <2>1. pol \in PollJob /\ RepoTypeOK'
      BY <1>2, <1>j DEF PollerCalls, PollCall, repoVars, RepoTypeOK
    <2>2. pol.uuid \in Uuids
      BY <2>1 DEF PollJob
    <2>3. docs[pol.uuid] # Unused =>
            docs[pol.uuid].status \in {"Submitted", "Valid", "Invalid", "Cancelled"}
      BY <2>2 DEF LhdnTypeOK, Document
    <2>4. pol' \in PollJob
      BY <1>2, <2>1, <2>3, CallErrorsType DEF PollerCalls, PollCall, PollJob
    <2> QED BY <2>1, <2>4 DEF PollerTypeOK
  <1>3. ASSUME PollerFinishes PROVE RepoTypeOK' /\ PollerTypeOK'
    <2>1. pol \in PollJob
      BY <1>3, <1>j DEF PollerFinishes, PollFinish, PollDetails, PollFailure
    <2>2. pol.inv \in Invoices /\ pol.n \in Nat /\ pol.attempts + 1 \in Nat
      BY <2>1 DEF PollJob
    <2>3. /\ Body("lhdn_validation") \in ErrorBody
          /\ Body("poll_exhausted") \in ErrorBody
          /\ VariantBody("poll", pol.error) \in ErrorBody
      BY <2>1, BodyTypes DEF Stage, PollJob
    <2>4. StillSubmitted => RepoTypeOK'
      BY <2>2, <2>3, RepoTypes DEF StillSubmitted
    <2>5. PollDetails => RepoTypeOK'
      BY <2>2, <2>3, <2>4, RepoTypes DEF PollDetails
    <2>6. PollFailure => RepoTypeOK'
      BY <2>2, <2>3, RepoTypes DEF PollFailure
    <2> QED BY <1>3, <2>5, <2>6 DEF PollerFinishes, PollFinish, PollerTypeOK
  <1> QED BY <1>1, <1>2, <1>3, <1>l

LEMMA CancellerTypes ==
  ASSUME TypeOK,
         \/ \E i \in Invoices : CancellerLoads(i)
         \/ CancellerCalls \/ CancellerFinishes \/ LosesCancelAnswer
  PROVE  RepoTypeOK' /\ LhdnTypeOK' /\ CancellerTypeOK'
  <1> USE DEF TypeOK
  <1>j. can.answer # "idle" => can \in CancelJob
    BY DEF CancellerTypeOK, NoCancel
  <1>1. ASSUME NEW i \in Invoices, CancellerLoads(i)
        PROVE  RepoTypeOK' /\ LhdnTypeOK' /\ CancellerTypeOK'
    <2>1. PICK e \in outbox : e.inv = i /\
            IF check_preconditions(invoices[i])
            THEN /\ can' = [inv |-> i, n |-> e.n, attempts |-> e.attempts,
                            uuid |-> invoices[i].uuid,
                            reason |-> invoices[i].reason,
                            answer |-> "awaited", error |-> "none"]
                 /\ UNCHANGED repoVars
            ELSE /\ fail_cancel(i, e.n, Body("cancel_precondition"))
                 /\ UNCHANGED can
      BY <1>1 DEF CancellerLoads, CancelLoad, DueEvents
    <2>2. /\ e.n \in Nat /\ e.attempts \in Nat
          /\ invoices[i].uuid \in Uuids \cup {NoUuid}
          /\ invoices[i].reason \in Reasons \cup {NoReason}
      BY DEF RepoTypeOK, Event, Row
    <2>3. LhdnTypeOK'
      BY <1>1 DEF CancellerLoads, CancelLoad, lhdnVars, LhdnTypeOK
    <2>4. CASE check_preconditions(invoices[i])
      <3>1. can' \in CancelJob
        BY <2>1, <2>2, <2>4 DEF CancelJob, check_preconditions
      <3>2. RepoTypeOK'
        BY <2>1, <2>4 DEF repoVars, RepoTypeOK
      <3> QED BY <3>1, <3>2, <2>3 DEF CancellerTypeOK
    <2>5. CASE ~check_preconditions(invoices[i])
      <3>1. Body("cancel_precondition") \in ErrorBody
        BY BodyTypes DEF Stage
      <3> QED BY <2>1, <2>2, <2>3, <2>5, <3>1, RepoTypes DEF CancellerTypeOK
    <2> QED BY <2>4, <2>5
  <1>2. ASSUME CancellerCalls \/ LosesCancelAnswer
        PROVE  RepoTypeOK' /\ LhdnTypeOK' /\ CancellerTypeOK'
    <2>1. can \in CancelJob /\ UNCHANGED repoVars
      BY <1>2, <1>j DEF CancellerCalls, LosesCancelAnswer, CancelAccepted,
           CancelRefused, CancelInterrupted
    <2>2. can.uuid \in Uuids /\ can.reason \in Reasons
      BY <2>1 DEF CancelJob
    <2>3. RepoTypeOK'
      BY <2>1 DEF repoVars, RepoTypeOK
    <2>4. \A a \in {"cancelled", "error"}, err \in Variant \cup {"none"} :
            CancelAnswered(a, err) => CancellerTypeOK'
      BY <2>1 DEF CancelAnswered, CancelJob, CancellerTypeOK
    <2>5. CASE CancelAccepted
      BY <2>2, <2>3, <2>4, <2>5, LhdnSideTypes DEF CancelAccepted, LhdnTypeOK
    <2>6. CASE CancelRefused
      BY <2>3, <2>4, <2>6, CallErrorsType DEF CancelRefused, lhdnVars, LhdnTypeOK
    <2>7. CASE CancelInterrupted
      <3>1. LhdnTypeOK'
        BY <2>2, <2>7 DEF CancelInterrupted, CancelGoesLate, LhdnTypeOK
      <3> QED BY <2>3, <2>4, <2>7, <3>1, CallErrorsType
              DEF CancelInterrupted, UncertainErrors
    <2> QED BY <1>2, <2>5, <2>6, <2>7 DEF CancellerCalls, LosesCancelAnswer
  <1>3. ASSUME CancellerFinishes
        PROVE  RepoTypeOK' /\ LhdnTypeOK' /\ CancellerTypeOK'
    <2>1. can \in CancelJob
      BY <1>3, <1>j DEF CancellerFinishes, CancelFinish
    <2>2. can.inv \in Invoices /\ can.n \in Nat /\ can.attempts + 1 \in Nat
      BY <2>1 DEF CancelJob
    <2>3. VariantBody("cancel", can.error) \in ErrorBody
      BY <2>1, BodyTypes DEF Stage, CancelJob
    <2>4. CancelFailure => RepoTypeOK'
      BY <2>2, <2>3, RepoTypes DEF CancelFailure
    <2>5. complete_cancel(can.inv, can.n) => RepoTypeOK'
      BY <2>2, <2>3, RepoTypes
    <2> QED BY <1>3, <2>4, <2>5 DEF CancellerFinishes, CancelFinish, lhdnVars,
              LhdnTypeOK, CancellerTypeOK
  <1> QED BY <1>1, <1>2, <1>3

LEMMA CrashTypes ==
  ASSUME TypeOK, Crash PROVE LhdnTypeOK'
  <1> USE DEF TypeOK
  <1>1. CASE UNCHANGED lhdnVars
    BY <1>1 DEF lhdnVars, LhdnTypeOK
  <1>2. sub.answer = "awaited" => sub.inv \in Invoices
    BY DEF SubmitterTypeOK, Idle, SubmitJob
  <1>3. can.answer = "awaited" => can.uuid \in Uuids /\ can.reason \in Reasons
    BY DEF CancellerTypeOK, NoCancel, CancelJob
  <1> QED BY <1>1, <1>2, <1>3
          DEF Crash, LhdnTypeOK, SubmitGoesLate, CancelGoesLate

THEOREM TypeStep == TypeOK /\ [Next]_vars => TypeOK'
  <1> SUFFICES ASSUME TypeOK, [Next]_vars PROVE TypeOK'
    OBVIOUS
  <1>f. faults \in 0..MaxFaults /\ (Fault => faults' \in 0..MaxFaults)
    BY BridgeAssumption DEF TypeOK, Fault
  <1>1. ASSUME UNCHANGED vars PROVE TypeOK'
    BY <1>1 DEF vars, repoVars, lhdnVars, jobs, TypeOK, RepoTypeOK, LhdnTypeOK,
         SubmitterTypeOK, PollerTypeOK, CancellerTypeOK
  <1>2. ASSUME NEW i \in Invoices,
               \/ submit_invoice(i) \/ cancel_invoice(i)
               \/ BackoffEnds(i) \/ WindowCloses(i)
        PROVE  TypeOK'
    <2>1. RepoTypeOK'
      <3>1. RepoTypeOK /\ 0 \in Nat /\ NoError \in ErrorBody
        BY BodyTypes DEF TypeOK
      <3> QED BY <1>2, <3>1, RepoTypes, ClockTypes
              DEF submit_invoice, cancel_invoice, BackoffEnds, WindowCloses
    <2> QED BY <1>2, <1>f, <2>1
            DEF submit_invoice, cancel_invoice, BackoffEnds, WindowCloses,
                lhdnVars, jobs, TypeOK, LhdnTypeOK, SubmitterTypeOK,
                PollerTypeOK, CancellerTypeOK
  <1>3. ASSUME \/ \E i \in Invoices : SubmitterLoads(i)
               \/ SubmitterCalls \/ SubmitterFinishes \/ LosesSubmitAnswer
        PROVE  TypeOK'
    <2>1. RepoTypeOK' /\ LhdnTypeOK' /\ SubmitterTypeOK'
      BY <1>3, SubmitterTypes
    <2> QED BY <1>3, <1>f, <2>1
            DEF SubmitterLoads, SubmitterCalls, SubmitterFinishes,
                LosesSubmitAnswer, TypeOK, PollerTypeOK, CancellerTypeOK
  <1>4. ASSUME (\E i \in Invoices : PollerLoads(i)) \/ PollerCalls \/ PollerFinishes
        PROVE  TypeOK'
    <2>1. RepoTypeOK' /\ LhdnTypeOK' /\ PollerTypeOK'
      BY <1>4, PollerTypes
    <2> QED BY <1>4, <1>f, <2>1
            DEF PollerLoads, PollerCalls, PollerFinishes, TypeOK,
                SubmitterTypeOK, CancellerTypeOK
  <1>5. ASSUME \/ \E i \in Invoices : CancellerLoads(i)
               \/ CancellerCalls \/ CancellerFinishes \/ LosesCancelAnswer
        PROVE  TypeOK'
    <2>1. RepoTypeOK' /\ LhdnTypeOK' /\ CancellerTypeOK'
      BY <1>5, CancellerTypes
    <2> QED BY <1>5, <1>f, <2>1
            DEF CancellerLoads, CancellerCalls, CancellerFinishes,
                LosesCancelAnswer, TypeOK, SubmitterTypeOK, PollerTypeOK
  <1>6. ASSUME LhdnActs PROVE TypeOK'
    <2>1. LhdnTypeOK'
      <3>1. PICK u \in Uuids :
              \/ Decides(u) \/ LhdnCancels(u)
              \/ \E i \in Invoices : LateSubmit(u, i)
              \/ \E reason \in Reasons : LateCancel(u, reason)
        BY <1>6 DEF LhdnActs
      <3> QED BY <3>1, LhdnSideTypes DEF TypeOK
    <2> QED BY <1>6, <1>f, <2>1
            DEF LhdnActs, repoVars, jobs, TypeOK, RepoTypeOK,
                SubmitterTypeOK, PollerTypeOK, CancellerTypeOK
  <1>7. ASSUME DbError PROVE TypeOK'
    BY <1>7, <1>f DEF DbError, repoVars, lhdnVars, TypeOK, RepoTypeOK,
         LhdnTypeOK, SubmitterTypeOK, PollerTypeOK, CancellerTypeOK
  <1>8. ASSUME Crash PROVE TypeOK'
    BY <1>8, <1>f, CrashTypes
       DEF Crash, repoVars, TypeOK, RepoTypeOK, SubmitterTypeOK, PollerTypeOK,
           CancellerTypeOK
  <1> QED BY <1>1, <1>2, <1>3, <1>4, <1>5, <1>6, <1>7, <1>8
          DEF Next, PerInvoice, Worker, Faulty

\* Every state of every run is well typed: in particular a job under way always
\* has a document uuid to ask about, and error_json is always one of its shapes.
THEOREM TypeCorrect == Spec => []TypeOK
  BY TypeInit, TypeStep, PTL DEF Spec

-----------------------------------------------------------------------------
(* The outbox and the rows.                                                *)

\* The status that calls for an event of kind k.
Calls(k) == CASE k = "submit" -> "Pending"
              [] k = "poll"   -> "Submitted"
              [] k = "cancel" -> "Valid"

HasEvent(i) == \E e \in outbox : e.inv = i

KindsMatch ==
  \A e \in outbox :
    /\ invoices[e.inv].status = Calls(e.kind)
    /\ e.kind = "submit" => e.attempts = invoices[e.inv].attempts

WorkIsQueued ==
  \A i \in Invoices :
    /\ invoices[i].status = "Absent" => invoices[i].attempts = 0
    /\ invoices[i].status = "Pending" => HasEvent(i)
    /\ invoices[i].status = "Submitted" =>
         HasEvent(i) \/ invoices[i].error.stage = "poll"

OutboxInv == OneEventPerInvoice /\ KindsMatch /\ WorkIsQueued

IInv == TypeOK /\ OutboxInv /\ JobsAreCurrent

\* A step that concerns invoice i alone.
Frame(i) ==
  /\ \A e \in outbox : e.inv # i => e \in outbox'
  /\ \A j \in Invoices : j # i => invoices'[j] = invoices[j]

-----------------------------------------------------------------------------
(* The three things a transaction does to the outbox.                      *)

\* The event goes, and the new status calls for none.
LEMMA Removal ==
  ASSUME RepoTypeOK, OutboxInv, NEW i \in Invoices, NEW n \in Nat, NEW row \in Row,
         NEW e \in outbox, e.inv = i, e.n = n,
         Update(i, row), outbox' = Without(i, n),
         row.status \notin {"Absent", "Pending"},
         row.status = "Submitted" => row.error.stage = "poll"
  PROVE  OutboxInv' /\ Frame(i)
  <1>1. \A f \in outbox : f \in outbox' <=> f.inv # i
    BY DEF OutboxInv, OneEventPerInvoice, Without, IsEvent
  <1>2. outbox' \subseteq outbox
    BY DEF Without
  <1>3. /\ invoices'[i] = row
        /\ \A j \in Invoices : j # i => invoices'[j] = invoices[j]
    BY DEF Update, RepoTypeOK
  <1>4. \A f \in outbox : f.inv \in Invoices
    BY DEF RepoTypeOK, Event
  <1>5. OneEventPerInvoice'
    BY <1>2 DEF OutboxInv, OneEventPerInvoice
  <1>6. KindsMatch'
    BY <1>1, <1>2, <1>3, <1>4 DEF OutboxInv, KindsMatch
  <1>7. WorkIsQueued'
    BY <1>1, <1>3 DEF OutboxInv, WorkIsQueued, HasEvent
  <1>8. Frame(i)
    BY <1>1, <1>3 DEF Frame
  <1> QED BY <1>5, <1>6, <1>7, <1>8 DEF OutboxInv

\* The event is put off, and the status stays.
LEMMA Rescheduling ==
  ASSUME RepoTypeOK, OutboxInv, NEW i \in Invoices, NEW n \in Nat, NEW row \in Row,
         NEW e \in outbox, e.inv = i, e.n = n,
         NEW attempts \in Nat, NEW due \in BOOLEAN,
         Update(i, row), outbox' = Rescheduled(i, n, attempts, due),
         row.status = invoices[i].status,
         e.kind = "submit" => row.attempts = attempts
  PROVE  OutboxInv' /\ Frame(i)
  <1> DEFINE put == [e EXCEPT !.attempts = attempts, !.due = due]
  <1>1. /\ put.inv = i /\ put.n = n /\ put.kind = e.kind
        /\ put.attempts = attempts
    BY DEF RepoTypeOK, Event
  <1>2. \A f \in outbox : IsEvent(f, i, n) <=> f = e
    BY DEF OutboxInv, OneEventPerInvoice, IsEvent
  <1>3. outbox' = (outbox \ {e}) \cup {put}
    BY <1>2 DEF Rescheduled
  <1>4. /\ invoices'[i] = row
        /\ \A j \in Invoices : j # i => invoices'[j] = invoices[j]
    BY DEF Update, RepoTypeOK
  <1>5. \A f \in outbox : f.inv \in Invoices /\ (f.inv = i => f = e)
    BY DEF RepoTypeOK, Event, OutboxInv, OneEventPerInvoice
  <1> HIDE DEF put
  <1>6. OneEventPerInvoice'
    BY <1>1, <1>3, <1>5 DEF OutboxInv, OneEventPerInvoice
  <1>7. KindsMatch'
    BY <1>1, <1>3, <1>4, <1>5 DEF OutboxInv, KindsMatch
  <1>8. WorkIsQueued'
    <2>1. HasEvent(i)'
      BY <1>1, <1>3 DEF HasEvent
    <2>2. \A j \in Invoices : j # i => (HasEvent(j)' <=> HasEvent(j))
      BY <1>1, <1>3 DEF HasEvent
    <2>3. invoices[i].status # "Absent"
      <3>1. invoices[i].status = Calls(e.kind) /\ e.kind \in Kind
        BY DEF OutboxInv, KindsMatch, RepoTypeOK, Event
      <3> QED BY <3>1 DEF Calls, Kind
    <2> QED BY <2>1, <2>2, <2>3, <1>4 DEF OutboxInv, WorkIsQueued
  <1>9. Frame(i)
    BY <1>3, <1>4 DEF Frame
  <1> QED BY <1>6, <1>7, <1>8, <1>9 DEF OutboxInv

\* An event is added where there was none, or in the place of the old one, and
\* it is the one the new status calls for.
LEMMA Adding ==
  ASSUME RepoTypeOK, OutboxInv, NEW i \in Invoices, NEW k \in Kind, NEW row \in Row,
         NEW rest \in SUBSET outbox,
         \A f \in outbox : f \in rest <=> f.inv # i,
         Update(i, row), outbox' = rest \cup {NewEvent(i, k)},
         row.status = Calls(k),
         k = "submit" => row.attempts = 0
  PROVE  OutboxInv' /\ Frame(i)
  <1> DEFINE new == NewEvent(i, k)
  <1>1. new.inv = i /\ new.kind = k /\ new.attempts = 0
    BY DEF NewEvent
  <1>2. outbox' = rest \cup {new}
    OBVIOUS
  <1> HIDE DEF new
  <1>3. /\ invoices'[i] = row
        /\ \A j \in Invoices : j # i => invoices'[j] = invoices[j]
    BY DEF Update, RepoTypeOK
  <1>4. \A f \in outbox : f.inv \in Invoices
    BY DEF RepoTypeOK, Event
  <1>5. OneEventPerInvoice'
    BY <1>1, <1>2 DEF OutboxInv, OneEventPerInvoice
  <1>6. KindsMatch'
    BY <1>1, <1>2, <1>3, <1>4 DEF OutboxInv, KindsMatch
  <1>7. WorkIsQueued'
    <2>1. HasEvent(i)'
      BY <1>1, <1>2 DEF HasEvent
    <2>2. \A j \in Invoices : j # i => (HasEvent(j)' <=> HasEvent(j))
      BY <1>1, <1>2 DEF HasEvent
    <2>3. row.status # "Absent"
      BY DEF Calls, Kind
    <2> QED BY <2>1, <2>2, <2>3, <1>3 DEF OutboxInv, WorkIsQueued
  <1>8. Frame(i)
    BY <1>2, <1>3 DEF Frame
  <1> QED BY <1>5, <1>6, <1>7, <1>8 DEF OutboxInv

-----------------------------------------------------------------------------
(* Every transaction.                                                      *)

\* Those of the API, under their own guards.
LEMMA ApiTransactions ==
  ASSUME RepoTypeOK, OutboxInv, NEW i \in Invoices
  PROVE  /\ create_pending(i) => OutboxInv' /\ Frame(i)
         /\ \A r \in Reasons : request_cancellation(i, r) => OutboxInv' /\ Frame(i)
  <1>r. invoices[i] \in Row
    BY DEF RepoTypeOK
  <1>1. ASSUME create_pending(i) PROVE OutboxInv' /\ Frame(i)
    <2> DEFINE row == [invoices[i] EXCEPT !.status = "Pending"]
    <2>1. row \in Row /\ row.status = "Pending" /\ row.attempts = 0
      BY <1>1, <1>r DEF create_pending, Row, Status, OutboxInv, WorkIsQueued
    <2>2. \A f \in outbox : f.inv # i
      BY <1>1 DEF create_pending, OutboxInv, KindsMatch, Calls, RepoTypeOK, Event,
           Kind
    <2>3. Update(i, row) /\ outbox' = outbox \cup {NewEvent(i, "submit")}
      BY <1>1 DEF create_pending
    <2> HIDE DEF row
    <2> QED BY <2>1, <2>2, <2>3, Adding DEF Calls, Kind
  <1>2. ASSUME NEW r \in Reasons, request_cancellation(i, r)
        PROVE  OutboxInv' /\ Frame(i)
    <2> DEFINE row == [invoices[i] EXCEPT !.reason = r]
    <2>1. row \in Row /\ row.status = "Valid"
      BY <1>2, <1>r DEF request_cancellation, Row
    <2>2. \A f \in outbox : f.inv # i
      BY <1>2 DEF request_cancellation, OutboxInv, KindsMatch, Calls, RepoTypeOK,
           Event, Kind
    <2>3. Update(i, row) /\ outbox' = outbox \cup {NewEvent(i, "cancel")}
      BY <1>2 DEF request_cancellation
    <2> HIDE DEF row
    <2> QED BY <2>1, <2>2, <2>3, Adding DEF Calls, Kind
  <1> QED BY <1>1, <1>2

\* Those of a worker, on an event that is in the outbox.
LEMMA SubmitTransactions ==
  ASSUME RepoTypeOK, OutboxInv, NEW i \in Invoices, NEW n \in Nat,
         NEW e \in outbox, e.inv = i, e.n = n, e.kind = "submit",
         NEW attempts \in Nat, NEW body \in ErrorBody
  PROVE  /\ \A u \in Uuids \cup {NoUuid} :
              complete_submission(i, n, u) => OutboxInv' /\ Frame(i)
         /\ fail_permanently(i, n, attempts, body) => OutboxInv' /\ Frame(i)
         /\ reschedule(i, n, attempts, body) => OutboxInv' /\ Frame(i)
  <1>r. invoices[i] \in Row
    BY DEF RepoTypeOK
  <1>1. ASSUME NEW u \in Uuids \cup {NoUuid}, complete_submission(i, n, u)
        PROVE  OutboxInv' /\ Frame(i)
    <2> DEFINE row == [invoices[i] EXCEPT !.status = "Submitted", !.uuid = u,
                                          !.error = NoError]
    <2>1. row \in Row /\ row.status = "Submitted"
      BY <1>r, BodyTypes DEF Row, Status
    <2>2. \A f \in outbox : f \in Without(i, n) <=> f.inv # i
      BY DEF OutboxInv, OneEventPerInvoice, Without, IsEvent
    <2>3. Without(i, n) \in SUBSET outbox
      BY DEF Without
    <2>4. Update(i, row) /\ outbox' = Without(i, n) \cup {NewEvent(i, "poll")}
      BY <1>1 DEF complete_submission
    <2> HIDE DEF row
    <2> QED BY <2>1, <2>2, <2>3, <2>4, Adding DEF Calls, Kind
  <1>2. ASSUME fail_permanently(i, n, attempts, body) PROVE OutboxInv' /\ Frame(i)
    <2> DEFINE row == [invoices[i] EXCEPT !.status = "Failed",
                                          !.attempts = attempts, !.error = body]
    <2>1. row \in Row /\ row.status = "Failed"
      BY <1>r DEF Row, Status
    <2>2. Update(i, row) /\ outbox' = Without(i, n)
      BY <1>2 DEF fail_permanently
    <2> HIDE DEF row
    <2> QED BY <2>1, <2>2, Removal
  <1>3. ASSUME reschedule(i, n, attempts, body) PROVE OutboxInv' /\ Frame(i)
    <2> DEFINE row == [invoices[i] EXCEPT !.attempts = attempts, !.error = body]
    <2>1. /\ row \in Row /\ row.status = invoices[i].status
          /\ row.attempts = attempts
      BY <1>r DEF Row
    <2>2. Update(i, row) /\ outbox' = Rescheduled(i, n, attempts, FALSE)
      BY <1>3 DEF reschedule
    <2> HIDE DEF row
    <2> QED BY <2>1, <2>2, Rescheduling
  <1> QED BY <1>1, <1>2, <1>3

LEMMA PollTransactions ==
  ASSUME RepoTypeOK, OutboxInv, NEW i \in Invoices, NEW n \in Nat,
         NEW e \in outbox, e.inv = i, e.n = n, e.kind = "poll",
         NEW attempts \in Nat, NEW body \in ErrorBody
  PROVE  /\ \A w \in {"open", "past"} :
              mark_valid(i, n, w) => OutboxInv' /\ Frame(i)
         /\ mark_invalid(i, n, body) => OutboxInv' /\ Frame(i)
         /\ mark_cancelled_via_poll(i, n) => OutboxInv' /\ Frame(i)
         /\ body.stage = "poll" /\ fail_poll(i, n, body) => OutboxInv' /\ Frame(i)
         /\ \A due \in BOOLEAN :
              reschedule_poll(i, n, attempts, due) => OutboxInv' /\ Frame(i)
  <1>r. /\ invoices[i] \in Row /\ invoices[i].status = "Submitted"
    BY DEF RepoTypeOK, OutboxInv, KindsMatch, Calls
  <1>1. ASSUME NEW w \in {"open", "past"}, mark_valid(i, n, w)
        PROVE  OutboxInv' /\ Frame(i)
    <2> DEFINE row == [invoices[i] EXCEPT !.status = "Valid", !.window = w,
                                          !.error = NoError]
    <2>1. row \in Row /\ row.status = "Valid"
      BY <1>r, BodyTypes DEF Row, Status, Window
    <2>2. Update(i, row) /\ outbox' = Without(i, n)
      BY <1>1 DEF mark_valid
    <2> HIDE DEF row
    <2> QED BY <2>1, <2>2, Removal
  <1>2. ASSUME mark_invalid(i, n, body) PROVE OutboxInv' /\ Frame(i)
    <2> DEFINE row == [invoices[i] EXCEPT !.status = "Invalid", !.error = body]
    <2>1. row \in Row /\ row.status = "Invalid"
      BY <1>r DEF Row, Status
    <2>2. Update(i, row) /\ outbox' = Without(i, n)
      BY <1>2 DEF mark_invalid
    <2> HIDE DEF row
    <2> QED BY <2>1, <2>2, Removal
  <1>3. ASSUME mark_cancelled_via_poll(i, n) PROVE OutboxInv' /\ Frame(i)
    <2> DEFINE row == [invoices[i] EXCEPT !.status = "Cancelled"]
    <2>1. row \in Row /\ row.status = "Cancelled"
      BY <1>r DEF Row, Status
    <2>2. Update(i, row) /\ outbox' = Without(i, n)
      BY <1>3 DEF mark_cancelled_via_poll
    <2> HIDE DEF row
    <2> QED BY <2>1, <2>2, Removal
  <1>4. ASSUME body.stage = "poll", fail_poll(i, n, body)
        PROVE  OutboxInv' /\ Frame(i)
    <2> DEFINE row == [invoices[i] EXCEPT !.error = body]
    <2>1. row \in Row /\ row.status = "Submitted" /\ row.error.stage = "poll"
      BY <1>4, <1>r DEF Row
    <2>2. Update(i, row) /\ outbox' = Without(i, n)
      BY <1>4 DEF fail_poll
    <2> HIDE DEF row
    <2> QED BY <2>1, <2>2, Removal
  <1>5. ASSUME NEW due \in BOOLEAN, reschedule_poll(i, n, attempts, due)
        PROVE  OutboxInv' /\ Frame(i)
    <2>1. Update(i, invoices[i]) /\ outbox' = Rescheduled(i, n, attempts, due)
      BY <1>5 DEF reschedule_poll, Update, RepoTypeOK
    <2> QED BY <2>1, <1>r, Rescheduling
  <1> QED BY <1>1, <1>2, <1>3, <1>4, <1>5

LEMMA CancelTransactions ==
  ASSUME RepoTypeOK, OutboxInv, NEW i \in Invoices, NEW n \in Nat,
         NEW e \in outbox, e.inv = i, e.n = n, e.kind = "cancel",
         NEW attempts \in Nat, NEW body \in ErrorBody
  PROVE  /\ complete_cancel(i, n) => OutboxInv' /\ Frame(i)
         /\ fail_cancel(i, n, body) => OutboxInv' /\ Frame(i)
         /\ reschedule_cancel(i, n, attempts) => OutboxInv' /\ Frame(i)
  <1>r. /\ invoices[i] \in Row /\ invoices[i].status = "Valid"
    BY DEF RepoTypeOK, OutboxInv, KindsMatch, Calls
  <1>1. ASSUME complete_cancel(i, n) PROVE OutboxInv' /\ Frame(i)
    <2> DEFINE row == [invoices[i] EXCEPT !.status = "Cancelled", !.error = NoError]
    <2>1. row \in Row /\ row.status = "Cancelled"
      BY <1>r, BodyTypes DEF Row, Status
    <2>2. Update(i, row) /\ outbox' = Without(i, n)
      BY <1>1 DEF complete_cancel
    <2> HIDE DEF row
    <2> QED BY <2>1, <2>2, Removal
  <1>2. ASSUME fail_cancel(i, n, body) PROVE OutboxInv' /\ Frame(i)
    <2> DEFINE row == [invoices[i] EXCEPT !.error = body]
    <2>1. row \in Row /\ row.status = "Valid"
      BY <1>r DEF Row
    <2>2. Update(i, row) /\ outbox' = Without(i, n)
      BY <1>2 DEF fail_cancel
    <2> HIDE DEF row
    <2> QED BY <2>1, <2>2, Removal
  <1>3. ASSUME reschedule_cancel(i, n, attempts) PROVE OutboxInv' /\ Frame(i)
    <2>1. Update(i, invoices[i]) /\ outbox' = Rescheduled(i, n, attempts, FALSE)
      BY <1>3 DEF reschedule_cancel, Update, RepoTypeOK
    <2> QED BY <2>1, <1>r, Rescheduling
  <1> QED BY <1>1, <1>2, <1>3

\* The clock puts back an event no job is about, and closes a window.
LEMMA ClockTransactions ==
  ASSUME RepoTypeOK, OutboxInv, NEW i \in Invoices
  PROVE  /\ \A e \in outbox :
              e.inv = i /\ Elapse(e) =>
                OutboxInv' /\ Frame(i) /\ (\A f \in outbox : f.inv = i => ~f.due)
         /\ DeadlinePasses(i) =>
              /\ OutboxInv' /\ Frame(i) /\ outbox' = outbox
              /\ invoices'[i].attempts = invoices[i].attempts
              /\ invoices'[i].uuid = invoices[i].uuid
              /\ invoices'[i].reason = invoices[i].reason
  <1>r. invoices[i] \in Row
    BY DEF RepoTypeOK
  <1>1. ASSUME NEW e \in outbox, e.inv = i, Elapse(e)
        PROVE  OutboxInv' /\ Frame(i) /\ (\A f \in outbox : f.inv = i => ~f.due)
    <2>1. /\ Update(i, invoices[i])
          /\ outbox' = Rescheduled(i, e.n, e.attempts, TRUE)
      BY <1>1 DEF Elapse, Update, RepoTypeOK
    <2>2. /\ e.n \in Nat /\ e.attempts \in Nat
          /\ e.kind = "submit" => invoices[i].attempts = e.attempts
      BY <1>1 DEF RepoTypeOK, Event, OutboxInv, KindsMatch
    <2>3. OutboxInv' /\ Frame(i)
      BY <1>1, <1>r, <2>1, <2>2, Rescheduling
    <2>4. \A f \in outbox : f.inv = i => ~f.due
      BY <1>1 DEF Elapse, OutboxInv, OneEventPerInvoice
    <2> QED BY <2>3, <2>4
  <1>2. ASSUME DeadlinePasses(i)
        PROVE  /\ OutboxInv' /\ Frame(i) /\ outbox' = outbox
               /\ invoices'[i].attempts = invoices[i].attempts
               /\ invoices'[i].uuid = invoices[i].uuid
               /\ invoices'[i].reason = invoices[i].reason
    <2> DEFINE row == [invoices[i] EXCEPT !.window = "past"]
    <2>1. /\ row.status = invoices[i].status /\ row.attempts = invoices[i].attempts
          /\ row.uuid = invoices[i].uuid /\ row.reason = invoices[i].reason
          /\ row.error = invoices[i].error
      BY <1>r DEF Row
    <2>2. /\ outbox' = outbox
          /\ invoices'[i] = row
          /\ \A j \in Invoices : j # i => invoices'[j] = invoices[j]
      BY <1>2 DEF DeadlinePasses, Update, RepoTypeOK
    <2> HIDE DEF row
    <2>3. \A f \in outbox : f.inv \in Invoices
      BY DEF RepoTypeOK, Event
    <2>4. OutboxInv'
      BY <2>1, <2>2, <2>3
         DEF OutboxInv, OneEventPerInvoice, KindsMatch, WorkIsQueued, HasEvent
    <2> QED BY <2>1, <2>2, <2>4 DEF Frame
  <1> QED BY <1>1, <1>2

-----------------------------------------------------------------------------
(* The jobs.                                                               *)

\* A job's invoice is in the status of the worker's kind: no two workers are
\* ever on the same invoice.
LEMMA JobStatus ==
  ASSUME IInv
  PROVE  /\ sub # Idle =>
              sub \in SubmitJob /\ invoices[sub.inv].status = "Pending"
         /\ pol # NoPoll =>
              pol \in PollJob /\ invoices[pol.inv].status = "Submitted"
         /\ can # NoCancel =>
              can \in CancelJob /\ invoices[can.inv].status = "Valid"
  <1> USE DEF IInv, TypeOK, JobsAreCurrent, OutboxInv, KindsMatch
  <1>1. sub # Idle => sub \in SubmitJob /\ invoices[sub.inv].status = "Pending"
    <2> SUFFICES ASSUME sub # Idle
                 PROVE  sub \in SubmitJob /\ invoices[sub.inv].status = "Pending"
      OBVIOUS
    <2> DEFINE e == [inv |-> sub.inv, n |-> sub.n, kind |-> "submit",
                     attempts |-> sub.attempts, due |-> TRUE]
    <2>1. e \in outbox
      BY DEF SubmitJobIsCurrent
    <2>2. invoices[e.inv].status = Calls(e.kind)
      BY <2>1
    <2> QED BY <2>2 DEF Calls, SubmitterTypeOK
  <1>2. pol # NoPoll => pol \in PollJob /\ invoices[pol.inv].status = "Submitted"
    <2> SUFFICES ASSUME pol # NoPoll
                 PROVE  pol \in PollJob /\ invoices[pol.inv].status = "Submitted"
      OBVIOUS
    <2> DEFINE e == [inv |-> pol.inv, n |-> pol.n, kind |-> "poll",
                     attempts |-> pol.attempts, due |-> TRUE]
    <2>1. e \in outbox
      BY DEF PollJobIsCurrent
    <2>2. invoices[e.inv].status = Calls(e.kind)
      BY <2>1
    <2> QED BY <2>2 DEF Calls, PollerTypeOK
  <1>3. can # NoCancel => can \in CancelJob /\ invoices[can.inv].status = "Valid"
    <2> SUFFICES ASSUME can # NoCancel
                 PROVE  can \in CancelJob /\ invoices[can.inv].status = "Valid"
      OBVIOUS
    <2> DEFINE e == [inv |-> can.inv, n |-> can.n, kind |-> "cancel",
                     attempts |-> can.attempts, due |-> TRUE]
    <2>1. e \in outbox
      BY DEF CancelJobIsCurrent
    <2>2. invoices[e.inv].status = Calls(e.kind)
      BY <2>1
    <2> QED BY <2>2 DEF Calls, CancellerTypeOK
  <1> QED BY <1>1, <1>2, <1>3

\* A job stays current through a step that concerns another invoice.
LEMMA JobsElsewhere ==
  ASSUME IInv, NEW i \in Invoices, Frame(i)
  PROVE  /\ sub' = sub /\ (sub # Idle => sub.inv # i) => SubmitJobIsCurrent'
         /\ pol' = pol /\ (pol # NoPoll => pol.inv # i) => PollJobIsCurrent'
         /\ can' = can /\ (can # NoCancel => can.inv # i) => CancelJobIsCurrent'
  <1> USE DEF IInv, JobsAreCurrent, Frame
  <1>1. sub' = sub /\ (sub # Idle => sub.inv # i) => SubmitJobIsCurrent'
    BY JobStatus DEF SubmitJobIsCurrent, SubmitJob
  <1>2. pol' = pol /\ (pol # NoPoll => pol.inv # i) => PollJobIsCurrent'
    BY JobStatus DEF PollJobIsCurrent, PollJob
  <1>3. can' = can /\ (can # NoCancel => can.inv # i) => CancelJobIsCurrent'
    BY JobStatus DEF CancelJobIsCurrent, CancelJob
  <1> QED BY <1>1, <1>2, <1>3

\* And through a step that leaves the store alone.
LEMMA JobsAtRest ==
  ASSUME IInv, UNCHANGED repoVars
  PROVE  /\ OutboxInv'
         /\ sub' \in {sub, Idle} => SubmitJobIsCurrent'
         /\ pol' \in {pol, NoPoll} => PollJobIsCurrent'
         /\ can' \in {can, NoCancel} => CancelJobIsCurrent'
  BY DEF IInv, JobsAreCurrent, repoVars, OutboxInv, OneEventPerInvoice, KindsMatch,
         WorkIsQueued, HasEvent, SubmitJobIsCurrent, PollJobIsCurrent,
         CancelJobIsCurrent

LEMMA SubmitterSafe ==
  ASSUME IInv,
         \/ \E i \in Invoices : SubmitterLoads(i)
         \/ SubmitterCalls \/ SubmitterFinishes \/ LosesSubmitAnswer
  PROVE  OutboxInv' /\ JobsAreCurrent'
  <1> USE DEF IInv
  <1>t. RepoTypeOK
    BY DEF TypeOK
  <1>1. ASSUME NEW i \in Invoices, SubmitterLoads(i)
        PROVE  OutboxInv' /\ JobsAreCurrent'
    <2>1. PICK e \in outbox : e.inv = i /\ e.kind = "submit" /\ e.due /\
            IF i \in Malformed
            THEN /\ fail_permanently(i, e.n, invoices[i].attempts,
                                     Body("build_signed_document"))
                 /\ UNCHANGED sub
            ELSE /\ sub' = [inv |-> i, n |-> e.n,
                            attempts |-> invoices[i].attempts,
                            answer |-> "awaited", uuid |-> NoUuid,
                            error |-> "none"]
                 /\ UNCHANGED repoVars
      BY <1>1 DEF SubmitterLoads, SubmitLoad, DueEvents
    <2>2. UNCHANGED <<pol, can>> /\ sub = Idle
      BY <1>1 DEF SubmitterLoads, SubmitLoad
    <2>3. /\ e \in Event /\ e.n \in Nat /\ invoices[i].attempts \in Nat
          /\ invoices[i].status = "Pending" /\ invoices[i].attempts = e.attempts
      BY <1>t, <2>1 DEF RepoTypeOK, Event, Row, OutboxInv, KindsMatch, Calls
    <2>4. CASE i \in Malformed
      <3>1. OutboxInv' /\ Frame(i)
        <4>1. Body("build_signed_document") \in ErrorBody
          BY BodyTypes DEF Stage
        <4> QED BY <1>t, <2>1, <2>3, <2>4, <4>1, SubmitTransactions
      <3>2. PollJobIsCurrent' /\ CancelJobIsCurrent'
        BY <2>2, <2>3, <3>1, JobStatus, JobsElsewhere
      <3>3. SubmitJobIsCurrent'
        BY <2>1, <2>2, <2>4 DEF SubmitJobIsCurrent
      <3> QED BY <3>1, <3>2, <3>3 DEF JobsAreCurrent
    <2>5. CASE i \notin Malformed
      <3>1. OutboxInv' /\ PollJobIsCurrent' /\ CancelJobIsCurrent'
        BY <2>1, <2>2, <2>5, JobsAtRest
      <3>2. e = [inv |-> i, n |-> e.n, kind |-> "submit",
                 attempts |-> invoices[i].attempts, due |-> TRUE]
        BY <2>1, <2>3 DEF Event
      <3>3. SubmitJobIsCurrent'
        <4>1. /\ sub'.inv = i /\ sub'.n = e.n
              /\ sub'.attempts = invoices[i].attempts
          BY <2>1, <2>5
        <4>2. outbox' = outbox /\ invoices' = invoices
          BY <2>1, <2>5 DEF repoVars
        <4> QED BY <3>2, <4>1, <4>2 DEF SubmitJobIsCurrent
      <3> QED BY <3>1, <3>3 DEF JobsAreCurrent
    <2> QED BY <2>4, <2>5
  <1>2. ASSUME SubmitterCalls \/ LosesSubmitAnswer
        PROVE  OutboxInv' /\ JobsAreCurrent'
    <2>1. /\ sub # Idle /\ UNCHANGED repoVars /\ UNCHANGED <<pol, can>>
          /\ \E a, u, err : SubmitAnswered(a, u, err)
      BY <1>2 DEF SubmitterCalls, LosesSubmitAnswer, SubmitAccepted,
           SubmitRejected, SubmitRefused, SubmitInterrupted, Idle
    <2>2. sub \in SubmitJob
      BY <2>1, JobStatus
    <2>3. sub'.inv = sub.inv /\ sub'.n = sub.n /\ sub'.attempts = sub.attempts
      BY <2>1, <2>2 DEF SubmitAnswered, SubmitJob
    <2>4. SubmitJobIsCurrent'
      BY <2>1, <2>3 DEF JobsAreCurrent, SubmitJobIsCurrent, repoVars
    <2> QED BY <2>1, <2>4, JobsAtRest DEF JobsAreCurrent
  <1>3. ASSUME SubmitterFinishes PROVE OutboxInv' /\ JobsAreCurrent'
    <2>1. sub # Idle /\ sub' = Idle /\ UNCHANGED <<pol, can>>
      BY <1>3 DEF SubmitterFinishes, SubmitFinish, SubmitSuccess, SubmitFailure, Idle
    <2>2. sub \in SubmitJob /\ invoices[sub.inv].status = "Pending"
      BY <2>1, JobStatus
    <2>3. PICK e \in outbox : e.inv = sub.inv /\ e.n = sub.n /\ e.kind = "submit"
      BY <2>1 DEF JobsAreCurrent, SubmitJobIsCurrent
    <2>4. /\ sub.inv \in Invoices /\ sub.n \in Nat /\ sub.attempts + 1 \in Nat
          /\ sub.uuid \in Uuids \cup {NoUuid}
          /\ invoices[sub.inv].attempts \in Nat
      BY <1>t, <2>2 DEF SubmitJob, RepoTypeOK, Row
    <2>5. /\ Body("lhdn_rejection") \in ErrorBody
          /\ VariantBody("submit", sub.error) \in ErrorBody
      BY <2>2, BodyTypes DEF Stage, SubmitJob
    <2>6. SubmitSuccess => OutboxInv' /\ Frame(sub.inv)
      BY <1>t, <2>3, <2>4, <2>5, SubmitTransactions DEF SubmitSuccess
    <2>7. SubmitFailure => OutboxInv' /\ Frame(sub.inv)
      BY <1>t, <2>3, <2>4, <2>5, SubmitTransactions DEF SubmitFailure
    <2>8. OutboxInv' /\ Frame(sub.inv)
      BY <1>3, <2>6, <2>7 DEF SubmitterFinishes, SubmitFinish
    <2>9. PollJobIsCurrent' /\ CancelJobIsCurrent'
      BY <2>1, <2>2, <2>4, <2>8, JobStatus, JobsElsewhere
    <2> QED BY <2>1, <2>8, <2>9 DEF JobsAreCurrent, SubmitJobIsCurrent
  <1> QED BY <1>1, <1>2, <1>3

LEMMA PollerSafe ==
  ASSUME IInv,
         (\E i \in Invoices : PollerLoads(i)) \/ PollerCalls \/ PollerFinishes
  PROVE  OutboxInv' /\ JobsAreCurrent'
  <1> USE DEF IInv
  <1>t. RepoTypeOK
    BY DEF TypeOK
  <1>1. ASSUME NEW i \in Invoices, PollerLoads(i)
        PROVE  OutboxInv' /\ JobsAreCurrent'
    <2>1. PICK e \in outbox : e.inv = i /\ e.kind = "poll" /\ e.due /\
            IF invoices[i].uuid = NoUuid
            THEN /\ reschedule_poll(i, e.n, PollMax, TRUE)
                 /\ UNCHANGED pol
            ELSE /\ pol' = [inv |-> i, n |-> e.n, attempts |-> e.attempts,
                            uuid |-> invoices[i].uuid, answer |-> "awaited",
                            error |-> "none"]
                 /\ UNCHANGED repoVars
      BY <1>1 DEF PollerLoads, PollLoad, DueEvents
    <2>2. UNCHANGED <<sub, can>> /\ pol = NoPoll
      BY <1>1 DEF PollerLoads, PollLoad
    <2>3. e \in Event /\ e.n \in Nat /\ invoices[i].status = "Submitted"
      BY <1>t, <2>1 DEF RepoTypeOK, Event, OutboxInv, KindsMatch, Calls
    <2>4. CASE invoices[i].uuid = NoUuid
      <3>1. OutboxInv' /\ Frame(i)
        <4>1. PollMax \in Nat /\ NoError \in ErrorBody
          BY PollerAssumption, BodyTypes
        <4> QED BY <1>t, <2>1, <2>3, <2>4, <4>1, PollTransactions
      <3>2. SubmitJobIsCurrent' /\ CancelJobIsCurrent'
        BY <2>2, <2>3, <3>1, JobStatus, JobsElsewhere
      <3>3. PollJobIsCurrent'
        BY <2>1, <2>2, <2>4 DEF PollJobIsCurrent
      <3> QED BY <3>1, <3>2, <3>3 DEF JobsAreCurrent
    <2>5. CASE invoices[i].uuid # NoUuid
      <3>1. OutboxInv' /\ SubmitJobIsCurrent' /\ CancelJobIsCurrent'
        BY <2>1, <2>2, <2>5, JobsAtRest
      <3>2. e = [inv |-> i, n |-> e.n, kind |-> "poll",
                 attempts |-> e.attempts, due |-> TRUE]
        BY <2>1, <2>3 DEF Event
      <3>3. PollJobIsCurrent'
        <4>1. /\ pol'.inv = i /\ pol'.n = e.n /\ pol'.attempts = e.attempts
              /\ pol'.uuid = invoices[i].uuid
          BY <2>1, <2>5
        <4>2. outbox' = outbox /\ invoices' = invoices
          BY <2>1, <2>5 DEF repoVars
        <4> QED BY <3>2, <4>1, <4>2 DEF PollJobIsCurrent
      <3> QED BY <3>1, <3>3 DEF JobsAreCurrent
    <2> QED BY <2>4, <2>5
  <1>2. ASSUME PollerCalls PROVE OutboxInv' /\ JobsAreCurrent'
    <2>1. pol # NoPoll /\ UNCHANGED repoVars /\ UNCHANGED <<sub, can>>
      <3>1. pol.answer = "awaited" /\ UNCHANGED repoVars /\ UNCHANGED <<sub, can>>
        BY <1>2 DEF PollerCalls, PollCall
      <3> QED BY <3>1 DEF NoPoll
    <2>2. pol \in PollJob
      BY <2>1, JobStatus
    <2>3. /\ pol'.inv = pol.inv /\ pol'.n = pol.n
          /\ pol'.attempts = pol.attempts /\ pol'.uuid = pol.uuid
      BY <1>2, <2>2 DEF PollerCalls, PollCall, PollJob
    <2>4. PollJobIsCurrent'
      BY <2>1, <2>3 DEF JobsAreCurrent, PollJobIsCurrent, repoVars
    <2> QED BY <2>1, <2>4, JobsAtRest DEF JobsAreCurrent
  <1>3. ASSUME PollerFinishes PROVE OutboxInv' /\ JobsAreCurrent'
    <2>1. pol # NoPoll /\ pol' = NoPoll /\ UNCHANGED <<sub, can>>
      <3>1. pol.answer # "idle"
        BY <1>3 DEF PollerFinishes, PollFinish, PollDetails, PollFailure
      <3>2. pol' = NoPoll /\ UNCHANGED <<sub, can>>
        BY <1>3 DEF PollerFinishes, PollFinish
      <3> QED BY <3>1, <3>2 DEF NoPoll
    <2>2. pol \in PollJob /\ invoices[pol.inv].status = "Submitted"
      BY <2>1, JobStatus
    <2>3. PICK e \in outbox : e.inv = pol.inv /\ e.n = pol.n /\ e.kind = "poll"
      BY <2>1 DEF JobsAreCurrent, PollJobIsCurrent
    <2>4. pol.inv \in Invoices /\ pol.n \in Nat /\ pol.attempts + 1 \in Nat
      BY <2>2 DEF PollJob
    <2>5. /\ Body("lhdn_validation") \in ErrorBody
          /\ Body("poll_exhausted") \in ErrorBody
          /\ VariantBody("poll", pol.error) \in ErrorBody
          /\ VariantBody("poll", pol.error).stage = "poll"
      BY <2>2, BodyTypes DEF Stage, PollJob, VariantBody
    <2>6. StillSubmitted => OutboxInv' /\ Frame(pol.inv)
      BY <1>t, <2>3, <2>4, <2>5, PollTransactions DEF StillSubmitted
    <2>7. PollDetails => OutboxInv' /\ Frame(pol.inv)
      BY <1>t, <2>3, <2>4, <2>5, <2>6, PollTransactions DEF PollDetails
    <2>8. PollFailure => OutboxInv' /\ Frame(pol.inv)
      BY <1>t, <2>3, <2>4, <2>5, PollTransactions DEF PollFailure
    <2>9. OutboxInv' /\ Frame(pol.inv)
      BY <1>3, <2>7, <2>8 DEF PollerFinishes, PollFinish
    <2>10. SubmitJobIsCurrent' /\ CancelJobIsCurrent'
      BY <2>1, <2>2, <2>4, <2>9, JobStatus, JobsElsewhere
    <2> QED BY <2>1, <2>9, <2>10 DEF JobsAreCurrent, PollJobIsCurrent
  <1> QED BY <1>1, <1>2, <1>3

LEMMA CancellerSafe ==
  ASSUME IInv,
         \/ \E i \in Invoices : CancellerLoads(i)
         \/ CancellerCalls \/ CancellerFinishes \/ LosesCancelAnswer
  PROVE  OutboxInv' /\ JobsAreCurrent'
  <1> USE DEF IInv
  <1>t. RepoTypeOK
    BY DEF TypeOK
  <1>1. ASSUME NEW i \in Invoices, CancellerLoads(i)
        PROVE  OutboxInv' /\ JobsAreCurrent'
    <2>1. PICK e \in outbox : e.inv = i /\ e.kind = "cancel" /\ e.due /\
            IF check_preconditions(invoices[i])
            THEN /\ can' = [inv |-> i, n |-> e.n, attempts |-> e.attempts,
                            uuid |-> invoices[i].uuid,
                            reason |-> invoices[i].reason,
                            answer |-> "awaited", error |-> "none"]
                 /\ UNCHANGED repoVars
            ELSE /\ fail_cancel(i, e.n, Body("cancel_precondition"))
                 /\ UNCHANGED can
      BY <1>1 DEF CancellerLoads, CancelLoad, DueEvents
    <2>2. UNCHANGED <<sub, pol>> /\ can = NoCancel
      BY <1>1 DEF CancellerLoads, CancelLoad
    <2>3. /\ e \in Event /\ e.n \in Nat /\ e.attempts \in Nat
          /\ invoices[i].status = "Valid"
      BY <1>t, <2>1 DEF RepoTypeOK, Event, OutboxInv, KindsMatch, Calls
    <2>4. CASE check_preconditions(invoices[i])
      <3>1. OutboxInv' /\ SubmitJobIsCurrent' /\ PollJobIsCurrent'
        BY <2>1, <2>2, <2>4, JobsAtRest
      <3>2. e = [inv |-> i, n |-> e.n, kind |-> "cancel",
                 attempts |-> e.attempts, due |-> TRUE]
        BY <2>1, <2>3 DEF Event
      <3>3. CancelJobIsCurrent'
        <4>1. /\ can'.inv = i /\ can'.n = e.n /\ can'.attempts = e.attempts
              /\ can'.uuid = invoices[i].uuid /\ can'.reason = invoices[i].reason
          BY <2>1, <2>4
        <4>2. outbox' = outbox /\ invoices' = invoices
          BY <2>1, <2>4 DEF repoVars
        <4> QED BY <3>2, <4>1, <4>2 DEF CancelJobIsCurrent
      <3> QED BY <3>1, <3>3 DEF JobsAreCurrent
    <2>5. CASE ~check_preconditions(invoices[i])
      <3>1. OutboxInv' /\ Frame(i)
        <4>1. Body("cancel_precondition") \in ErrorBody
          BY BodyTypes DEF Stage
        <4> QED BY <1>t, <2>1, <2>3, <2>5, <4>1, CancelTransactions
      <3>2. SubmitJobIsCurrent' /\ PollJobIsCurrent'
        BY <2>2, <2>3, <3>1, JobStatus, JobsElsewhere
      <3>3. CancelJobIsCurrent'
        BY <2>1, <2>2, <2>5 DEF CancelJobIsCurrent
      <3> QED BY <3>1, <3>2, <3>3 DEF JobsAreCurrent
    <2> QED BY <2>4, <2>5
  <1>2. ASSUME CancellerCalls \/ LosesCancelAnswer
        PROVE  OutboxInv' /\ JobsAreCurrent'
    <2>1. /\ can # NoCancel /\ UNCHANGED repoVars /\ UNCHANGED <<sub, pol>>
          /\ \E a, err : CancelAnswered(a, err)
      BY <1>2 DEF CancellerCalls, LosesCancelAnswer, CancelAccepted, CancelRefused,
           CancelInterrupted, NoCancel
    <2>2. can \in CancelJob
      BY <2>1, JobStatus
    <2>3. /\ can'.inv = can.inv /\ can'.n = can.n /\ can'.uuid = can.uuid
          /\ can'.attempts = can.attempts /\ can'.reason = can.reason
      BY <2>1, <2>2 DEF CancelAnswered, CancelJob
    <2>4. CancelJobIsCurrent'
      BY <2>1, <2>3 DEF JobsAreCurrent, CancelJobIsCurrent, repoVars
    <2> QED BY <2>1, <2>4, JobsAtRest DEF JobsAreCurrent
  <1>3. ASSUME CancellerFinishes PROVE OutboxInv' /\ JobsAreCurrent'
    <2>1. can # NoCancel /\ can' = NoCancel /\ UNCHANGED <<sub, pol>>
      BY <1>3 DEF CancellerFinishes, CancelFinish, NoCancel
    <2>2. can \in CancelJob /\ invoices[can.inv].status = "Valid"
      BY <2>1, JobStatus
    <2>3. PICK e \in outbox : e.inv = can.inv /\ e.n = can.n /\ e.kind = "cancel"
      BY <2>1 DEF JobsAreCurrent, CancelJobIsCurrent
    <2>4. can.inv \in Invoices /\ can.n \in Nat /\ can.attempts + 1 \in Nat
      BY <2>2 DEF CancelJob
    <2>5. VariantBody("cancel", can.error) \in ErrorBody
      BY <2>2, BodyTypes DEF Stage, CancelJob
    <2>6. CancelFailure => OutboxInv' /\ Frame(can.inv)
      BY <1>t, <2>3, <2>4, <2>5, CancelTransactions DEF CancelFailure
    <2>7. complete_cancel(can.inv, can.n) => OutboxInv' /\ Frame(can.inv)
      BY <1>t, <2>3, <2>4, <2>5, CancelTransactions
    <2>8. OutboxInv' /\ Frame(can.inv)
      BY <1>3, <2>6, <2>7 DEF CancellerFinishes, CancelFinish
    <2>9. SubmitJobIsCurrent' /\ PollJobIsCurrent'
      BY <2>1, <2>2, <2>4, <2>8, JobStatus, JobsElsewhere
    <2> QED BY <2>1, <2>8, <2>9 DEF JobsAreCurrent, CancelJobIsCurrent
  <1> QED BY <1>1, <1>2, <1>3

LEMMA ApiAndClockSafe ==
  ASSUME IInv, NEW i \in Invoices,
         \/ submit_invoice(i) \/ cancel_invoice(i)
         \/ BackoffEnds(i) \/ WindowCloses(i)
  PROVE  OutboxInv' /\ JobsAreCurrent'
  <1> USE DEF IInv
  <1>t. RepoTypeOK
    BY DEF TypeOK
  <1>j. UNCHANGED <<sub, pol, can>>
    BY DEF submit_invoice, cancel_invoice, BackoffEnds, WindowCloses, jobs
  <1>1. CASE submit_invoice(i)
    <2>1. OutboxInv' /\ Frame(i) /\ invoices[i].status = "Absent"
      BY <1>1, <1>t, ApiTransactions DEF submit_invoice, create_pending
    <2> QED BY <1>j, <2>1, JobStatus, JobsElsewhere DEF JobsAreCurrent
  <1>2. CASE cancel_invoice(i)
    <2>1. PICK r \in Reasons : request_cancellation(i, r)
      BY <1>2 DEF cancel_invoice
    <2>2. OutboxInv' /\ Frame(i) /\ invoices[i].status = "Valid"
      BY <1>t, <2>1, ApiTransactions DEF request_cancellation
    <2>3. can # NoCancel => can.inv # i
      BY <2>1 DEF request_cancellation, JobsAreCurrent, CancelJobIsCurrent
    <2> QED BY <1>j, <2>2, <2>3, JobStatus, JobsElsewhere DEF JobsAreCurrent
  <1>3. CASE BackoffEnds(i)
    <2>1. OutboxInv' /\ Frame(i) /\ (\A f \in outbox : f.inv = i => ~f.due)
      BY <1>3, <1>t, ClockTransactions DEF BackoffEnds
    <2>2. /\ sub # Idle => sub.inv # i
          /\ pol # NoPoll => pol.inv # i
          /\ can # NoCancel => can.inv # i
      BY <2>1 DEF JobsAreCurrent, SubmitJobIsCurrent, PollJobIsCurrent,
                  CancelJobIsCurrent
    <2> QED BY <1>j, <2>1, <2>2, JobsElsewhere DEF JobsAreCurrent
  <1>4. CASE WindowCloses(i)
    <2>1. /\ OutboxInv' /\ Frame(i) /\ outbox' = outbox
          /\ invoices'[i].attempts = invoices[i].attempts
          /\ invoices'[i].uuid = invoices[i].uuid
          /\ invoices'[i].reason = invoices[i].reason
      BY <1>4, <1>t, ClockTransactions DEF WindowCloses
    <2>2. SubmitJobIsCurrent' /\ PollJobIsCurrent' /\ CancelJobIsCurrent'
      <3>1. /\ sub # Idle => sub.inv \in Invoices
            /\ pol # NoPoll => pol.inv \in Invoices
            /\ can # NoCancel => can.inv \in Invoices
        BY JobStatus DEF SubmitJob, PollJob, CancelJob
      <3>2. \A j \in Invoices :
              /\ invoices'[j].attempts = invoices[j].attempts
              /\ invoices'[j].uuid = invoices[j].uuid
              /\ invoices'[j].reason = invoices[j].reason
        BY <2>1 DEF Frame
      <3> QED BY <1>j, <2>1, <3>1, <3>2
              DEF JobsAreCurrent, SubmitJobIsCurrent, PollJobIsCurrent,
                  CancelJobIsCurrent
    <2> QED BY <2>1, <2>2 DEF JobsAreCurrent
  <1> QED BY <1>1, <1>2, <1>3, <1>4

-----------------------------------------------------------------------------
(* The theorem.                                                            *)

THEOREM SafetyInit == Init => IInv
  <1> SUFFICES ASSUME Init PROVE IInv
    OBVIOUS
  <1>1. OutboxInv
    BY DEF Init, RepoInit, AbsentRow, OutboxInv, OneEventPerInvoice, KindsMatch,
           WorkIsQueued, HasEvent
  <1>2. JobsAreCurrent
    BY DEF Init, JobsAreCurrent, SubmitJobIsCurrent, PollJobIsCurrent,
           CancelJobIsCurrent
  <1> QED BY <1>1, <1>2, TypeInit DEF IInv

THEOREM SafetyStep == IInv /\ [Next]_vars => IInv'
  <1> SUFFICES ASSUME IInv, [Next]_vars PROVE OutboxInv' /\ JobsAreCurrent'
    BY TypeStep DEF IInv
  <1>1. CASE UNCHANGED vars
    BY <1>1, JobsAtRest DEF vars, jobs, JobsAreCurrent
  <1>2. ASSUME NEW i \in Invoices, PerInvoice(i)
        PROVE  OutboxInv' /\ JobsAreCurrent'
    BY <1>2, ApiAndClockSafe, SubmitterSafe, PollerSafe, CancellerSafe DEF PerInvoice
  <1>3. CASE Worker
    BY <1>3, SubmitterSafe, PollerSafe, CancellerSafe DEF Worker
  <1>4. CASE LhdnActs
    BY <1>4, JobsAtRest DEF LhdnActs, jobs, JobsAreCurrent
  <1>5. CASE LosesSubmitAnswer \/ LosesCancelAnswer
    BY <1>5, SubmitterSafe, CancellerSafe
  <1>6. CASE DbError
    BY <1>6, JobsAtRest DEF DbError, JobsAreCurrent
  <1>7. CASE Crash
    BY <1>7, JobsAtRest DEF Crash, JobsAreCurrent
  <1> QED BY <1>1, <1>2, <1>3, <1>4, <1>5, <1>6, <1>7 DEF Next, Faulty

\* What the store's invariant says of each status.
LEMMA OutboxInvMatches == TypeOK /\ OutboxInv => OutboxMatchesStatus
  <1> SUFFICES ASSUME TypeOK, OutboxInv, NEW i \in Invoices
               PROVE  LET row == invoices[i]
                          kinds == {e.kind : e \in EventsOf(i)}
                      IN  CASE row.status = "Pending"   -> kinds = {"submit"}
                            [] row.status = "Submitted" ->
                                 \/ kinds = {"poll"}
                                 \/ kinds = {} /\ row.error.stage = "poll"
                            [] row.status = "Valid"     -> kinds \subseteq {"cancel"}
                            [] OTHER                    -> kinds = {}
    BY DEF OutboxMatchesStatus
  <1> DEFINE kinds == {e.kind : e \in EventsOf(i)}
  <1>1. \A e \in EventsOf(i) : invoices[i].status = Calls(e.kind) /\ e.kind \in Kind
    BY DEF EventsOf, OutboxInv, KindsMatch, TypeOK, RepoTypeOK, Event
  <1>2. /\ invoices[i].status = "Pending" => EventsOf(i) # {}
        /\ invoices[i].status = "Submitted" =>
             EventsOf(i) # {} \/ invoices[i].error.stage = "poll"
    BY DEF EventsOf, OutboxInv, WorkIsQueued, HasEvent
  <1>3. CASE invoices[i].status = "Pending"
    <2>1. kinds = {"submit"}
      BY <1>1, <1>2, <1>3 DEF Calls, Kind
    <2> QED BY <1>3, <2>1
  <1>4. CASE invoices[i].status = "Submitted"
    <2>1. kinds = {"poll"} \/ (kinds = {} /\ invoices[i].error.stage = "poll")
      BY <1>1, <1>2, <1>4 DEF Calls, Kind
    <2> QED BY <1>4, <2>1
  <1>5. CASE invoices[i].status = "Valid"
    <2>1. kinds \subseteq {"cancel"}
      BY <1>1, <1>5 DEF Calls, Kind
    <2> QED BY <1>5, <2>1
  <1>6. CASE invoices[i].status \notin {"Pending", "Submitted", "Valid"}
    <2>1. kinds = {}
      BY <1>1, <1>6 DEF Calls, Kind
    <2> QED BY <1>6, <2>1
  <1> QED BY <1>3, <1>4, <1>5, <1>6

\* An invoice never has two events, whatever crashes, retries and races happen.
THEOREM OneEvent == Spec => []OneEventPerInvoice
  <1>1. IInv => OneEventPerInvoice
    BY DEF IInv, OutboxInv
  <1> QED BY <1>1, SafetyInit, SafetyStep, PTL DEF Spec

\* The outbox always holds exactly the work the statuses call for.
THEOREM OutboxMatches == Spec => []OutboxMatchesStatus
  <1>1. IInv => OutboxMatchesStatus
    BY OutboxInvMatches DEF IInv
  <1> QED BY <1>1, SafetyInit, SafetyStep, PTL DEF Spec

\* A worker that comes back from LHDN never acts on a stale read.
THEOREM JobsCurrent == Spec => []JobsAreCurrent
  <1>1. IInv => JobsAreCurrent
    BY DEF IInv
  <1> QED BY <1>1, SafetyInit, SafetyStep, PTL DEF Spec
=============================================================================
