# einvoice-bridge: TLA+ specification and proofs

The bridge takes invoices from a point of sale, stores them in SQLite, and
delivers them to LHDN MyInvois with three background workers. This directory
models the part where it can go wrong in ways a test hardly reaches: several
actors on one store, calls whose answer is lost, retries, and restarts.

Paths below are relative to `src/crates/adapters/src/` unless they say otherwise.

## 1. The system

| Component | State | Operations | Talks to |
|---|---|---|---|
| **Invoice store** `repo.rs`, `src/migrations/` | `invoices` (one row per `invoice_ref`), `outbox_events` (the queue) | one transaction per method: `create_pending`, `request_cancellation`, `complete_submission`, `fail_permanently`, `reschedule`, `mark_valid`, `mark_invalid`, `mark_cancelled_via_poll`, `fail_poll`, `reschedule_poll`, `complete_cancel`, `fail_cancel`, `reschedule_cancel`; the reads `due_*`, `load_for_*`, `find_by_ref` | used by the API and the workers |
| **HTTP API** `api.rs` | none | `submit_invoice`, `cancel_invoice`, `get_invoice`, `healthz` | store |
| **Submitter** `worker/submitter.rs` | the event in hand, what was read of the row | load, build and sign, POST, record | store, domain, LHDN client |
| **Poller** `worker/poller.rs` | the same | load, GET details, record | store, LHDN client |
| **Canceller** `worker/canceller.rs` | the same | load, check preconditions, PUT, record | store, LHDN client |
| **LHDN client** `lhdn/client.rs`, `lhdn/error.rs`, `lhdn/models.rs` | none of its own per call | the three calls; status to `LhdnError`; `is_transient` | LHDN |
| **Token cache** `lhdn/client.rs:104`, `lhdn/oauth.rs`, `lhdn/token_repo.rs` | token in memory, token in SQLite, refresh mutex | `access_token`, `fetch_token` | LHDN, SQLite |
| **Backoff schedules** `worker/mod.rs` | none | `submit_backoff_for`, `poll_backoff_for` | the workers |
| **Run loops, shutdown** `run`/`tick` of each worker, `src/crates/bin/src/main.rs` | the batch, the watch channel | tick, sleep, stop, join | store |
| **Domain** `src/crates/domain/src/` | none | `build_signed_document`: build, canonicalise, hash, sign, embed | submitter |
| **LHDN MyInvois** (external) | documents | register, validate, cancel | |

How they interact: an accepted invoice is a row in `Pending` and an event of
kind `submit`, written in one transaction. Each worker owns the events of one
kind. A worker reads a due event and its row, calls LHDN, for up to 30 seconds a request,
with no lock and no transaction open, and then writes the outcome in one
transaction, which also replaces, removes or postpones the event. No `UPDATE`
checks the status it overwrites: that two workers never act on the same
invoice rests on the outbox alone.

What is hard, and the properties it calls for:

- *Stale reads.* Everything a worker read before its call is used after it:
  event id, attempts, uuid, reason. (`JobsAreCurrent`)
- *Atomicity of status and queue.* Lose the event, and nobody ever looks at the
  invoice again; keep it, and it is delivered twice or a decision is undone.
  (`OneEventPerInvoice`, `OutboxMatchesStatus`, `DecisionsStand`,
  `ImplementsLifecycle`)
- *Lost answers, crashes, failed writes.* LHDN acted and the store does not
  know. (`StatusAgreesWithLhdn`, `DuplicatesNeedFaults`)
- *Liveness.* Through all of that, every accepted request must end.
  (`PendingIsDecided`, `SubmittedIsSettled`, `CancellationIsAnswered`)
- *A batch is a snapshot.* A tick handles up to 16 events it read at once, minutes
  apart. (`SnapshotIsCurrent`, `DueIsHandled`)
- *Stopping.* A loop sees ctrl-c only when it has nothing to do; `main` joins the
  workers in order. (`ExitIsClean`, `ExitsOnShutdown`)
- *One token for three workers.* Refresh at the same time, failures between the
  two writes, expiry on the way. (`OneFetchPerExpiry`, `NeverExpiresInFlight`,
  `MemoryIsStored`, `CallsEnd`)
- *Retry clocks.* (`GivesUpOnTime`, `VerdictIsNoticed`, `CallsAreBounded`,
  `RequestInTimeIsSent`)
- *Signed again.* Every attempt is another document. (`DocumentsVerify`,
  `RecordIsRegistered`, `DuplicatesDiffer`)
- *The till's side of a lost answer*, and transactions that read before they
  write. (`AnswersHold`, `OneAuthor`, `KeepsLifecycle`, `PostIsAnswered`)

`PROJECT.json` lists every component with its status and every hazard at the
line where it bites.

## 2. The modules

| Module | Models |
|---|---|
| `LhdnError` | the error variants, `is_transient`, `classify_error`, the content of `error_json` |
| `Names` | the identifiers; extends `LhdnError` |
| `InvoiceRepo` | the store, one action per writing method, and the clock as its queries see it |
| `Lhdn` | LHDN (external) and how a call to it can end |
| `Submitter`, `Poller`, `Canceller` | one worker each: Load, the answers of the call, Finish |
| `Bridge` | API, workers, store, LHDN, faults and restarts composed; `Spec`, `FairSpec`, the properties |
| `InvoiceLifecycle` | the abstract specification: what the bridge promises of one invoice |
| `Scheduler` | the three run loops: query, batch, hot loop, sleep, shutdown, join, restart |
| `TokenCache` | `access_token`: token in memory and in SQLite, refresh mutex, clock, restart |
| `Backoff` | the two schedules, and the life of one event by the clock |
| `Signing` | from the posted payload to the registered document and the copy the row keeps |
| `PointOfSale` | the API as tills see it, its transactions interleaved; refines `InvoiceLifecycle` |
| `MCBridge`, `MCBackoff`, `MCSigning` | instances that need definitions: symmetry, the real limits, the bundles |
| `Claims` | statements of the repository's text that the code does not keep |
| `BridgeSafetyProofs` | type correctness and the outbox discipline |
| `BridgeLifecycleProofs` | the refinement, and that decisions stand |
| `BridgeLhdnProofs` | that rows agree with LHDN, and what duplicates cost |
| `TokenCacheProofs` | mutual exclusion, memory and store, no expired token |
| `BackoffProofs` | attempts, calls, the cancellation in time, when an event is given up and a verdict noticed |
| `PointOfSaleProofs` | one author, true answers, the refinement of the API |
| `SchedulerProofs` | snapshots that stay true, and the clean exit |
| `SigningProofs` | that registered documents verify, differ, and are the ones rows keep |

`Bridge` and its parts say what is done to rows and events; the other five say when,
in which order, and with what. They share no variables with it, and meet it in
named facts. `Scheduler` assumes that an invoice has one event
(`Bridge!OneEventPerInvoice`), and shows that an event of a batch is still due when its
turn comes (`SnapshotIsCurrent`) and that due events are not passed over (`DueIsHandled`),
which `Bridge` assumes. `Backoff` gives 'not yet due' its seconds. `TokenCache` and
`Signing` are what happens inside a Load. `PointOfSale` takes the workers to be the moves
of `InvoiceLifecycle`, which `Bridge` implements.

### The store, the workers and LHDN

How state corresponds:

- `invoices[i]` is the row of invoice `i`: `lhdn_status`, `lhdn_uuid`,
  `attempts`, `error_json` (the stage and variant it was written with),
  `cancellable_until`, `cancellation_reason`. "Absent" is no row. The columns no
  decision reads are left out.
- `outbox` is `outbox_events`. An id is `(inv, n)`, `n` counting the events
  ever made for that invoice: ids are compared for equality only, and
  AUTOINCREMENT never reuses one. `available_at` is reduced to *due* or not;
  `last_error` is left out, nothing reads it.
- `sub`, `pol`, `can` are the locals of `process_event` across its awaits.
- `docs` are LHDN's documents; `lateSubmits` and `lateCancels` are requests that
  left the bridge, whose answer nobody waits for, and which LHDN may still act on.
- `faults` counts crashes, lost answers and failed writes.

How steps correspond. A method of the store is one step because it is one
SQLite transaction (or one statement), and SQLite serialises writers; a
read-then-write transaction that lost the race fails as a whole. `XLoad` is `tick` and
`process_event` up to the call, which only reads, so that it is one step;
the answer of the call is another, the transaction that records it the last.
Between any two every other actor may move. `tick` takes a snapshot of due events
and handles it in order; only the worker that owns a kind changes events of
that kind, so taking any due event when its handling starts gives the same
behaviours. `BackoffEnds` and `WindowCloses` are the clock. `Crash` forgets
the jobs and keeps the store; `DbError` is a transaction that was rolled back:
the handler returns the error, `tick` logs it, the event is due as before.
A failed read, or a failed write before the call, changes nothing and needs no step.

Modelled as data that may or may not be so:

- `Malformed`: invoices whose document cannot be built. (The API refuses a
  payload without `invoice_ref`, so through the API this is a failure of
  canonicalisation only.)
- `OmitsDocuments`: LHDN accepts a submission and names our document in neither
  array; `handle_success` then stores an empty uuid, which is `NoUuid`, as is NULL.
- `ErrorStatuses`, `LocalErrors`: how calls can fail.

Assumed of LHDN, because the client is written for it: a document is
registered under a fresh uuid, validation ends in Valid or Invalid, only a Valid
document is cancelled, by us or by LHDN, and a cancelled one stays so. Two
submissions are not merged: each is signed with its own signing time, so not even
their hashes agree. LHDN refuses a cancellation with a status of `ErrorStatuses`,
and may refuse any.

Unreachable, and left out: events without a row (foreign key with ON DELETE
CASCADE; no row is ever deleted). One process is assumed per database, as the code
does. `LHDN_OFFLINE` runs the API alone, which is `Bridge` with workers that never move.

### The run loops: `Scheduler`

`queue[w]` is the answer of worker `w`'s query without its LIMIT, in the order of
`available_at`; `later[w]` are its events that are not due. An event is its
invoice. `phase[w]` is where `run` stands: at the query, in the `for` over `batch[w]`, at
the `select!`, returned, or panicked. `main` and `joined` are `main.rs` after the
workers are spawned; `shutdown` is the value of the watch channel, which
`*shutdown.borrow()` reads. `Tick` is the query, one of `Deletes`, `Submits`, `Reschedules`,
`PutsBack`, `Errors` the handling of the head of the batch, and all of them go round
again without the `select!` when the batch was not empty. `PutsBack` is
`reschedule_poll` with `available_at` 0, hence before all others. An
`Abort` is a kill, or `main` returning early, both of which end the tasks where they are.

### The token: `TokenCache`

`cache`, `stored` and `mutex` are the client's `cache`, the row of `oauth_tokens` and
`refresh`. `call[c]` is where caller `c` is suspended, the token it has, and when its
await ends at the latest. Time is in ticks; `Tick` may not pass the
end of an await, which is what a timeout is. `granted` is LHDN's own record of
each token, with its own idea of when it expires. `Upsert` and `Remember` are two steps: others may
look at the cache in between. Nothing in `access_token` asks whether a token it has just
fetched is fresh, and nothing in the module does.

### The clock of an event: `Backoff`

One event of one kind. `now` is in seconds since it was inserted and moves only in
the steps that take time: waiting for the worker (0 or `PollInterval`), a call,
a restart or a database that fails (`Interrupted`, before the event is taken or during its call).
`unsent` follows a cancellation: `Sent` once its PUT has left, and until then the seconds that
failures have cost it, since a call may end in `access_token` before anything is sent. `Exhausted`, `Wait` and the order of counting and comparing are those of the three
`handle_failure`s. `decided` is when LHDN reached its verdict, for polls; that may be while a poll is under way, too late
for the answer that poll gets. `Waits` is no code: it is
what the schedules add up to, which the documents' figures are compared with.

### The document: `Signing`

A JSON object is a function of member names, its canonical bytes the sequence of its
members in the order of their names; a hash is a record of what was hashed, a signature one of key and
message. Members with fixed values are represented by two (`InvoiceTypeCode`, `IssueDate`).
`signings` is both the bound and the time of day, since no two attempts sign at the same
nanosecond. `hand` is what `process_event` holds across the call, and then what the answer accepted. LHDN registers what
it was sent, at once or, when the answer was lost, later. `UuidFor` looks our code number up among the
accepted documents, and gives "" (`NoUuid`) when the answer names it in neither list. `from_p12` takes
the last key and the last certificate of a bundle, whatever they are; of a bundle only that it has one of each is assumed.

### The tills: `PointOfSale`

`request[t]` is the one request of till `t`: on its way, between the SELECTs and the UPDATE of
a cancellation, or answered. `create_pending` starts with its INSERT and so holds the
write lock throughout: one step. `request_cancellation` starts with SELECTs in a deferred
transaction; `overtaken` are those whose snapshot another commit has made old, and whose UPDATE SQLite refuses
(SQLITE_BUSY_SNAPSHOT, assumed of SQLite in WAL mode; under a rollback journal the other writer cannot
commit first, and the behaviours are fewer). That is a database error, answered 500.
`told` is what a till knows of an invoice. The 400 answers (no `invoice_ref`, no `reason`) change nothing,
tell nothing of an invoice, and are left out.

## 3. The runs

| Run | Question | Instance |
|---|---|---|
| `bridge_safety` | do two invoices and all actors ever corrupt each other? | 2 invoices, 3 uuids, 1 reason, errors 409 and Transport, 1 fault |
| `bridge_faults` | what do repeated faults do to one invoice? | 1 invoice, 4 uuids, 2 reasons, 401, 409, 503, Transport, Schema, Storage, 2 faults, answers that omit the document |
| `bridge_liveness` | does every accepted request end? | 2 invoices, one malformed, 1 fault, `FairSpec` |
| `scheduler` | is a batch still true when its last event is handled? does anything starve, does ctrl-c end the process, and cut anything off? | 3 invoices, one without uuid, one that is retried, batch of 2, 2 attempts, 1 fault, `FairSpec` |
| `token` | do three callers ever fetch twice, or send what has expired? does every call end? | 3 callers, leeway 2, timeouts 1, lifetime 4, 7 ticks, 2 grants, 1 restart, `FairSpec` |
| `backoff` | how long, how often, how late? | the real limits, schedules and intervals; calls of 0 and 60 s, windows of 5, 6, 610, 4000 s and 72 h, downtimes of 0 and 600 s, 1 fault |
| `signing` | is every registered document signed whole, and is the row's one of them? | 2 references, with and without blanks, 3 bundles: a single certificate, the authority's before its own, the authority's after its own (the case `from_p12` reads wrong); answers that omit the document; 3 signings |
| `pos` | are answers true, commits moves of the life cycle, and does a till learn the outcome? | 2 tills, 1 invoice, 2 reasons, 2 faults, `FairSpec` |
| `claim_*` | is this sentence of the repository true of the code? | a smallest instance; each run ends in a counterexample |

The bounds, all of them named:

- *Two invoices.* Workers are shared, rows are not: a third invoice adds no new
  pair of interacting steps. Every property is about one invoice or compares two.
- *Uuids*: an invoice registers at most one document per fault and one more
  (`DuplicatesNeedFaults`), so 3 are all that two invoices and one fault can use.
  `bridge_faults` has 4, one more than the property allows its invoice.
- *`SubmitMax`, `PollMax`, `CancelMax`* of 2 or 3 for 8, 60 and 8: one failure
  that is retried, one that is the last.
- *`MaxEvents`* bounds the number of cancellation requests of an invoice: 3 is
  submit, poll and one cancellation; 4 allows a second one after a refused first,
  where a stale reason would show.
- *`MaxFaults`* bounds crashes, lost answers and failed writes together.
- Deadlock is not checked in the runs of `Bridge` (the system rests when every invoice
  is decided) and of `Backoff` (an event's life ends). The others check it.
- *`BatchSize`* of 2 for 16, with 3 invoices: an event waits behind another in the
  batch, and a third is left out of it. One event that is always due is fewer than a batch.
- *`Flaky`* bounds which invoices are retried: one that comes and goes among those that do not.
- *`MaxNow`, `MaxGrants`*: 7 ticks and 2 tokens let a token expire and a second be fetched,
  with a restart before, between or after. Leeway, timeouts and lifetimes are in the
  proportion of 60, 30 and the shortest lifetime `LeewayCoversTimeouts` allows, where an error of one tick shows.
- *`Backoff`* has no bound but its faults: attempts end every life. 4000 s is a window that
  closes during the retries, 5 and 6 are at the poll interval, 610 is where a downtime of 600 tells. 60 s is a token fetch and a
  request that both time out; waiting for the refresh mutex behind the other two workers can make a call longer, which
  moves no boundary of the properties (they count in `CallMax`), and the theorems hold for any `CallTimes`.
- *`MaxSignings`* 3: a lost one, a recorded one, and one for the other invoice.
- *`MaxLost`* 2: a lost answer, and a failure of the retry.

*Symmetry* permutes invoices, uuids and reasons, which are compared for
equality only; the liveness run uses none.

*Fairness* (`FairSpec`). A worker finishes what it started: each loop runs for
ever, and `REQUEST_TIMEOUT` (client.rs:29) ends every call in an answer or an
error, hence WF on Calls and Finishes. An event that is due again and again is
taken: ticks take the events that have been due longest, so none is passed over for
ever while fewer than `batch_size` events are stuck, which is `Scheduler!DueIsHandled`;
hence SF on Loads, strong because the worker is busy with other events in between. Time passes: WF on `BackoffEnds`.
Nothing is assumed of LHDN, of the point of sale, of the window closing, or
of faults; faults are finitely many.

In `Scheduler` a loop turns (calls end by their timeout, sleeps by their interval),
due times come, and `SeesShutdown` is SF: a channel that has changed is ready when the
`select!` begins, the sleep is not. In `TokenCache` every await that has a timeout
ends, and `Acquire` is SF because tokio hands its mutex out in the order it was asked for.
In `PointOfSale` handlers end and answers arrive, but for finitely many losses;
that a till without an answer posts again is an assumption about tills.

What the passing runs show:

- `TypeOK`: types, in `bridge_faults`, where rows without uuid occur: nothing is asked about or cancelled without one.
- `OneEventPerInvoice`, `OutboxMatchesStatus`: the queue holds exactly the work
  each status calls for.
- `JobsAreCurrent`: what a worker read before its call still holds when it writes.
- `StatusAgreesWithLhdn`: a decided row agrees with LHDN's document (with the
  one exception of section 4), belongs to the right invoice, and names the reason
  LHDN cancelled it for.
- `DuplicatesNeedFaults`: a tax document is registered twice only when a fault
  hid the first one, once per fault.
- `DecisionsStand`: uuids are not forgotten, and decided states not left.
- `ImplementsLifecycle`: `Bridge` refines `InvoiceLifecycle`, where an invoice
  has a status, the work owed to it, and the reason of its cancellation.
- `PendingIsDecided`, `SubmittedIsSettled`, `CancellationIsAnswered`.
- `SnapshotIsCurrent`: nobody takes an event out from under a tick.
- `ExitIsClean`: after ctrl-c, `main` returns when no event is in hand.
- `DueIsHandled`, `ExitsOnShutdown`: with the exceptions the code has (stuck events).
- `OneFetchPerExpiry`, `MemoryIsStored`, `NeverExpiresInFlight`, `CallsEnd`: the token.
  That the leeway is exactly two request timeouts is what the third rests on.
- `GivesUpOnTime`: a submission or a cancellation that keeps failing is kept for 4 h 12 m 30 s, as
  PLAN.md:128 adds up to, a poll for 13 hours (poller.rs:35-37) give or take a
  quarter; each plus what the calls take.
- `VerdictIsNoticed`: within the wait that follows the poll which just missed it, plus what that poll, the
  loop and the next poll take. `CallsAreBounded`.
- `RequestInTimeIsSent`: a cancellation lapses without a PUT having left only if its window was no longer than one poll
  interval, another for each failure, and what failed calls, their backoffs and downtime took. Without failures that is one interval.
- `DocumentsVerify`, `RecordIsRegistered`, `DuplicatesDiffer`: what LHDN has is consistent in itself and signed
  with key and certificate of one bundle (they match unless that bundle ends in a certificate that is not its last key's), a row holds one whole document, and
  the one of its uuid if the answer named one, and no hash shows LHDN that
  a document is the same invoice again.
- `AnswersHold`, `OneAuthor`, `KeepsLifecycle`, `PostIsAnswered`: a till may post
  again without harm; one of several cancellations wins.

Each has a mutant: a definition with a plausible slip, kept beside the one it
replaces, under which the run finds it violated.

## 4. Where text and code disagree

- `claim_invalid`: `mark_invalid` is documented as "LHDN reported `Invalid`", and
  an exhausted poll as leaving the status alone (repo.rs:329, 390-393). When the
  poll attempts run out on a document LHDN is still validating, the poller calls
  `mark_invalid` (poller.rs:237).
- `claim_cancel`: on a refused cancellation the row is left Valid "because LHDN
  did not in fact cancel the document" (canceller.rs:10-12). It did, when the answer
  of an earlier attempt was lost; the retry is refused because of it.
- `claim_giveup`: a poll event without uuid is put back with attempts at the
  maximum, "faking an exhausted retry" (poller.rs:130, 141-148), but the branch is
  taken before attempts are looked at, so it is due at once, for ever.
- `claim_pending`: "the row stays `Pending` [...] Nothing is lost" (README.md:12-13)
  holds for eight attempts, then the row Fails and its event is deleted.

Seen while modelling, and not given a run of their own:

- Each loop looks at the shutdown channel only after a tick with nothing due
  (submitter.rs:89, and the same in the other two), while submitter.rs:79-81 speaks
  of "a full batch". An event that is always due keeps the process from ending:
  one of `claim_giveup`, or a row whose handler fails each time. `ExitsOnShutdown`
  excepts the former (`Stuck`), and bounds the latter as faults.
- `batch_size` events of `claim_giveup` sort first in every tick, so that no other due
  event is polled, although poller.rs:3-4 says "For each `Submitted` invoice with a due
  `poll` outbox event". `DueIsHandled` excepts it.
- "valid for at least `TOKEN_LEEWAY`" (client.rs:104) is by the client's count, which
  starts when the answer was read (client.rs:194), not by LHDN's; and the fetched token is not looked at
  again. `NeverExpiresInFlight` shows that it does no harm.
- "the first private key + certificate" (signer.rs:20-21) are the last bags
  (signer.rs:37-42), as the TODO there admits: with a bundle that ends in an intermediate, every document carries a certificate
  its signature does not verify with. `DocumentsVerify` excepts such a bundle (`Matches`), and the instance has one.
- A row whose answer named no uuid is Submitted with the uuid "" (submitter.rs:220): its document may be at LHDN, and nothing
  will ask for it; the poll event is that of `claim_giveup`. `RecordIsRegistered` then speaks of the row alone.
- README.md:58 says of /healthz "DB + LHDN OAuth token sanity"; it answers a constant (api.rs:31-33).
- POST trims a reference, GET and cancel do not trim theirs: only the reference the
  202 returns is sure to be found.

## 5. What is proved

For any sets of invoices, uuids and reasons, any limits, any error sets and any
number of faults, from the assumptions named in the modules:

- `BridgeSafetyProofs`: `TypeCorrect`, inductive as it stands, then `OneEvent`,
  `OutboxMatches`, `JobsCurrent`. None of the three is
  inductive alone. `OutboxInv` says of the store that an invoice has at most one
  event, that its kind is the one the status calls for, that a submit event
  and its row agree on attempts, and that an open status has its event.
  Each transaction is one of three moves (`Removal`, `Rescheduling`, `Adding`) that
  keep it and leave every other invoice alone (`Frame`). Two jobs are then
  never on one invoice, because their kinds, hence the statuses they call for, differ; so
  a step on one job's invoice cannot disturb another job.
- `BridgeLifecycleProofs`: `Refinement`, `Spec => ImplementsLifecycle`, and
  `DecisionsFinal`, `Spec => DecisionsStand`. Both use the invariant above at the
  first state of a step: whoever writes holds a current job, so the status it
  overwrites is the one its kind calls for, whence each transaction is a move of
  the abstract specification, and none starts from a decided status.
- `BridgeLhdnProofs`: `LhdnAgrees`, `Spec => []StatusAgreesWithLhdn`, and `DuplicatesPaidFor`,
  `Spec => []DuplicatesNeedFaults`. `AgreeInv` adds to the rows what is on its way to them: an answer
  a worker holds is true of LHDN's document, and stays true because verdicts are final
  (Valid may become Cancelled, and then says so); and a cancellation LHDN has carried out, or
  still may, was asked for by the row of that document, which is Valid or Cancelled. `SentInv` is the count behind the second: an invoice's documents and the late requests that
  may still make one are at most the faults so far, and one more once an answer is in
  hand or recorded.
- `TokenCacheProofs`: `TokenTypeCorrect`, `OneFetch`, `MemoryStored`, `NeverExpires`. `MutexInv`
  says who may be where: whoever refreshes holds the mutex, a fetcher knows that neither
  token is fresh (time only makes tokens staler), and memory is the stored token or empty unless
  its holder is about to write it. `FlightInv` follows a token: what the client
  counts as its expiry is LHDN's plus at most one call, so that a leeway of two calls
  leaves one for the request; a token just fetched has its whole lifetime. From `LeewayCoversTimeouts` (60 = 30 + 30;
  LHDN's tokens live an hour).
- `BackoffProofs`: `BackoffTypeCorrect`, `BoundedCalls`, `InTimeIsSent`, for any limits, windows and
  times: calls never exceed attempts and faults together, by one while a call is under way. `UnsentInv` says of a
  cancellation not yet sent that the clock, and the time it is next due, are at most the intervals so far and `unsent`, whence the window.
  `OnTime` and `NoticedInTime` rest on `Waits(k, n)`, the first n waits in closed form: `WaitsAddUp`
  proves that each attempt adds the wait the code's schedule gives it. `ClockInv` then says that an event with n
  failures is due at `Waits(k, n)` at the earliest, without faults one `Slack` per call later at
  most, and that a verdict is at most one wait and two calls old, the first being the poll that missed it. `TotalsAssumption` says that the
  documents' figures are the schedule's totals for the limits in use, `GapsAssumption` that what counts as early ends
  before the coarse waits begin; TLC evaluates both on the real figures.
- `PointOfSaleProofs`: `PosTypeCorrect`, `CancelHasOneAuthor`, `PosRefinement`, `AnswersAreTrue`. The invariant is about snapshots: a
  cancellation between SELECT and UPDATE that is not overtaken sees the row as it is, Valid and
  with no cancellation pending. Every commit either is that till's or puts it among the overtaken.

- `SchedulerProofs`: `LoopTypes`, `SnapshotsCurrent`, `ExitsClean`, for any events, workers' queues and batch
  size. `LoopInv`: the queues of the three workers, and what is not due yet, are disjoint and
  without repetition (one event per invoice), a batch is a duplicate-free part of its own worker's queue, a batch is
  only there while its worker runs, and main counts a worker as joined only when it has ended.
- `SigningProofs`: `PipelineTypes`, `RegisteredVerify`, `RowsRegistered`, `SecondsDiffer`. First the pipeline alone:
  canonical bytes read back are the object they were made of (`Readable`), whence what is in a
  signed document (`SubmissionShape`). Then `PipelineInv`: every submission registered, late or in hand
  was made of a stored row's payload at a past time (`AllSent`), no two at the same
  (`TimesDiffer`), and the document in hand and the Submitted rows are the ones registered under their uuids,
  if they have one (`HandHolds`, `RowsHold`). Signatures and digests are symbolic, so this is about what is signed and sent, not
  about RSA. `SigningAssumption` says no more of a bundle than that it has a key and a certificate, which `from_p12` checks.

So every invariant a run checks is a theorem. Model-checked only: liveness (`DueIsHandled`,
`ExitsOnShutdown`, `CallsEnd`, `PostIsAnswered`, `PendingIsDecided`, `SubmittedIsSettled`, `CancellationIsAnswered`),
which under fairness is out of the prover's reach, and the four statements of `Claims`, which are refuted.

## 6. Not modelled, and the plan

Hazards that no property covers, because the code does exactly what the hazard says, and the property next to it has the
exception: a submission recorded Failed after a fault though LHDN has its document; a Valid row whose document LHDN
cancels afterwards; the loop a stuck event keeps from stopping; the token revoked at LHDN. Each is in `PROJECT.json` with its line.

Left out for good:

- SHA-256, RSA, PKCS#12 decryption and number formatting of RFC 8785: library calls, symbolic in `Signing`.
- A token revoked at LHDN: the client cannot tell, keeps it until it expires, and every
  call ends in `Auth`, which `Bridge` has as an error of a call.
- `Retry-After`, parsed into `RateLimited` and read by nothing; `validate_taxpayer`, called by nothing.
- The QR url, `/healthz`, logging, parsing of environment variables.
- Two processes on one database, which the code does not provide for.

Next, in order of what it would say: that the moves of `PointOfSale` and of `Bridge` on one invoice
are the same moves (both implement `InvoiceLifecycle`, each proved on its own); the parts of
the liveness arguments that are safety, such as that a due event only moves forward in its
queue while fewer than `batch_size` are stuck; action properties of the loops, such as
that only the worker itself takes an event from its batch.
