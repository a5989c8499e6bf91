------------------------------ MODULE MCBackoff ------------------------------
(***************************************************************************)
(* Backoff with the defaults of SubmitterConfig, PollerConfig and          *)
(* CancellerConfig, and the times the documents give, in seconds.          *)
(***************************************************************************)
EXTENDS Backoff

Defaults == [submit |-> 8, poll |-> 60, cancel |-> 8]
Intervals == [submit |-> 5, poll |-> 2, cancel |-> 5]

\* PLAN.md:128 "30s, 2m, 10m, 1h, capped, max 8 attempts": seven waits.
\* poller.rs:35-37 "60 attempts is roughly 13 hours": within a quarter of an hour.
PlanSeconds == 30 + 120 + 600 + 4 * 3600
Earliest ==
  [submit |-> PlanSeconds, cancel |-> PlanSeconds, poll |-> 13 * 3600 - 900]
Latest ==
  [submit |-> PlanSeconds, cancel |-> PlanSeconds, poll |-> 13 * 3600 + 900]
=============================================================================
