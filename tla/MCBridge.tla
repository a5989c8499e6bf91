------------------------------ MODULE MCBridge -------------------------------
(***************************************************************************)
(* Bridge on small instances.  Invoices, Uuids and Reasons are only ever   *)
(* compared for equality, so permuting each of them is sound for the       *)
(* safety runs; the runs with liveness properties use no symmetry.         *)
(***************************************************************************)
EXTENDS Bridge, TLC

Symmetry ==
  Permutations(Invoices) \cup Permutations(Uuids) \cup Permutations(Reasons)
=============================================================================
