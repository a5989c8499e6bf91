------------------------------ MODULE MCSigning ------------------------------
(***************************************************************************)
(* Signing with three bundles: one of a single key and certificate, one,   *)
(* the renewal, that also has the authority's certificate, before its own, *)
(* and one that has it after its own, where from_p12 takes it for the      *)
(* signer's (the TODO at signer.rs:33-36).                                 *)
(***************************************************************************)
EXTENDS Signing

Certificate(key) == [key |-> key]

IssuedBundles ==
  {[key_bags |-> <<"old">>, cert_bags |-> <<Certificate("old")>>],
   [key_bags |-> <<"renewed">>,
    cert_bags |-> <<Certificate("authority"), Certificate("renewed")>>],
   [key_bags |-> <<"chained">>,
    cert_bags |-> <<Certificate("chained"), Certificate("authority")>>]}
=============================================================================
