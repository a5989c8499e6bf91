------------------------------ MODULE LhdnError ------------------------------
(***************************************************************************)
(* The error vocabulary of the LHDN client (lhdn/error.rs) and how an HTTP *)
(* status becomes one of its variants (lhdn/client.rs).  The retry policy  *)
(* of the three workers reads nothing of an answer but its variant, and    *)
(* error_json keeps the variant beside the stage that wrote it.            *)
(***************************************************************************)
EXTENDS Naturals

\* The variants a call can end in.  Config is declared in error.rs and built
\* nowhere, so no call ends in it.
Variant == {"Auth", "BadRequest", "NotFound", "Conflict", "RateLimited",
            "Server", "Transport", "Schema", "Storage"}

is_transient(err) == err \in {"RateLimited", "Server", "Transport", "Storage"}

\* A status that is not a success.
classify_error(status) ==
  CASE status \in {401, 403} -> "Auth"
    [] status \in {400, 422} -> "BadRequest"
    [] status = 404          -> "NotFound"
    [] status = 409          -> "Conflict"
    [] status = 429          -> "RateLimited"
    [] OTHER                 -> "Server"

\* What error_json tells apart: the stage that wrote it and the variant.  The
\* submitter writes no stage for a failed call: "submit" is that body.
Stage == {"none", "build_signed_document", "lhdn_rejection", "submit",
          "lhdn_validation", "poll_exhausted", "poll",
          "cancel_precondition", "cancel"}

ErrorBody == [stage : Stage, kind : Variant \cup {"none"}]
NoError == [stage |-> "none", kind |-> "none"]
Body(stage) == [stage |-> stage, kind |-> "none"]
VariantBody(stage, err) == [stage |-> stage, kind |-> err]
=============================================================================
