------------------------------- MODULE Signing -------------------------------
(***************************************************************************)
(* From the payload a point of sale posts to the signed document LHDN      *)
(* registers and the copy the row keeps (the domain crate, build_doc and   *)
(* handle_success of the submitter, submit_invoice).  Every attempt builds *)
(* and signs the document anew, with another signing time and, after a     *)
(* restart, perhaps another certificate; the answer to an earlier attempt  *)
(* may be lost while LHDN registers its document.                          *)
(*                                                                         *)
(* Cryptography is symbolic: a digest is that of what was hashed, a        *)
(* signature names its key and message.  Base64 is left out; it loses      *)
(* nothing.                                                                *)
(***************************************************************************)
EXTENDS Integers, Sequences, FiniteSets, SequencesExt

CONSTANTS
  Names,        \* invoice numbers
  Keys,         \* key pairs; a certificate is of the public half of one
  Bundles,      \* .p12 files the process may be started with
  MaxSignings   \* bound: documents signed

\* The process is started only with a bundle that has a key and a certificate.
\* Nothing says that the last of each belong together.
ASSUME SigningAssumption ==
  /\ MaxSignings \in Nat
  /\ Bundles \subseteq [key_bags : Seq(Keys), cert_bags : Seq([key : Keys])]
  /\ \A b \in Bundles : b.key_bags # <<>> /\ b.cert_bags # <<>>

Missing == "missing"

\* A reference as it is written: it may have blanks around it, or be blank.
Text == [name : Names \cup {""}, blanks : BOOLEAN]
Payload == [invoice_ref : Text, currency : {Missing, "USD"}]

trim(text) == [text EXCEPT !.blanks = FALSE]
IsEmpty(text) == text.name = ""

-----------------------------------------------------------------------------
(***************************************************************************)
(* The domain crate.  A JSON object is a function of its member names; its *)
(* canonical bytes are its members in the order of their names, a place    *)
(* being empty where the object has no member of that name.                *)
(***************************************************************************)
MemberOrder == <<"DocumentCurrencyCode", "ID", "InvoiceTypeCode", "IssueDate",
                 "Signature", "TaxCurrencyCode", "UBLExtensions">>

Member(object, m) == IF m \in DOMAIN object THEN <<m, object[m]>> ELSE <<>>

canonicalize_json(object) == [n \in 1..Len(MemberOrder) |-> Member(object, MemberOrder[n])]

sha256(bytes) == [sha256 |-> bytes]

\* Signer: key and certificate are each the last bag of their kind, whatever else
\* is in the bundle.
from_p12(bundle) ==
  [private_key |-> Last(bundle.key_bags), cert_der |-> Last(bundle.cert_bags)]

sign(signer, message) == [key |-> signer.private_key, message |-> message]

build_unsigned_invoice(pos, code_number) ==
  LET currency == IF pos.currency = Missing THEN "MYR" ELSE pos.currency
  IN  [ID |-> code_number.name, IssueDate |-> "", InvoiceTypeCode |-> "01",
       DocumentCurrencyCode |-> currency, TaxCurrencyCode |-> currency]

embed_signature(doc, signature, signer, signing_time) ==
  [m \in DOMAIN doc \cup {"UBLExtensions", "Signature"} |->
     CASE m = "UBLExtensions" ->
            [SignatureValue |-> signature, X509Certificate |-> signer.cert_der,
             CertDigest |-> sha256(signer.cert_der), SigningTime |-> signing_time]
       [] m = "Signature" -> "signature1"
       [] OTHER -> doc[m]]

\* The signature is over the document as embedded, not as it was built.
build_signed_document_SignsLast(pos, signer, signing_time) ==
  LET code == trim(pos.invoice_ref)
      unsigned == build_unsigned_invoice(pos, code)
      draft == embed_signature(unsigned, "", signer, signing_time)
      signature == sign(signer, canonicalize_json(draft))
      bytes == canonicalize_json(embed_signature(unsigned, signature, signer, signing_time))
  IN  [canonical_bytes |-> bytes, document_hash |-> sha256(bytes),
       code_number |-> code, signature |-> signature]

build_signed_document(pos, signer, signing_time) ==
  LET code == trim(pos.invoice_ref)
      unsigned == build_unsigned_invoice(pos, code)
      signature == sign(signer, canonicalize_json(unsigned))
      bytes == canonicalize_json(embed_signature(unsigned, signature, signer, signing_time))
  IN  [canonical_bytes |-> bytes, document_hash |-> sha256(bytes),
       code_number |-> code, signature |-> signature]

-----------------------------------------------------------------------------
VARIABLES
  rows,      \* per invoice_ref, the columns of its row this is about
  signer,    \* the Signer the submitter was started with
  signings,  \* how many documents have been signed; the clock they are signed by
  hand,      \* process_event: the document whose answer it awaits, or has
  late,      \* submissions under way that nobody waits for
  lhdn       \* the documents LHDN has registered, in the order of their uuids

vars == <<rows, signer, signings, hand, late, lhdn>>

AbsentRow == [lhdn_status |-> "Absent"]
NoUuid == 0
Idle == [answer |-> "none", accepted |-> {}]

\* What is sent for a signed document (SubmissionDocument).
SubmissionOf(signed) ==
  [code_number |-> signed.code_number, document_hash |-> signed.document_hash,
   document |-> signed.canonical_bytes]

SigningTypeOK ==
  /\ \A t \in Text : rows[t].lhdn_status \in {"Absent", "Pending", "Submitted"}
  /\ \A t \in Text : rows[t].lhdn_status # "Absent" => rows[t].payload \in Payload
  /\ signer \in {from_p12(b) : b \in Bundles}
  /\ signings \in 0..MaxSignings
  /\ hand.answer \in {"none", "awaited", "accepted"}
  /\ hand.accepted \subseteq [uuid : 1..Len(lhdn), invoice_code_number : Text]

Init ==
  /\ rows = [t \in Text |-> AbsentRow]
  /\ signer \in {from_p12(b) : b \in Bundles}
  /\ signings = 0
  /\ hand = Idle
  /\ late = {}
  /\ lhdn = <<>>

submit_invoice_Untrimmed(payload) ==
  LET invoice_ref == payload.invoice_ref
  IN  /\ ~IsEmpty(invoice_ref)
      /\ rows[invoice_ref] = AbsentRow
      /\ rows' = [rows EXCEPT ![invoice_ref] =
                    [lhdn_status |-> "Pending", payload |-> payload]]
      /\ UNCHANGED <<signer, signings, hand, late, lhdn>>

submit_invoice_Normalised(payload) ==
  LET invoice_ref == trim(payload.invoice_ref)
  IN  /\ ~IsEmpty(invoice_ref)
      /\ rows[invoice_ref] = AbsentRow
      /\ rows' = [rows EXCEPT ![invoice_ref] =
                    [lhdn_status |-> "Pending",
                     payload |-> build_unsigned_invoice(payload, invoice_ref)]]
      /\ UNCHANGED <<signer, signings, hand, late, lhdn>>

\* submit_invoice and create_pending: the payload is stored as it came, under
\* its trimmed reference, which is unique.
submit_invoice(payload) ==
  LET invoice_ref == trim(payload.invoice_ref)
  IN  /\ ~IsEmpty(invoice_ref)
      /\ rows[invoice_ref] = AbsentRow
      /\ rows' = [rows EXCEPT ![invoice_ref] =
                    [lhdn_status |-> "Pending", payload |-> payload]]
      /\ UNCHANGED <<signer, signings, hand, late, lhdn>>

\* process_event up to the call: build_doc signs with the time of day.
process_event(ref) ==
  /\ hand = Idle
  /\ rows[ref].lhdn_status = "Pending"
  /\ signings < MaxSignings
  /\ signings' = signings + 1
  /\ hand' = [answer |-> "awaited", accepted |-> {}, invoice |-> ref,
              signed |-> build_signed_document(rows[ref].payload, signer, signings')]
  /\ UNCHANGED <<rows, signer, late, lhdn>>

\* LHDN registers the document under a uuid and answers with it.
Answers ==
  /\ hand.answer = "awaited"
  /\ lhdn' = Append(lhdn, SubmissionOf(hand.signed))
  /\ hand' = [hand EXCEPT !.answer = "accepted",
                !.accepted = {[uuid |-> Len(lhdn'),
                               invoice_code_number |-> hand.signed.code_number]}]
  /\ UNCHANGED <<rows, signer, signings, late>>

\* It answers well but lists the document in neither of its lists, whether it has
\* registered it or not.
AnswersWithout ==
  /\ hand.answer = "awaited"
  /\ lhdn' \in {lhdn, Append(lhdn, SubmissionOf(hand.signed))}
  /\ hand' = [hand EXCEPT !.answer = "accepted"]
  /\ UNCHANGED <<rows, signer, signings, late>>

\* The call ends without an answer and is retried later; LHDN may have the
\* submission, or get it yet.
Lost ==
  /\ hand.answer = "awaited"
  /\ hand' = Idle
  /\ late' \in {late, late \cup {SubmissionOf(hand.signed)}}
  /\ UNCHANGED <<rows, signer, signings, lhdn>>

LateSubmission ==
  \E s \in late :
    /\ late' = late \ {s}
    /\ lhdn' = Append(lhdn, s)
    /\ UNCHANGED <<rows, signer, signings, hand>>

\* The uuid LHDN gives the document of a code number, "" when it names none.
UuidFor(accepted, code_number) ==
  LET found == {a \in accepted : a.invoice_code_number = code_number}
  IN  IF found = {} THEN NoUuid ELSE (CHOOSE a \in found : TRUE).uuid

handle_success_Rebuilt ==
  LET signed == build_signed_document(rows[hand.invoice].payload, signer, signings + 1)
  IN  /\ hand.answer = "accepted"
      /\ rows' = [rows EXCEPT ![hand.invoice] =
           [lhdn_status |-> "Submitted", payload |-> @.payload,
            lhdn_uuid |-> UuidFor(hand.accepted, signed.code_number),
            signature |-> signed.signature, ubl_xml |-> signed.canonical_bytes,
            doc_digest |-> signed.document_hash]]
      /\ hand' = Idle
      /\ UNCHANGED <<signer, signings, late, lhdn>>

\* handle_success and complete_submission: the row keeps the document that was
\* sent, under the uuid the answer has for it, if it has one.
handle_success ==
  /\ hand.answer = "accepted"
  /\ rows' = [rows EXCEPT ![hand.invoice] =
       [lhdn_status |-> "Submitted", payload |-> @.payload,
        lhdn_uuid |-> UuidFor(hand.accepted, hand.signed.code_number),
        signature |-> hand.signed.signature, ubl_xml |-> hand.signed.canonical_bytes,
        doc_digest |-> hand.signed.document_hash]]
  /\ hand' = Idle
  /\ UNCHANGED <<signer, signings, late, lhdn>>

\* The transaction fails: the event is still due.
StoreFails ==
  /\ hand.answer = "accepted"
  /\ hand' = Idle
  /\ UNCHANGED <<rows, signer, signings, late, lhdn>>

\* The process is started again, with what LHDN_P12_PATH then holds.
Restart ==
  /\ signer' \in {from_p12(b) : b \in Bundles}
  /\ hand' = Idle
  /\ IF hand.answer = "awaited"
     THEN late' \in {late, late \cup {SubmissionOf(hand.signed)}}
     ELSE UNCHANGED late
  /\ UNCHANGED <<rows, signings, lhdn>>

Next ==
  \/ \E payload \in Payload : submit_invoice(payload)
  \/ \E ref \in Text : process_event(ref)
  \/ Answers \/ AnswersWithout \/ Lost \/ LateSubmission
  \/ handle_success \/ StoreFails \/ Restart

Spec == Init /\ [][Next]_vars

-----------------------------------------------------------------------------
\* LHDN's copy, read back: its members, and the invoice without what signing put
\* into it.
Members(bytes) ==
  LET present == {n \in DOMAIN bytes : bytes[n] # <<>>}
  IN  [m \in {bytes[n][1] : n \in present} |->
         bytes[CHOOSE n \in present : bytes[n][1] = m][2]]

Bare(bytes) ==
  LET object == Members(bytes)
  IN  [m \in DOMAIN object \ {"UBLExtensions", "Signature"} |-> object[m]]

\* A bundle that from_p12 reads right: its last certificate is its last key's.
Matches(b) == Last(b.cert_bags).key = Last(b.key_bags)

\* Whoever has a registered document can verify it from the document alone: the
\* hash declared for it is that of its bytes, its ID is the code number, the
\* certificate's digest is the certificate's, and the signature in it is over the
\* rest of it.  Key and certificate are of one bundle, through every restart, so
\* that the signature verifies unless from_p12 read that bundle wrong: a bundle
\* whose last certificate is an intermediate.
DocumentsVerify ==
  \A u \in DOMAIN lhdn :
    LET object == Members(lhdn[u].document)
        extension == object["UBLExtensions"]
        signature == extension.SignatureValue
        certificate == extension.X509Certificate
    IN  /\ lhdn[u].document_hash = sha256(lhdn[u].document)
        /\ lhdn[u].code_number.name = object["ID"]
        /\ extension.CertDigest = sha256(certificate)
        /\ signature.message = canonicalize_json(Bare(lhdn[u].document))
        /\ \E b \in Bundles :
             /\ signature.key \in Range(b.key_bags)
             /\ certificate \in Range(b.cert_bags)
             /\ Matches(b) => signature.key = certificate.key

\* The document a Submitted row keeps is one that can be shown to LHDN: its
\* digest and signature are those of the document kept, it is the invoice of that
\* row, and, unless the answer named no uuid, it is the very document LHDN has
\* under the row's, whichever attempts were lost before, and whatever certificate
\* they were signed with.
RecordIsRegistered ==
  \A ref \in Text : rows[ref].lhdn_status = "Submitted" =>
    LET row == rows[ref]
        object == Members(row.ubl_xml)
    IN  /\ row.doc_digest = sha256(row.ubl_xml)
        /\ row.signature = object["UBLExtensions"].SignatureValue
        /\ object["ID"] = ref.name
        /\ row.lhdn_uuid # NoUuid =>
             lhdn[row.lhdn_uuid] = [code_number |-> ref, document_hash |-> row.doc_digest,
                                    document |-> row.ubl_xml]

\* Two documents LHDN has for one code number are the same invoice, though never
\* the same bytes: each attempt has its own signing time, so that LHDN cannot
\* tell by the hash that the second is the first again.
DuplicatesDiffer ==
  \A u, v \in DOMAIN lhdn :
    u # v /\ lhdn[u].code_number = lhdn[v].code_number =>
      /\ Bare(lhdn[u].document) = Bare(lhdn[v].document)
      /\ lhdn[u].document_hash # lhdn[v].document_hash
=============================================================================
