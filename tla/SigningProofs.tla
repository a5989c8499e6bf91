---------------------------- MODULE SigningProofs ----------------------------
(***************************************************************************)
(* What LHDN can verify and what the rows keep: SigningTypeOK,             *)
(* DocumentsVerify, RecordIsRegistered and DuplicatesDiffer, for any       *)
(* invoices, bundles and number of signings.                               *)
(*                                                                         *)
(* The first half is about the pipeline alone: canonical bytes can be read *)
(* back, so what is in a signed document is what was put in.  The second   *)
(* half is an induction: every submission ever made is of a row's payload, *)
(* and no two have the same signing time.                                  *)
(***************************************************************************)
EXTENDS Signing, SequenceTheorems, TLAPS

-----------------------------------------------------------------------------
(* Canonical bytes.                                                        *)

MemberNames == {"DocumentCurrencyCode", "ID", "InvoiceTypeCode", "IssueDate",
                "Signature", "TaxCurrencyCode", "UBLExtensions"}

LEMMA MemberOrderLists ==
  /\ Len(MemberOrder) = 7
  /\ \A m \in MemberNames : \E n \in 1..7 : MemberOrder[n] = m
  /\ \A n \in 1..7 : MemberOrder[n] \in MemberNames
  /\ \A k, n \in 1..7 : MemberOrder[k] = MemberOrder[n] => k = n
  <1>1. /\ MemberOrder[1] = "DocumentCurrencyCode" /\ MemberOrder[2] = "ID"
        /\ MemberOrder[3] = "InvoiceTypeCode" /\ MemberOrder[4] = "IssueDate"
        /\ MemberOrder[5] = "Signature" /\ MemberOrder[6] = "TaxCurrencyCode"
        /\ MemberOrder[7] = "UBLExtensions"
    BY DEF MemberOrder
  <1>2. 1..7 = {1, 2, 3, 4, 5, 6, 7}
    OBVIOUS
  <1>3. Len(MemberOrder) = 7
    BY DEF MemberOrder
  <1>4. \A m \in MemberNames : \E n \in 1..7 : MemberOrder[n] = m
    BY <1>1, <1>2 DEF MemberNames
  <1>5. \A n \in 1..7 : MemberOrder[n] \in MemberNames
    BY <1>1, <1>2 DEF MemberNames
  <1>6. \A k, n \in 1..7 : MemberOrder[k] = MemberOrder[n] => k = n
    BY <1>1, <1>2
  <1> QED BY <1>3, <1>4, <1>5, <1>6

\* Reading back what was written gives the object.
LEMMA Readable ==
  ASSUME NEW o, o = [m \in DOMAIN o |-> o[m]], DOMAIN o \subseteq MemberNames
  PROVE  Members(canonicalize_json(o)) = o
  <1> DEFINE bytes == canonicalize_json(o)
             present == {n \in DOMAIN bytes : bytes[n] # <<>>}
  <1>1. /\ DOMAIN bytes = 1..7
        /\ \A n \in 1..7 : bytes[n] = Member(o, MemberOrder[n])
    BY MemberOrderLists DEF canonicalize_json
  <1> HIDE DEF bytes
  <1>2. \A n : n \in present <=> n \in 1..7 /\ MemberOrder[n] \in DOMAIN o
    BY <1>1 DEF Member
  <1>3. \A n \in present : bytes[n][1] = MemberOrder[n] /\ bytes[n][2] = o[MemberOrder[n]]
    BY <1>1, <1>2 DEF Member
  <1>4. ASSUME NEW m \in DOMAIN o
        PROVE  /\ m \in {bytes[n][1] : n \in present}
               /\ bytes[CHOOSE n \in present : bytes[n][1] = m][2] = o[m]
    <2>1. PICK k \in 1..7 : MemberOrder[k] = m
      BY <1>4, MemberOrderLists
    <2>2. k \in present /\ bytes[k][1] = m
      BY <1>2, <1>3, <2>1
    <2>3. \A n \in present : bytes[n][1] = m => n = k
      BY <1>2, <1>3, <2>1, MemberOrderLists
    <2>4. (CHOOSE n \in present : bytes[n][1] = m) = k
      BY <2>2, <2>3
    <2> QED BY <1>3, <2>1, <2>2, <2>4
  <1>6. Members(bytes) = [m \in {bytes[n][1] : n \in present} |->
                            bytes[CHOOSE n \in present : bytes[n][1] = m][2]]
    BY DEF Members
  <1> HIDE DEF present
  <1>5. {bytes[n][1] : n \in present} = DOMAIN o
    <2>1. \A n \in present : bytes[n][1] \in DOMAIN o
      BY <1>2, <1>3
    <2>2. \A m \in DOMAIN o : m \in {bytes[n][1] : n \in present}
      BY <1>4
    <2> QED BY <2>1, <2>2
  <1>7. Members(bytes) = [m \in DOMAIN o |-> o[m]]
    BY <1>4, <1>5, <1>6
  <1> QED BY <1>7 DEF bytes

-----------------------------------------------------------------------------
(* What is in a signed document.                                           *)

UnsignedOf(pos) == build_unsigned_invoice(pos, trim(pos.invoice_ref))

EmbeddedIn(pos, g, t) ==
  embed_signature(UnsignedOf(pos), sign(g, canonicalize_json(UnsignedOf(pos))), g, t)

UnsignedNames == {"ID", "IssueDate", "InvoiceTypeCode", "DocumentCurrencyCode",
                  "TaxCurrencyCode"}

LEMMA UnsignedShape ==
  ASSUME NEW pos
  PROVE  /\ UnsignedOf(pos) = [m \in UnsignedNames |-> UnsignedOf(pos)[m]]
         /\ DOMAIN UnsignedOf(pos) = UnsignedNames
         /\ UnsignedOf(pos).ID = trim(pos.invoice_ref).name
  BY DEF UnsignedOf, build_unsigned_invoice, UnsignedNames

LEMMA EmbeddedShape ==
  ASSUME NEW pos, NEW g, NEW t
  PROVE  LET o == EmbeddedIn(pos, g, t)
         IN  /\ o = [m \in DOMAIN o |-> o[m]] /\ DOMAIN o = MemberNames
             /\ \A m \in UnsignedNames : o[m] = UnsignedOf(pos)[m]
             /\ o["UBLExtensions"] =
                  [SignatureValue |-> sign(g, canonicalize_json(UnsignedOf(pos))),
                   X509Certificate |-> g.cert_der,
                   CertDigest |-> sha256(g.cert_der), SigningTime |-> t]
  <1> DEFINE doc == UnsignedOf(pos)
             sig == sign(g, canonicalize_json(UnsignedOf(pos)))
             o == EmbeddedIn(pos, g, t)
  <1>1. DOMAIN doc = UnsignedNames
    BY UnsignedShape
  <1>2. UnsignedNames \cup {"UBLExtensions", "Signature"} = MemberNames
    BY DEF UnsignedNames, MemberNames
  <1> HIDE DEF doc, sig
  <1>3. o = embed_signature(doc, sig, g, t)
    BY DEF EmbeddedIn, doc, sig
  <1> HIDE DEF o
  <1>4. o = [m \in MemberNames |->
               CASE m = "UBLExtensions" ->
                      [SignatureValue |-> sig, X509Certificate |-> g.cert_der,
                       CertDigest |-> sha256(g.cert_der), SigningTime |-> t]
                 [] m = "Signature" -> "signature1"
                 [] OTHER -> doc[m]]
    BY <1>1, <1>2, <1>3 DEF embed_signature
  <1>5. \A m \in UnsignedNames : m \in MemberNames /\ m # "UBLExtensions" /\ m # "Signature"
    BY DEF UnsignedNames, MemberNames
  <1>6. "UBLExtensions" \in MemberNames
    BY DEF MemberNames
  <1> QED BY <1>4, <1>5, <1>6 DEF o, doc, sig

LEMMA DocumentShape ==
  ASSUME NEW pos, NEW g, NEW t
  PROVE  LET d == build_signed_document(pos, g, t)
             o == EmbeddedIn(pos, g, t)
         IN  /\ Members(d.canonical_bytes) = o
             /\ Bare(d.canonical_bytes) = UnsignedOf(pos)
             /\ d.document_hash = sha256(d.canonical_bytes)
             /\ d.code_number = trim(pos.invoice_ref)
             /\ d.signature = o["UBLExtensions"].SignatureValue
  <1> DEFINE d == build_signed_document(pos, g, t)
             o == EmbeddedIn(pos, g, t)
             bytes == canonicalize_json(o)
  <1>0. /\ o = [m \in DOMAIN o |-> o[m]] /\ DOMAIN o = MemberNames
        /\ \A m \in UnsignedNames : o[m] = UnsignedOf(pos)[m]
        /\ o["UBLExtensions"] =
             [SignatureValue |-> sign(g, canonicalize_json(UnsignedOf(pos))),
              X509Certificate |-> g.cert_der,
              CertDigest |-> sha256(g.cert_der), SigningTime |-> t]
    BY EmbeddedShape
  <1>2. d = [canonical_bytes |-> bytes, document_hash |-> sha256(bytes),
             code_number |-> trim(pos.invoice_ref),
             signature |-> sign(g, canonicalize_json(UnsignedOf(pos)))]
    BY DEF build_signed_document, EmbeddedIn, UnsignedOf
  <1> HIDE DEF o, bytes
  <1>1. /\ o = [m \in DOMAIN o |-> o[m]] /\ DOMAIN o = MemberNames
        /\ \A m \in UnsignedNames : o[m] = UnsignedOf(pos)[m]
        /\ o["UBLExtensions"].SignatureValue =
             sign(g, canonicalize_json(UnsignedOf(pos)))
    BY <1>0
  <1>3. Members(bytes) = o
    BY <1>1, Readable DEF bytes
  <1>4. MemberNames \ {"UBLExtensions", "Signature"} = UnsignedNames
    BY DEF MemberNames, UnsignedNames
  <1>5. Bare(bytes) = [m \in UnsignedNames |-> o[m]]
    BY <1>1, <1>3, <1>4 DEF Bare
  <1>6. Bare(bytes) = UnsignedOf(pos)
    BY <1>1, <1>5, UnsignedShape
  <1> HIDE DEF d
  <1>7. /\ d.canonical_bytes = bytes /\ d.document_hash = sha256(bytes)
        /\ d.code_number = trim(pos.invoice_ref)
        /\ d.signature = sign(g, canonicalize_json(UnsignedOf(pos)))
    BY <1>2
  <1> QED BY <1>1, <1>3, <1>6, <1>7 DEF d, o

\* The last bag of a kind is one of the bundle's.
LEMMA LastsAreBags ==
  ASSUME NEW b \in Bundles
  PROVE  Last(b.key_bags) \in Range(b.key_bags) /\ Last(b.cert_bags) \in Range(b.cert_bags)
  <1>1. ASSUME NEW S, NEW s \in Seq(S), s # <<>> PROVE Last(s) \in Range(s)
    <2>1. Len(s) \in DOMAIN s
      BY <1>1, EmptySeq, LenProperties
    <2> QED BY <2>1 DEF Last, Range
  <1>2. /\ b.key_bags \in Seq(Keys) /\ b.cert_bags \in Seq([key : Keys])
        /\ b.key_bags # <<>> /\ b.cert_bags # <<>>
    BY SigningAssumption
  <1> QED BY <1>1, <1>2

-----------------------------------------------------------------------------
(* The invariant of the pipeline.                                          *)

Signers == {from_p12(b) : b \in Bundles}

Submissions ==
  {SubmissionOf(build_signed_document(p, g, t)) :
     p \in Payload, g \in Signers, t \in 1..MaxSignings}

SignedAt(s) == Members(s.document)["UBLExtensions"].SigningTime

\* A submission made of the payload of one of the table's rows, as one of the
\* first n signings.
Sent(s, table, n) ==
  \E ref \in Text, g \in Signers, t \in 1..n :
    /\ table[ref].lhdn_status # "Absent"
    /\ s = SubmissionOf(build_signed_document(table[ref].payload, g, t))

Shapes ==
  /\ signer \in Signers /\ signings \in 0..MaxSignings
  /\ lhdn \in Seq(Submissions)
  /\ hand = Idle \/ hand.answer \in {"awaited", "accepted"}

\* The row of a reference keeps a document made for it, which is the one under its
\* uuid, if it has one.
Kept(ref, row, documents) ==
  /\ row.doc_digest = sha256(row.ubl_xml)
  /\ row.signature = Members(row.ubl_xml)["UBLExtensions"].SignatureValue
  /\ Members(row.ubl_xml)["ID"] = ref.name
  /\ row.lhdn_uuid # NoUuid =>
       /\ row.lhdn_uuid \in DOMAIN documents
       /\ documents[row.lhdn_uuid] =
            [code_number |-> ref, document_hash |-> row.doc_digest, document |-> row.ubl_xml]

\* A row keeps its payload under its own reference, and, once Submitted, the
\* document that was sent for it.
RowsHold ==
  /\ rows = [ref \in Text |-> rows[ref]]
  /\ \A ref \in Text :
       \/ rows[ref] = AbsentRow
       \/ /\ rows[ref].lhdn_status \in {"Pending", "Submitted"}
          /\ rows[ref].payload \in Payload
          /\ trim(rows[ref].payload.invoice_ref) = ref
  /\ \A ref \in Text : rows[ref].lhdn_status = "Submitted" => Kept(ref, rows[ref], lhdn)

\* What process_event holds is what was sent for its row, and what its answer
\* names is that document as registered.
HandHolds ==
  hand # Idle =>
    /\ hand = [answer |-> hand.answer, accepted |-> hand.accepted,
               invoice |-> hand.invoice, signed |-> hand.signed]
    /\ hand.invoice \in Text /\ rows[hand.invoice].lhdn_status # "Absent"
    /\ Kept(hand.invoice,
            [doc_digest |-> hand.signed.document_hash, ubl_xml |-> hand.signed.canonical_bytes,
             signature |-> hand.signed.signature, lhdn_uuid |-> NoUuid], lhdn)
    /\ hand.signed.code_number = hand.invoice
    /\ hand.answer = "awaited" => hand.accepted = {}
    /\ \A a \in hand.accepted :
         /\ a \in [uuid : DOMAIN lhdn, invoice_code_number : Text]
         /\ lhdn[a.uuid] = SubmissionOf(hand.signed)

\* Whatever LHDN has, or may get yet, was sent.
AllSent ==
  /\ \A u \in DOMAIN lhdn : Sent(lhdn[u], rows, signings)
  /\ \A s \in late : Sent(s, rows, signings)
  /\ hand # Idle => Sent(SubmissionOf(hand.signed), rows, signings)

\* And each at a time of its own.
TimesDiffer ==
  /\ \A u, v \in DOMAIN lhdn : u # v => SignedAt(lhdn[u]) # SignedAt(lhdn[v])
  /\ \A s \in late : \A u \in DOMAIN lhdn : SignedAt(s) # SignedAt(lhdn[u])
  /\ \A s, r \in late : s # r => SignedAt(s) # SignedAt(r)
  /\ hand.answer = "awaited" =>
       /\ \A u \in DOMAIN lhdn : SignedAt(SubmissionOf(hand.signed)) # SignedAt(lhdn[u])
       /\ \A s \in late : SignedAt(SubmissionOf(hand.signed)) # SignedAt(s)

PipelineInv == Shapes /\ RowsHold /\ HandHolds /\ AllSent /\ TimesDiffer

\* What a submission says, whatever it was made of.
LEMMA SubmissionShape ==
  ASSUME NEW pos, NEW g, NEW t
  PROVE  LET d == build_signed_document(pos, g, t)
             s == SubmissionOf(d)
             extension == Members(s.document)["UBLExtensions"]
         IN  /\ s.code_number = trim(pos.invoice_ref) /\ d.code_number = s.code_number
             /\ s.document_hash = sha256(s.document)
             /\ SignedAt(s) = t
             /\ Bare(s.document) = UnsignedOf(pos)
             /\ Members(s.document)["ID"] = s.code_number.name
             /\ extension.SignatureValue = sign(g, canonicalize_json(UnsignedOf(pos)))
             /\ extension.X509Certificate = g.cert_der
             /\ extension.CertDigest = sha256(g.cert_der)
             /\ d.signature = Members(d.canonical_bytes)["UBLExtensions"].SignatureValue
  <1> DEFINE d == build_signed_document(pos, g, t)
             s == SubmissionOf(d)
             o == EmbeddedIn(pos, g, t)
  <1>1. /\ Members(d.canonical_bytes) = o
        /\ Bare(d.canonical_bytes) = UnsignedOf(pos)
        /\ d.document_hash = sha256(d.canonical_bytes)
        /\ d.code_number = trim(pos.invoice_ref)
        /\ d.signature = o["UBLExtensions"].SignatureValue
    BY DocumentShape
  <1>2. /\ \A m \in UnsignedNames : o[m] = UnsignedOf(pos)[m]
        /\ o["UBLExtensions"] =
             [SignatureValue |-> sign(g, canonicalize_json(UnsignedOf(pos))),
              X509Certificate |-> g.cert_der,
              CertDigest |-> sha256(g.cert_der), SigningTime |-> t]
    BY EmbeddedShape
  <1> HIDE DEF o, d
  <1>3. /\ s.code_number = d.code_number /\ s.document_hash = d.document_hash
        /\ s.document = d.canonical_bytes
    BY DEF SubmissionOf
  <1> HIDE DEF s
  <1>4. o["ID"] = trim(pos.invoice_ref).name
    BY <1>2, UnsignedShape DEF UnsignedNames
  <1>5. /\ o["UBLExtensions"].SignatureValue = sign(g, canonicalize_json(UnsignedOf(pos)))
        /\ o["UBLExtensions"].X509Certificate = g.cert_der
        /\ o["UBLExtensions"].CertDigest = sha256(g.cert_der)
        /\ o["UBLExtensions"].SigningTime = t
    BY <1>2
  <1>6. SignedAt(s) = t
    BY <1>1, <1>3, <1>5 DEF SignedAt
  <1> QED BY <1>1, <1>3, <1>4, <1>5, <1>6 DEF s, d

\* What was sent stays sent while payloads stay and the clock runs on.
LEMMA SentStays ==
  ASSUME NEW table, NEW later, NEW n \in Nat, NEW k \in Nat, n <= k,
         \A ref \in Text : table[ref].lhdn_status # "Absent" =>
           later[ref].lhdn_status # "Absent" /\ later[ref].payload = table[ref].payload
  PROVE  \A s : Sent(s, table, n) => Sent(s, later, k)
  <1> SUFFICES ASSUME NEW s, Sent(s, table, n) PROVE Sent(s, later, k)
    OBVIOUS
  <1>1. PICK ref \in Text, g \in Signers, t \in 1..n :
          /\ table[ref].lhdn_status # "Absent"
          /\ s = SubmissionOf(build_signed_document(table[ref].payload, g, t))
    BY DEF Sent
  <1>2. t \in 1..k
    OBVIOUS
  <1>3. /\ later[ref].lhdn_status # "Absent"
        /\ s = SubmissionOf(build_signed_document(later[ref].payload, g, t))
    BY <1>1
  <1> QED BY <1>2, <1>3 DEF Sent

\* A sent submission names the row it was made of.
LEMMA SentNames ==
  ASSUME NEW s, Sent(s, rows, signings), RowsHold
  PROVE  /\ s.code_number \in Text
         /\ rows[s.code_number].lhdn_status # "Absent"
         /\ \E g \in Signers, t \in 1..signings :
              s = SubmissionOf(build_signed_document(rows[s.code_number].payload, g, t))
  <1>1. PICK ref \in Text, g \in Signers, t \in 1..signings :
          /\ rows[ref].lhdn_status # "Absent"
          /\ s = SubmissionOf(build_signed_document(rows[ref].payload, g, t))
    BY DEF Sent
  <1>2. s.code_number = trim(rows[ref].payload.invoice_ref)
    BY <1>1, SubmissionShape
  <1>3. trim(rows[ref].payload.invoice_ref) = ref
    BY <1>1 DEF RowsHold, AbsentRow
  <1> QED BY <1>1, <1>2, <1>3

LEMMA SentIsSubmission ==
  ASSUME NEW s, Sent(s, rows, signings), RowsHold, signings \in 0..MaxSignings
  PROVE  s \in Submissions /\ SignedAt(s) \in 1..signings
  <1>1. PICK ref \in Text, g \in Signers, t \in 1..signings :
          /\ rows[ref].lhdn_status # "Absent"
          /\ s = SubmissionOf(build_signed_document(rows[ref].payload, g, t))
    BY DEF Sent
  <1>2. rows[ref].payload \in Payload
    BY <1>1 DEF RowsHold, AbsentRow
  <1>3. t \in 1..MaxSignings
    BY SigningAssumption
  <1>4. SignedAt(s) = t
    BY <1>1, SubmissionShape
  <1> QED BY <1>1, <1>2, <1>3, <1>4 DEF Submissions

-----------------------------------------------------------------------------
(* What each step does to the parts of the state.                          *)

\* While an answer is awaited or has come, hand is a record of four fields.
LEMMA HandFields ==
  ASSUME Shapes, HandHolds
  PROVE  /\ hand.answer \in {"none", "awaited", "accepted"}
         /\ hand.answer = "none" <=> hand = Idle
         /\ Answers => /\ hand # Idle
                       /\ hand' = [answer |-> "accepted",
                                   accepted |-> {[uuid |-> Len(lhdn'),
                                                  invoice_code_number |-> hand.signed.code_number]},
                                   invoice |-> hand.invoice, signed |-> hand.signed]
         /\ AnswersWithout => /\ hand # Idle
                              /\ hand' = [answer |-> "accepted", accepted |-> {},
                                          invoice |-> hand.invoice, signed |-> hand.signed]
  <1>1. Idle.answer = "none"
    BY DEF Idle
  <1>2. ASSUME Answers \/ AnswersWithout
        PROVE  /\ hand # Idle /\ hand.answer = "awaited"
               /\ hand = [answer |-> hand.answer, accepted |-> {},
                          invoice |-> hand.invoice, signed |-> hand.signed]
    <2>1. hand # Idle /\ hand.answer = "awaited"
      BY <1>1, <1>2 DEF Answers, AnswersWithout
    <2> QED BY <2>1 DEF HandHolds
  <1>3. ASSUME Answers
        PROVE  hand' = [answer |-> "accepted",
                        accepted |-> {[uuid |-> Len(lhdn'),
                                       invoice_code_number |-> hand.signed.code_number]},
                        invoice |-> hand.invoice, signed |-> hand.signed]
    BY <1>2, <1>3 DEF Answers
  <1>4. ASSUME AnswersWithout
        PROVE  hand' = [answer |-> "accepted", accepted |-> {},
                        invoice |-> hand.invoice, signed |-> hand.signed]
    <2>1. PICK i, d : hand = [answer |-> "awaited", accepted |-> {}, invoice |-> i, signed |-> d]
      BY <1>2, <1>4
    <2>2. hand.invoice = i /\ hand.signed = d
      BY <2>1
    <2>3. hand' = [hand EXCEPT !.answer = "accepted"]
      BY <1>4 DEF AnswersWithout
    <2> QED BY <2>1, <2>2, <2>3
  <1> QED BY <1>1, <1>2, <1>3, <1>4 DEF Shapes

\* What is found in the answer is in the answer.
LEMMA UuidFound ==
  ASSUME NEW accepted, NEW code_number
  PROVE  \/ UuidFor(accepted, code_number) = NoUuid
         \/ \E a \in accepted : /\ a.invoice_code_number = code_number
                                /\ UuidFor(accepted, code_number) = a.uuid
  <1> DEFINE found == {a \in accepted : a.invoice_code_number = code_number}
             first == CHOOSE a \in found : TRUE
  <1>1. found = {} => UuidFor(accepted, code_number) = NoUuid
    BY DEF UuidFor
  <1>2. found # {} => first \in found /\ UuidFor(accepted, code_number) = first.uuid
    BY DEF UuidFor
  <1> QED BY <1>1, <1>2

\* One more registered document, at the end.
LEMMA Registered ==
  ASSUME lhdn \in Seq(Submissions), NEW s \in Submissions, lhdn' = Append(lhdn, s)
  PROVE  /\ lhdn' \in Seq(Submissions)
         /\ Len(lhdn') = Len(lhdn) + 1 /\ Len(lhdn) \in Nat
         /\ DOMAIN lhdn = 1..Len(lhdn) /\ DOMAIN lhdn' = 1..Len(lhdn')
         /\ Len(lhdn') \in DOMAIN lhdn' /\ lhdn'[Len(lhdn')] = s
         /\ \A u \in DOMAIN lhdn : u \in DOMAIN lhdn' /\ lhdn'[u] = lhdn[u]
         /\ \A u \in DOMAIN lhdn' : u # Len(lhdn') => u \in DOMAIN lhdn
  BY AppendProperties, LenProperties

\* Nothing registered is ever changed, whatever the step.
LEMMA RegisteredStays ==
  ASSUME PipelineInv, [Next]_vars
  PROVE  /\ lhdn' \in Seq(Submissions)
         /\ \A u \in DOMAIN lhdn : u \in DOMAIN lhdn' /\ lhdn'[u] = lhdn[u]
         /\ lhdn' = lhdn \/ \E s \in Submissions : lhdn' = Append(lhdn, s)
  <1>1. lhdn \in Seq(Submissions)
    BY DEF PipelineInv, Shapes
  <1>2. ASSUME NEW s \in Submissions, lhdn' = Append(lhdn, s)
        PROVE  /\ lhdn' \in Seq(Submissions)
               /\ \A u \in DOMAIN lhdn : u \in DOMAIN lhdn' /\ lhdn'[u] = lhdn[u]
    BY <1>1, <1>2, Registered
  <1>3. \A s : Sent(s, rows, signings) => s \in Submissions
    BY SentIsSubmission DEF PipelineInv, Shapes
  <1>4. CASE Answers \/ AnswersWithout
    <2>1. SubmissionOf(hand.signed) \in Submissions
      BY <1>3, <1>4, HandFields DEF PipelineInv, AllSent
    <2>2. lhdn' = lhdn \/ lhdn' = Append(lhdn, SubmissionOf(hand.signed))
      BY <1>4 DEF Answers, AnswersWithout
    <2> QED BY <1>1, <1>2, <2>1, <2>2
  <1>5. CASE LateSubmission
    <2>1. PICK s \in late : lhdn' = Append(lhdn, s)
      BY <1>5 DEF LateSubmission
    <2>2. s \in Submissions
      BY <1>3 DEF PipelineInv, AllSent
    <2> QED BY <1>2, <2>1, <2>2
  <1>6. CASE ~Answers /\ ~AnswersWithout /\ ~LateSubmission
    <2>1. lhdn' = lhdn
      BY <1>6 DEF Next, vars, submit_invoice, process_event, Lost, handle_success,
                  StoreFails, Restart
    <2> QED BY <1>1, <2>1
  <1> QED BY <1>4, <1>5, <1>6

\* A row that is stored stays stored, with its payload; the clock never goes back.
LEMMA RowsStay ==
  ASSUME PipelineInv, [Next]_vars
  PROVE  /\ \A ref \in Text : rows[ref].lhdn_status # "Absent" =>
              rows'[ref].lhdn_status # "Absent" /\ rows'[ref].payload = rows[ref].payload
         /\ signings \in Nat /\ signings' \in Nat /\ signings <= signings'
         /\ signings' \in 0..MaxSignings
  <1>1. signings \in 0..MaxSignings /\ MaxSignings \in Nat
    BY SigningAssumption DEF PipelineInv, Shapes
  <1>2. /\ signings \in Nat /\ signings' \in Nat /\ signings <= signings'
        /\ signings' \in 0..MaxSignings
    <2>1. CASE \E ref \in Text : process_event(ref)
      <3>1. signings < MaxSignings /\ signings' = signings + 1
        BY <2>1 DEF process_event
      <3> QED BY <1>1, <3>1
    <2>2. CASE signings' = signings
      BY <1>1, <2>2
    <2> QED
      BY <2>1, <2>2 DEF Next, vars, submit_invoice, Answers, AnswersWithout, Lost,
                        LateSubmission, handle_success, StoreFails, Restart
  <1>3. DOMAIN rows = Text
    BY DEF PipelineInv, RowsHold
  <1>4. CASE \E p \in Payload : submit_invoice(p)
    <2>1. PICK p \in Payload : submit_invoice(p)
      BY <1>4
    <2>2. /\ rows[trim(p.invoice_ref)] = AbsentRow
          /\ \A ref \in Text : ref # trim(p.invoice_ref) => rows'[ref] = rows[ref]
      BY <1>3, <2>1 DEF submit_invoice
    <2> QED BY <1>2, <2>2 DEF AbsentRow
  <1>5. CASE handle_success
    <2>1. \A ref \in Text : ref # hand.invoice => rows'[ref] = rows[ref]
      BY <1>3, <1>5 DEF handle_success
    <2>2. hand.invoice \in Text => /\ rows'[hand.invoice].lhdn_status = "Submitted"
                                   /\ rows'[hand.invoice].payload = rows[hand.invoice].payload
      BY <1>3, <1>5 DEF handle_success
    <2> QED BY <1>2, <2>1, <2>2
  <1>6. CASE rows' = rows
    BY <1>2, <1>6
  <1> QED
    BY <1>4, <1>5, <1>6 DEF Next, vars, process_event, Answers, AnswersWithout, Lost,
                            LateSubmission, StoreFails, Restart

-----------------------------------------------------------------------------
(* The invariant is kept, part by part.                                    *)

LEMMA ShapesStep ==
  ASSUME PipelineInv, [Next]_vars
  PROVE  Shapes'
  <1>1. signings' \in 0..MaxSignings /\ lhdn' \in Seq(Submissions)
    BY RowsStay, RegisteredStays
  <1>2. signer' \in Signers
    BY DEF PipelineInv, Shapes, Signers, Next, vars, submit_invoice, process_event, Answers,
           AnswersWithout, Lost, LateSubmission, handle_success, StoreFails, Restart
  <1>3. hand' = Idle \/ hand'.answer \in {"awaited", "accepted"}
    <2>1. CASE Answers \/ AnswersWithout
      BY <2>1, HandFields DEF PipelineInv
    <2>2. CASE \E ref \in Text : process_event(ref)
      BY <2>2 DEF process_event
    <2>3. CASE hand' = hand \/ hand' = Idle
      BY <2>3 DEF PipelineInv, Shapes
    <2> QED
      BY <2>1, <2>2, <2>3 DEF Next, vars, submit_invoice, Lost, LateSubmission,
                              handle_success, StoreFails, Restart
  <1> QED BY <1>1, <1>2, <1>3 DEF Shapes

LEMMA SentStep ==
  ASSUME PipelineInv, [Next]_vars
  PROVE  AllSent'
  <1>1. \A s : Sent(s, rows, signings) => Sent(s, rows', signings')
    BY RowsStay, SentStays
  <1>2. /\ \A u \in DOMAIN lhdn : Sent(lhdn[u], rows', signings')
        /\ \A s \in late : Sent(s, rows', signings')
        /\ hand # Idle => Sent(SubmissionOf(hand.signed), rows', signings')
    BY <1>1 DEF PipelineInv, AllSent
  <1>3. lhdn \in Seq(Submissions)
    BY DEF PipelineInv, Shapes
  <1>4. \A u \in DOMAIN lhdn' : Sent(lhdn'[u], rows', signings')
    <2>1. ASSUME NEW s, Sent(s, rows, signings), lhdn' = Append(lhdn, s)
          PROVE  \A u \in DOMAIN lhdn' : Sent(lhdn'[u], rows', signings')
      <3>1. s \in Submissions
        BY <2>1, SentIsSubmission DEF PipelineInv, Shapes
      <3>2. /\ lhdn'[Len(lhdn')] = s
            /\ \A u \in DOMAIN lhdn : lhdn'[u] = lhdn[u]
            /\ \A u \in DOMAIN lhdn' : u # Len(lhdn') => u \in DOMAIN lhdn
        BY <1>3, <2>1, <3>1, Registered
      <3> QED BY <1>1, <1>2, <2>1, <3>2
    <2>2. CASE Answers \/ AnswersWithout
      <3>1. Sent(SubmissionOf(hand.signed), rows, signings)
        BY <2>2, HandFields DEF PipelineInv, AllSent
      <3>2. lhdn' = lhdn \/ lhdn' = Append(lhdn, SubmissionOf(hand.signed))
        BY <2>2 DEF Answers, AnswersWithout
      <3> QED BY <1>2, <2>1, <3>1, <3>2
    <2>3. CASE LateSubmission
      <3>1. PICK s \in late : lhdn' = Append(lhdn, s)
        BY <2>3 DEF LateSubmission
      <3> QED BY <2>1, <3>1 DEF PipelineInv, AllSent
    <2>4. CASE lhdn' = lhdn
      BY <1>2, <2>4
    <2> QED
      BY <2>2, <2>3, <2>4 DEF Next, vars, submit_invoice, process_event, Lost,
                              handle_success, StoreFails, Restart
  <1>5. \A s \in late' : Sent(s, rows', signings')
    <2>1. CASE Lost \/ Restart
      <3>1. late' = late \/ (hand # Idle /\ late' = late \cup {SubmissionOf(hand.signed)})
        BY <2>1 DEF Lost, Restart, Idle
      <3> QED BY <1>2, <3>1
    <2>2. CASE LateSubmission
      BY <1>2, <2>2 DEF LateSubmission
    <2>3. CASE late' = late
      BY <1>2, <2>3
    <2> QED
      BY <2>1, <2>2, <2>3 DEF Next, vars, submit_invoice, process_event, Answers,
                              AnswersWithout, handle_success, StoreFails
  <1>6. hand' # Idle => Sent(SubmissionOf(hand'.signed), rows', signings')
    <2>1. CASE \E ref \in Text : process_event(ref)
      <3>1. PICK ref \in Text : process_event(ref)
        BY <2>1
      <3>2. /\ hand'.signed = build_signed_document(rows[ref].payload, signer, signings')
            /\ rows' = rows /\ rows[ref].lhdn_status # "Absent"
            /\ signings' = signings + 1
        BY <3>1 DEF process_event
      <3>3. signer \in Signers /\ signings' \in 1..signings'
        BY <3>2, RowsStay DEF PipelineInv, Shapes
      <3> QED BY <3>2, <3>3 DEF Sent
    <2>2. CASE Answers \/ AnswersWithout
      BY <1>2, <2>2, HandFields DEF PipelineInv
    <2>3. CASE hand' = hand \/ hand' = Idle
      BY <1>2, <2>3
    <2> QED
      BY <2>1, <2>2, <2>3 DEF Next, vars, submit_invoice, Lost, LateSubmission,
                              handle_success, StoreFails, Restart
  <1> QED BY <1>4, <1>5, <1>6 DEF AllSent

LEMMA RowsStep ==
  ASSUME PipelineInv, [Next]_vars
  PROVE  RowsHold'
  <1>1. rows = [ref \in Text |-> rows[ref]]
    BY DEF PipelineInv, RowsHold
  <1>2. ASSUME NEW ref \in Text
        PROVE  \/ rows[ref] = AbsentRow
               \/ /\ rows[ref].lhdn_status \in {"Pending", "Submitted"}
                  /\ rows[ref].payload \in Payload
                  /\ trim(rows[ref].payload.invoice_ref) = ref
    BY DEF PipelineInv, RowsHold
  <1> DEFINE Stored(ref, table, documents) ==
               table[ref].lhdn_status = "Submitted" => Kept(ref, table[ref], documents)
  <1>3. \A ref \in Text : Stored(ref, rows, lhdn)
    BY DEF PipelineInv, RowsHold
  <1>4. \A u \in DOMAIN lhdn : u \in DOMAIN lhdn' /\ lhdn'[u] = lhdn[u]
    BY RegisteredStays
  <1>5. \A ref \in Text : Stored(ref, rows, lhdn')
    BY <1>3, <1>4 DEF Kept
  <1>6. /\ rows' = [ref \in Text |-> rows'[ref]]
        /\ \A ref \in Text :
             \/ rows'[ref] = AbsentRow
             \/ /\ rows'[ref].lhdn_status \in {"Pending", "Submitted"}
                /\ rows'[ref].payload \in Payload
                /\ trim(rows'[ref].payload.invoice_ref) = ref
        /\ \A ref \in Text : Stored(ref, rows', lhdn')
    <2>1. CASE \E p \in Payload : submit_invoice(p)
      <3>1. PICK p \in Payload : submit_invoice(p)
        BY <2>1
      <3> DEFINE new == trim(p.invoice_ref)
      <3>2. rows' = [rows EXCEPT ![new] = [lhdn_status |-> "Pending", payload |-> p]]
        BY <3>1 DEF submit_invoice
      <3>3. new \in Text
        BY DEF Payload, Text, trim
      <3>4. trim(p.invoice_ref) = new
        OBVIOUS
      <3> HIDE DEF new
      <3>5. /\ rows' = [ref \in Text |-> rows'[ref]]
            /\ \A ref \in Text : ref # new => rows'[ref] = rows[ref]
            /\ rows'[new] = [lhdn_status |-> "Pending", payload |-> p]
        BY <1>1, <3>2, <3>3
      <3>6. \A ref \in Text : Stored(ref, rows', lhdn')
        BY <1>5, <3>5
      <3>7. /\ rows'[new].lhdn_status = "Pending" /\ rows'[new].payload = p
        BY <3>5
      <3> HIDE DEF Stored
      <3> QED BY <1>2, <3>4, <3>5, <3>6, <3>7
    <2>2. CASE handle_success
      <3>1. hand # Idle /\ hand.answer = "accepted"
        BY <2>2 DEF handle_success, Idle
      <3>2. /\ hand.invoice \in Text /\ rows[hand.invoice].lhdn_status # "Absent"
            /\ Kept(hand.invoice,
                    [doc_digest |-> hand.signed.document_hash,
                     ubl_xml |-> hand.signed.canonical_bytes,
                     signature |-> hand.signed.signature, lhdn_uuid |-> NoUuid], lhdn)
            /\ hand.signed.code_number = hand.invoice
            /\ \A a \in hand.accepted :
                 a.uuid \in DOMAIN lhdn /\ lhdn[a.uuid] = SubmissionOf(hand.signed)
        BY <3>1 DEF PipelineInv, HandHolds
      <3> DEFINE done == hand.invoice
                 uuid == UuidFor(hand.accepted, hand.signed.code_number)
                 row == [lhdn_status |-> "Submitted", payload |-> rows[done].payload,
                         lhdn_uuid |-> uuid, signature |-> hand.signed.signature,
                         ubl_xml |-> hand.signed.canonical_bytes,
                         doc_digest |-> hand.signed.document_hash]
      <3>3. rows' = [rows EXCEPT ![done] = row] /\ lhdn' = lhdn
        BY <2>2 DEF handle_success
      <3>10. uuid # NoUuid => uuid \in DOMAIN lhdn /\ lhdn[uuid] = SubmissionOf(hand.signed)
        BY <3>2, UuidFound
      <3> HIDE DEF uuid
      <3>4. /\ row.lhdn_status = "Submitted" /\ row.payload = rows[done].payload
            /\ row.lhdn_uuid = uuid /\ row.signature = hand.signed.signature
            /\ row.ubl_xml = hand.signed.canonical_bytes
            /\ row.doc_digest = hand.signed.document_hash
        OBVIOUS
      <3>5. SubmissionOf(hand.signed) =
              [code_number |-> hand.signed.code_number,
               document_hash |-> hand.signed.document_hash,
               document |-> hand.signed.canonical_bytes]
        BY DEF SubmissionOf
      <3> HIDE DEF row
      <3>6. /\ rows' = [ref \in Text |-> rows'[ref]]
            /\ \A ref \in Text : ref # done => rows'[ref] = rows[ref]
            /\ rows'[done] = row
        BY <1>1, <3>2, <3>3
      <3>7. Stored(done, rows', lhdn')
        BY <3>2, <3>3, <3>4, <3>5, <3>6, <3>10 DEF Kept
      <3>8. \A ref \in Text : ref # done => Stored(ref, rows', lhdn')
        BY <1>5, <3>6
      <3>9. /\ rows[done].payload \in Payload
            /\ trim(rows[done].payload.invoice_ref) = done
        BY <1>2, <3>2 DEF AbsentRow
      <3> HIDE DEF Stored
      <3> QED BY <1>2, <3>2, <3>4, <3>6, <3>7, <3>8, <3>9
    <2>3. CASE rows' = rows
      BY <1>1, <1>2, <1>5, <2>3
    <2> QED
      BY <2>1, <2>2, <2>3 DEF Next, vars, process_event, Answers, AnswersWithout, Lost,
                              LateSubmission, StoreFails, Restart
  <1> QED BY <1>6 DEF RowsHold

LEMMA HandStep ==
  ASSUME PipelineInv, [Next]_vars
  PROVE  HandHolds'
  <1>1. /\ \A u \in DOMAIN lhdn : u \in DOMAIN lhdn' /\ lhdn'[u] = lhdn[u]
        /\ \A ref \in Text : rows[ref].lhdn_status # "Absent" =>
             rows'[ref].lhdn_status # "Absent"
    BY RegisteredStays, RowsStay
  <1>2. CASE \E ref \in Text : process_event(ref)
    <2>1. PICK ref \in Text : process_event(ref)
      BY <1>2
    <2> DEFINE d == build_signed_document(rows[ref].payload, signer, signings')
    <2>2. /\ hand' = [answer |-> "awaited", accepted |-> {}, invoice |-> ref, signed |-> d]
          /\ rows' = rows /\ rows[ref].lhdn_status = "Pending"
      BY <2>1 DEF process_event
    <2>3. /\ d.code_number = trim(rows[ref].payload.invoice_ref)
          /\ d.signature = Members(d.canonical_bytes)["UBLExtensions"].SignatureValue
          /\ d.document_hash = sha256(d.canonical_bytes)
          /\ Members(d.canonical_bytes)["ID"] = d.code_number.name
      <3> DEFINE s == SubmissionOf(d)
      <3>1. /\ d.code_number = trim(rows[ref].payload.invoice_ref)
            /\ d.code_number = s.code_number /\ s.document_hash = sha256(s.document)
            /\ Members(s.document)["ID"] = s.code_number.name
            /\ d.signature = Members(d.canonical_bytes)["UBLExtensions"].SignatureValue
        BY SubmissionShape
      <3> HIDE DEF d
      <3>2. s.document = d.canonical_bytes /\ s.document_hash = d.document_hash
        BY DEF SubmissionOf
      <3> HIDE DEF s
      <3> QED BY <3>1, <3>2
    <2>4. trim(rows[ref].payload.invoice_ref) = ref
      BY <2>2 DEF PipelineInv, RowsHold, AbsentRow
    <2> HIDE DEF d
    <2>5. Kept(ref, [doc_digest |-> d.document_hash, ubl_xml |-> d.canonical_bytes,
                     signature |-> d.signature, lhdn_uuid |-> NoUuid], lhdn')
      BY <2>3, <2>4 DEF Kept
    <2> QED BY <2>2, <2>3, <2>4, <2>5 DEF HandHolds
  <1>3. CASE Answers \/ AnswersWithout
    <2> DEFINE named == {[uuid |-> Len(lhdn'), invoice_code_number |-> hand.signed.code_number]}
    <2>1. /\ hand # Idle
          /\ \/ /\ lhdn' = Append(lhdn, SubmissionOf(hand.signed))
                /\ hand' = [answer |-> "accepted", accepted |-> named,
                            invoice |-> hand.invoice, signed |-> hand.signed]
             \/ hand' = [answer |-> "accepted", accepted |-> {},
                         invoice |-> hand.invoice, signed |-> hand.signed]
      BY <1>3, HandFields DEF PipelineInv, Answers
    <2>2. SubmissionOf(hand.signed) \in Submissions
      BY <2>1, SentIsSubmission DEF PipelineInv, AllSent, Shapes
    <2>3. lhdn' = Append(lhdn, SubmissionOf(hand.signed)) =>
            Len(lhdn') \in DOMAIN lhdn' /\ lhdn'[Len(lhdn')] = SubmissionOf(hand.signed)
      BY <2>2, Registered DEF PipelineInv, Shapes
    <2>4. /\ hand.invoice \in Text /\ rows'[hand.invoice].lhdn_status # "Absent"
          /\ hand.signed.code_number = hand.invoice
          /\ Kept(hand.invoice,
                  [doc_digest |-> hand.signed.document_hash,
                   ubl_xml |-> hand.signed.canonical_bytes,
                   signature |-> hand.signed.signature, lhdn_uuid |-> NoUuid], lhdn')
      BY <1>1, <2>1 DEF PipelineInv, HandHolds, Kept
    <2>5. /\ hand'.answer = "accepted"
          /\ hand'.invoice = hand.invoice /\ hand'.signed = hand.signed
          /\ \A a \in hand'.accepted :
               /\ a \in [uuid : DOMAIN lhdn', invoice_code_number : Text]
               /\ lhdn'[a.uuid] = SubmissionOf(hand.signed)
      BY <2>1, <2>3, <2>4
    <2>6. hand' = [answer |-> hand'.answer, accepted |-> hand'.accepted,
                   invoice |-> hand'.invoice, signed |-> hand'.signed]
      BY <2>1
    <2> HIDE DEF named
    <2> QED BY <2>1, <2>4, <2>5, <2>6 DEF HandHolds
  <1>4. CASE hand' = hand
    BY <1>1, <1>4 DEF PipelineInv, HandHolds, Kept
  <1>5. CASE hand' = Idle
    BY <1>5 DEF HandHolds, Idle
  <1> QED
    BY <1>2, <1>3, <1>4, <1>5 DEF Next, vars, submit_invoice, Lost, LateSubmission,
                                  handle_success, StoreFails, Restart

LEMMA TimesStep ==
  ASSUME PipelineInv, [Next]_vars
  PROVE  TimesDiffer'
  <1>1. /\ \A u, v \in DOMAIN lhdn : u # v => SignedAt(lhdn[u]) # SignedAt(lhdn[v])
        /\ \A s \in late : \A u \in DOMAIN lhdn : SignedAt(s) # SignedAt(lhdn[u])
        /\ \A s, r \in late : s # r => SignedAt(s) # SignedAt(r)
        /\ hand.answer = "awaited" =>
             /\ \A u \in DOMAIN lhdn : SignedAt(SubmissionOf(hand.signed)) # SignedAt(lhdn[u])
             /\ \A s \in late : SignedAt(SubmissionOf(hand.signed)) # SignedAt(s)
    BY DEF PipelineInv, TimesDiffer
  <1>2. \A s : Sent(s, rows, signings) => s \in Submissions /\ SignedAt(s) \in 1..signings
    BY SentIsSubmission DEF PipelineInv, Shapes
  <1>3. lhdn \in Seq(Submissions)
    BY DEF PipelineInv, Shapes
  <1>4. Idle.answer = "none"
    BY DEF Idle
  <1>5. CASE \E ref \in Text : process_event(ref)
    <2>1. PICK ref \in Text : process_event(ref)
      BY <1>5
    <2> DEFINE d == build_signed_document(rows[ref].payload, signer, signings')
    <2>2. /\ hand'.signed = d /\ lhdn' = lhdn /\ late' = late /\ signings' = signings + 1
      BY <2>1 DEF process_event
    <2>3. SignedAt(SubmissionOf(d)) = signings'
      BY SubmissionShape
    <2> HIDE DEF d
    <2>4. /\ \A u \in DOMAIN lhdn : SignedAt(lhdn[u]) \in 1..signings
          /\ \A s \in late : SignedAt(s) \in 1..signings
      BY <1>2 DEF PipelineInv, AllSent
    <2>5. signings \in Nat
      BY RowsStay
    <2>6. /\ \A u \in DOMAIN lhdn : SignedAt(SubmissionOf(hand'.signed)) # SignedAt(lhdn[u])
          /\ \A s \in late : SignedAt(SubmissionOf(hand'.signed)) # SignedAt(s)
      BY <2>2, <2>3, <2>4, <2>5
    <2> QED BY <1>1, <2>2, <2>6 DEF TimesDiffer
  <1>6. CASE Answers \/ AnswersWithout
    <2> DEFINE s == SubmissionOf(hand.signed)
    <2>1. /\ hand # Idle /\ hand'.answer = "accepted"
      BY <1>6, HandFields DEF PipelineInv
    <2>2. s \in Submissions
      BY <1>2, <2>1 DEF PipelineInv, AllSent
    <2>3. lhdn' \in {lhdn, Append(lhdn, s)} /\ late' = late /\ hand.answer = "awaited"
      BY <1>6 DEF Answers, AnswersWithout
    <2> HIDE DEF s
    <2>4. CASE lhdn' = lhdn
      BY <1>1, <2>1, <2>3, <2>4 DEF TimesDiffer
    <2>5. CASE lhdn' = Append(lhdn, s)
      <3>1. /\ lhdn'[Len(lhdn')] = s
            /\ \A u \in DOMAIN lhdn : lhdn'[u] = lhdn[u]
            /\ \A u \in DOMAIN lhdn' : u # Len(lhdn') => u \in DOMAIN lhdn
        BY <1>3, <2>2, <2>5, Registered
      <3>2. /\ \A u \in DOMAIN lhdn : SignedAt(s) # SignedAt(lhdn[u])
            /\ \A r \in late : SignedAt(s) # SignedAt(r)
        BY <1>1, <2>3 DEF s
      <3> QED BY <1>1, <2>1, <2>3, <3>1, <3>2 DEF TimesDiffer
    <2> QED BY <2>3, <2>4, <2>5
  <1>7. CASE LateSubmission
    <2>1. PICK s \in late : late' = late \ {s} /\ lhdn' = Append(lhdn, s) /\ hand' = hand
      BY <1>7 DEF LateSubmission
    <2>2. s \in Submissions
      BY <1>2 DEF PipelineInv, AllSent
    <2>3. /\ lhdn'[Len(lhdn')] = s
          /\ \A u \in DOMAIN lhdn : lhdn'[u] = lhdn[u]
          /\ \A u \in DOMAIN lhdn' : u # Len(lhdn') => u \in DOMAIN lhdn
      BY <1>3, <2>1, <2>2, Registered
    <2>4. \A u, v \in DOMAIN lhdn' : u # v => SignedAt(lhdn'[u]) # SignedAt(lhdn'[v])
      BY <1>1, <2>3
    <2>5. \A r \in late' : \A u \in DOMAIN lhdn' : SignedAt(r) # SignedAt(lhdn'[u])
      BY <1>1, <2>1, <2>3
    <2>6. hand'.answer = "awaited" =>
            /\ \A u \in DOMAIN lhdn' : SignedAt(SubmissionOf(hand'.signed)) # SignedAt(lhdn'[u])
            /\ \A r \in late' : SignedAt(SubmissionOf(hand'.signed)) # SignedAt(r)
      BY <1>1, <2>1, <2>3
    <2> QED BY <1>1, <2>1, <2>4, <2>5, <2>6 DEF TimesDiffer
  <1>8. CASE Lost \/ Restart
    <2>1. /\ hand'.answer # "awaited" /\ lhdn' = lhdn
          /\ \/ late' = late
             \/ hand.answer = "awaited" /\ late' = late \cup {SubmissionOf(hand.signed)}
      BY <1>4, <1>8 DEF Lost, Restart
    <2> QED BY <1>1, <2>1 DEF TimesDiffer
  <1>9. CASE lhdn' = lhdn /\ late' = late /\ (hand' = hand \/ hand' = Idle)
    BY <1>1, <1>4, <1>9 DEF TimesDiffer
  <1> QED
    BY <1>5, <1>6, <1>7, <1>8, <1>9 DEF Next, vars, submit_invoice, handle_success, StoreFails

LEMMA PipelineInvHolds == Spec => []PipelineInv
  <1>1. Init => PipelineInv
    <2> SUFFICES ASSUME Init PROVE PipelineInv
      OBVIOUS
    <2>1. /\ rows = [t \in Text |-> AbsentRow] /\ signer \in Signers /\ signings = 0
          /\ hand = Idle /\ late = {} /\ lhdn = <<>>
      BY DEF Init, Signers
    <2>2. Len(lhdn) = 0 /\ DOMAIN lhdn = {} /\ lhdn \in Seq(Submissions)
      BY <2>1
    <2>3. Shapes
      BY <2>1, <2>2, SigningAssumption DEF Shapes
    <2>4. RowsHold
      BY <2>1 DEF RowsHold, AbsentRow
    <2>5. HandHolds /\ AllSent
      BY <2>1, <2>2 DEF HandHolds, AllSent
    <2>6. TimesDiffer
      BY <2>1, <2>2 DEF TimesDiffer, Idle
    <2> QED BY <2>3, <2>4, <2>5, <2>6 DEF PipelineInv
  <1>2. PipelineInv /\ [Next]_vars => PipelineInv'
    BY ShapesStep, RowsStep, HandStep, SentStep, TimesStep DEF PipelineInv
  <1> QED BY <1>1, <1>2, PTL DEF Spec

-----------------------------------------------------------------------------
(* The theorems.                                                           *)

\* Rows, hand and clock have their types, and an answer names only uuids LHDN has
\* given out.
THEOREM PipelineTypes == Spec => []SigningTypeOK
  <1>1. ASSUME PipelineInv PROVE SigningTypeOK
    <2>1. \A ref \in Text : rows[ref].lhdn_status \in {"Absent", "Pending", "Submitted"}
      BY <1>1 DEF PipelineInv, RowsHold, AbsentRow
    <2>2. \A ref \in Text : rows[ref].lhdn_status # "Absent" => rows[ref].payload \in Payload
      BY <1>1 DEF PipelineInv, RowsHold, AbsentRow
    <2>3. hand.answer \in {"none", "awaited", "accepted"}
      BY <1>1, HandFields DEF PipelineInv
    <2>4. hand.accepted \subseteq [uuid : 1..Len(lhdn), invoice_code_number : Text]
      <3>1. DOMAIN lhdn = 1..Len(lhdn)
        BY <1>1, LenProperties DEF PipelineInv, Shapes
      <3>2. CASE hand = Idle
        BY <3>2 DEF Idle
      <3>3. CASE hand # Idle
        BY <1>1, <3>1, <3>3 DEF PipelineInv, HandHolds
      <3> QED BY <3>2, <3>3
    <2> QED BY <1>1, <2>1, <2>2, <2>3, <2>4 DEF SigningTypeOK, PipelineInv, Shapes, Signers
  <1> QED BY <1>1, PipelineInvHolds, PTL

\* Every document LHDN registers can be verified from itself, as far as the bundle
\* it was signed with allows: build_signed_document hashes and signs what it sends
\* and embeds the certificate of the Signer it signed with, and from_p12 takes both
\* from one bundle.
THEOREM RegisteredVerify == Spec => []DocumentsVerify
  <1>1. ASSUME PipelineInv PROVE DocumentsVerify
    <2> SUFFICES ASSUME NEW u \in DOMAIN lhdn
                 PROVE  LET object == Members(lhdn[u].document)
                            extension == object["UBLExtensions"]
                            signature == extension.SignatureValue
                            certificate == extension.X509Certificate
                        IN  /\ lhdn[u].document_hash = sha256(lhdn[u].document)
                            /\ lhdn[u].code_number.name = object["ID"]
                            /\ extension.CertDigest = sha256(certificate)
                            /\ signature.message = canonicalize_json(Bare(lhdn[u].document))
                            /\ \E b \in Bundles :
                                 /\ signature.key \in Range(b.key_bags)
                                 /\ certificate \in Range(b.cert_bags)
                                 /\ Matches(b) => signature.key = certificate.key
      BY DEF DocumentsVerify
    <2>1. PICK ref \in Text, g \in Signers, t \in 1..signings :
            lhdn[u] = SubmissionOf(build_signed_document(rows[ref].payload, g, t))
      BY <1>1 DEF PipelineInv, AllSent, Sent
    <2> DEFINE s == lhdn[u]
               pos == rows[ref].payload
               extension == Members(s.document)["UBLExtensions"]
    <2>2. /\ s.document_hash = sha256(s.document)
          /\ Bare(s.document) = UnsignedOf(pos)
          /\ Members(s.document)["ID"] = s.code_number.name
          /\ extension.SignatureValue = sign(g, canonicalize_json(UnsignedOf(pos)))
          /\ extension.X509Certificate = g.cert_der
          /\ extension.CertDigest = sha256(g.cert_der)
      BY <2>1, SubmissionShape
    <2>3. /\ sign(g, canonicalize_json(UnsignedOf(pos))).key = g.private_key
          /\ sign(g, canonicalize_json(UnsignedOf(pos))).message =
               canonicalize_json(UnsignedOf(pos))
      BY DEF sign
    <2>4. PICK b \in Bundles : g = from_p12(b)
      BY DEF Signers
    <2>5. /\ g.private_key \in Range(b.key_bags) /\ g.cert_der \in Range(b.cert_bags)
          /\ Matches(b) => g.private_key = g.cert_der.key
      BY <2>4, LastsAreBags DEF from_p12, Matches
    <2> HIDE DEF s, pos, extension
    <2>6. /\ extension.SignatureValue.message = canonicalize_json(Bare(s.document))
          /\ extension.CertDigest = sha256(extension.X509Certificate)
          /\ extension.SignatureValue.key \in Range(b.key_bags)
          /\ extension.X509Certificate \in Range(b.cert_bags)
          /\ Matches(b) => extension.SignatureValue.key = extension.X509Certificate.key
      BY <2>2, <2>3, <2>5
    <2> QED BY <2>2, <2>6 DEF s, extension
  <1> QED BY <1>1, PipelineInvHolds, PTL

\* A Submitted row keeps a document made for it, and if it has a uuid, that is
\* LHDN's copy: through lost answers, answers without the document, failed
\* transactions, restarts and renewed certificates.
THEOREM RowsRegistered == Spec => []RecordIsRegistered
  <1>1. PipelineInv => RecordIsRegistered
    BY DEF PipelineInv, RowsHold, Kept, RecordIsRegistered
  <1> QED BY <1>1, PipelineInvHolds, PTL

\* However often one invoice is registered, it is the same invoice under another
\* hash each time.
THEOREM SecondsDiffer == Spec => []DuplicatesDiffer
  <1>1. ASSUME PipelineInv PROVE DuplicatesDiffer
    <2> SUFFICES ASSUME NEW u \in DOMAIN lhdn, NEW v \in DOMAIN lhdn,
                        u # v, lhdn[u].code_number = lhdn[v].code_number
                 PROVE  /\ Bare(lhdn[u].document) = Bare(lhdn[v].document)
                        /\ lhdn[u].document_hash # lhdn[v].document_hash
      BY DEF DuplicatesDiffer
    <2>1. ASSUME NEW w \in DOMAIN lhdn
          PROVE  /\ Bare(lhdn[w].document) = UnsignedOf(rows[lhdn[w].code_number].payload)
                 /\ lhdn[w].document_hash = sha256(lhdn[w].document)
      <3>1. Sent(lhdn[w], rows, signings) /\ RowsHold
        BY <1>1 DEF PipelineInv, AllSent
      <3>2. PICK g \in Signers, t \in 1..signings :
              lhdn[w] = SubmissionOf(build_signed_document(
                                       rows[lhdn[w].code_number].payload, g, t))
        BY <3>1, SentNames
      <3> QED BY <3>2, SubmissionShape
    <2>2. SignedAt(lhdn[u]) # SignedAt(lhdn[v])
      BY <1>1 DEF PipelineInv, TimesDiffer
    <2>3. lhdn[u].document # lhdn[v].document
      BY <2>2 DEF SignedAt
    <2>4. sha256(lhdn[u].document) # sha256(lhdn[v].document)
      <3>1. \A b : sha256(b).sha256 = b
        BY DEF sha256
      <3> QED BY <2>3, <3>1
    <2> QED BY <2>1, <2>4
  <1> QED BY <1>1, PipelineInvHolds, PTL
=============================================================================
