-------------------------- MODULE FoundryJobs_books --------------------------
(***************************************************************************)
(* What FoundryJobs writes down of attachments, calls and prepares agrees  *)
(* and is true, for every value of the constants: the books of an          *)
(* attachment, the genuineness of evidence, the answers to repeated calls  *)
(* and what callers were told of.                                          *)
(***************************************************************************)
EXTENDS FoundryJobs_proofs, FiniteSetTheorems

-----------------------------------------------------------------------------
(* The books of an attachment *)

(* Only a first receipt writes to the books of attachments. *)
LEMMA BooksWritten ==
    ASSUME [Next]_vars
    PROVE  \/ UNCHANGED attachVars
           \/ \E j \in Jobs, k \in Keys, r \in AttachRequests :
                 AttachRecords(j, k, r)
<1>1. CASE Prepare
  BY <1>1 DEF Prepare, PrepareNew, PrepareAgain
<1>2. ASSUME NEW j \in Jobs, NEW k \in Keys, Call(j, k)
      PROVE  \/ UNCHANGED attachVars
             \/ \E r \in AttachRequests : AttachRecords(j, k, r)
  <2>1. ASSUME NEW r \in AttachRequests, Attach(j, k, r)
        PROVE  UNCHANGED attachVars \/ AttachRecords(j, k, r)
    BY <2>1, AttachQuiet, AttachQuarantines
    DEF Attach, Quarantines, QuarantineForFailure
  <2>2. ASSUME NEW r \in ExecuteRequests, Execute(j, k, r)
        PROVE  UNCHANGED attachVars
    BY <2>2, ExecuteQuiet DEF Execute, ExecuteRuns
  <2>3. ASSUME NEW r \in ControlRequests, Cancel(j, k, r) \/ QuarantineJob(j, k, r)
        PROVE  UNCHANGED attachVars
    BY <2>3, ControlQuiet DEF Cancel, QuarantineJob, Control
  <2>. QED
    BY <1>2, <2>1, <2>2, <2>3 DEF Call
<1>3. CASE Deployment
  BY <1>3 DEF Deployment, Foundry, MarkReady, SettleRunning, Tick, Revoke
<1>4. CASE UNCHANGED vars
  BY <1>4 DEF vars
<1>. QED
  BY <1>1, <1>2, <1>3, <1>4 DEF Next

(* BooksAgree is not inductive: that a receipt without a row is for an      *)
(* artifact that is not attached yet needs that evidence carries its job's  *)
(* one generation.                                                          *)
BooksInv ==
    /\ BooksAgree
    /\ \A j \in Jobs :
          /\ IsFiniteSet(Attached(j))
          /\ \A i \in DOMAIN evidence[j] :
                evidence[j][i].generation = generation[j]

LEMMA InitBooks == Init => BooksInv
<1>. SUFFICES ASSUME Init PROVE BooksInv
  OBVIOUS
<1>1. \A j \in Jobs :
        /\ evidence[j] = <<>> /\ attachments[j] = <<>>
        /\ \A g \in Generations, d \in Digests : registry[<<j, g, d>>] = None
  BY DEF Init
<1>2. \A j \in Jobs : Attached(j) = {}
  BY <1>1 DEF Attached
<1>3. \A j \in Jobs :
        /\ Len(evidence[j]) = Len(attachments[j])
        /\ Cardinality(Attached(j)) = Len(attachments[j])
        /\ IsFiniteSet(Attached(j))
        /\ DOMAIN evidence[j] = {}
  <2>1. Len(<<>>) = 0 /\ DOMAIN <<>> = {}
    OBVIOUS
  <2>2. IsFiniteSet({}) /\ Cardinality({}) = 0
    BY FS_EmptySet
  <2>. QED
    BY <1>1, <1>2, <2>1, <2>2
<1>. QED
  BY <1>1, <1>3 DEF BooksInv, BooksAgree

(* A receipt that has no row is for an artifact that is not attached.       *)
LEMMA NoRowNotAttached ==
    ASSUME TypeOK, BooksInv, NEW j \in Jobs, NEW d,
           registry[<<j, generation[j], d>>] = None
    PROVE  d \notin Attached(j)
<1>. SUFFICES ASSUME d \in Attached(j) PROVE FALSE
  OBVIOUS
<1>1. PICK i \in DOMAIN attachments[j] : attachments[j][i] = d
  BY DEF Attached
<1>2. i \in DOMAIN evidence[j]
  <2>1. attachments[j] \in Seq(Digests) /\ evidence[j] \in Seq(EvidenceType)
    BY DEF TypeOK
  <2>. QED
    BY <1>1, <2>1, LenProperties DEF BooksInv, BooksAgree
<1>. QED
  BY <1>1, <1>2 DEF BooksInv, BooksAgree

(* A step that writes nothing to the books keeps them. *)
LEMMA QuietKeepsBooks ==
    ASSUME BooksInv, UNCHANGED <<attachVars, generation>>
    PROVE  BooksInv'
<1>1. attachments' = attachments /\ evidence' = evidence
        /\ registry' = registry /\ generation' = generation
  BY DEF attachVars
<1>2. \A j \in Jobs : Attached(j)' = Attached(j)
  BY <1>1 DEF Attached
<1>. QED
  BY <1>1, <1>2 DEF BooksInv, BooksAgree

(* What is recorded of a receipt is evidence. *)
LEMMA RecordedTyped ==
    ASSUME TypeOK, NEW j \in Jobs, NEW r \in AttachRequests,
           NEW t \in now .. MaxNow
    PROVE  Evidence(j, r, t) \in EvidenceType
<1>1. t \in 0 .. MaxNow
  BY MaxNowAssumption DEF TypeOK
<1>. QED
  BY <1>1, AttachFacts DEF Evidence, EvidenceType

(* A first receipt gets a row. *)
LEMMA RecordsARow ==
    ASSUME TypeOK, NEW j \in Jobs, NEW k \in Keys, NEW r \in AttachRequests,
           AttachRecords(j, k, r)
    PROVE  registry'[RowKey(j, r)] # None
<1>1. /\ RowKey(j, r) \in Jobs \X Generations \X Digests
      /\ registry \in [Jobs \X Generations \X Digests -> Rows \cup {None}]
  BY AttachFacts DEF TypeOK, RowKey
<1>2. PICK t \in now .. MaxNow :
        registry' = [registry EXCEPT ![RowKey(j, r)] =
              [evidence |-> Evidence(j, r, t),
               response |-> Response("attach", "ok", state[j])]]
  BY DEF AttachRecords
<1>3. Evidence(j, r, t) \in EvidenceType
  BY RecordedTyped
<1>4. Response("attach", "ok", state[j]) \in Responses
  <2>1. state[j] \in JOB_STATES
    BY DEF AttachRecords, AttachChecked, ATTACHABLE_STATES, JOB_STATES
  <2>. QED
    BY <2>1 DEF Response, Responses, Codes
<1>5. registry'[RowKey(j, r)] \in Rows
  BY <1>1, <1>2, <1>3, <1>4 DEF Rows
<1>. QED
  BY <1>5, NoneAssumption

(* A first receipt is written to all of them. *)
LEMMA RecordKeepsBooks ==
    ASSUME TypeOK, BooksInv, UNCHANGED generation,
           NEW j \in Jobs, NEW k \in Keys, NEW r \in AttachRequests,
           AttachRecords(j, k, r)
    PROVE  BooksInv'
<1>. DEFINE d == r.manifest.payload_digest
            row == <<j, generation[j], d>>
<1>1. /\ d \in Digests /\ attachments[j] \in Seq(Digests)
      /\ evidence[j] \in Seq(EvidenceType)
      /\ row \in Jobs \X Generations \X Digests
  BY AttachFacts DEF TypeOK
<1>2. registry[row] = None /\ d \notin Attached(j)
  BY NoRowNotAttached DEF AttachRecords, RowKey
<1>3. PICK t \in now .. MaxNow :
        /\ registry' = [registry EXCEPT ![row] =
              [evidence |-> Evidence(j, r, t),
               response |-> Response("attach", "ok", state[j])]]
        /\ evidence' = [evidence EXCEPT ![j] = Append(@, Evidence(j, r, t))]
        /\ attachments' = [attachments EXCEPT ![j] = Append(@, d)]
  BY <1>2 DEF AttachRecords, RowKey, Attached
<1>. DEFINE e == Evidence(j, r, t)
<1>4. e \in EvidenceType /\ e.artifact_digest = d /\ e.generation = generation[j]
  <2>1. t \in 0 .. MaxNow
    BY MaxNowAssumption DEF TypeOK
  <2>. QED
    BY <2>1, AttachFacts DEF Evidence, EvidenceType
<1>. HIDE DEF d, e
<1>5. /\ attachments'[j] = Append(attachments[j], d)
      /\ evidence'[j] = Append(evidence[j], e)
      /\ \A i \in Jobs \ {j} : /\ attachments'[i] = attachments[i]
                               /\ evidence'[i] = evidence[i]
  BY <1>3 DEF TypeOK, e
<1>6. /\ registry'[row] # None /\ registry'[row].evidence = e
      /\ \A key \in Jobs \X Generations \X Digests :
            key # row => registry'[key] = registry[key]
  <2>1. registry \in [Jobs \X Generations \X Digests -> Rows \cup {None}]
    BY DEF TypeOK
  <2>2. registry'[row] = [evidence |-> e,
                          response |-> Response("attach", "ok", state[j])]
    BY <1>1, <1>3, <2>1 DEF e
  <2>3. registry'[row] # None
    BY RecordsARow DEF RowKey, d
  <2>. QED
    BY <1>1, <1>3, <2>1, <2>2, <2>3
<1>7. /\ Attached(j)' = Attached(j) \cup {d}
      /\ \A i \in Jobs \ {j} : Attached(i)' = Attached(i)
  <2>1. d \in Digests /\ attachments[j] \in Seq(Digests)
          /\ attachments'[j] = Append(attachments[j], d)
    BY <1>1, <1>5
  <2>2. Attached(j)' = Attached(j) \cup {d}
    BY <2>1, AppendElements DEF Attached
  <2>3. \A i \in Jobs \ {j} : Attached(i)' = Attached(i)
    BY <1>5 DEF Attached
  <2>. QED
    BY <2>2, <2>3
<1>8. /\ Len(evidence'[j]) = Len(attachments'[j])
      /\ Cardinality(Attached(j)') = Len(attachments'[j])
      /\ IsFiniteSet(Attached(j)')
  <2>1. /\ Len(attachments'[j]) = Len(attachments[j]) + 1
        /\ Len(evidence'[j]) = Len(evidence[j]) + 1
    BY <1>1, <1>4, <1>5, AppendProperties
  <2>2. /\ IsFiniteSet(Attached(j))
        /\ Cardinality(Attached(j)) = Len(attachments[j])
        /\ Len(evidence[j]) = Len(attachments[j])
    BY DEF BooksInv, BooksAgree
  <2>3. /\ IsFiniteSet(Attached(j) \cup {d})
        /\ Cardinality(Attached(j) \cup {d}) = Cardinality(Attached(j)) + 1
    BY <1>2, <2>2, FS_AddElement
  <2>. QED
    BY <1>7, <2>1, <2>2, <2>3
<1>9. ASSUME NEW i \in DOMAIN evidence'[j]
      PROVE  LET f == evidence'[j][i]
             IN  /\ f.generation = generation[j]
                 /\ f.artifact_digest = attachments'[j][i]
                 /\ registry'[<<j, f.generation, f.artifact_digest>>] # None
                 /\ registry'[<<j, f.generation, f.artifact_digest>>].evidence
                      = f
  <2>1. CASE i \in DOMAIN evidence[j]
    <3>1. /\ i \in DOMAIN attachments[j]
          /\ evidence'[j][i] = evidence[j][i]
          /\ attachments'[j][i] = attachments[j][i]
      BY <1>1, <1>4, <1>5, <2>1, AppendProperties, LenProperties
      DEF BooksInv, BooksAgree
    <3>2. /\ attachments[j][i] \in Attached(j)
          /\ attachments[j][i] \in Digests
      BY <1>1, <3>1 DEF Attached
    <3>. DEFINE f == evidence[j][i]
    <3>3. /\ f.generation = generation[j]
          /\ f.artifact_digest = attachments[j][i]
          /\ registry[<<j, f.generation, f.artifact_digest>>] # None
          /\ registry[<<j, f.generation, f.artifact_digest>>].evidence = f
      BY <2>1 DEF BooksInv, BooksAgree
    <3>4. <<j, f.generation, f.artifact_digest>> # row
      BY <1>2, <3>2, <3>3
    <3>5. <<j, f.generation, f.artifact_digest>>
            \in Jobs \X Generations \X Digests
      BY <1>1, <3>2, <3>3
    <3>. QED
      BY <1>6, <3>1, <3>3, <3>4, <3>5
  <2>2. CASE i \notin DOMAIN evidence[j]
    <3>1. i = Len(evidence[j]) + 1 /\ i = Len(attachments[j]) + 1
      BY <1>1, <1>4, <1>5, <2>2, AppendProperties, LenProperties
      DEF BooksInv, BooksAgree
    <3>2. evidence'[j][i] = e /\ attachments'[j][i] = d
      BY <1>1, <1>4, <1>5, <3>1, AppendProperties
    <3>. QED
      BY <1>4, <1>6, <3>2
  <2>. QED
    BY <2>1, <2>2
<1>10. ASSUME NEW g \in Generations, NEW c \in Digests,
              registry'[<<j, g, c>>] # None
       PROVE  c \in Attached(j)'
  <2>1. CASE <<j, g, c>> = row
    BY <1>7, <2>1
  <2>2. CASE <<j, g, c>> # row
    BY <1>6, <1>7, <1>10, <2>2 DEF BooksInv, BooksAgree
  <2>. QED
    BY <2>1, <2>2
<1>11. ASSUME NEW i \in Jobs \ {j}
       PROVE  /\ attachments'[i] = attachments[i] /\ evidence'[i] = evidence[i]
              /\ Attached(i)' = Attached(i)
              /\ \A g \in Generations, c \in Digests :
                    registry'[<<i, g, c>>] = registry[<<i, g, c>>]
  <2>1. \A g \in Generations, c \in Digests :
          <<i, g, c>> # row /\ <<i, g, c>> \in Jobs \X Generations \X Digests
    OBVIOUS
  <2>. QED
    BY <1>5, <1>6, <1>7, <2>1
<1>12. ASSUME NEW i \in Jobs \ {j}, NEW n \in DOMAIN evidence'[i]
       PROVE  LET f == evidence'[i][n]
              IN  /\ f.generation = generation[i]
                  /\ f.artifact_digest = attachments'[i][n]
                  /\ registry'[<<i, f.generation, f.artifact_digest>>] # None
                  /\ registry'[<<i, f.generation, f.artifact_digest>>].evidence
                       = f
  <2>1. /\ evidence'[i][n] = evidence[i][n]
        /\ n \in DOMAIN evidence[i]
        /\ evidence[i][n] \in EvidenceType
    BY <1>11 DEF TypeOK
  <2>2. /\ evidence[i][n].generation \in Generations
        /\ evidence[i][n].artifact_digest \in Digests
    BY <2>1 DEF EvidenceType
  <2>3. /\ evidence[i][n].generation = generation[i]
        /\ evidence[i][n].artifact_digest = attachments[i][n]
        /\ LET old == registry[<<i, evidence[i][n].generation,
                                evidence[i][n].artifact_digest>>]
           IN  old # None /\ old.evidence = evidence[i][n]
    BY <2>1 DEF BooksInv, BooksAgree
  <2>. QED
    BY <1>11, <2>1, <2>2, <2>3
<1>13. ASSUME NEW i \in Jobs
       PROVE  /\ Len(evidence'[i]) = Len(attachments'[i])
              /\ Cardinality(Attached(i)') = Len(attachments'[i])
              /\ IsFiniteSet(Attached(i)')
  BY <1>8, <1>11 DEF BooksInv, BooksAgree
<1>14. \A i \in Jobs : \A g \in Generations, c \in Digests :
          registry'[<<i, g, c>>] # None => c \in Attached(i)'
  BY <1>10, <1>11 DEF BooksInv, BooksAgree
<1>. QED
  BY <1>9, <1>12, <1>13, <1>14 DEF BooksInv, BooksAgree

LEMMA NextKeepsBooks == TypeOK /\ BooksInv /\ [Next]_vars => BooksInv'
<1>. SUFFICES ASSUME TypeOK, BooksInv, [Next]_vars PROVE BooksInv'
  OBVIOUS
<1>. QED
  BY BooksWritten, GenerationKept, QuietKeepsBooks, RecordKeepsBooks

(* attachments, attachment_evidence and receipt_registry tell the same      *)
(* story: whatever is attached, replayed or refused, they list the same     *)
(* artifacts, none twice, with one row each.                                *)
THEOREM BooksAlwaysAgree == Spec => []BooksAgree
<1>1. BooksInv => BooksAgree
  BY DEF BooksInv
<1>. QED
  BY InitBooks, NextKeepsBooks, TypeCorrect, <1>1, PTL DEF Spec
-----------------------------------------------------------------------------
(* One answer per receipt *)

(* A slot that answers an attach with success, with the request it is for.  *)
AnswersByRow(j, k) ==
    LET slot == idempotency[j][k]
    IN  /\ \E r \in AttachRequests : /\ slot.payload = AttachPayload(r)
                                     /\ r.expected_generation = generation[j]
        /\ AnsweredByRow(j, slot)

(* OneAnswerPerReceipt leaves open what a replay finds in a row and which   *)
(* request a slot was bound by: rows hold successful answers to an attach,  *)
(* and a slot holds an answer to the operation it was bound by.             *)
AnswerInv ==
    /\ \A row \in Jobs \X Generations \X Digests : registry[row] # None =>
          registry[row].response.op = "attach" /\ registry[row].response.code = "ok"
    /\ \A j \in Jobs, k \in Keys :
          LET slot == idempotency[j][k]
          IN  slot # None =>
                /\ slot.response.op = slot.payload.op
                /\ (slot.response.op = "attach" /\ slot.response.code = "ok")
                     => AnswersByRow(j, k)

LEMMA InitAnswers == Init => AnswerInv
BY DEF Init, AnswerInv

(* A row that an attach finds or leaves answers it. *)
LEMMA RowsAreAnswers ==
    ASSUME TypeOK, AnswerInv, [Next]_vars,
           NEW row \in Jobs \X Generations \X Digests
    PROVE  /\ registry[row] # None => registry'[row] = registry[row]
           /\ registry'[row] # None =>
                /\ registry'[row].response.op = "attach"
                /\ registry'[row].response.code = "ok"
<1>1. registry \in [Jobs \X Generations \X Digests -> Rows \cup {None}]
  BY DEF TypeOK
<1>2. CASE UNCHANGED attachVars
  BY <1>2 DEF AnswerInv, attachVars
<1>3. ASSUME NEW j \in Jobs, NEW k \in Keys, NEW r \in AttachRequests,
             AttachRecords(j, k, r)
      PROVE  /\ registry[row] # None => registry'[row] = registry[row]
             /\ registry'[row] # None =>
                  /\ registry'[row].response.op = "attach"
                  /\ registry'[row].response.code = "ok"
  <2>1. registry[RowKey(j, r)] = None
          /\ \E e : registry' = [registry EXCEPT ![RowKey(j, r)] =
               [evidence |-> e, response |-> Response("attach", "ok", state[j])]]
    BY <1>3 DEF AttachRecords
  <2>. QED
    BY <1>1, <2>1 DEF AnswerInv, Response
<1>. QED
  BY <1>2, <1>3, BooksWritten

(* An attach that succeeds under a free key is answered by its row. *)
LEMMA AttachAnswers ==
    ASSUME TypeOK, AnswerInv, UNCHANGED generation,
           NEW j \in Jobs, NEW k \in Keys, NEW r \in AttachRequests,
           AttachReplaysReceipt(j, k, r) \/ AttachRecords(j, k, r)
    PROVE  /\ idempotency'[j][k].payload = AttachPayload(r)
           /\ idempotency'[j][k].response.op = "attach"
           /\ AnswersByRow(j, k)'
<1>. DEFINE row == RowKey(j, r)
<1>1. /\ row = <<j, r.expected_generation, r.manifest.payload_digest>>
      /\ row \in Jobs \X Generations \X Digests
      /\ r.expected_generation = generation[j]
      /\ registry \in [Jobs \X Generations \X Digests -> Rows \cup {None}]
  BY AttachFacts
  DEF AttachReplaysReceipt, AttachRecords, AttachChecked, RowKey, TypeOK
<1>2. AttachPayload(r).request = r
  BY DEF AttachPayload
<1>3. CASE AttachReplaysReceipt(j, k, r)
  <2>1. /\ registry[row] # None /\ registry' = registry
        /\ registry[row].evidence.receipt_digest = r.receipt
        /\ _idem_store(j, k, AttachPayload(r), registry[row].response)
    BY <1>3 DEF AttachReplaysReceipt, OriginalResponse, attachVars
  <2>2. idempotency'[j][k] = [payload |-> AttachPayload(r),
                              response |-> registry[row].response]
    BY <2>1, StoredSlot
  <2>3. registry[row].response.op = "attach"
    BY <1>1, <2>1 DEF AnswerInv
  <2>. QED
    BY <1>1, <1>2, <2>1, <2>2, <2>3 DEF AnswersByRow, AnsweredByRow
<1>4. CASE AttachRecords(j, k, r)
  <2>1. PICK t \in now .. MaxNow :
          /\ registry' = [registry EXCEPT ![row] =
                [evidence |-> Evidence(j, r, t),
                 response |-> Response("attach", "ok", state[j])]]
          /\ _idem_store(j, k, AttachPayload(r), Response("attach", "ok", state[j]))
    BY <1>4 DEF AttachRecords
  <2>2. idempotency'[j][k] = [payload |-> AttachPayload(r),
                              response |-> Response("attach", "ok", state[j])]
    BY <2>1, StoredSlot
  <2>3. /\ registry'[row].response = Response("attach", "ok", state[j])
        /\ registry'[row].evidence.receipt_digest = r.receipt
    BY <1>1, <2>1 DEF Evidence
  <2>4. registry'[row] # None
    BY <1>4, RecordsARow
  <2>. QED
    BY <1>1, <1>2, <2>2, <2>3, <2>4 DEF AnswersByRow, AnsweredByRow, Response
<1>. QED
  BY <1>3, <1>4

(* Whatever else binds a key binds it to its own operation and, if that is  *)
(* an attach, to a failure.                                                 *)
LEMMA OthersAnswer ==
    ASSUME TypeOK, NEW j \in Jobs, NEW k \in Keys,
           \/ \E r \in AttachRequests : AttachRejected(j, k, r) \/ Quarantines(j, k, r)
           \/ \E r \in ExecuteRequests :
                 ExecuteRejected(j, k, r) \/ ExecuteRuns(j, k, r)
           \/ \E r \in ControlRequests :
                 \/ Control("cancel", j, k, r, "cancel_requested")
                 \/ Control("quarantine", j, k, r, "quarantined")
    PROVE  LET slot == idempotency'[j][k]
           IN  /\ slot.response.op = slot.payload.op
               /\ slot.response.op = "attach" => slot.response.code # "ok"
<1>1. ASSUME NEW payload, NEW response, response.op = payload.op,
             response.op = "attach" => response.code # "ok",
             _idem_store(j, k, payload, response)
      PROVE  LET slot == idempotency'[j][k]
             IN  /\ slot.response.op = slot.payload.op
                 /\ slot.response.op = "attach" => slot.response.code # "ok"
  <2>1. idempotency'[j][k] = [payload |-> payload, response |-> response]
    BY <1>1, StoredSlot
  <2>. QED
    BY <1>1, <2>1
<1>2. ASSUME NEW r \in AttachRequests, AttachRejected(j, k, r) \/ Quarantines(j, k, r)
      PROVE  \E code, st : /\ code # "ok"
                           /\ _idem_store(j, k, AttachPayload(r),
                                          Response("attach", code, st))
  <2>1. CASE AttachRejected(j, k, r)
    BY <2>1 DEF AttachRejected, StoredFailure
  <2>2. CASE Quarantines(j, k, r)
    BY <2>2 DEF Quarantines, QuarantineForFailure
  <2>. QED
    BY <1>2, <2>1, <2>2
<1>3. ASSUME NEW r \in ExecuteRequests,
             ExecuteRejected(j, k, r) \/ ExecuteRuns(j, k, r)
      PROVE  \E code, st : _idem_store(j, k, ExecutePayload(r),
                                       Response("execute", code, st))
  BY <1>3 DEF ExecuteRejected, StoredFailure, ExecuteRuns
<1>4. ASSUME NEW r \in ControlRequests,
             \/ Control("cancel", j, k, r, "cancel_requested")
             \/ Control("quarantine", j, k, r, "quarantined")
      PROVE  \E op \in {"cancel", "quarantine"} : \E code, st :
                _idem_store(j, k, ControlPayload(op, r), Response(op, code, st))
  BY <1>4 DEF Control
<1>5. CASE \E r \in AttachRequests : AttachRejected(j, k, r) \/ Quarantines(j, k, r)
  <2>1. PICK r, code, st :
          /\ r \in AttachRequests /\ code # "ok"
          /\ _idem_store(j, k, AttachPayload(r), Response("attach", code, st))
    BY <1>2, <1>5
  <2>2. /\ AttachPayload(r).op = "attach"
        /\ Response("attach", code, st).op = "attach"
        /\ Response("attach", code, st).code = code
    BY DEF AttachPayload, Response
  <2>. QED
    BY <1>1, <2>1, <2>2
<1>6. CASE \E r \in ExecuteRequests : ExecuteRejected(j, k, r) \/ ExecuteRuns(j, k, r)
  <2>1. PICK r, code, st :
          /\ r \in ExecuteRequests
          /\ _idem_store(j, k, ExecutePayload(r), Response("execute", code, st))
    BY <1>3, <1>6
  <2>2. /\ ExecutePayload(r).op = "execute"
        /\ Response("execute", code, st).op = "execute"
    BY DEF ExecutePayload, Response
  <2>. QED
    BY <1>1, <2>1, <2>2
<1>7. CASE \E r \in ControlRequests :
             \/ Control("cancel", j, k, r, "cancel_requested")
             \/ Control("quarantine", j, k, r, "quarantined")
  <2>1. PICK r, op, code, st :
          /\ r \in ControlRequests /\ op \in {"cancel", "quarantine"}
          /\ _idem_store(j, k, ControlPayload(op, r), Response(op, code, st))
    BY <1>4, <1>7
  <2>2. /\ ControlPayload(op, r).op = op /\ Response(op, code, st).op = op
        /\ op # "attach"
    BY <2>1 DEF ControlPayload, Response
  <2>. QED
    BY <1>1, <2>1, <2>2
<1>. QED
  BY <1>5, <1>6, <1>7

LEMMA NextKeepsAnswers == TypeOK /\ AnswerInv /\ [Next]_vars => AnswerInv'
<1>. SUFFICES ASSUME TypeOK, AnswerInv, [Next]_vars PROVE AnswerInv'
  OBVIOUS
<1>1. UNCHANGED generation
  BY GenerationKept
<1>2. ASSUME NEW j \in Jobs, NEW k \in Keys, idempotency'[j][k] # None
      PROVE  LET slot == idempotency'[j][k]
             IN  /\ slot.response.op = slot.payload.op
                 /\ (slot.response.op = "attach" /\ slot.response.code = "ok")
                      => AnswersByRow(j, k)'
  <2>1. CASE idempotency'[j][k] = idempotency[j][k]
    <3>. DEFINE slot == idempotency[j][k]
    <3>1. SUFFICES ASSUME slot.response.op = "attach", slot.response.code = "ok"
                   PROVE  AnswersByRow(j, k)'
      BY <1>2, <2>1 DEF AnswerInv
    <3>2. AnswersByRow(j, k)
      BY <1>2, <2>1, <3>1 DEF AnswerInv
    <3>3. PICK r \in AttachRequests :
            slot.payload = AttachPayload(r) /\ r.expected_generation = generation[j]
      BY <3>2 DEF AnswersByRow
    <3>4. <<j, r.expected_generation, r.manifest.payload_digest>>
            \in Jobs \X Generations \X Digests
      BY <3>3, AttachFacts DEF TypeOK
    <3>. DEFINE row == <<j, r.expected_generation, r.manifest.payload_digest>>
    <3>5. slot.payload.request = r
      BY <3>3 DEF AttachPayload
    <3>6. /\ registry[row] # None /\ registry[row].response = slot.response
          /\ registry[row].evidence.receipt_digest = r.receipt
      BY <3>2, <3>5 DEF AnswersByRow, AnsweredByRow
    <3>7. registry'[row] = registry[row]
      BY <3>4, <3>6, RowsAreAnswers
    <3>8. idempotency'[j][k].payload.request = r
      BY <2>1, <3>5
    <3>9. AnsweredByRow(j, idempotency[j][k])'
      BY <2>1, <3>6, <3>7, <3>8 DEF AnsweredByRow
    <3>. QED
      BY <1>1, <2>1, <3>3, <3>9 DEF AnswersByRow
  <2>2. CASE idempotency'[j][k] # idempotency[j][k]
    <3>1. BindsKey(j, k)
      BY <2>2, BindsOneKey
    <3>2. CASE \E r \in AttachRequests :
                 AttachReplaysReceipt(j, k, r) \/ AttachRecords(j, k, r)
      <4>1. PICK r \in AttachRequests :
              AttachReplaysReceipt(j, k, r) \/ AttachRecords(j, k, r)
        BY <3>2
      <4>2. /\ idempotency'[j][k].payload = AttachPayload(r)
            /\ idempotency'[j][k].response.op = "attach"
            /\ AnswersByRow(j, k)'
        BY <1>1, <4>1, AttachAnswers
      <4>3. AttachPayload(r).op = "attach"
        BY DEF AttachPayload
      <4>. QED
        BY <4>2, <4>3
    <3>3. CASE ~\E r \in AttachRequests :
                  AttachReplaysReceipt(j, k, r) \/ AttachRecords(j, k, r)
      BY <3>1, <3>3, OthersAnswer DEF BindsKey
    <3>. QED
      BY <3>2, <3>3
  <2>. QED
    BY <2>1, <2>2
<1>. QED
  BY <1>2, RowsAreAnswers DEF AnswerInv

(* Every successful answer to an attach is the one recorded when its        *)
(* receipt was, however many keys it is presented under.                    *)
THEOREM ReceiptsHaveOneAnswer == Spec => []OneAnswerPerReceipt
<1>1. AnswerInv => OneAnswerPerReceipt
  BY DEF AnswerInv, OneAnswerPerReceipt, AnswersByRow
<1>. QED
  BY InitAnswers, NextKeepsAnswers, TypeCorrect, <1>1, PTL DEF Spec
-----------------------------------------------------------------------------
(* One job per prepare call *)

(* A slot in the scope of a project names a job there is. *)
PreparedJobsExist ==
    \A p \in Projects, k \in PrepareKeys :
        prepared[p][k] # None => state[prepared[p][k].job_id] # "absent"

PrepareInv == OneJobPerPrepare /\ PreparedJobsExist

LEMMA InitPrepare == Init => PrepareInv
<1>. SUFFICES ASSUME Init PROVE PrepareInv
  OBVIOUS
<1>1. \A j \in Jobs : state[j] = "absent"
  BY DEF Init
<1>2. \A p \in Projects, k \in PrepareKeys : prepared[p][k] = None
  BY DEF Init
<1>. QED
  BY <1>1, <1>2 DEF PrepareInv, OneJobPerPrepare, PreparedJobsExist

(* Only prepare_job makes a job. *)
LEMMA Unborn ==
    ASSUME TypeOK, [Next]_vars, NEW j \in Jobs, state[j] = "absent"
    PROVE  \/ state'[j] = "absent"
           \/ \E k \in PrepareKeys, r \in PrepareRequests : PrepareNew(j, k, r)
<1>1. ASSUME NEW i \in Jobs, NEW st, state[i] # "absent",
             state' = [state EXCEPT ![i] = st]
      PROVE  state'[j] = "absent"
  BY <1>1 DEF TypeOK
<1>2. CASE Prepare
  <2>1. ASSUME NEW i \in Jobs, NEW k \in PrepareKeys, NEW r \in PrepareRequests,
               PrepareNew(i, k, r), i # j
        PROVE  state'[j] = "absent"
    BY <2>1 DEF PrepareNew, TypeOK
  <2>. QED
    BY <1>2, <2>1 DEF Prepare, PrepareAgain, jobVars
<1>3. ASSUME NEW i \in Jobs, NEW k \in Keys, Call(i, k)
      PROVE  state'[j] = "absent"
  <2>1. ASSUME NEW r \in AttachRequests, Attach(i, k, r)
        PROVE  state'[j] = "absent"
    BY <1>1, <2>1, AttachQuiet, AttachQuarantines
    DEF Attach, AttachRecords, Quarantines, QuarantineForFailure, AttachChecked,
        Begin, jobVars
  <2>2. ASSUME NEW r \in ExecuteRequests, Execute(i, k, r)
        PROVE  state'[j] = "absent"
    BY <1>1, <2>2, ExecuteQuiet DEF Execute, ExecuteRuns, Begin, jobVars
  <2>3. ASSUME NEW r \in ControlRequests, Cancel(i, k, r) \/ QuarantineJob(i, k, r)
        PROVE  state'[j] = "absent"
    BY <1>1, <2>3, ControlQuiet DEF Cancel, QuarantineJob, Control, Begin, jobVars
  <2>. QED
    BY <1>3, <2>1, <2>2, <2>3 DEF Call
<1>4. ASSUME NEW i \in Jobs, Foundry(i)
      PROVE  state'[j] = "absent"
  BY <1>1, <1>4 DEF Foundry, MarkReady, SettleRunning, Unready
<1>5. CASE Tick \/ (\E ref \in DOMAIN directory : Revoke(ref)) \/ UNCHANGED vars
  BY <1>5 DEF Tick, Revoke, vars, jobVars
<1>. QED
  BY <1>2, <1>3, <1>4, <1>5 DEF Next, Deployment

(* Only a first prepare writes to a project's slots and makes a job.        *)
LEMMA PreparesWritten ==
    ASSUME TypeOK, [Next]_vars
    PROVE  \/ /\ UNCHANGED prepared
              /\ \A j \in Jobs : (state'[j] = "absent") = (state[j] = "absent")
           \/ \E j \in Jobs, k \in PrepareKeys, r \in PrepareRequests :
                 PrepareNew(j, k, r)
<1>1. CASE Prepare
  BY <1>1 DEF Prepare, PrepareAgain, idemVars, jobVars
<1>2. CASE ~Prepare
  <2>1. UNCHANGED prepared
    <3>1. ASSUME NEW j \in Jobs, NEW k \in Keys, Call(j, k)
          PROVE  UNCHANGED prepared
      <4>1. ASSUME NEW r \in AttachRequests, Attach(j, k, r)
            PROVE  UNCHANGED prepared
        BY <4>1, AttachQuarantines
        DEF Attach, AttachRejected, StoredFailure, Quarantines,
            QuarantineForFailure, AttachReplaysReceipt, AttachRecords,
            _idem_store, FromSlot, JobNotFound, idemVars
      <4>2. ASSUME NEW r \in ExecuteRequests, Execute(j, k, r)
            PROVE  UNCHANGED prepared
        BY <4>2
        DEF Execute, ExecuteRejected, StoredFailure, ExecuteRuns, _idem_store,
            FromSlot, JobNotFound, idemVars
      <4>3. ASSUME NEW r \in ControlRequests,
                   Cancel(j, k, r) \/ QuarantineJob(j, k, r)
            PROVE  UNCHANGED prepared
        BY <4>3, ControlQuiet
        DEF Cancel, QuarantineJob, Control, _idem_store, idemVars
      <4>. QED
        BY <3>1, <4>1, <4>2, <4>3 DEF Call
    <3>2. CASE Deployment
      BY <3>2
      DEF Deployment, Foundry, MarkReady, SettleRunning, Tick, Revoke, idemVars
    <3>3. CASE UNCHANGED vars
      BY <3>3 DEF vars, idemVars
    <3>. QED
      BY <1>2, <3>1, <3>2, <3>3 DEF Next
  <2>2. ASSUME NEW j \in Jobs
        PROVE  (state'[j] = "absent") = (state[j] = "absent")
    <3>1. CASE state[j] = "absent"
      BY <1>2, <3>1, Unborn DEF Prepare
    <3>2. CASE state[j] # "absent"
      BY <3>2, StateMoves DEF Moves, JOB_STATES
    <3>. QED
      BY <3>1, <3>2
  <2>. QED
    BY <2>1, <2>2
<1>. QED
  BY <1>1, <1>2

LEMMA NextKeepsPrepare == TypeOK /\ PrepareInv /\ [Next]_vars => PrepareInv'
<1>. SUFFICES ASSUME TypeOK, PrepareInv, [Next]_vars PROVE PrepareInv'
  OBVIOUS
<1>0. \A p \in Projects, k \in PrepareKeys :
         prepared[p][k] # None => prepared[p][k].job_id \in Jobs
  BY DEF TypeOK, PreparedSlots
<1>1. CASE /\ UNCHANGED prepared
           /\ \A j \in Jobs : (state'[j] = "absent") = (state[j] = "absent")
  BY <1>0, <1>1 DEF PrepareInv, OneJobPerPrepare, PreparedJobsExist
<1>2. ASSUME NEW j \in Jobs, NEW k \in PrepareKeys, NEW r \in PrepareRequests,
             PrepareNew(j, k, r)
      PROVE  PrepareInv'
  <2>. DEFINE p == r.project
              slot == [payload |-> r, job_id |-> j]
  <2>1. /\ p \in Projects /\ state[j] = "absent" /\ state'[j] = "accepted"
        /\ prepared[p][k] = None /\ prepared'[p][k] = slot
        /\ \A i \in Jobs \ {j} : state'[i] = state[i]
        /\ \A q \in Projects, l \in PrepareKeys :
              <<q, l>> # <<p, k>> => prepared'[q][l] = prepared[q][l]
    BY <1>2 DEF PrepareNew, BeginPrepare, TypeOK, Projects
  <2>2. slot # None /\ slot.job_id = j
    <3>1. slot \in PreparedSlots
      BY DEF PreparedSlots
    <3>. QED
      BY <3>1, NoneAssumption
  <2>. HIDE DEF p, slot
  <2>3. \A q \in Projects, l \in PrepareKeys :
          prepared[q][l] # None => prepared[q][l].job_id # j
    BY <2>1 DEF PrepareInv, PreparedJobsExist
  <2>4. PreparedJobsExist'
    BY <1>0, <2>1, <2>2 DEF PrepareInv, PreparedJobsExist
  <2>5. ASSUME NEW i \in Jobs, state'[i] # "absent"
        PROVE  \E q \in Projects, l \in PrepareKeys :
                  /\ prepared'[q][l] # None /\ prepared'[q][l].job_id = i
                  /\ \A q2 \in Projects, l2 \in PrepareKeys :
                       (prepared'[q2][l2] # None /\ prepared'[q2][l2].job_id = i)
                         => q2 = q /\ l2 = l
    <3>1. CASE i = j
      <4>1. \A q2 \in Projects, l2 \in PrepareKeys :
              (prepared'[q2][l2] # None /\ prepared'[q2][l2].job_id = j)
                => q2 = p /\ l2 = k
        BY <2>1, <2>3
      <4>. QED
        BY <2>1, <2>2, <3>1, <4>1
    <3>2. CASE i # j
      <4>1. PICK q \in Projects, l \in PrepareKeys :
              /\ prepared[q][l] # None /\ prepared[q][l].job_id = i
              /\ \A q2 \in Projects, l2 \in PrepareKeys :
                   (prepared[q2][l2] # None /\ prepared[q2][l2].job_id = i)
                     => q2 = q /\ l2 = l
        BY <2>1, <2>5, <3>2 DEF PrepareInv, OneJobPerPrepare
      <4>2. prepared'[q][l] = prepared[q][l]
        BY <2>1, <4>1
      <4>3. \A q2 \in Projects, l2 \in PrepareKeys :
              (prepared'[q2][l2] # None /\ prepared'[q2][l2].job_id = i)
                => q2 = q /\ l2 = l
        BY <2>1, <2>2, <3>2, <4>1
      <4>. QED
        BY <4>1, <4>2, <4>3
    <3>. QED
      BY <3>1, <3>2
  <2>. QED
    BY <2>4, <2>5 DEF PrepareInv, OneJobPerPrepare
<1>. QED
  BY <1>1, <1>2, PreparesWritten

(* A prepare call that is repeated makes no second job, and no job is made  *)
(* but by one.                                                              *)
THEOREM PreparesMakeOneJob == Spec => []OneJobPerPrepare
<1>1. PrepareInv => OneJobPerPrepare
  BY DEF PrepareInv
<1>. QED
  BY InitPrepare, NextKeepsPrepare, TypeCorrect, <1>1, PTL DEF Spec
-----------------------------------------------------------------------------
(* Evidence *)

(* What an attach that passes the checks has established. *)
LEMMA PassedChecks ==
    ASSUME NEW j, NEW r, Verdict(j, r) = "ok"
    PROVE  /\ verify_receipt(j, r)
           /\ StatementBinds(receipt_statement_from_receipt(r.receipt), r.staged,
                             r.manifest)
           /\ check_matches_policy(r.manifest, source[j], policy[j],
                                   r.constraints)
BY DEF Verdict, AttachVerdict

(* The statement of a receipt has the receipt's fields. *)
LEMMA StatementOf ==
    ASSUME NEW receipt
    PROVE  LET st == receipt_statement_from_receipt(receipt)
           IN  /\ st.issuer = receipt.issuer /\ st.job_id = receipt.job_id
               /\ st.generation = receipt.generation
               /\ st.artifact_digest = receipt.artifact_digest
               /\ st.issued_at = receipt.issued_at
               /\ st.plan_hash = receipt.plan_hash /\ st.steps = receipt.steps
BY DEF receipt_statement_from_receipt, StatementFields

(* The fields of a normalized manifest. *)
LEMMA NormalizedFields ==
    ASSUME NEW r \in AttachRequests
    PROVE  LET m == NormalizedManifest(r.manifest)
           IN  /\ m.payload_digest = r.manifest.payload_digest
               /\ m.source_commit = r.manifest.source_commit
               /\ m.fields = r.manifest.fields
               /\ m.verify_commands = NormalizedPlan(r.manifest)
BY AttachRequestsAssumption DEF NormalizedManifest, ManifestFields

(* The deployment forgets receipts, it does not change them. *)
DirectoryOnlyShrinks ==
    /\ DOMAIN directory \subseteq DOMAIN InitialDirectory
    /\ \A ref \in DOMAIN directory : directory[ref] = InitialDirectory[ref]

GenuineInv == EvidenceIsGenuine /\ DirectoryOnlyShrinks

(* What a verifier accepts is authentic, current and bound to the job. *)
LEMMA VerifiedReceipt ==
    ASSUME DirectoryOnlyShrinks, NEW j, NEW r, verify_receipt(j, r)
    PROVE  LET st == receipt_statement_from_receipt(r.receipt)
           IN  /\ \/ /\ VerifierKind = "hmac"
                     /\ r.receipt.mac.key = Issuers[st.issuer]
                     /\ r.receipt.mac.over = st
                  \/ /\ VerifierKind = "opaque"
                     /\ InitialDirectory[r.receipt.receipt_ref] = st
               /\ st.issued_at <= now
               /\ st.job_id = j /\ st.generation = generation[j]
               /\ st.artifact_digest = r.manifest.payload_digest
<1>. DEFINE st == receipt_statement_from_receipt(r.receipt)
            d == r.manifest.payload_digest
<1>1. CASE VerifierKind = "hmac"
  <2>1. HmacVerifies(r.receipt, Issuers, j, generation[j], d, now)
    BY <1>1 DEF verify_receipt
  <2>2. /\ r.receipt.mac = _receipt_mac(Issuers[r.receipt.issuer], st)
        /\ _check_receipt_window(st, now)
        /\ _check_receipt_binding(st, j, generation[j], d)
    BY <2>1 DEF HmacVerifies
  <2>3. /\ r.receipt.mac.key = Issuers[r.receipt.issuer]
        /\ r.receipt.mac.over = st
    BY <2>2 DEF _receipt_mac
  <2>. QED
    BY <1>1, <2>2, <2>3, StatementOf
    DEF _check_receipt_window, _check_receipt_binding
<1>2. CASE VerifierKind = "opaque"
  <2>1. OpaqueVerifies(r.receipt, directory, j, generation[j], d, now)
    BY <1>2 DEF verify_receipt
  <2>2. /\ r.receipt.receipt_ref \in DOMAIN directory
        /\ st = directory[r.receipt.receipt_ref]
        /\ _check_receipt_window(st, now)
        /\ _check_receipt_binding(st, j, generation[j], d)
    BY <2>1 DEF OpaqueVerifies
  <2>. QED
    BY <1>2, <2>2
    DEF DirectoryOnlyShrinks, _check_receipt_window, _check_receipt_binding
<1>3. CASE VerifierKind = "none"
  BY <1>3 DEF verify_receipt
<1>. QED
  BY <1>1, <1>2, <1>3, VerifierKindAssumption

(* What attach_artifact records is genuine. *)
LEMMA RecordedIsGenuine ==
    ASSUME TypeOK, DirectoryOnlyShrinks, NEW j \in Jobs, NEW r \in AttachRequests,
           Verdict(j, r) = "ok", NEW t \in now .. MaxNow
    PROVE  IsGenuine(j, Evidence(j, r, t))
<1>. DEFINE e == Evidence(j, r, t)
            st == receipt_statement_from_receipt(r.receipt)
            plan == NormalizedPlan(r.manifest)
<1>1. /\ e.statement = st /\ e.receipt_digest = r.receipt
      /\ e.generation = generation[j] /\ e.attached_at = t
      /\ e.manifest.payload_digest = r.manifest.payload_digest
      /\ e.manifest.source_commit = r.manifest.source_commit
      /\ e.manifest.fields = r.manifest.fields
      /\ e.manifest.verify_commands = plan
  BY NormalizedFields DEF Evidence
<1>2. /\ \/ /\ VerifierKind = "hmac"
            /\ r.receipt.mac.key = Issuers[st.issuer]
            /\ r.receipt.mac.over = st
         \/ /\ VerifierKind = "opaque"
            /\ InitialDirectory[r.receipt.receipt_ref] = st
      /\ st.issued_at <= now
      /\ st.job_id = j /\ st.generation = generation[j]
      /\ st.artifact_digest = r.manifest.payload_digest
  BY PassedChecks, VerifiedReceipt
<1>3. st.issued_at <= t
  <2>1. st.issued_at \in Int
    BY AttachRequestsAssumption, StatementOf
  <2>2. now \in Int /\ t \in Int /\ now <= t
    BY MaxNowAssumption DEF TypeOK
  <2>. QED
    BY <1>2, <2>1, <2>2
<1>4. /\ st.plan_hash.verify_commands = plan
      /\ \A n \in DOMAIN plan :
            st.steps[n].evidence_digest = step_commitment(n - 1, plan[n])
  <2>1. /\ st.plan_hash = plan_hash_for_plan(plan)
        /\ StepsCoverPlan(st.steps, plan)
    BY PassedChecks DEF StatementBinds
  <2>. HIDE DEF st, plan
  <2>. QED
    BY <2>1 DEF StepsCoverPlan, plan_hash_for_plan
<1>5. /\ r.manifest.source_commit = source[j]
      /\ \A f \in PolicyFields : policy[j][f] \in {None, r.manifest.fields[f]}
  BY PassedChecks DEF check_matches_policy
<1>. HIDE DEF e, st, plan
<1>. QED
  BY <1>1, <1>2, <1>3, <1>4, <1>5 DEF IsGenuine, e

LEMMA NextKeepsDirectory ==
    ASSUME DirectoryOnlyShrinks, [Next]_vars PROVE DirectoryOnlyShrinks'
<1>1. CASE UNCHANGED directory
  BY <1>1 DEF DirectoryOnlyShrinks
<1>2. ASSUME NEW ref \in DOMAIN directory, Revoke(ref)
      PROVE  DirectoryOnlyShrinks'
  BY <1>2 DEF Revoke, DirectoryOnlyShrinks
<1>3. CASE Prepare
  BY <1>1, <1>3 DEF Prepare, PrepareNew, PrepareAgain
<1>4. ASSUME NEW j \in Jobs, NEW k \in Keys, Call(j, k)
      PROVE  UNCHANGED directory
  <2>1. ASSUME NEW r \in AttachRequests, Attach(j, k, r)
        PROVE  UNCHANGED directory
    BY <2>1, AttachQuiet, AttachQuarantines
    DEF Attach, Quarantines, QuarantineForFailure, AttachRecords
  <2>2. ASSUME NEW r \in ExecuteRequests, Execute(j, k, r)
        PROVE  UNCHANGED directory
    BY <2>2, ExecuteQuiet DEF Execute, ExecuteRuns
  <2>3. ASSUME NEW r \in ControlRequests, Cancel(j, k, r) \/ QuarantineJob(j, k, r)
        PROVE  UNCHANGED directory
    BY <2>3, ControlQuiet DEF Cancel, QuarantineJob, Control
  <2>. QED
    BY <1>4, <2>1, <2>2, <2>3 DEF Call
<1>5. ASSUME NEW j \in Jobs, Foundry(j)
      PROVE  UNCHANGED directory
  BY <1>5 DEF Foundry, MarkReady, SettleRunning
<1>6. CASE Tick \/ UNCHANGED vars
  BY <1>1, <1>6 DEF Tick, vars
<1>. QED
  BY <1>1, <1>2, <1>3, <1>4, <1>5, <1>6 DEF Next, Deployment

(* A job with evidence keeps what the evidence was checked against. *)
LEMMA CheckedAgainstStays ==
    ASSUME TypeOK, [Next]_vars, NEW j \in Jobs, evidence[j] # <<>>
    PROVE  source'[j] = source[j] /\ policy'[j] = policy[j]
<1>1. state[j] # "absent"
  BY DEF TypeOK
<1>2. CASE Next
  BY <1>1, <1>2, NextKeepsBindings DEF BindingsKept
<1>3. CASE UNCHANGED vars
  BY <1>3 DEF vars, jobVars
<1>. QED
  BY <1>2, <1>3

LEMMA NextKeepsGenuine == TypeOK /\ GenuineInv /\ [Next]_vars => GenuineInv'
<1>. SUFFICES ASSUME TypeOK, GenuineInv, [Next]_vars PROVE GenuineInv'
  OBVIOUS
<1>1. ASSUME NEW j \in Jobs, NEW i \in DOMAIN evidence'[j]
      PROVE  \/ i \in DOMAIN evidence[j] /\ evidence'[j][i] = evidence[j][i]
             \/ \E r \in AttachRequests, t \in now .. MaxNow :
                  /\ Verdict(j, r) = "ok" /\ evidence'[j][i] = Evidence(j, r, t)
                  /\ UNCHANGED jobVars
  <2>1. CASE evidence'[j] = evidence[j]
    BY <2>1
  <2>2. CASE evidence'[j] # evidence[j]
    <3>1. PICK l \in Jobs, k \in Keys, r \in AttachRequests : AttachRecords(l, k, r)
      BY <2>2, BooksWritten DEF attachVars
    <3>2. PICK t \in now .. MaxNow :
            evidence' = [evidence EXCEPT ![l] = Append(@, Evidence(l, r, t))]
      BY <3>1 DEF AttachRecords
    <3>3. /\ l = j /\ evidence'[j] = Append(evidence[j], Evidence(j, r, t))
          /\ evidence[j] \in Seq(EvidenceType)
      BY <2>2, <3>2 DEF TypeOK
    <3>4. Verdict(j, r) = "ok" /\ UNCHANGED jobVars
      BY <3>1, <3>3 DEF AttachRecords
    <3>5. \/ i \in DOMAIN evidence[j] /\ evidence'[j][i] = evidence[j][i]
          \/ evidence'[j][i] = Evidence(j, r, t)
      BY <3>2, <3>3, RecordedTyped, AppendProperties, LenProperties
    <3>. QED
      BY <3>4, <3>5
  <2>. QED
    BY <2>1, <2>2
<1>2. ASSUME NEW j \in Jobs, NEW i \in DOMAIN evidence'[j]
      PROVE  IsGenuine(j, evidence[j][i])'
  <2>1. PICK e : e = evidence'[j][i]
    OBVIOUS
  <2>2. IsGenuine(j, e) /\ source'[j] = source[j] /\ policy'[j] = policy[j]
    <3>1. CASE i \in DOMAIN evidence[j] /\ evidence'[j][i] = evidence[j][i]
      BY <2>1, <3>1, CheckedAgainstStays DEF GenuineInv, EvidenceIsGenuine
    <3>2. CASE \E r \in AttachRequests, t \in now .. MaxNow :
                 /\ Verdict(j, r) = "ok" /\ evidence'[j][i] = Evidence(j, r, t)
                 /\ UNCHANGED jobVars
      BY <2>1, <3>2, RecordedIsGenuine DEF GenuineInv, jobVars
    <3>. QED
      BY <1>1, <3>1, <3>2
  <2>. QED
    BY <2>1, <2>2 DEF IsGenuine
<1>. QED
  BY <1>2, NextKeepsDirectory DEF GenuineInv, EvidenceIsGenuine

LEMMA InitGenuine == Init => GenuineInv
BY DEF Init, GenuineInv, EvidenceIsGenuine, DirectoryOnlyShrinks

(* Whatever is presented, however late and often, under whichever key: what *)
(* is recorded as evidence is a receipt of a trusted issuer (or of the      *)
(* deployment's directory) for that very job and artifact, current when it  *)
(* was recorded, over the plan and the policy of the job.                   *)
THEOREM EvidenceGenuine == Spec => []EvidenceIsGenuine
<1>1. GenuineInv => EvidenceIsGenuine
  BY DEF GenuineInv
<1>. QED
  BY InitGenuine, NextKeepsGenuine, TypeCorrect, <1>1, PTL DEF Spec

-----------------------------------------------------------------------------
(* Reasons of quarantines *)

(* A step that quarantines a job says why. *)
LEMMA QuarantinesSayWhy ==
    ASSUME TypeOK, [Next]_vars, NEW j \in Jobs
    PROVE  \/ /\ quarantine_reason'[j] = quarantine_reason[j]
              /\ state'[j] = "quarantined" => state[j] = "quarantined"
           \/ state'[j] = "quarantined" /\ quarantine_reason'[j] # None
<1>. DEFINE Silent == /\ quarantine_reason'[j] = quarantine_reason[j]
                      /\ state'[j] = "quarantined" => state[j] = "quarantined"
            SaysWhy == state'[j] = "quarantined" /\ quarantine_reason'[j] # None
<1>1. CASE Prepare
  <2>1. /\ UNCHANGED quarantine_reason
        /\ \/ UNCHANGED state
           \/ \E i \in Jobs : state' = [state EXCEPT ![i] = "accepted"]
    BY <1>1 DEF Prepare, PrepareNew, PrepareAgain, jobVars
  <2>. QED
    BY <2>1 DEF TypeOK
<1>2. ASSUME NEW i \in Jobs, NEW k \in Keys, NEW r \in AttachRequests,
             Attach(i, k, r)
      PROVE  Silent \/ SaysWhy
  <2>1. CASE UNCHANGED <<state, quarantine_reason>>
    BY <2>1
  <2>2. CASE Quarantines(i, k, r)
    <3>1. PICK code \in Codes : QuarantineForFailure(i, k, r, code)
      BY <2>2 DEF Quarantines, Codes
    <3>2. /\ state' = [state EXCEPT ![i] = "quarantined"]
          /\ quarantine_reason' = [quarantine_reason EXCEPT ![i] = code]
      BY <3>1 DEF QuarantineForFailure
    <3>3. code # None
      BY NoneAssumption
    <3>. QED
      BY <3>2, <3>3 DEF TypeOK
  <2>. QED
    BY <1>2, <2>1, <2>2, AttachQuiet, AttachQuarantines
    DEF Attach, AttachRecords, jobVars
<1>3. ASSUME NEW i \in Jobs, NEW k \in Keys, NEW r \in ExecuteRequests,
             Execute(i, k, r)
      PROVE  Silent
  <2>1. /\ UNCHANGED quarantine_reason
        /\ UNCHANGED state \/ state' = [state EXCEPT ![i] = "running"]
    BY <1>3, ExecuteQuiet DEF Execute, ExecuteRuns, jobVars
  <2>. QED
    BY <2>1 DEF TypeOK
<1>4. ASSUME NEW i \in Jobs, NEW k \in Keys, NEW r \in ControlRequests,
             Cancel(i, k, r) \/ QuarantineJob(i, k, r)
      PROVE  Silent \/ SaysWhy
  <2>1. \/ UNCHANGED <<state, quarantine_reason>>
        \/ /\ UNCHANGED quarantine_reason
           /\ state' = [state EXCEPT ![i] = "cancel_requested"]
        \/ /\ quarantine_reason' = [quarantine_reason EXCEPT ![i] = r.reason]
           /\ state' = [state EXCEPT ![i] = "quarantined"]
    BY <1>4, ControlQuiet DEF Cancel, QuarantineJob, Control, jobVars
  <2>2. r.reason # None
    BY NoneAssumption
  <2>. QED
    BY <2>1, <2>2 DEF TypeOK
<1>5. CASE Deployment \/ UNCHANGED vars
  <2>1. /\ UNCHANGED quarantine_reason
        /\ \/ UNCHANGED state
           \/ \E i \in Jobs, st \in {"ready", "succeeded", "failed"} :
                 state' = [state EXCEPT ![i] = st]
    BY <1>5
    DEF Deployment, Foundry, MarkReady, SettleRunning, Tick, Revoke, vars, jobVars
  <2>. QED
    BY <2>1 DEF TypeOK
<1>. QED
  BY <1>1, <1>2, <1>3, <1>4, <1>5 DEF Next, Call

(* A job has a reason exactly as long as it is quarantined. *)
ReasonInv ==
    \A j \in Jobs : state[j] = "quarantined" <=> quarantine_reason[j] # None

LEMMA NextKeepsReasons == TypeOK /\ ReasonInv /\ [Next]_vars => ReasonInv'
<1>. SUFFICES ASSUME TypeOK, ReasonInv, [Next]_vars, NEW j \in Jobs
              PROVE  state'[j] = "quarantined" <=> quarantine_reason'[j] # None
  BY DEF ReasonInv
<1>1. state[j] = "quarantined" => state'[j] = "quarantined"
  BY StateMoves
  DEF Moves, Unready, ATTACHABLE_STATES, NON_TERMINAL_STATES, TERMINAL_STATES
<1>. QED
  BY <1>1, QuarantinesSayWhy DEF ReasonInv

(* A job is quarantined for a reason, and nobody else has one. *)
THEOREM ReasonInvariant == Spec => []ReasonInv
<1>1. Init => ReasonInv
  BY DEF Init, ReasonInv
<1>. QED
  BY <1>1, NextKeepsReasons, TypeCorrect, PTL DEF Spec
-----------------------------------------------------------------------------
(* Without a verifier *)

(* A step that leaves the reason of a quarantine alone, or sets it. *)
LEMMA ReasonsWritten ==
    ASSUME TypeOK, [Next]_vars, NEW j \in Jobs
    PROVE  \/ quarantine_reason'[j] = quarantine_reason[j]
           \/ quarantine_reason'[j] \in {r.reason : r \in ControlRequests}
           \/ \E k \in Keys, r \in AttachRequests : Quarantines(j, k, r)
<1>1. CASE Prepare
  BY <1>1 DEF Prepare, PrepareNew, PrepareAgain, jobVars
<1>2. ASSUME NEW i \in Jobs, NEW k \in Keys, NEW r \in AttachRequests,
             Attach(i, k, r)
      PROVE  quarantine_reason'[j] = quarantine_reason[j] \/ Quarantines(j, k, r)
  <2>1. CASE Quarantines(i, k, r)
    BY <2>1 DEF Quarantines, QuarantineForFailure, TypeOK
  <2>. QED
    BY <1>2, <2>1, AttachQuiet, AttachQuarantines
    DEF Attach, AttachRecords, jobVars
<1>3. ASSUME NEW i \in Jobs, NEW k \in Keys, NEW r \in ExecuteRequests,
             Execute(i, k, r)
      PROVE  quarantine_reason'[j] = quarantine_reason[j]
  BY <1>3, ExecuteQuiet DEF Execute, ExecuteRuns, jobVars
<1>4. ASSUME NEW i \in Jobs, NEW k \in Keys, NEW r \in ControlRequests,
             Cancel(i, k, r) \/ QuarantineJob(i, k, r)
      PROVE  \/ quarantine_reason'[j] = quarantine_reason[j]
             \/ quarantine_reason'[j] \in {q.reason : q \in ControlRequests}
  <2>1. \/ UNCHANGED quarantine_reason
        \/ quarantine_reason' = [quarantine_reason EXCEPT ![i] = r.reason]
    BY <1>4, ControlQuiet DEF Cancel, QuarantineJob, jobVars
  <2>. QED
    BY <2>1 DEF TypeOK
<1>5. CASE Deployment \/ UNCHANGED vars
  BY <1>5
  DEF Deployment, Foundry, MarkReady, SettleRunning, Tick, Revoke, vars, jobVars
<1>. QED
  BY <1>1, <1>2, <1>3, <1>4, <1>5 DEF Next, Call

LEMMA NextFailsClosed == TypeOK /\ FailsClosed /\ [Next]_vars => FailsClosed'
<1>. SUFFICES ASSUME TypeOK, FailsClosed, [Next]_vars, VerifierKind = "none",
                     NEW j \in Jobs
              PROVE  /\ evidence'[j] = <<>> /\ attachments'[j] = <<>>
                     /\ quarantine_reason'[j] \in
                          {None} \cup {r.reason : r \in ControlRequests}
  BY DEF FailsClosed
<1>1. \A i, k, r : ~AttachChecked(i, k, r)
  BY DEF AttachChecked, VerifierMissing
<1>2. UNCHANGED attachVars
  BY <1>1, BooksWritten DEF AttachRecords
<1>3. \A k, r : ~Quarantines(j, k, r)
  BY <1>1 DEF Quarantines
<1>. QED
  BY <1>2, <1>3, ReasonsWritten DEF FailsClosed, attachVars

(* A client without a verifier records nothing and quarantines nobody on    *)
(* its own.                                                                 *)
THEOREM ClosedWithoutVerifier == Spec => []FailsClosed
<1>1. Init => FailsClosed
  BY DEF Init, FailsClosed
<1>. QED
  BY <1>1, NextFailsClosed, TypeCorrect, PTL DEF Spec
-----------------------------------------------------------------------------
(* What callers are told *)

(* A claim of a job there is that is true. *)
Holds(j, claim) == state[j] # "absent" /\ HasHappened(j, claim)

(* What a caller is told when he is answered from the slot of k. *)
ClaimAt(j, k) ==
    LET slot == idempotency[j][k]
    IN  [op     |-> slot.response.op,
         digest |-> IF slot.response.op = "attach"
                      THEN slot.payload.request.manifest.payload_digest
                      ELSE None]

Succeeded(j, k) ==
    idempotency[j][k] # None /\ idempotency[j][k].response.code = "ok"

(* What was told is true, and so is what a repeated call would be told.     *)
TruthInv ==
    /\ \A j \in Jobs : \A claim \in told[j] : Holds(j, claim)
    /\ \A j \in Jobs, k \in Keys :
          Succeeded(j, k) => Holds(j, ClaimAt(j, k))

(* An artifact stays attached. *)
LEMMA AttachedStays ==
    ASSUME TypeOK, [Next]_vars, NEW j \in Jobs
    PROVE  Attached(j) \subseteq Attached(j)'
<1>1. CASE UNCHANGED attachVars
  BY <1>1 DEF Attached, attachVars
<1>2. ASSUME NEW i \in Jobs, NEW k \in Keys, NEW r \in AttachRequests,
             AttachRecords(i, k, r)
      PROVE  Attached(j) \subseteq Attached(j)'
  <2>. DEFINE d == r.manifest.payload_digest
  <2>1. \/ UNCHANGED attachments
        \/ attachments' = [attachments EXCEPT ![i] = Append(@, d)]
    BY <1>2 DEF AttachRecords
  <2>2. CASE attachments'[j] = attachments[j]
    BY <2>2 DEF Attached
  <2>3. CASE attachments'[j] # attachments[j]
    <3>1. /\ attachments'[j] = Append(attachments[j], d)
          /\ attachments[j] \in Seq(Digests) /\ d \in Digests
      BY <2>1, <2>3, AttachFacts DEF TypeOK
    <3>. QED
      BY <3>1, AppendElements DEF Attached
  <2>. QED
    BY <2>2, <2>3
<1>. QED
  BY <1>1, <1>2, BooksWritten

(* What has happened is not undone. *)
LEMMA TrueStays ==
    ASSUME TypeOK, [Next]_vars, NEW j \in Jobs, NEW claim, Holds(j, claim),
           claim.op \in {"prepare", "attach", "execute", "cancel", "quarantine"}
    PROVE  Holds(j, claim)'
<1>1. /\ state[j] # "absent"
      /\ state'[j] = state[j] \/ Moves(state[j], state'[j])
      /\ identity[j] # None => identity'[j] # None
  BY StateMoves DEF Holds
<1>2. state'[j] # "absent"
  BY <1>1 DEF Moves, ATTACHABLE_STATES
<1>3. CASE claim.op = "prepare"
  BY <1>2, <1>3 DEF Holds, HasHappened
<1>4. CASE claim.op = "attach"
  <2>1. claim.digest \in Attached(j)'
    BY <1>4, AttachedStays DEF Holds, HasHappened
  <2>. QED
    BY <1>2, <1>4, <2>1 DEF Holds, HasHappened
<1>5. CASE claim.op = "execute"
  <2>1. identity[j] # None /\ state[j] \notin {"accepted", "preparing", "ready"}
    BY <1>5 DEF Holds, HasHappened
  <2>2. state'[j] \notin {"accepted", "preparing", "ready"}
    BY <1>1, <2>1 DEF Moves, Unready, ATTACHABLE_STATES
  <2>. QED
    BY <1>1, <1>2, <1>5, <2>1, <2>2 DEF Holds, HasHappened
<1>6. CASE claim.op = "cancel"
  <2>1. state[j] \in {"cancel_requested", "quarantined"}
    BY <1>6 DEF Holds, HasHappened
  <2>2. state'[j] \in {"cancel_requested", "quarantined"}
    BY <1>1, <2>1
    DEF Moves, Unready, ATTACHABLE_STATES, NON_TERMINAL_STATES, TERMINAL_STATES
  <2>. QED
    BY <1>2, <1>6, <2>2 DEF Holds, HasHappened
<1>7. CASE claim.op = "quarantine"
  <2>1. state[j] = "quarantined"
    BY <1>7 DEF Holds, HasHappened
  <2>2. state'[j] = "quarantined"
    BY <1>1, <2>1
    DEF Moves, Unready, ATTACHABLE_STATES, NON_TERMINAL_STATES, TERMINAL_STATES
  <2>. QED
    BY <1>2, <1>7, <2>2 DEF Holds, HasHappened
<1>. QED
  BY <1>3, <1>4, <1>5, <1>6, <1>7

(* The caller is told of j what claim says, or of nothing new. *)
TellsOf(j, claim) == told' = [told EXCEPT ![j] = @ \cup {claim}]

(* What is answered from a slot is what the slot says. *)
LEMMA SlotTells ==
    ASSUME TypeOK, AnswerInv, NEW j \in Jobs, NEW k \in Keys, NEW op,
           NEW payload, NEW digest, FromSlot(op, j, k, payload, digest),
           payload.op = op,
           digest = IF op = "attach" THEN payload.request.manifest.payload_digest
                                     ELSE None
    PROVE  UNCHANGED told \/ (Succeeded(j, k) /\ TellsOf(j, ClaimAt(j, k)))
<1>1. CASE UNCHANGED told
  BY <1>1
<1>2. CASE ~UNCHANGED told
  <2>1. /\ idempotency[j][k] # None /\ idempotency[j][k].payload = payload
        /\ idempotency[j][k].response.code = "ok"
        /\ TellsOf(j, [op |-> op, digest |-> digest])
    BY <1>2 DEF FromSlot, SameRequest, Answer, TellsOf
  <2>2. idempotency[j][k].response.op = op
    BY <2>1 DEF AnswerInv
  <2>3. ClaimAt(j, k) = [op |-> op, digest |-> digest]
    BY <2>1, <2>2 DEF ClaimAt
  <2>. QED
    BY <2>1, <2>3 DEF Succeeded
<1>. QED
  BY <1>1, <1>2

(* A call that binds its key tells what its slot says, and that is so.      *)
BindsTruly(j, k) ==
    /\ Succeeded(j, k)' => Holds(j, ClaimAt(j, k))'
    /\ \/ UNCHANGED told
       \/ TellsOf(j, ClaimAt(j, k)') /\ Holds(j, ClaimAt(j, k))'

LEMMA FailureBinds ==
    ASSUME TypeOK, NEW j \in Jobs, NEW k \in Keys, NEW payload, NEW op, NEW code,
           NEW st, NEW digest, code # "ok",
           _idem_store(j, k, payload, Response(op, code, st)),
           Answer(op, j, digest, code)
    PROVE  BindsTruly(j, k)
<1>1. idempotency'[j][k] = [payload |-> payload, response |-> Response(op, code, st)]
  BY StoredSlot
<1>2. ~Succeeded(j, k)'
  BY <1>1 DEF Response, Succeeded
<1>3. UNCHANGED told
  BY DEF Answer
<1>. QED
  BY <1>2, <1>3 DEF BindsTruly

LEMMA SuccessBinds ==
    ASSUME NEW j \in Jobs, NEW k \in Keys, NEW op, NEW digest,
           idempotency'[j][k].response.op = op, Answer(op, j, digest, "ok"),
           digest = IF op = "attach"
                      THEN idempotency'[j][k].payload.request.manifest.payload_digest
                      ELSE None,
           state'[j] # "absent",
           HasHappened(j, [op |-> op, digest |-> digest])'
    PROVE  BindsTruly(j, k)
<1>. PICK claim : claim = [op |-> op, digest |-> digest]
  OBVIOUS
<1>1. ClaimAt(j, k)' = claim
  BY DEF ClaimAt
<1>2. TellsOf(j, claim)
  BY DEF Answer, TellsOf
<1>3. Holds(j, claim)'
  BY DEF Holds
<1>4. Holds(j, ClaimAt(j, k))'
  BY <1>1, <1>3 DEF Holds, HasHappened
<1>. QED
  BY <1>1, <1>2, <1>4 DEF BindsTruly

LEMMA BoundTruly ==
    ASSUME TypeOK, AnswerInv, BooksInv', [Next]_vars,
           NEW j \in Jobs, NEW k \in Keys, BindsKey(j, k)
    PROVE  BindsTruly(j, k)
<1>1. ASSUME NEW r \in AttachRequests, AttachRejected(j, k, r) \/ Quarantines(j, k, r)
      PROVE  BindsTruly(j, k)
  <2>1. PICK code, st :
          /\ code # "ok"
          /\ _idem_store(j, k, AttachPayload(r), Response("attach", code, st))
          /\ Answer("attach", j, r.manifest.payload_digest, code)
    <3>1. CASE AttachRejected(j, k, r)
      BY <3>1 DEF AttachRejected, StoredFailure
    <3>2. CASE Quarantines(j, k, r)
      BY <3>2 DEF Quarantines, QuarantineForFailure
    <3>. QED
      BY <1>1, <3>1, <3>2
  <2>. QED
    BY <2>1, FailureBinds
<1>2. ASSUME NEW r \in AttachRequests,
             AttachReplaysReceipt(j, k, r) \/ AttachRecords(j, k, r)
      PROVE  BindsTruly(j, k)
  <2>. DEFINE d == r.manifest.payload_digest
              row == <<j, generation[j], d>>
  <2>1. /\ Answer("attach", j, d, "ok") /\ state[j] # "absent" /\ state' = state
        /\ r.expected_generation = generation[j]
    BY <1>2
    DEF AttachReplaysReceipt, AttachRecords, AttachChecked, Begin, jobVars
  <2>2. /\ idempotency'[j][k].payload = AttachPayload(r)
        /\ idempotency'[j][k].response.op = "attach"
        /\ AnswersByRow(j, k)'
    BY <1>2, AttachAnswers, GenerationKept
  <2>3. AttachPayload(r).request = r
    BY DEF AttachPayload
  <2>4. /\ d \in Digests /\ generation[j] \in Generations
        /\ registry'[row] # None
    <3>1. registry'[row] # None
      BY <2>1, <2>2, <2>3 DEF AnswersByRow, AnsweredByRow
    <3>. QED
      BY <3>1, AttachFacts
  <2>5. d \in Attached(j)'
    BY <2>4 DEF BooksInv, BooksAgree
  <2>6. HasHappened(j, [op |-> "attach", digest |-> d])'
    BY <2>5 DEF HasHappened
  <2>. QED
    BY <2>1, <2>2, <2>3, <2>6, SuccessBinds
<1>3. ASSUME NEW r \in ExecuteRequests, ExecuteRejected(j, k, r)
      PROVE  BindsTruly(j, k)
  <2>1. PICK code, st :
          /\ code # "ok"
          /\ _idem_store(j, k, ExecutePayload(r), Response("execute", code, st))
          /\ Answer("execute", j, None, code)
    BY <1>3 DEF ExecuteRejected, StoredFailure
  <2>. QED
    BY <2>1, FailureBinds
<1>4. ASSUME NEW r \in ExecuteRequests, ExecuteRuns(j, k, r)
      PROVE  BindsTruly(j, k)
  <2>1. /\ state'[j] = "running" /\ identity'[j] # None
        /\ _idem_store(j, k, ExecutePayload(r), Response("execute", "ok", "running"))
        /\ Answer("execute", j, None, "ok")
    BY <1>4 DEF ExecuteRuns, TypeOK
  <2>2. idempotency'[j][k].response.op = "execute"
    <3>1. idempotency'[j][k] =
            [payload  |-> ExecutePayload(r),
             response |-> Response("execute", "ok", "running")]
      BY <2>1, StoredSlot
    <3>. QED
      BY <3>1 DEF Response
  <2>3. HasHappened(j, [op |-> "execute", digest |-> None])'
    BY <2>1 DEF HasHappened
  <2>. QED
    BY <2>1, <2>2, <2>3, SuccessBinds
<1>5. ASSUME NEW r \in ControlRequests,
             \/ Control("cancel", j, k, r, "cancel_requested")
             \/ Control("quarantine", j, k, r, "quarantined")
      PROVE  BindsTruly(j, k)
  <2>1. PICK op, st :
          /\ op \in {"cancel", "quarantine"}
          /\ Control(op, j, k, r, st)
          /\ op = "cancel" => st = "cancel_requested"
          /\ op = "quarantine" => st = "quarantined"
    BY <1>5
  <2>2. /\ state'[j] = st
        /\ _idem_store(j, k, ControlPayload(op, r), Response(op, "ok", st))
        /\ Answer(op, j, None, "ok")
    BY <2>1 DEF Control, TypeOK
  <2>3. idempotency'[j][k].response.op = op
    <3>1. idempotency'[j][k] = [payload  |-> ControlPayload(op, r),
                                response |-> Response(op, "ok", st)]
      BY <2>2, StoredSlot
    <3>. QED
      BY <3>1 DEF Response
  <2>4. HasHappened(j, [op |-> op, digest |-> None])'
    BY <2>1, <2>2 DEF HasHappened
  <2>. QED
    BY <2>1, <2>2, <2>3, <2>4, SuccessBinds
<1>. QED
  BY <1>1, <1>2, <1>3, <1>4, <1>5 DEF BindsKey

(* Every step tells the truth: nothing, a job made or made before, what a   *)
(* slot says or what is stored in it now.                                   *)
LEMMA TellsTruly ==
    ASSUME TypeOK, BooksInv', AnswerInv, PrepareInv, TruthInv, [Next]_vars
    PROVE  \/ UNCHANGED told
           \/ \E j \in Jobs : \E claim : TellsOf(j, claim) /\ Holds(j, claim)'
<1>. DEFINE Goal == \/ UNCHANGED told
                    \/ \E j \in Jobs : \E claim :
                          TellsOf(j, claim) /\ Holds(j, claim)'
<1>1. ASSUME NEW j \in Jobs, NEW k \in Keys, BindsKey(j, k)
      PROVE  Goal
  <2>1. BindsTruly(j, k)
    BY <1>1, BoundTruly
  <2>2. PICK claim : claim = ClaimAt(j, k)'
    OBVIOUS
  <2>3. Holds(j, ClaimAt(j, k))' => Holds(j, claim)'
    BY <2>2 DEF Holds, HasHappened
  <2>. QED
    BY <2>1, <2>2, <2>3 DEF BindsTruly
<1>2. ASSUME NEW j \in Jobs, NEW k \in Keys, NEW op, NEW payload, NEW digest,
             FromSlot(op, j, k, payload, digest), payload.op = op,
             op \in {"attach", "execute", "cancel", "quarantine"},
             digest = IF op = "attach"
                        THEN payload.request.manifest.payload_digest ELSE None
      PROVE  Goal
  <2>1. UNCHANGED told \/ (Succeeded(j, k) /\ TellsOf(j, ClaimAt(j, k)))
    BY <1>2, SlotTells
  <2>2. PICK claim : claim = ClaimAt(j, k)
    OBVIOUS
  <2>3. Succeeded(j, k) => Holds(j, claim)
    BY <2>2 DEF TruthInv
  <2>4. UNCHANGED <<state, identity, attachments>>
    BY <1>2 DEF FromSlot, jobVars, attachVars
  <2>5. Holds(j, claim) => Holds(j, claim)'
    BY <2>4 DEF Holds, HasHappened, Attached
  <2>. QED
    BY <2>1, <2>2, <2>3, <2>5
<1>3. CASE Prepare
  <2>1. ASSUME NEW j \in Jobs, NEW k \in PrepareKeys, NEW r \in PrepareRequests,
               PrepareNew(j, k, r)
        PROVE  Goal
    <3>1. PICK claim : claim = [op |-> "prepare", digest |-> None]
      OBVIOUS
    <3>2. TellsOf(j, claim) /\ state'[j] = "accepted"
      BY <2>1, <3>1 DEF PrepareNew, Answer, TellsOf, TypeOK
    <3>3. Holds(j, claim)'
      BY <3>1, <3>2 DEF Holds, HasHappened
    <3>. QED
      BY <3>2, <3>3
  <2>2. ASSUME NEW k \in PrepareKeys, NEW r \in PrepareRequests, PrepareAgain(k, r)
        PROVE  Goal
    <3>. DEFINE j == prepared[r.project][k].job_id
    <3>1. /\ prepared[r.project][k] # None /\ state' = state
          /\ r.project \in Projects
      BY <2>2 DEF PrepareAgain, jobVars, Projects
    <3>2. j \in Jobs /\ state[j] # "absent"
      BY <3>1 DEF TypeOK, PreparedSlots, PrepareInv, PreparedJobsExist
    <3>3. PICK i \in Jobs : i = j
      BY <3>2
    <3>4. PICK claim : claim = [op |-> "prepare", digest |-> None]
      OBVIOUS
    <3>5. UNCHANGED told \/ TellsOf(i, claim)
      BY <2>2, <3>3, <3>4 DEF PrepareAgain, Answer, TellsOf
    <3>6. Holds(i, claim)'
      BY <3>1, <3>2, <3>3, <3>4 DEF Holds, HasHappened
    <3>. QED
      BY <3>5, <3>6
  <2>. QED
    BY <1>3, <2>1, <2>2 DEF Prepare
<1>4. ASSUME NEW j \in Jobs, NEW k \in Keys, Call(j, k)
      PROVE  Goal
  <2>1. ASSUME NEW r \in AttachRequests, Attach(j, k, r)
        PROVE  Goal
    <3>1. CASE FromSlot("attach", j, k, AttachPayload(r), r.manifest.payload_digest)
      <4>1. AttachPayload(r).op = "attach" /\ AttachPayload(r).request = r
        BY DEF AttachPayload
      <4>. QED
        BY <1>2, <3>1, <4>1
    <3>2. CASE JobNotFound("attach", j, r.manifest.payload_digest)
      BY <3>2 DEF JobNotFound, Answer
    <3>3. CASE BindsKey(j, k)
      BY <1>1, <3>3
    <3>. QED
      BY <2>1, <3>1, <3>2, <3>3, AttachQuarantines DEF Attach, BindsKey
  <2>2. ASSUME NEW r \in ExecuteRequests, Execute(j, k, r)
        PROVE  Goal
    <3>1. CASE FromSlot("execute", j, k, ExecutePayload(r), None)
      <4>1. ExecutePayload(r).op = "execute"
        BY DEF ExecutePayload
      <4>. QED
        BY <1>2, <3>1, <4>1
    <3>2. CASE JobNotFound("execute", j, None)
      BY <3>2 DEF JobNotFound, Answer
    <3>3. CASE BindsKey(j, k)
      BY <1>1, <3>3
    <3>. QED
      BY <2>2, <3>1, <3>2, <3>3 DEF Execute, BindsKey
  <2>3. ASSUME NEW r \in ControlRequests, Cancel(j, k, r) \/ QuarantineJob(j, k, r)
        PROVE  Goal
    <3>1. ASSUME NEW op \in {"cancel", "quarantine"},
                 FromSlot(op, j, k, ControlPayload(op, r), None)
          PROVE  Goal
      <4>1. ControlPayload(op, r).op = op
        BY DEF ControlPayload
      <4>. QED
        BY <1>2, <3>1, <4>1
    <3>2. ASSUME NEW op \in {"cancel", "quarantine"},
                 JobNotFound(op, j, None) \/ ControlFails(op, j, k, r)
          PROVE  Goal
      BY <3>2 DEF JobNotFound, ControlFails, Answer
    <3>3. CASE BindsKey(j, k)
      BY <1>1, <3>3
    <3>. QED
      BY <2>3, <3>1, <3>2, <3>3 DEF Cancel, QuarantineJob, BindsKey
  <2>. QED
    BY <1>4, <2>1, <2>2, <2>3 DEF Call
<1>5. CASE Deployment \/ UNCHANGED vars
  BY <1>5
  DEF Deployment, Foundry, MarkReady, SettleRunning, Tick, Revoke, vars
<1>. QED
  BY <1>3, <1>4, <1>5 DEF Next

LEMMA NextKeepsTruth ==
    ASSUME TypeOK, BooksInv', AnswerInv, PrepareInv, TruthInv, [Next]_vars
    PROVE  TruthInv'
<1>1. ASSUME NEW j \in Jobs, NEW claim \in told'[j]
      PROVE  Holds(j, claim)'
  <2>1. CASE claim \in told[j]
    <3>1. Holds(j, claim)
      BY <2>1 DEF TruthInv
    <3>2. claim.op \in {"prepare", "attach", "execute", "cancel", "quarantine"}
      BY <2>1 DEF TypeOK, Claims
    <3>. QED
      BY <3>1, <3>2, TrueStays
  <2>2. CASE claim \notin told[j]
    <3>1. PICK i, c : i \in Jobs /\ TellsOf(i, c) /\ Holds(i, c)'
      BY <1>1, <2>2, TellsTruly
    <3>2. i = j /\ c = claim
      BY <1>1, <2>2, <3>1 DEF TellsOf, TypeOK
    <3>. QED
      BY <3>1, <3>2
  <2>. QED
    BY <2>1, <2>2
<1>2. ASSUME NEW j \in Jobs, NEW k \in Keys, Succeeded(j, k)'
      PROVE  Holds(j, ClaimAt(j, k))'
  <2>1. CASE idempotency'[j][k] = idempotency[j][k]
    <3>1. Succeeded(j, k) /\ ClaimAt(j, k)' = ClaimAt(j, k)
      BY <1>2, <2>1 DEF Succeeded, ClaimAt
    <3>2. PICK claim : claim = ClaimAt(j, k)
      OBVIOUS
    <3>3. idempotency[j][k] \in Slots
      BY <3>1 DEF TypeOK, Succeeded
    <3>4. claim.op \in {"prepare", "attach", "execute", "cancel", "quarantine"}
      BY <3>2, <3>3 DEF ClaimAt, Slots, Responses
    <3>5. Holds(j, claim)'
      BY <3>1, <3>2, <3>4, TrueStays DEF TruthInv
    <3>. QED
      BY <3>1, <3>2, <3>5 DEF Holds, HasHappened
  <2>2. CASE idempotency'[j][k] # idempotency[j][k]
    BY <1>2, <2>2, BindsOneKey, BoundTruly DEF BindsTruly
  <2>. QED
    BY <2>1, <2>2
<1>. QED
  BY <1>1, <1>2 DEF TruthInv

LEMMA InitTruth == Init => TruthInv
BY DEF Init, TruthInv, Succeeded

(* The four invariants of this module that hold one another up. *)
THEOREM ClientInvariant == Spec => [](BooksInv /\ AnswerInv /\ PrepareInv /\ TruthInv)
<1>1. TypeOK /\ (BooksInv /\ AnswerInv /\ PrepareInv /\ TruthInv) /\ [Next]_vars
        => (BooksInv /\ AnswerInv /\ PrepareInv /\ TruthInv)'
  BY NextKeepsBooks, NextKeepsAnswers, NextKeepsPrepare, NextKeepsTruth
<1>2. Init => BooksInv /\ AnswerInv /\ PrepareInv /\ TruthInv
  BY InitBooks, InitAnswers, InitPrepare, InitTruth
<1>. QED
  BY <1>1, <1>2, TypeCorrect, PTL DEF Spec

(* No caller is ever told of a success that did not happen: not by a        *)
(* replay, not by a replayed receipt, not under a key that was used for     *)
(* another operation.                                                       *)
THEOREM SuccessesAreTrue == Spec => []SuccessIsTrue
<1>1. TruthInv => SuccessIsTrue
  BY DEF TruthInv, SuccessIsTrue, Holds
<1>. QED
  BY ClientInvariant, <1>1, PTL
=============================================================================
