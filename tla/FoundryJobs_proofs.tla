-------------------------- MODULE FoundryJobs_proofs --------------------------
(***************************************************************************)
(* Theorems about FoundryJobs, for every set of jobs, keys and requests,   *)
(* either verifier, and every bound of the clock.                          *)
(***************************************************************************)
EXTENDS FoundryJobs, SequenceTheorems, TLAPS

-----------------------------------------------------------------------------
(* Lemmas about the operators *)

(* The checks of an attach end in success or in one of three errors. *)
LEMMA VerdictCodes ==
    ASSUME NEW j, NEW r
    PROVE  Verdict(j, r) \in {"ok", "artifact_invalid",
                              "artifact_verification", "receipt_untrusted"}
BY DEF Verdict, AttachVerdict

(* An event of a job is a record of the log's type. *)
LEMMA EventTyped ==
    ASSUME NEW seq \in Nat \ {0},
           NEW j \in Jobs, NEW from \in JOB_STATES, NEW to \in JOB_STATES,
           NEW reason \in Reasons, NEW token \in Keys \cup {None},
           NEW digests \in Seq(Digests)
    PROVE  Event(seq, j, from, to, reason, token, digests) \in EventType
BY DEF Event, EventType

(* _record keeps the log well typed. *)
LEMMA RecordTyped ==
    ASSUME events \in Seq(EventType),
           NEW j \in Jobs, NEW from \in JOB_STATES, NEW to \in JOB_STATES,
           NEW reason \in Reasons, NEW digests \in Seq(Digests),
           _record(j, from, to, reason, digests)
    PROVE  events' \in Seq(EventType)
<1>1. Len(events) + 1 \in Nat \ {0}
  BY LenProperties
<1>2. Event(Len(events) + 1, j, from, to, reason, None, digests) \in EventType
  BY <1>1, EventTyped
<1>. QED
  BY <1>2, AppendProperties DEF _record

(* The elements of an extended list. *)
LEMMA AppendElements ==
    ASSUME NEW S, NEW s \in Seq(S), NEW e \in S
    PROVE  {Append(s, e)[i] : i \in DOMAIN Append(s, e)}
             = {s[i] : i \in DOMAIN s} \cup {e}
<1>1. /\ Len(s) \in Nat /\ DOMAIN s = 1 .. Len(s)
      /\ DOMAIN Append(s, e) = 1 .. Len(s) + 1
      /\ \A i \in 1 .. Len(s) : Append(s, e)[i] = s[i]
      /\ Append(s, e)[Len(s) + 1] = e
  BY LenProperties, AppendProperties
<1>2. \A i \in 1 .. Len(s) + 1 : i \in 1 .. Len(s) \/ i = Len(s) + 1
  BY <1>1
<1>3. /\ Len(s) + 1 \in 1 .. Len(s) + 1
      /\ \A i \in 1 .. Len(s) : i \in 1 .. Len(s) + 1
  BY <1>1
<1>. QED
  BY <1>1, <1>2, <1>3

(* Binding a key keeps the slots well typed. *)
LEMMA StoreTyped ==
    ASSUME idempotency \in [Jobs -> [Keys -> Slots \cup {None}]],
           NEW j \in Jobs, NEW k \in Keys, NEW payload \in Payloads,
           NEW response \in Responses,
           _idem_store(j, k, payload, response)
    PROVE  idempotency' \in [Jobs -> [Keys -> Slots \cup {None}]]
BY DEF _idem_store, Slots

(* An answer on a known artifact keeps the told claims well typed. *)
LEMMA AnswerTyped ==
    ASSUME told \in [Jobs -> SUBSET Claims],
           NEW j \in Jobs, NEW digest \in Digests \cup {None}, NEW code,
           NEW op \in {"prepare", "attach", "execute", "cancel", "quarantine"},
           Answer(op, j, digest, code)
    PROVE  told' \in [Jobs -> SUBSET Claims]
BY DEF Answer, Claims

-----------------------------------------------------------------------------
(* Type correctness *)

(* The initial state is well typed. *)
LEMMA InitTyped == Init => TypeOK
<1>. SUFFICES ASSUME Init PROVE TypeOK
  OBVIOUS
<1>1. <<>> \in Seq(Digests) /\ <<>> \in Seq(EvidenceType)
        /\ <<>> \in Seq(EventType)
  BY EmptySeq
<1>2. generation \in [Jobs -> Generations]
  BY GenerationsAssumption DEF Init
<1>3. registry \in [Jobs \X Generations \X Digests -> Rows \cup {None}]
  BY DEF Init
<1>4. idempotency \in [Jobs -> [Keys -> Slots \cup {None}]]
  BY DEF Init
<1>5. prepared \in [Projects -> [PrepareKeys -> PreparedSlots \cup {None}]]
  BY DEF Init
<1>6. now \in 0 .. MaxNow
  BY MaxNowAssumption DEF Init
<1>7. state \in [Jobs -> JOB_STATES \cup {"absent"}]
        /\ told \in [Jobs -> SUBSET Claims]
  BY DEF Init
<1>8. /\ source \in [Jobs -> {r.source_digest : r \in PrepareRequests}
                               \cup {None}]
      /\ policy \in [Jobs -> {r.artifact_policy : r \in PrepareRequests}
                               \cup {None}]
      /\ identity \in [Jobs -> {r.native_identity : r \in ExecuteRequests}
                                 \cup {None}]
      /\ quarantine_reason \in
           [Jobs -> Codes \cup {r.reason : r \in ControlRequests} \cup {None}]
  BY DEF Init
<1>9. /\ frozen \in [Jobs -> Seq(Digests)]
      /\ attachments \in [Jobs -> Seq(Digests)]
      /\ evidence \in [Jobs -> Seq(EvidenceType)]
      /\ events \in Seq(EventType)
  BY <1>1 DEF Init
<1>10. \A j \in Jobs : state[j] = "absent" =>
          /\ source[j] = None /\ policy[j] = None
          /\ evidence[j] = <<>> /\ attachments[j] = <<>>
  BY DEF Init
<1>. QED
  BY <1>2, <1>3, <1>4, <1>5, <1>6, <1>7, <1>8, <1>9, <1>10 DEF TypeOK

(* A step that leaves every typed variable alone. *)
LEMMA StutterTyped ==
    ASSUME TypeOK, UNCHANGED <<jobVars, attachVars, idemVars, events, now>>,
           told' \in [Jobs -> SUBSET Claims]
    PROVE  TypeOK'
BY DEF TypeOK, jobVars, attachVars, idemVars

(* prepare_job under a free key. *)
LEMMA PrepareNewTyped ==
    ASSUME TypeOK, NEW j \in Jobs, NEW k \in PrepareKeys,
           NEW r \in PrepareRequests, PrepareNew(j, k, r)
    PROVE  TypeOK'
<1>1. told' \in [Jobs -> SUBSET Claims]
  BY AnswerTyped DEF TypeOK, PrepareNew
<1>2. events' \in Seq(EventType)
  <2>1. attachments[j] \in Seq(Digests)
    BY DEF TypeOK
  <2>2. "accepted" \in JOB_STATES /\ "job accepted" \in Reasons
    BY DEF JOB_STATES, Reasons
  <2>3. _record(j, "accepted", "accepted", "job accepted", attachments[j])
    BY DEF PrepareNew
  <2>4. events \in Seq(EventType)
    BY DEF TypeOK
  <2>. QED
    BY <2>1, <2>2, <2>3, <2>4, RecordTyped
<1>3. state' \in [Jobs -> JOB_STATES \cup {"absent"}]
  BY DEF TypeOK, PrepareNew, JOB_STATES
<1>4. ASSUME NEW i \in Jobs, state'[i] = "absent"
      PROVE  /\ source'[i] = None /\ policy'[i] = None
             /\ evidence'[i] = <<>> /\ attachments'[i] = <<>>
  <2>1. i # j /\ state[i] = "absent"
    BY <1>4 DEF TypeOK, PrepareNew
  <2>2. source'[i] = source[i] /\ policy'[i] = policy[i]
    BY <2>1 DEF PrepareNew, TypeOK
  <2>. QED
    BY <2>1, <2>2 DEF TypeOK, PrepareNew, attachVars
<1>5. /\ source' \in [Jobs -> {q.source_digest : q \in PrepareRequests}
                                \cup {None}]
      /\ policy' \in [Jobs -> {q.artifact_policy : q \in PrepareRequests}
                                \cup {None}]
  BY DEF TypeOK, PrepareNew
<1>6. prepared' \in [Projects -> [PrepareKeys -> PreparedSlots \cup {None}]]
  BY DEF TypeOK, PrepareNew, Projects, PreparedSlots
<1>. QED
  BY <1>1, <1>2, <1>3, <1>4, <1>5, <1>6 DEF TypeOK, PrepareNew, attachVars

(* Answering from a slot, from a missing job or from a repeated prepare. *)
LEMMA PrepareAgainTyped ==
    ASSUME TypeOK, NEW k \in PrepareKeys, NEW r \in PrepareRequests,
           PrepareAgain(k, r)
    PROVE  TypeOK'
<1>1. prepared[r.project][k] \in PreparedSlots \cup {None}
  <2>1. r.project \in Projects
    BY DEF Projects
  <2>. QED
    BY <2>1 DEF TypeOK
<1>2. told' \in [Jobs -> SUBSET Claims]
  <2>1. told \in [Jobs -> SUBSET Claims]
    BY DEF TypeOK
  <2>2. CASE UNCHANGED told
    BY <2>1, <2>2
  <2>3. CASE Answer("prepare", prepared[r.project][k].job_id, None, "ok")
    <3>1. prepared[r.project][k].job_id \in Jobs
      BY <1>1 DEF PrepareAgain, PreparedSlots
    <3>. QED
      BY <2>1, <2>3, <3>1, AnswerTyped
  <2>. QED
    BY <2>2, <2>3 DEF PrepareAgain
<1>. QED
  BY <1>2, StutterTyped DEF PrepareAgain

(* Answering from a bound key. *)
LEMMA FromSlotTyped ==
    ASSUME TypeOK, NEW j \in Jobs, NEW k \in Keys, NEW payload,
           NEW op \in {"attach", "execute", "cancel", "quarantine"},
           NEW digest \in Digests \cup {None},
           \/ FromSlot(op, j, k, payload, digest)
           \/ JobNotFound(op, j, digest)
    PROVE  TypeOK'
<1>1. PICK code : Answer(op, j, digest, code)
  BY DEF FromSlot, JobNotFound
<1>2. told' \in [Jobs -> SUBSET Claims]
  <2>1. told \in [Jobs -> SUBSET Claims]
    BY DEF TypeOK
  <2>. QED
    BY <1>1, <2>1, AnswerTyped
<1>. QED
  BY <1>2, StutterTyped DEF FromSlot, JobNotFound

(* A durable failure that mutates nothing. *)
LEMMA StoredFailureTyped ==
    ASSUME TypeOK, NEW j \in Jobs, NEW k \in Keys, NEW payload \in Payloads,
           NEW op \in {"attach", "execute"}, NEW code \in Codes,
           NEW digest \in Digests \cup {None}, state[j] # "absent",
           StoredFailure(op, j, k, payload, digest, code)
    PROVE  TypeOK'
<1>1. Response(op, code, state[j]) \in Responses
  BY DEF TypeOK, Response, Responses
<1>2. idempotency' \in [Jobs -> [Keys -> Slots \cup {None}]]
  BY <1>1, StoreTyped DEF TypeOK, StoredFailure
<1>3. told' \in [Jobs -> SUBSET Claims]
  <2>1. told \in [Jobs -> SUBSET Claims]
    BY DEF TypeOK
  <2>2. Answer(op, j, digest, code)
    BY DEF StoredFailure
  <2>. QED
    BY <2>1, <2>2, AnswerTyped
<1>. QED
  BY <1>2, <1>3 DEF TypeOK, StoredFailure, _idem_store, jobVars, attachVars

-----------------------------------------------------------------------------
(* attach_artifact *)

(* What the checks of an attach leave: its job exists and its payload and   *)
(* artifact are among the known ones.                                       *)
LEMMA AttachFacts ==
    ASSUME TypeOK, NEW j \in Jobs, NEW r \in AttachRequests
    PROVE  /\ AttachPayload(r) \in Payloads
           /\ r.manifest.payload_digest \in Digests
           /\ attachments[j] \in Seq(Digests)
           /\ generation[j] \in Generations
           /\ RowKey(j, r) \in Jobs \X Generations \X Digests
<1>1. AttachPayload(r) \in Payloads
  BY DEF Payloads
<1>2. r.manifest.payload_digest \in Digests
  BY DigestsAssumption
<1>3. attachments[j] \in Seq(Digests) /\ generation[j] \in Generations
  BY DEF TypeOK
<1>. QED
  BY <1>1, <1>2, <1>3 DEF RowKey

(* The rejections of an attach that do not touch the job. *)
LEMMA AttachRejectedTyped ==
    ASSUME TypeOK, NEW j \in Jobs, NEW k \in Keys, NEW r \in AttachRequests,
           AttachRejected(j, k, r)
    PROVE  TypeOK'
<1>1. PICK code \in Codes :
        StoredFailure("attach", j, k, AttachPayload(r),
                      r.manifest.payload_digest, code)
  BY DEF AttachRejected, Codes
<1>2. state[j] # "absent"
  BY DEF AttachRejected, Begin
<1>. QED
  BY <1>1, <1>2, AttachFacts, StoredFailureTyped

(* A failed attach that quarantines its job. *)
LEMMA QuarantineForFailureTyped ==
    ASSUME TypeOK, NEW j \in Jobs, NEW k \in Keys, NEW r \in AttachRequests,
           NEW code \in Codes, state[j] # "absent",
           QuarantineForFailure(j, k, r, code)
    PROVE  TypeOK'
<1>1. state[j] \in JOB_STATES /\ "quarantined" \in JOB_STATES
        /\ "artifact verification failed" \in Reasons
  BY DEF TypeOK, JOB_STATES, Reasons
<1>2. events' \in Seq(EventType)
  <2>1. events \in Seq(EventType)
    BY DEF TypeOK
  <2>2. _record(j, state[j], "quarantined", "artifact verification failed",
                attachments[j])
    BY DEF QuarantineForFailure
  <2>. QED
    BY <1>1, <2>1, <2>2, AttachFacts, RecordTyped
<1>3. idempotency' \in [Jobs -> [Keys -> Slots \cup {None}]]
  <2>1. Response("attach", code, "quarantined") \in Responses
    BY <1>1 DEF Response, Responses
  <2>2. _idem_store(j, k, AttachPayload(r),
                    Response("attach", code, "quarantined"))
    BY DEF QuarantineForFailure
  <2>. QED
    BY <2>1, <2>2, AttachFacts, StoreTyped DEF TypeOK
<1>4. told' \in [Jobs -> SUBSET Claims]
  <2>1. told \in [Jobs -> SUBSET Claims]
    BY DEF TypeOK
  <2>2. Answer("attach", j, r.manifest.payload_digest, code)
    BY DEF QuarantineForFailure
  <2>. QED
    BY <2>1, <2>2, AttachFacts, AnswerTyped
<1>5. /\ state' = [state EXCEPT ![j] = "quarantined"]
      /\ quarantine_reason' = [quarantine_reason EXCEPT ![j] = code]
      /\ UNCHANGED <<generation, source, policy, frozen, identity,
                     attachments, evidence, registry, prepared, now>>
  BY DEF QuarantineForFailure, _idem_store, attachVars
<1>6. /\ state' \in [Jobs -> JOB_STATES \cup {"absent"}]
      /\ quarantine_reason' \in
           [Jobs -> Codes \cup {q.reason : q \in ControlRequests} \cup {None}]
      /\ \A i \in Jobs : state'[i] = "absent" => state[i] = "absent"
  BY <1>1, <1>5 DEF TypeOK
<1>. QED
  BY <1>2, <1>3, <1>4, <1>5, <1>6 DEF TypeOK

(* A receipt that is already on record. *)
LEMMA AttachReplaysReceiptTyped ==
    ASSUME TypeOK, NEW j \in Jobs, NEW k \in Keys, NEW r \in AttachRequests,
           AttachReplaysReceipt(j, k, r)
    PROVE  TypeOK'
<1>1. OriginalResponse(j, r) \in Responses
  <2>1. RowKey(j, r) \in Jobs \X Generations \X Digests
    BY AttachFacts
  <2>2. registry[RowKey(j, r)] \in Rows
    BY <2>1 DEF TypeOK, AttachReplaysReceipt
  <2>. QED
    BY <2>2 DEF Rows, OriginalResponse
<1>2. idempotency' \in [Jobs -> [Keys -> Slots \cup {None}]]
  <2>1. _idem_store(j, k, AttachPayload(r), OriginalResponse(j, r))
    BY DEF AttachReplaysReceipt
  <2>. QED
    BY <1>1, <2>1, AttachFacts, StoreTyped DEF TypeOK
<1>3. told' \in [Jobs -> SUBSET Claims]
  <2>1. told \in [Jobs -> SUBSET Claims]
    BY DEF TypeOK
  <2>2. Answer("attach", j, r.manifest.payload_digest, "ok")
    BY DEF AttachReplaysReceipt
  <2>. QED
    BY <2>1, <2>2, AttachFacts, AnswerTyped
<1>4. UNCHANGED <<jobVars, attachVars, prepared, events, now>>
  BY DEF AttachReplaysReceipt, _idem_store
<1>. QED
  BY <1>2, <1>3, <1>4 DEF TypeOK, jobVars, attachVars

(* A first receipt: registry row, evidence, artifact and event. *)
LEMMA AttachRecordsTyped ==
    ASSUME TypeOK, NEW j \in Jobs, NEW k \in Keys, NEW r \in AttachRequests,
           AttachRecords(j, k, r)
    PROVE  TypeOK'
<1>. DEFINE digest == r.manifest.payload_digest
            response == Response("attach", "ok", state[j])
            listed == {attachments[j][i] : i \in DOMAIN attachments[j]}
<1>1. PICK t \in now .. MaxNow :
        /\ now' = t
        /\ registry' = [registry EXCEPT ![RowKey(j, r)] =
              [evidence |-> Evidence(j, r, t), response |-> response]]
        /\ evidence' = [evidence EXCEPT
                          ![j] = Append(@, Evidence(j, r, t))]
        /\ attachments' =
              IF digest \in listed THEN attachments
              ELSE [attachments EXCEPT ![j] = Append(@, digest)]
        /\ _record(j, state[j], state[j], "artifact attached", attachments'[j])
        /\ _idem_store(j, k, AttachPayload(r), response)
        /\ Answer("attach", j, digest, "ok")
  BY DEF AttachRecords
<1>2. state[j] # "absent" /\ state[j] \in JOB_STATES
  BY DEF TypeOK, AttachRecords, AttachChecked, Begin
<1>3. t \in 0 .. MaxNow
  BY MaxNowAssumption DEF TypeOK
<1>4. response \in Responses
  BY <1>2 DEF Response, Responses, Codes
<1>5. Evidence(j, r, t) \in EvidenceType
  BY <1>3, AttachFacts DEF Evidence, EvidenceType
<1>6. registry' \in [Jobs \X Generations \X Digests -> Rows \cup {None}]
  <2>1. [evidence |-> Evidence(j, r, t), response |-> response] \in Rows
    BY <1>4, <1>5 DEF Rows
  <2>2. registry \in [Jobs \X Generations \X Digests -> Rows \cup {None}]
    BY DEF TypeOK
  <2>. HIDE DEF response
  <2>. QED
    BY <1>1, <2>1, <2>2, AttachFacts
<1>7. evidence' \in [Jobs -> Seq(EvidenceType)]
  <2>1. evidence \in [Jobs -> Seq(EvidenceType)]
    BY DEF TypeOK
  <2>2. Append(evidence[j], Evidence(j, r, t)) \in Seq(EvidenceType)
    BY <1>5, <2>1, AppendProperties
  <2>. QED
    BY <1>1, <2>1, <2>2
<1>8. attachments' \in [Jobs -> Seq(Digests)]
  <2>1. attachments \in [Jobs -> Seq(Digests)]
    BY DEF TypeOK
  <2>2. Append(attachments[j], digest) \in Seq(Digests)
    BY AttachFacts, AppendProperties
  <2>. QED
    BY <1>1, <2>1, <2>2
<1>9. events' \in Seq(EventType)
  <2>1. attachments'[j] \in Seq(Digests) /\ "artifact attached" \in Reasons
    BY <1>8 DEF Reasons
  <2>2. events \in Seq(EventType)
    BY DEF TypeOK
  <2>. QED
    BY <1>1, <1>2, <2>1, <2>2, RecordTyped
<1>10. idempotency' \in [Jobs -> [Keys -> Slots \cup {None}]]
  <2>. HIDE DEF response
  <2>. QED
    BY <1>1, <1>4, AttachFacts, StoreTyped DEF TypeOK
<1>11. told' \in [Jobs -> SUBSET Claims]
  <2>1. told \in [Jobs -> SUBSET Claims]
    BY DEF TypeOK
  <2>. QED
    BY <1>1, <2>1, AttachFacts, AnswerTyped
<1>12. UNCHANGED <<jobVars, prepared>> /\ now' \in 0 .. MaxNow
  BY <1>1, <1>3 DEF AttachRecords, _idem_store
<1>13. \A i \in Jobs : state[i] = "absent" =>
          evidence'[i] = evidence[i] /\ attachments'[i] = attachments[i]
  BY <1>1, <1>2 DEF TypeOK
<1>. QED
  BY <1>6, <1>7, <1>8, <1>9, <1>10, <1>11, <1>12, <1>13 DEF TypeOK, jobVars

(* attach_artifact, every way out. *)
LEMMA AttachTyped ==
    ASSUME TypeOK, NEW j \in Jobs, NEW k \in Keys, NEW r \in AttachRequests,
           Attach(j, k, r)
    PROVE  TypeOK'
<1>1. CASE AttachRejected(j, k, r)
  BY <1>1, AttachRejectedTyped
<1>2. CASE AttachFailsChecks(j, k, r)
  <2>1. Verdict(j, r) \in Codes
    BY VerdictCodes DEF Codes
  <2>. QED
    BY <1>2, <2>1, QuarantineForFailureTyped
    DEF AttachFailsChecks, AttachChecked, Begin
<1>3. CASE AttachConflicts(j, k, r)
  <2>1. "receipt_conflict" \in Codes
    BY DEF Codes
  <2>. QED
    BY <1>3, <2>1, QuarantineForFailureTyped
    DEF AttachConflicts, AttachChecked, Begin
<1>4. CASE AttachReplaysReceipt(j, k, r)
  BY <1>4, AttachReplaysReceiptTyped
<1>5. CASE AttachRecords(j, k, r)
  BY <1>5, AttachRecordsTyped
<1>6. CASE \/ FromSlot("attach", j, k, AttachPayload(r),
                       r.manifest.payload_digest)
           \/ JobNotFound("attach", j, r.manifest.payload_digest)
  <2>1. r.manifest.payload_digest \in Digests \cup {None}
    BY AttachFacts
  <2>. QED
    BY <1>6, <2>1, FromSlotTyped
<1>. QED
  BY <1>1, <1>2, <1>3, <1>4, <1>5, <1>6 DEF Attach

-----------------------------------------------------------------------------
(* The other calls and the deployment *)

(* Two events appended at once. *)
LEMMA TwoEventsTyped ==
    ASSUME events \in Seq(EventType), NEW e \in EventType, NEW f \in EventType
    PROVE  /\ events \o <<e>> \in Seq(EventType)
           /\ events \o <<e, f>> \in Seq(EventType)
<1>1. <<e>> \in Seq(EventType) /\ <<e, f>> \in Seq(EventType)
  OBVIOUS
<1>. QED
  BY <1>1, ConcatProperties

(* execute_job, every way out. *)
LEMMA ExecuteTyped ==
    ASSUME TypeOK, NEW j \in Jobs, NEW k \in Keys, NEW r \in ExecuteRequests,
           Execute(j, k, r)
    PROVE  TypeOK'
<1>0. ExecutePayload(r) \in Payloads
  BY DEF Payloads
<1>1. CASE ExecuteRejected(j, k, r)
  <2>1. PICK code \in Codes :
          StoredFailure("execute", j, k, ExecutePayload(r), None, code)
    BY <1>1 DEF ExecuteRejected, Codes
  <2>2. state[j] # "absent"
    BY <1>1 DEF ExecuteRejected, Begin
  <2>. QED
    BY <1>0, <2>1, <2>2, StoredFailureTyped
<1>2. CASE ExecuteRuns(j, k, r)
  <2>1. attachments[j] \in Seq(Digests) /\ events \in Seq(EventType)
          /\ {"ready", "running"} \subseteq JOB_STATES
          /\ {"launch reserved", "executing"} \subseteq Reasons
    BY DEF TypeOK, JOB_STATES, Reasons
  <2>2. events' \in Seq(EventType)
    <3>. DEFINE reserved == Event(Len(events) + 1, j, "ready", "ready",
                                  "launch reserved", k, attachments[j])
                running == Event(Len(events) + 2, j, "ready", "running",
                                 "executing", None, attachments[j])
    <3>1. Len(events) + 1 \in Nat \ {0} /\ Len(events) + 2 \in Nat \ {0}
      <4>1. Len(events) \in Nat
        BY <2>1, LenProperties
      <4>. QED
        BY <4>1
    <3>2. reserved \in EventType /\ running \in EventType
      BY <2>1, <3>1, EventTyped
    <3>3. events' = events \o <<reserved, running>>
      BY <1>2 DEF ExecuteRuns
    <3>. HIDE DEF reserved, running
    <3>. QED
      BY <2>1, <3>2, <3>3, TwoEventsTyped
  <2>3. idempotency' \in [Jobs -> [Keys -> Slots \cup {None}]]
    <3>1. Response("execute", "ok", "running") \in Responses
      BY DEF Response, Responses, Codes, JOB_STATES
    <3>2. _idem_store(j, k, ExecutePayload(r),
                      Response("execute", "ok", "running"))
      BY <1>2 DEF ExecuteRuns
    <3>. QED
      BY <1>0, <3>1, <3>2, StoreTyped DEF TypeOK
  <2>4. told' \in [Jobs -> SUBSET Claims]
    <3>1. told \in [Jobs -> SUBSET Claims] /\ Answer("execute", j, None, "ok")
      BY <1>2 DEF TypeOK, ExecuteRuns
    <3>. QED
      BY <3>1, AnswerTyped
  <2>5. /\ state' = [state EXCEPT ![j] = "running"]
        /\ identity' = [identity EXCEPT ![j] = r.native_identity]
        /\ frozen' = [frozen EXCEPT ![j] = attachments[j]]
        /\ UNCHANGED <<generation, source, policy, quarantine_reason,
                       attachments, evidence, registry, prepared, now>>
    BY <1>2 DEF ExecuteRuns, _idem_store, attachVars
  <2>6. /\ state' \in [Jobs -> JOB_STATES \cup {"absent"}]
        /\ identity' \in
             [Jobs -> {q.native_identity : q \in ExecuteRequests} \cup {None}]
        /\ frozen' \in [Jobs -> Seq(Digests)]
        /\ \A i \in Jobs : state'[i] = "absent" => state[i] = "absent"
    BY <2>1, <2>5 DEF TypeOK
  <2>. QED
    BY <2>2, <2>3, <2>4, <2>5, <2>6 DEF TypeOK
<1>3. CASE \/ FromSlot("execute", j, k, ExecutePayload(r), None)
           \/ JobNotFound("execute", j, None)
  BY <1>3, FromSlotTyped
<1>. QED
  BY <1>1, <1>2, <1>3 DEF Execute

(* A cancel or quarantine that is obeyed. *)
LEMMA ControlTyped ==
    ASSUME TypeOK, NEW j \in Jobs, NEW k \in Keys, NEW r \in ControlRequests,
           NEW op \in {"cancel", "quarantine"}, NEW st \in JOB_STATES,
           Control(op, j, k, r, st),
           quarantine_reason' \in
             [Jobs -> Codes \cup {q.reason : q \in ControlRequests}
                        \cup {None}]
    PROVE  TypeOK'
<1>1. attachments[j] \in Seq(Digests) /\ events \in Seq(EventType)
        /\ r.reason \in Reasons /\ state[j] \in JOB_STATES
  BY DEF TypeOK, Reasons, Control, Begin
<1>2. events' \in Seq(EventType)
  <2>1. _record(j, state[j], st, r.reason, attachments[j])
    BY DEF Control
  <2>. QED
    BY <1>1, <2>1, RecordTyped
<1>3. idempotency' \in [Jobs -> [Keys -> Slots \cup {None}]]
  <2>1. Response(op, "ok", st) \in Responses
    BY DEF Response, Responses, Codes
  <2>2. ControlPayload(op, r) \in Payloads
    BY DEF Payloads
  <2>3. _idem_store(j, k, ControlPayload(op, r), Response(op, "ok", st))
    BY DEF Control
  <2>. QED
    BY <2>1, <2>2, <2>3, StoreTyped DEF TypeOK
<1>4. told' \in [Jobs -> SUBSET Claims]
  <2>1. told \in [Jobs -> SUBSET Claims] /\ Answer(op, j, None, "ok")
    BY DEF TypeOK, Control
  <2>. QED
    BY <2>1, AnswerTyped
<1>5. /\ state' = [state EXCEPT ![j] = st]
      /\ UNCHANGED <<generation, source, policy, frozen, identity,
                     attachments, evidence, registry, prepared, now>>
  BY DEF Control, _idem_store, attachVars
<1>6. /\ state' \in [Jobs -> JOB_STATES \cup {"absent"}]
      /\ \A i \in Jobs : state'[i] = "absent" => state[i] = "absent"
  BY <1>5 DEF TypeOK, JOB_STATES
<1>. QED
  BY <1>2, <1>3, <1>4, <1>5, <1>6 DEF TypeOK

(* A cancel or quarantine that is refused. *)
LEMMA ControlFailsTyped ==
    ASSUME TypeOK, NEW j \in Jobs, NEW k \in Keys, NEW r \in ControlRequests,
           NEW op \in {"cancel", "quarantine"}, ControlFails(op, j, k, r)
    PROVE  TypeOK'
<1>1. PICK code : Answer(op, j, None, code)
  BY DEF ControlFails
<1>2. told' \in [Jobs -> SUBSET Claims]
  <2>1. told \in [Jobs -> SUBSET Claims]
    BY DEF TypeOK
  <2>. QED
    BY <1>1, <2>1, AnswerTyped
<1>. QED
  BY <1>2, StutterTyped DEF ControlFails, idemVars

(* cancel_job and quarantine_job, every way out. *)
LEMMA CancelTyped ==
    ASSUME TypeOK, NEW j \in Jobs, NEW k \in Keys, NEW r \in ControlRequests,
           Cancel(j, k, r) \/ QuarantineJob(j, k, r)
    PROVE  TypeOK'
<1>1. CASE /\ Control("cancel", j, k, r, "cancel_requested")
           /\ UNCHANGED quarantine_reason
  BY <1>1, ControlTyped DEF TypeOK, JOB_STATES
<1>2. CASE /\ Control("quarantine", j, k, r, "quarantined")
           /\ quarantine_reason' = [quarantine_reason EXCEPT ![j] = r.reason]
  <2>1. quarantine_reason' \in
          [Jobs -> Codes \cup {q.reason : q \in ControlRequests} \cup {None}]
    BY <1>2 DEF TypeOK
  <2>. QED
    BY <1>2, <2>1, ControlTyped DEF JOB_STATES
<1>3. CASE \/ ControlFails("cancel", j, k, r)
           \/ ControlFails("quarantine", j, k, r)
  BY <1>3, ControlFailsTyped
<1>4. CASE \E op \in {"cancel", "quarantine"} :
             \/ FromSlot(op, j, k, ControlPayload(op, r), None)
             \/ JobNotFound(op, j, None)
  BY <1>4, FromSlotTyped
<1>. QED
  BY <1>1, <1>2, <1>3, <1>4 DEF Cancel, QuarantineJob

(* mark_ready_for_test. *)
LEMMA MarkReadyTyped ==
    ASSUME TypeOK, NEW j \in Jobs, MarkReady(j)
    PROVE  TypeOK'
<1>. DEFINE prepare == Event(Len(events) + 1, j, "accepted", "preparing",
                             "synthetic preparation", None, attachments[j])
            ready(n) == Event(Len(events) + n, j, "preparing", "ready",
                              "synthetic readiness", None, attachments[j])
<1>1. attachments[j] \in Seq(Digests) /\ events \in Seq(EventType)
        /\ {"accepted", "preparing", "ready"} \subseteq JOB_STATES
        /\ {"synthetic preparation", "synthetic readiness"} \subseteq Reasons
  BY DEF TypeOK, JOB_STATES, Reasons
<1>2. Len(events) + 1 \in Nat \ {0} /\ Len(events) + 2 \in Nat \ {0}
  <2>1. Len(events) \in Nat
    BY <1>1, LenProperties
  <2>. QED
    BY <2>1
<1>3. prepare \in EventType /\ ready(1) \in EventType /\ ready(2) \in EventType
  BY <1>1, <1>2, EventTyped
<1>4. \/ events' = events \o <<prepare, ready(2)>>
      \/ events' = events \o <<ready(1)>>
  BY DEF MarkReady
<1>5. events' \in Seq(EventType)
  <2>. HIDE DEF prepare, ready
  <2>. QED
    BY <1>1, <1>3, <1>4, TwoEventsTyped
<1>6. /\ state' = [state EXCEPT ![j] = "ready"]
      /\ UNCHANGED <<generation, source, policy, frozen, identity,
                     quarantine_reason, attachments, evidence, registry,
                     idempotency, prepared, now, told>>
      /\ state[j] # "absent"
  BY DEF MarkReady, attachVars, idemVars, Unready
<1>. HIDE DEF prepare, ready
<1>. QED
  BY <1>1, <1>5, <1>6 DEF TypeOK

(* settle_running. *)
LEMMA SettleRunningTyped ==
    ASSUME TypeOK, NEW j \in Jobs, NEW outcome \in {"succeeded", "failed"},
           SettleRunning(j, outcome)
    PROVE  TypeOK'
<1>1. FrozenOrAttached(j) \in Seq(Digests) /\ events \in Seq(EventType)
        /\ {"running", "succeeded", "failed"} \subseteq JOB_STATES
        /\ "native unit reported" \in Reasons
  BY DEF TypeOK, FrozenOrAttached, JOB_STATES, Reasons
<1>2. events' \in Seq(EventType)
  <2>1. _record(j, "running", outcome, "native unit reported",
                FrozenOrAttached(j))
    BY DEF SettleRunning
  <2>. QED
    BY <1>1, <2>1, RecordTyped
<1>3. /\ state' = [state EXCEPT ![j] = outcome]
      /\ frozen' = [frozen EXCEPT ![j] = FrozenOrAttached(j)]
      /\ UNCHANGED <<generation, source, policy, identity, quarantine_reason,
                     attachments, evidence, registry, idempotency, prepared,
                     now, told>>
  BY DEF SettleRunning, attachVars, idemVars
<1>. QED
  BY <1>1, <1>2, <1>3 DEF TypeOK

(* TypeOK is inductive. *)
LEMMA NextTyped == TypeOK /\ [Next]_vars => TypeOK'
<1>. SUFFICES ASSUME TypeOK, [Next]_vars PROVE TypeOK'
  OBVIOUS
<1>1. CASE Prepare
  BY <1>1, PrepareNewTyped, PrepareAgainTyped DEF Prepare
<1>2. CASE \E j \in Jobs, k \in Keys : Call(j, k)
  BY <1>2, AttachTyped, ExecuteTyped, CancelTyped DEF Call
<1>3. CASE \E j \in Jobs : Foundry(j)
  BY <1>3, MarkReadyTyped, SettleRunningTyped DEF Foundry
<1>4. CASE Tick
  <2>1. now' \in 0 .. MaxNow
    BY <1>4, MaxNowAssumption DEF Tick, TypeOK
  <2>. QED
    BY <1>4, <2>1 DEF Tick, TypeOK, jobVars, attachVars, idemVars
<1>5. CASE \E ref \in DOMAIN directory : Revoke(ref)
  BY <1>5, StutterTyped DEF Revoke, TypeOK
<1>6. CASE UNCHANGED vars
  BY <1>6, StutterTyped DEF vars, TypeOK
<1>. QED
  BY <1>1, <1>2, <1>3, <1>4, <1>5, <1>6 DEF Next, Deployment

(* Every handler leaves every field of the client in its type, whatever the *)
(* order of calls, and a job id that was never accepted owns nothing.       *)
THEOREM TypeCorrect == Spec => []TypeOK
BY InitTyped, NextTyped, PTL DEF Spec

-----------------------------------------------------------------------------
(* Prefixes *)

(* A list is a prefix of itself. *)
LEMMA PrefixRefl ==
    ASSUME NEW S, NEW s \in Seq(S) PROVE IsPrefixOf(s, s)
<1>1. Len(s) \in Nat
  BY LenProperties
<1>2. SubSeq(s, 1, Len(s)) \in Seq(S) /\ Len(SubSeq(s, 1, Len(s))) = Len(s)
  BY <1>1, SubSeqProperties
<1>3. \A i \in 1 .. Len(s) : SubSeq(s, 1, Len(s))[i] = s[i]
  BY <1>1, SubSeqProperties
<1>4. SubSeq(s, 1, Len(s)) = s
  BY <1>2, <1>3, SeqEqual
<1>. QED
  BY <1>1, <1>4 DEF IsPrefixOf

(* A list is a prefix of what it is extended to. *)
LEMMA PrefixConcat ==
    ASSUME NEW S, NEW s \in Seq(S), NEW t \in Seq(S)
    PROVE  IsPrefixOf(s, s \o t)
<1>1. Len(s) \in Nat /\ Len(t) \in Nat
  BY LenProperties
<1>2. s \o t \in Seq(S) /\ Len(s \o t) = Len(s) + Len(t)
        /\ \A i \in 1 .. Len(s) : (s \o t)[i] = s[i]
  BY <1>1, ConcatProperties
<1>3. /\ SubSeq(s \o t, 1, Len(s)) \in Seq(S)
      /\ Len(SubSeq(s \o t, 1, Len(s))) = Len(s)
      /\ \A i \in 1 .. Len(s) : SubSeq(s \o t, 1, Len(s))[i] = (s \o t)[i]
  BY <1>1, <1>2, SubSeqProperties
<1>4. SubSeq(s \o t, 1, Len(s)) = s
  BY <1>2, <1>3, SeqEqual
<1>. QED
  BY <1>1, <1>2, <1>4 DEF IsPrefixOf

(* The same for one appended element. *)
LEMMA PrefixAppend ==
    ASSUME NEW S, NEW s \in Seq(S), NEW e \in S
    PROVE  IsPrefixOf(s, Append(s, e))
<1>1. <<e>> \in Seq(S) /\ Append(s, e) = s \o <<e>>
  OBVIOUS
<1>. QED
  BY <1>1, PrefixConcat

-----------------------------------------------------------------------------
(* Records are final *)

(* What is left alone is kept. *)
LEMMA UnchangedKeeps ==
    ASSUME TypeOK
    PROVE  /\ UNCHANGED events => IsPrefixOf(events, events')
           /\ UNCHANGED evidence =>
                \A j \in Jobs : IsPrefixOf(evidence[j], evidence'[j])
<1>1. /\ events \in Seq(EventType)
      /\ \A j \in Jobs : evidence[j] \in Seq(EvidenceType)
  BY DEF TypeOK
<1>. QED
  BY <1>1, PrefixRefl

(* A step that records nothing. *)
LEMMA StutterKeeps ==
    ASSUME TypeOK, UNCHANGED <<idemVars, attachVars, events>>
    PROVE  RecordsKept
BY UnchangedKeeps DEF RecordsKept, idemVars, attachVars

(* A first call binds a free key. *)
LEMMA StoreKeeps ==
    ASSUME TypeOK, NEW j \in Jobs, NEW k \in Keys, NEW payload, NEW response,
           Begin(j, k), _idem_store(j, k, payload, response)
    PROVE  /\ \A i \in Jobs, l \in Keys :
                idempotency[i][l] # None =>
                   idempotency'[i][l] = idempotency[i][l]
           /\ UNCHANGED prepared
BY DEF TypeOK, Begin, _idem_store

(* _record keeps the events there are. *)
LEMMA RecordKeeps ==
    ASSUME events \in Seq(EventType),
           NEW j \in Jobs, NEW from \in JOB_STATES, NEW to \in JOB_STATES,
           NEW reason \in Reasons, NEW digests \in Seq(Digests),
           _record(j, from, to, reason, digests)
    PROVE  IsPrefixOf(events, events')
<1>1. Len(events) + 1 \in Nat \ {0}
  <2>1. Len(events) \in Nat
    BY LenProperties
  <2>. QED
    BY <2>1
<1>2. Event(Len(events) + 1, j, from, to, reason, None, digests) \in EventType
  BY <1>1, EventTyped
<1>. QED
  BY <1>2, PrefixAppend DEF _record

(* The handlers that bind a key and append an event, and nothing else. *)
LEMMA StoreAndRecordKeeps ==
    ASSUME TypeOK, NEW j \in Jobs, NEW k \in Keys, NEW payload, NEW response,
           NEW to \in JOB_STATES, NEW reason \in Reasons,
           Begin(j, k), _idem_store(j, k, payload, response),
           _record(j, state[j], to, reason, attachments[j]),
           UNCHANGED <<evidence, registry>>
    PROVE  RecordsKept
<1>1. /\ events \in Seq(EventType) /\ attachments[j] \in Seq(Digests)
      /\ state[j] \in JOB_STATES
  BY DEF TypeOK, Begin
<1>2. IsPrefixOf(events, events')
  BY <1>1, RecordKeeps
<1>. QED
  BY <1>2, StoreKeeps, UnchangedKeeps DEF RecordsKept

(* attach_artifact: a row is written only where there was none. *)
LEMMA AttachKeeps ==
    ASSUME TypeOK, NEW j \in Jobs, NEW k \in Keys, NEW r \in AttachRequests,
           Attach(j, k, r)
    PROVE  RecordsKept
<1>1. CASE AttachRejected(j, k, r)
  <2>1. PICK code : StoredFailure("attach", j, k, AttachPayload(r),
                                  r.manifest.payload_digest, code)
    BY <1>1 DEF AttachRejected
  <2>2. Begin(j, k) /\ UNCHANGED <<evidence, registry, events>>
    BY <1>1, <2>1 DEF AttachRejected, StoredFailure, attachVars
  <2>. QED
    BY <2>1, <2>2, StoreKeeps, UnchangedKeeps DEF RecordsKept, StoredFailure
<1>2. CASE AttachFailsChecks(j, k, r) \/ AttachConflicts(j, k, r)
  <2>1. PICK code : QuarantineForFailure(j, k, r, code)
    BY <1>2 DEF AttachFailsChecks, AttachConflicts
  <2>2. Begin(j, k) /\ UNCHANGED <<evidence, registry>>
    BY <1>2, <2>1
    DEF AttachFailsChecks, AttachConflicts, AttachChecked,
        QuarantineForFailure, attachVars
  <2>3. "quarantined" \in JOB_STATES
          /\ "artifact verification failed" \in Reasons
    BY DEF JOB_STATES, Reasons
  <2>. QED
    BY <2>1, <2>2, <2>3, StoreAndRecordKeeps DEF QuarantineForFailure
<1>3. CASE AttachReplaysReceipt(j, k, r)
  <2>1. Begin(j, k) /\ UNCHANGED <<evidence, registry, events>>
    BY <1>3 DEF AttachReplaysReceipt, AttachChecked, attachVars
  <2>. QED
    BY <1>3, <2>1, StoreKeeps, UnchangedKeeps
    DEF RecordsKept, AttachReplaysReceipt
<1>4. CASE AttachRecords(j, k, r)
  <2>1. Begin(j, k) /\ registry[RowKey(j, r)] = None
    BY <1>4 DEF AttachRecords, AttachChecked
  <2>2. PICK t \in now .. MaxNow :
          /\ now' = t
          /\ registry' = [registry EXCEPT ![RowKey(j, r)] =
                [evidence |-> Evidence(j, r, t),
                 response |-> Response("attach", "ok", state[j])]]
          /\ evidence' = [evidence EXCEPT
                            ![j] = Append(@, Evidence(j, r, t))]
          /\ _record(j, state[j], state[j], "artifact attached",
                     attachments'[j])
          /\ _idem_store(j, k, AttachPayload(r),
                         Response("attach", "ok", state[j]))
    BY <1>4 DEF AttachRecords
  <2>3. \A key \in DOMAIN registry :
          registry[key] # None => registry'[key] = registry[key]
    BY <2>1, <2>2 DEF TypeOK
  <2>4. \A i \in Jobs : IsPrefixOf(evidence[i], evidence'[i])
    <3>1. Evidence(j, r, t) \in EvidenceType
      <4>1. t \in 0 .. MaxNow
        BY MaxNowAssumption DEF TypeOK
      <4>. QED
        BY <4>1, AttachFacts DEF Evidence, EvidenceType
    <3>2. evidence \in [Jobs -> Seq(EvidenceType)]
      BY DEF TypeOK
    <3>3. IsPrefixOf(evidence[j], Append(evidence[j], Evidence(j, r, t)))
      BY <3>1, <3>2, PrefixAppend
    <3>. QED
      BY <2>2, <3>2, <3>3, PrefixRefl
  <2>5. IsPrefixOf(events, events')
    <3>1. TypeOK'
      BY <1>4, AttachRecordsTyped
    <3>2. attachments'[j] \in Seq(Digests) /\ events \in Seq(EventType)
            /\ state[j] \in JOB_STATES /\ "artifact attached" \in Reasons
      BY <2>1, <3>1 DEF TypeOK, Begin, Reasons
    <3>. QED
      BY <2>2, <3>2, RecordKeeps
  <2>. QED
    BY <2>1, <2>2, <2>3, <2>4, <2>5, StoreKeeps DEF RecordsKept
<1>5. CASE \/ FromSlot("attach", j, k, AttachPayload(r),
                       r.manifest.payload_digest)
           \/ JobNotFound("attach", j, r.manifest.payload_digest)
  BY <1>5, StutterKeeps DEF FromSlot, JobNotFound
<1>. QED
  BY <1>1, <1>2, <1>3, <1>4, <1>5 DEF Attach

(* execute_job appends two events and binds a free key. *)
LEMMA ExecuteKeeps ==
    ASSUME TypeOK, NEW j \in Jobs, NEW k \in Keys, NEW r \in ExecuteRequests,
           Execute(j, k, r)
    PROVE  RecordsKept
<1>1. CASE ExecuteRejected(j, k, r)
  <2>1. PICK code :
          StoredFailure("execute", j, k, ExecutePayload(r), None, code)
    BY <1>1 DEF ExecuteRejected
  <2>2. Begin(j, k) /\ UNCHANGED <<evidence, registry, events>>
    BY <1>1, <2>1 DEF ExecuteRejected, StoredFailure, attachVars
  <2>. QED
    BY <2>1, <2>2, StoreKeeps, UnchangedKeeps DEF RecordsKept, StoredFailure
<1>2. CASE ExecuteRuns(j, k, r)
  <2>. DEFINE reserved == Event(Len(events) + 1, j, "ready", "ready",
                                "launch reserved", k, attachments[j])
              running == Event(Len(events) + 2, j, "ready", "running",
                               "executing", None, attachments[j])
  <2>1. attachments[j] \in Seq(Digests) /\ events \in Seq(EventType)
          /\ {"ready", "running"} \subseteq JOB_STATES
          /\ {"launch reserved", "executing"} \subseteq Reasons
    BY DEF TypeOK, JOB_STATES, Reasons
  <2>2. Len(events) + 1 \in Nat \ {0} /\ Len(events) + 2 \in Nat \ {0}
    <3>1. Len(events) \in Nat
      BY <2>1, LenProperties
    <3>. QED
      BY <3>1
  <2>3. reserved \in EventType /\ running \in EventType
    BY <2>1, <2>2, EventTyped
  <2>4. events' = events \o <<reserved, running>>
    BY <1>2 DEF ExecuteRuns
  <2>5. IsPrefixOf(events, events')
    <3>. HIDE DEF reserved, running
    <3>1. <<reserved, running>> \in Seq(EventType)
      BY <2>3
    <3>. QED
      BY <2>1, <2>4, <3>1, PrefixConcat
  <2>6. Begin(j, k) /\ UNCHANGED <<evidence, registry>>
          /\ _idem_store(j, k, ExecutePayload(r),
                         Response("execute", "ok", "running"))
    BY <1>2 DEF ExecuteRuns, attachVars
  <2>. QED
    BY <2>5, <2>6, StoreKeeps, UnchangedKeeps DEF RecordsKept
<1>3. CASE \/ FromSlot("execute", j, k, ExecutePayload(r), None)
           \/ JobNotFound("execute", j, None)
  BY <1>3, StutterKeeps DEF FromSlot, JobNotFound
<1>. QED
  BY <1>1, <1>2, <1>3 DEF Execute

(* cancel_job and quarantine_job. *)
LEMMA ControlKeeps ==
    ASSUME TypeOK, NEW j \in Jobs, NEW k \in Keys, NEW r \in ControlRequests,
           Cancel(j, k, r) \/ QuarantineJob(j, k, r)
    PROVE  RecordsKept
<1>1. CASE \/ Control("cancel", j, k, r, "cancel_requested")
           \/ Control("quarantine", j, k, r, "quarantined")
  <2>1. PICK op \in {"cancel", "quarantine"}, st \in JOB_STATES :
          Control(op, j, k, r, st)
    BY <1>1 DEF JOB_STATES
  <2>2. r.reason \in Reasons /\ Begin(j, k) /\ UNCHANGED <<evidence, registry>>
    BY <2>1 DEF Control, Reasons, attachVars
  <2>3. /\ _record(j, state[j], st, r.reason, attachments[j])
        /\ _idem_store(j, k, ControlPayload(op, r), Response(op, "ok", st))
    BY <2>1 DEF Control
  <2>. QED
    BY <2>2, <2>3, StoreAndRecordKeeps
<1>2. CASE \E op \in {"cancel", "quarantine"} :
             \/ ControlFails(op, j, k, r)
             \/ FromSlot(op, j, k, ControlPayload(op, r), None)
             \/ JobNotFound(op, j, None)
  BY <1>2, StutterKeeps DEF ControlFails, FromSlot, JobNotFound, idemVars
<1>. QED
  BY <1>1, <1>2 DEF Cancel, QuarantineJob

(* prepare_job binds a free key of its project. *)
LEMMA PrepareKeeps ==
    ASSUME TypeOK, Prepare
    PROVE  RecordsKept
<1>1. ASSUME NEW k \in PrepareKeys, NEW r \in PrepareRequests,
             PrepareAgain(k, r)
      PROVE  RecordsKept
  BY <1>1, StutterKeeps DEF PrepareAgain
<1>2. ASSUME NEW k \in PrepareKeys, NEW r \in PrepareRequests, NEW j \in Jobs,
             PrepareNew(j, k, r)
      PROVE  RecordsKept
  <2>1. \A p \in Projects, l \in PrepareKeys :
          prepared[p][l] # None => prepared'[p][l] = prepared[p][l]
    BY <1>2 DEF PrepareNew, BeginPrepare, TypeOK
  <2>2. IsPrefixOf(events, events')
    <3>1. /\ "accepted" \in JOB_STATES /\ "job accepted" \in Reasons
          /\ attachments[j] \in Seq(Digests) /\ events \in Seq(EventType)
      BY DEF JOB_STATES, Reasons, TypeOK
    <3>2. _record(j, "accepted", "accepted", "job accepted", attachments[j])
      BY <1>2 DEF PrepareNew
    <3>. QED
      BY <3>1, <3>2, RecordKeeps
  <2>3. UNCHANGED <<idempotency, evidence, registry>>
    BY <1>2 DEF PrepareNew, attachVars
  <2>. QED
    BY <2>1, <2>2, <2>3, UnchangedKeeps DEF RecordsKept
<1>. QED
  BY <1>1, <1>2 DEF Prepare

(* The deployment only appends events. *)
LEMMA FoundryKeeps ==
    ASSUME TypeOK, NEW j \in Jobs, Foundry(j)
    PROVE  RecordsKept
<1>1. UNCHANGED <<idemVars, attachVars>>
  BY DEF Foundry, MarkReady, SettleRunning
<1>2. /\ attachments[j] \in Seq(Digests) /\ events \in Seq(EventType)
      /\ FrozenOrAttached(j) \in Seq(Digests)
      /\ {"accepted", "preparing", "ready", "running", "succeeded", "failed"}
           \subseteq JOB_STATES
      /\ {"synthetic preparation", "synthetic readiness",
          "native unit reported"} \subseteq Reasons
  BY DEF TypeOK, JOB_STATES, Reasons, FrozenOrAttached
<1>3. CASE MarkReady(j)
  <2>. DEFINE prepare == Event(Len(events) + 1, j, "accepted", "preparing",
                               "synthetic preparation", None, attachments[j])
              ready(n) == Event(Len(events) + n, j, "preparing", "ready",
                                "synthetic readiness", None, attachments[j])
  <2>1. Len(events) + 1 \in Nat \ {0} /\ Len(events) + 2 \in Nat \ {0}
    <3>1. Len(events) \in Nat
      BY <1>2, LenProperties
    <3>. QED
      BY <3>1
  <2>2. prepare \in EventType /\ ready(1) \in EventType
          /\ ready(2) \in EventType
    BY <1>2, <2>1, EventTyped
  <2>3. \/ events' = events \o <<prepare, ready(2)>>
        \/ events' = events \o <<ready(1)>>
    BY <1>3 DEF MarkReady
  <2>4. IsPrefixOf(events, events')
    <3>. HIDE DEF prepare, ready
    <3>1. <<prepare, ready(2)>> \in Seq(EventType)
            /\ <<ready(1)>> \in Seq(EventType)
      BY <2>2
    <3>. QED
      BY <1>2, <2>3, <3>1, PrefixConcat
  <2>. QED
    BY <1>1, <2>4, UnchangedKeeps DEF RecordsKept, idemVars, attachVars
<1>4. CASE \E outcome \in {"succeeded", "failed"} : SettleRunning(j, outcome)
  <2>1. PICK outcome \in {"succeeded", "failed"} :
          _record(j, "running", outcome, "native unit reported",
                  FrozenOrAttached(j))
    BY <1>4 DEF SettleRunning
  <2>2. IsPrefixOf(events, events')
    BY <1>2, <2>1, RecordKeeps
  <2>. QED
    BY <1>1, <2>2, UnchangedKeeps DEF RecordsKept, idemVars, attachVars
<1>. QED
  BY <1>3, <1>4 DEF Foundry

(* Every step keeps the records. *)
LEMMA NextKeeps == TypeOK /\ [Next]_vars => [RecordsKept]_vars
<1>. SUFFICES ASSUME TypeOK, Next PROVE RecordsKept
  OBVIOUS
<1>1. CASE Prepare
  BY <1>1, PrepareKeeps
<1>2. CASE \E j \in Jobs, k \in Keys : Call(j, k)
  BY <1>2, AttachKeeps, ExecuteKeeps, ControlKeeps DEF Call
<1>3. CASE \E j \in Jobs : Foundry(j)
  BY <1>3, FoundryKeeps
<1>4. CASE Tick \/ \E ref \in DOMAIN directory : Revoke(ref)
  BY <1>4, StutterKeeps DEF Tick, Revoke
<1>. QED
  BY <1>1, <1>2, <1>3, <1>4 DEF Next, Deployment

(* Bound keys, registry rows, evidence and events are final: no order of    *)
(* calls makes a handler replace, drop or reorder one.                      *)
THEOREM RecordsFinal == Spec => RecordsAreFinal
BY TypeCorrect, NextKeeps, PTL DEF Spec, RecordsAreFinal

-----------------------------------------------------------------------------
(* Bindings are fixed *)

(* Every step keeps the bindings of every accepted job. *)
LEMMA NextKeepsBindings ==
    ASSUME TypeOK, Next, NEW j \in Jobs, state[j] # "absent"
    PROVE  BindingsKept(j)
<1>1. CASE UNCHANGED jobVars
  BY <1>1 DEF BindingsKept, jobVars
<1>2. ASSUME NEW i \in Jobs, NEW st \in JOB_STATES \ ATTACHABLE_STATES,
             state' = [state EXCEPT ![i] = st],
             UNCHANGED <<generation, source, policy>>
      PROVE  BindingsKept(j)
  BY <1>2 DEF BindingsKept, TypeOK
<1>3. ASSUME NEW i \in Jobs, state' = [state EXCEPT ![i] = "quarantined"],
             UNCHANGED <<generation, source, policy>>
      PROVE  BindingsKept(j)
  BY <1>2, <1>3 DEF JOB_STATES, ATTACHABLE_STATES
<1>4. CASE Prepare
  <2>1. ASSUME NEW k \in PrepareKeys, NEW r \in PrepareRequests,
               NEW i \in Jobs, PrepareNew(i, k, r)
        PROVE  BindingsKept(j)
    <3>1. i # j
      BY <2>1 DEF PrepareNew
    <3>. QED
      BY <2>1, <3>1 DEF PrepareNew, BindingsKept, TypeOK
  <2>. QED
    BY <1>1, <1>4, <2>1 DEF Prepare, PrepareAgain
<1>5. ASSUME NEW i \in Jobs, NEW k \in Keys, NEW r \in AttachRequests,
             Attach(i, k, r)
      PROVE  BindingsKept(j)
  <2>1. CASE AttachFailsChecks(i, k, r) \/ AttachConflicts(i, k, r)
    BY <1>3, <2>1 DEF AttachFailsChecks, AttachConflicts, QuarantineForFailure
  <2>2. CASE \/ AttachRejected(i, k, r) \/ AttachReplaysReceipt(i, k, r)
             \/ AttachRecords(i, k, r)
             \/ FromSlot("attach", i, k, AttachPayload(r),
                         r.manifest.payload_digest)
             \/ JobNotFound("attach", i, r.manifest.payload_digest)
    BY <1>1, <2>2
    DEF AttachRejected, StoredFailure, AttachReplaysReceipt, AttachRecords,
        FromSlot, JobNotFound
  <2>. QED
    BY <1>5, <2>1, <2>2 DEF Attach
<1>6. ASSUME NEW i \in Jobs, NEW k \in Keys, NEW r \in ExecuteRequests,
             Execute(i, k, r)
      PROVE  BindingsKept(j)
  <2>1. CASE ExecuteRuns(i, k, r)
    BY <1>2, <2>1 DEF ExecuteRuns, JOB_STATES, ATTACHABLE_STATES
  <2>2. CASE \/ ExecuteRejected(i, k, r)
             \/ FromSlot("execute", i, k, ExecutePayload(r), None)
             \/ JobNotFound("execute", i, None)
    BY <1>1, <2>2 DEF ExecuteRejected, StoredFailure, FromSlot, JobNotFound
  <2>. QED
    BY <1>6, <2>1, <2>2 DEF Execute
<1>7. ASSUME NEW i \in Jobs, NEW k \in Keys, NEW r \in ControlRequests,
             Cancel(i, k, r) \/ QuarantineJob(i, k, r)
      PROVE  BindingsKept(j)
  <2>1. CASE \E op \in {"cancel", "quarantine"} :
               \/ ControlFails(op, i, k, r)
               \/ FromSlot(op, i, k, ControlPayload(op, r), None)
               \/ JobNotFound(op, i, None)
    BY <1>1, <2>1 DEF ControlFails, FromSlot, JobNotFound
  <2>2. CASE \/ Control("cancel", i, k, r, "cancel_requested")
             \/ Control("quarantine", i, k, r, "quarantined")
    BY <1>2, <2>2 DEF Control, JOB_STATES, ATTACHABLE_STATES
  <2>. QED
    BY <1>7, <2>1, <2>2 DEF Cancel, QuarantineJob
<1>8. ASSUME NEW i \in Jobs, Foundry(i)
      PROVE  BindingsKept(j)
  <2>1. CASE MarkReady(i)
    <3>1. /\ state[i] \in ATTACHABLE_STATES
          /\ state' = [state EXCEPT ![i] = "ready"]
          /\ UNCHANGED <<generation, source, policy>>
      BY <2>1 DEF MarkReady, Unready, ATTACHABLE_STATES
    <3>. QED
      BY <3>1 DEF BindingsKept, TypeOK
  <2>2. CASE \E outcome \in {"succeeded", "failed"} : SettleRunning(i, outcome)
    BY <1>2, <2>2 DEF SettleRunning, JOB_STATES, ATTACHABLE_STATES
  <2>. QED
    BY <1>8, <2>1, <2>2 DEF Foundry
<1>9. CASE Tick \/ \E ref \in DOMAIN directory : Revoke(ref)
  BY <1>1, <1>9 DEF Tick, Revoke
<1>. QED
  BY <1>4, <1>5, <1>6, <1>7, <1>8, <1>9 DEF Next, Call, Deployment

(* What evidence was checked against stays: an accepted job keeps its       *)
(* generation, source and policy, and one that left the states in which     *)
(* artifacts are attached never returns to them.                            *)
THEOREM BindingsFixed == Spec => BindingsAreFixed
<1>1. TypeOK /\ [Next]_vars =>
        [\A j \in Jobs : state[j] # "absent" => BindingsKept(j)]_vars
  BY NextKeepsBindings
<1>. QED
  BY <1>1, TypeCorrect, PTL DEF Spec, BindingsAreFixed

-----------------------------------------------------------------------------
(* What a step writes *)

(* What an attach leaves alone unless it records a receipt or quarantines.  *)
LEMMA AttachQuiet ==
    ASSUME NEW j, NEW k, NEW r,
           \/ AttachRejected(j, k, r) \/ AttachReplaysReceipt(j, k, r)
           \/ FromSlot("attach", j, k, AttachPayload(r),
                       r.manifest.payload_digest)
           \/ JobNotFound("attach", j, r.manifest.payload_digest)
    PROVE  UNCHANGED <<jobVars, attachVars, events, directory, now>>
BY DEF AttachRejected, StoredFailure, AttachReplaysReceipt, FromSlot,
       JobNotFound, idemVars

(* An attach that quarantines its job. *)
Quarantines(j, k, r) ==
    \E code \in {"artifact_invalid", "artifact_verification",
                 "receipt_untrusted", "receipt_conflict"} :
        AttachChecked(j, k, r) /\ QuarantineForFailure(j, k, r, code)

LEMMA AttachQuarantines ==
    ASSUME NEW j, NEW k, NEW r,
           AttachFailsChecks(j, k, r) \/ AttachConflicts(j, k, r)
    PROVE  Quarantines(j, k, r)
<1>1. CASE AttachFailsChecks(j, k, r)
  BY <1>1, VerdictCodes DEF AttachFailsChecks, Quarantines
<1>2. CASE AttachConflicts(j, k, r)
  BY <1>2 DEF AttachConflicts, Quarantines
<1>. QED
  BY <1>1, <1>2

(* An execute that does not launch. *)
LEMMA ExecuteQuiet ==
    ASSUME NEW j, NEW k, NEW r,
           \/ ExecuteRejected(j, k, r)
           \/ FromSlot("execute", j, k, ExecutePayload(r), None)
           \/ JobNotFound("execute", j, None)
    PROVE  UNCHANGED <<jobVars, attachVars, events, directory, now>>
BY DEF ExecuteRejected, StoredFailure, FromSlot, JobNotFound, idemVars

(* A cancel or a quarantine that is not obeyed binds no key either. *)
LEMMA ControlQuiet ==
    ASSUME NEW j, NEW k, NEW r, NEW op,
           \/ ControlFails(op, j, k, r)
           \/ FromSlot(op, j, k, ControlPayload(op, r), None)
           \/ JobNotFound(op, j, None)
    PROVE  UNCHANGED <<jobVars, attachVars, idemVars, events, directory, now>>
BY DEF ControlFails, FromSlot, JobNotFound, idemVars

(* No handler changes a generation. *)
LEMMA GenerationKept ==
    ASSUME [Next]_vars PROVE UNCHANGED generation
<1>1. CASE Prepare
  BY <1>1 DEF Prepare, PrepareNew, PrepareAgain, jobVars
<1>2. ASSUME NEW j \in Jobs, NEW k \in Keys, Call(j, k)
      PROVE  UNCHANGED generation
  <2>1. ASSUME NEW r \in AttachRequests, Attach(j, k, r)
        PROVE  UNCHANGED generation
    BY <2>1, AttachQuiet, AttachQuarantines
    DEF Attach, Quarantines, QuarantineForFailure, AttachRecords, jobVars
  <2>2. ASSUME NEW r \in ExecuteRequests, Execute(j, k, r)
        PROVE  UNCHANGED generation
    BY <2>2, ExecuteQuiet DEF Execute, ExecuteRuns, jobVars
  <2>3. ASSUME NEW r \in ControlRequests, Cancel(j, k, r) \/ QuarantineJob(j, k, r)
        PROVE  UNCHANGED generation
    BY <2>3, ControlQuiet DEF Cancel, QuarantineJob, Control, jobVars
  <2>. QED
    BY <1>2, <2>1, <2>2, <2>3 DEF Call
<1>3. CASE Deployment
  BY <1>3 DEF Deployment, Foundry, MarkReady, SettleRunning, Tick, Revoke, jobVars
<1>4. CASE UNCHANGED vars
  BY <1>4 DEF vars, jobVars
<1>. QED
  BY <1>1, <1>2, <1>3, <1>4 DEF Next

(* The calls that are answered for the first time under their key, and bind *)
(* it.                                                                      *)
BindsKey(j, k) ==
    \/ \E r \in AttachRequests :
          \/ AttachRejected(j, k, r) \/ Quarantines(j, k, r)
          \/ AttachReplaysReceipt(j, k, r) \/ AttachRecords(j, k, r)
    \/ \E r \in ExecuteRequests : ExecuteRejected(j, k, r) \/ ExecuteRuns(j, k, r)
    \/ \E r \in ControlRequests :
          \/ Control("cancel", j, k, r, "cancel_requested")
          \/ Control("quarantine", j, k, r, "quarantined")

LEMMA SlotsWritten ==
    ASSUME [Next]_vars
    PROVE  UNCHANGED idempotency \/ \E j \in Jobs, k \in Keys : BindsKey(j, k)
<1>1. CASE Prepare
  BY <1>1 DEF Prepare, PrepareNew, PrepareAgain, idemVars
<1>2. ASSUME NEW j \in Jobs, NEW k \in Keys, Call(j, k)
      PROVE  UNCHANGED idempotency \/ BindsKey(j, k)
  <2>1. ASSUME NEW r \in AttachRequests, Attach(j, k, r)
        PROVE  UNCHANGED idempotency \/ BindsKey(j, k)
    BY <2>1, AttachQuarantines
    DEF Attach, BindsKey, FromSlot, JobNotFound, idemVars
  <2>2. ASSUME NEW r \in ExecuteRequests, Execute(j, k, r)
        PROVE  UNCHANGED idempotency \/ BindsKey(j, k)
    BY <2>2 DEF Execute, BindsKey, FromSlot, JobNotFound, idemVars
  <2>3. ASSUME NEW r \in ControlRequests, Cancel(j, k, r) \/ QuarantineJob(j, k, r)
        PROVE  UNCHANGED idempotency \/ BindsKey(j, k)
    BY <2>3, ControlQuiet DEF Cancel, QuarantineJob, BindsKey, idemVars
  <2>. QED
    BY <1>2, <2>1, <2>2, <2>3 DEF Call
<1>3. CASE Deployment
  BY <1>3 DEF Deployment, Foundry, MarkReady, SettleRunning, Tick, Revoke,
    idemVars
<1>4. CASE UNCHANGED vars
  BY <1>4 DEF vars, idemVars
<1>. QED
  BY <1>1, <1>2, <1>3, <1>4 DEF Next

(* What is stored under a key, and under which. *)
LEMMA StoredSlot ==
    ASSUME TypeOK, NEW j \in Jobs, NEW k \in Keys, NEW payload, NEW response,
           _idem_store(j, k, payload, response)
    PROVE  /\ idempotency'[j][k] = [payload |-> payload, response |-> response]
           /\ \A i \in Jobs, l \in Keys :
                 <<i, l>> # <<j, k>> => idempotency'[i][l] = idempotency[i][l]
           /\ UNCHANGED prepared
BY DEF TypeOK, _idem_store
(* A key that is bound in a step is bound by a call under it. *)
LEMMA BindsOneKey ==
    ASSUME TypeOK, [Next]_vars, NEW j \in Jobs, NEW k \in Keys,
           idempotency'[j][k] # idempotency[j][k]
    PROVE  BindsKey(j, k)
<1>1. PICK i \in Jobs, l \in Keys : BindsKey(i, l)
  BY SlotsWritten
<1>2. \E payload, response : _idem_store(i, l, payload, response)
  BY <1>1
  DEF BindsKey, AttachRejected, StoredFailure, Quarantines,
      QuarantineForFailure, AttachReplaysReceipt, AttachRecords,
      ExecuteRejected, ExecuteRuns, Control
<1>3. <<j, k>> = <<i, l>>
  BY <1>2, StoredSlot
<1>. QED
  BY <1>1, <1>3
-----------------------------------------------------------------------------
(* The one shape of a step that changes a job *)

(* The moves of a job; the last but one is an artifact attached. *)
Moves(from, to) ==
    \/ from = "absent" /\ to = "accepted"
    \/ from \in Unready /\ to = "ready"
    \/ from = "ready" /\ to = "running"
    \/ from = "running" /\ to \in {"succeeded", "failed"}
    \/ from \in {"preparing", "ready", "running"} /\ to = "cancel_requested"
    \/ from \in ATTACHABLE_STATES /\ to = from
    \/ from \in NON_TERMINAL_STATES /\ to = "quarantined"

Settles(from, to) == from = "running" /\ to \in {"succeeded", "failed"}

(* The log grows by one or two events of the job, which tell the move, with  *)
(* the artifacts attached by then (the frozen ones, if the job settles).    *)
(* Only the events of a launch carry a token.                               *)
Tells(j, added) ==
    /\ added \in Seq(EventType) /\ Len(added) \in {1, 2}
    /\ events' = events \o added
    /\ \A n \in 1 .. Len(added) :
          /\ added[n].job_id = j
          /\ added[n].seq = Len(events) + n
          /\ added[n].artifact_digests =
               IF Settles(state[j], state'[j]) THEN FrozenOrAttached(j)
                                               ELSE attachments'[j]
    /\ added[1].from_state = IF state[j] = "absent" THEN "accepted" ELSE state[j]
    /\ Len(added) = 2 => /\ state[j] # "absent"
                          /\ added[2].from_state = added[1].to_state
                          /\ added[1].to_state \in ATTACHABLE_STATES
    /\ added[Len(added)].to_state = state'[j]
    /\ state'[j] # "running" => \A n \in 1 .. Len(added) : added[n].token = None

(* Nothing about another job changes. *)
Alone(j) ==
    \A i \in Jobs \ {j} :
        <<state[i], source[i], policy[i], frozen[i], identity[i],
          quarantine_reason[i], attachments[i], evidence[i]>>'
          = <<state[i], source[i], policy[i], frozen[i], identity[i],
              quarantine_reason[i], attachments[i], evidence[i]>>

JobStep(j) ==
    /\ \E added : Tells(j, added)
    /\ Moves(state[j], state'[j])
    /\ identity[j] # None => identity'[j] # None
    /\ Alone(j)

(* A step that records one event. *)
LEMMA RecordTells ==
    ASSUME TypeOK, NEW j \in Jobs, NEW from \in JOB_STATES,
           NEW to \in JOB_STATES, NEW reason \in Reasons,
           NEW digests \in Seq(Digests), _record(j, from, to, reason, digests),
           from = IF state[j] = "absent" THEN "accepted" ELSE state[j],
           state'[j] = to,
           digests = IF Settles(state[j], to) THEN FrozenOrAttached(j)
                                              ELSE attachments'[j]
    PROVE  \E added : Tells(j, added)
<1>. DEFINE e == Event(Len(events) + 1, j, from, to, reason, None, digests)
<1>1. Len(events) \in Nat /\ events \in Seq(EventType)
  BY LenProperties DEF TypeOK
<1>2. e \in EventType
  <2>1. Len(events) + 1 \in Nat \ {0}
    BY <1>1
  <2>. QED
    BY <2>1, EventTyped
<1>3. /\ e.job_id = j /\ e.seq = Len(events) + 1 /\ e.artifact_digests = digests
      /\ e.from_state = from /\ e.to_state = to /\ e.token = None
  BY DEF Event
<1>4. events' = Append(events, e)
  BY DEF _record
<1>. HIDE DEF e
<1>5. /\ <<e>> \in Seq(EventType) /\ Len(<<e>>) = 1 /\ <<e>>[1] = e
      /\ events' = events \o <<e>>
  BY <1>1, <1>2, <1>4
<1>6. \A n \in 1 .. Len(<<e>>) : n = 1
  BY <1>5
<1>. DEFINE added == <<e>>
<1>. HIDE DEF added
<1>7. Tells(j, added)
  BY <1>3, <1>5, <1>6 DEF Tells, added
<1>. QED
  BY <1>7

(* A step that records two. *)
LEMMA TwoEventsTell ==
    ASSUME TypeOK, NEW j \in Jobs, NEW e \in EventType, NEW f \in EventType,
           events' = events \o <<e, f>>,
           e.seq = Len(events) + 1, f.seq = Len(events) + 2,
           e.job_id = j, f.job_id = j,
           e.artifact_digests = attachments'[j],
           f.artifact_digests = attachments'[j],
           e.from_state = state[j], state[j] # "absent",
           f.from_state = e.to_state, f.to_state = state'[j],
           e.to_state \in ATTACHABLE_STATES, ~Settles(state[j], state'[j]),
           state'[j] # "running" => e.token = None /\ f.token = None
    PROVE  \E added : Tells(j, added)
<1>1. /\ <<e, f>> \in Seq(EventType) /\ Len(<<e, f>>) = 2
      /\ <<e, f>>[1] = e /\ <<e, f>>[2] = f
  OBVIOUS
<1>2. \A n \in 1 .. Len(<<e, f>>) : n = 1 \/ n = 2
  BY <1>1
<1>. QED
  BY <1>1, <1>2 DEF Tells

LEMMA PrepareSteps ==
    ASSUME TypeOK, NEW j \in Jobs, NEW k \in PrepareKeys,
           NEW r \in PrepareRequests, PrepareNew(j, k, r)
    PROVE  JobStep(j)
<1>1. /\ state[j] = "absent" /\ state'[j] = "accepted"
      /\ UNCHANGED <<attachments, identity>>
      /\ _record(j, "accepted", "accepted", "job accepted", attachments[j])
      /\ attachments[j] \in Seq(Digests)
      /\ "accepted" \in JOB_STATES /\ "job accepted" \in Reasons
  BY DEF PrepareNew, attachVars, TypeOK, JOB_STATES, Reasons
<1>2. Alone(j)
  BY DEF PrepareNew, attachVars, Alone, TypeOK
<1>3. \E added : Tells(j, added)
  BY <1>1, RecordTells DEF Settles
<1>. QED
  BY <1>1, <1>2, <1>3 DEF JobStep, Moves

LEMMA QuarantineSteps ==
    ASSUME TypeOK, NEW j \in Jobs, NEW k \in Keys, NEW r \in AttachRequests,
           Quarantines(j, k, r)
    PROVE  JobStep(j)
<1>1. /\ state[j] \in ATTACHABLE_STATES /\ state'[j] = "quarantined"
      /\ UNCHANGED <<attachments, identity>>
      /\ _record(j, state[j], "quarantined", "artifact verification failed",
                 attachments[j])
  BY DEF Quarantines, QuarantineForFailure, AttachChecked, attachVars, TypeOK
<1>2. /\ attachments[j] \in Seq(Digests)
      /\ state[j] \in JOB_STATES /\ "quarantined" \in JOB_STATES
      /\ "artifact verification failed" \in Reasons
  BY <1>1 DEF TypeOK, JOB_STATES, Reasons, ATTACHABLE_STATES
<1>3. Alone(j)
  BY DEF Quarantines, QuarantineForFailure, attachVars, Alone, TypeOK
<1>4. \E added : Tells(j, added)
  BY <1>1, <1>2, RecordTells DEF Settles, ATTACHABLE_STATES
<1>. QED
  BY <1>1, <1>3, <1>4
  DEF JobStep, Moves, ATTACHABLE_STATES, NON_TERMINAL_STATES, JOB_STATES,
      TERMINAL_STATES

LEMMA AttachRecordsSteps ==
    ASSUME TypeOK, NEW j \in Jobs, NEW k \in Keys, NEW r \in AttachRequests,
           AttachRecords(j, k, r)
    PROVE  JobStep(j)
<1>1. TypeOK'
  BY AttachRecordsTyped
<1>2. /\ state[j] \in ATTACHABLE_STATES /\ state' = state
      /\ UNCHANGED <<identity, jobVars>>
      /\ _record(j, state[j], state[j], "artifact attached", attachments'[j])
  BY DEF AttachRecords, AttachChecked, jobVars
<1>3. /\ attachments'[j] \in Seq(Digests)
      /\ state[j] \in JOB_STATES /\ "artifact attached" \in Reasons
  BY <1>1, <1>2 DEF TypeOK, JOB_STATES, Reasons, ATTACHABLE_STATES
<1>4. Alone(j)
  BY DEF AttachRecords, jobVars, Alone, TypeOK
<1>5. \E added : Tells(j, added)
  BY <1>2, <1>3, RecordTells DEF Settles, ATTACHABLE_STATES
<1>. QED
  BY <1>2, <1>4, <1>5 DEF JobStep, Moves

LEMMA ExecuteRunsSteps ==
    ASSUME TypeOK, NEW j \in Jobs, NEW k \in Keys, NEW r \in ExecuteRequests,
           ExecuteRuns(j, k, r)
    PROVE  JobStep(j)
<1>. DEFINE e == Event(Len(events) + 1, j, "ready", "ready", "launch reserved",
                       k, attachments[j])
            f == Event(Len(events) + 2, j, "ready", "running", "executing",
                       None, attachments[j])
<1>1. /\ state[j] = "ready" /\ state'[j] = "running"
      /\ identity'[j] = r.native_identity /\ r.native_identity # None
      /\ events' = events \o <<e, f>> /\ UNCHANGED attachments
  BY DEF ExecuteRuns, attachVars, TypeOK
<1>2. e \in EventType /\ f \in EventType
  <2>1. Len(events) + 1 \in Nat \ {0} /\ Len(events) + 2 \in Nat \ {0}
    <3>1. Len(events) \in Nat
      BY LenProperties DEF TypeOK
    <3>. QED
      BY <3>1
  <2>. QED
    BY <2>1, EventTyped DEF TypeOK, JOB_STATES, Reasons
<1>3. /\ e.seq = Len(events) + 1 /\ f.seq = Len(events) + 2
      /\ e.job_id = j /\ f.job_id = j
      /\ e.artifact_digests = attachments'[j]
      /\ f.artifact_digests = attachments'[j]
      /\ e.from_state = state[j] /\ e.to_state = "ready"
      /\ f.from_state = "ready" /\ f.to_state = state'[j]
  BY <1>1 DEF Event
<1>. HIDE DEF e, f
<1>4. \E added : Tells(j, added)
  BY <1>1, <1>2, <1>3, TwoEventsTell DEF Settles, ATTACHABLE_STATES
<1>5. Alone(j)
  BY DEF ExecuteRuns, attachVars, Alone, TypeOK
<1>. QED
  BY <1>1, <1>4, <1>5 DEF JobStep, Moves

LEMMA ControlSteps ==
    ASSUME TypeOK, NEW j \in Jobs, NEW k \in Keys, NEW r \in ControlRequests,
           \/ Cancel(j, k, r) /\ Control("cancel", j, k, r, "cancel_requested")
           \/ /\ QuarantineJob(j, k, r)
              /\ Control("quarantine", j, k, r, "quarantined")
    PROVE  JobStep(j)
<1>1. PICK op \in {"cancel", "quarantine"},
           st \in {"cancel_requested", "quarantined"} :
        /\ Control(op, j, k, r, st)
        /\ (op = "cancel") = (st = "cancel_requested")
  OBVIOUS
<1>2. /\ state[j] \in Sources(op) /\ state'[j] = st
      /\ UNCHANGED <<attachments, identity>>
      /\ _record(j, state[j], st, r.reason, attachments[j])
  BY <1>1 DEF Control, attachVars, TypeOK
<1>3. /\ attachments[j] \in Seq(Digests)
      /\ state[j] \in JOB_STATES /\ st \in JOB_STATES /\ r.reason \in Reasons
      /\ state[j] # "absent"
  BY <1>2 DEF TypeOK, JOB_STATES, Reasons, Sources, NON_TERMINAL_STATES
<1>4. Alone(j)
  <2>1. /\ \A i \in Jobs \ {j} : state'[i] = state[i]
        /\ UNCHANGED <<source, policy, frozen, identity, attachments, evidence>>
    BY <1>1 DEF Control, attachVars, TypeOK
  <2>2. \A i \in Jobs \ {j} : quarantine_reason'[i] = quarantine_reason[i]
    <3>1. \/ UNCHANGED quarantine_reason
          \/ quarantine_reason' = [quarantine_reason EXCEPT ![j] = r.reason]
      BY <1>3, <1>2
      DEF Cancel, QuarantineJob, ControlFails, FromSlot, JobNotFound, jobVars
    <3>. QED
      BY <3>1 DEF TypeOK
  <2>. QED
    BY <2>1, <2>2 DEF Alone
<1>5. \E added : Tells(j, added)
  BY <1>2, <1>3, RecordTells DEF Settles
<1>6. Moves(state[j], state'[j])
  BY <1>1, <1>2 DEF Moves, Sources
<1>. QED
  BY <1>2, <1>4, <1>5, <1>6 DEF JobStep

LEMMA MarkReadySteps ==
    ASSUME TypeOK, NEW j \in Jobs, MarkReady(j)
    PROVE  JobStep(j)
<1>. DEFINE e == Event(Len(events) + 1, j, "accepted", "preparing",
                       "synthetic preparation", None, attachments[j])
            ready(n) == Event(Len(events) + n, j, "preparing", "ready",
                              "synthetic readiness", None, attachments[j])
            f == ready(2)
            g == ready(1)
<1>1. /\ state[j] \in Unready /\ state'[j] = "ready"
      /\ UNCHANGED <<attachments, identity>>
      /\ state[j] = "accepted" => events' = events \o <<e, f>>
      /\ state[j] = "preparing" => events' = events \o <<g>>
  BY DEF MarkReady, Unready, attachVars, TypeOK
<1>2. Alone(j)
  BY DEF MarkReady, attachVars, Alone, TypeOK
<1>3. Len(events) \in Nat /\ events \in Seq(EventType)
        /\ attachments[j] \in Seq(Digests)
  BY LenProperties DEF TypeOK
<1>4. CASE state[j] = "accepted"
  <2>1. e \in EventType /\ f \in EventType
    <3>1. Len(events) + 1 \in Nat \ {0} /\ Len(events) + 2 \in Nat \ {0}
      BY <1>3
    <3>. QED
      BY <1>3, <3>1, EventTyped DEF JOB_STATES, Reasons
  <2>2. /\ e.seq = Len(events) + 1 /\ f.seq = Len(events) + 2
        /\ e.job_id = j /\ f.job_id = j
        /\ e.artifact_digests = attachments'[j]
        /\ f.artifact_digests = attachments'[j]
        /\ e.from_state = state[j] /\ e.to_state = "preparing"
        /\ f.from_state = "preparing" /\ f.to_state = state'[j]
        /\ e.token = None /\ f.token = None
    BY <1>1, <1>4 DEF Event
  <2>. HIDE DEF e, f
  <2>3. \E added : Tells(j, added)
    BY <1>1, <1>4, <2>1, <2>2, TwoEventsTell DEF Settles, ATTACHABLE_STATES
  <2>. QED
    BY <1>1, <1>2, <2>3 DEF JobStep, Moves
<1>5. CASE state[j] = "preparing"
  <2>1. _record(j, "preparing", "ready", "synthetic readiness", attachments[j])
    <3>1. g \in EventType
      <4>1. Len(events) + 1 \in Nat \ {0}
        BY <1>3
      <4>. QED
        BY <1>3, <4>1, EventTyped DEF JOB_STATES, Reasons
    <3>. HIDE DEF g
    <3>2. events' = Append(events, g)
      BY <1>1, <1>3, <1>5, <3>1
    <3>. QED
      BY <3>2 DEF _record, g
  <2>2. \E added : Tells(j, added)
    BY <1>1, <1>3, <1>5, <2>1, RecordTells DEF Settles, JOB_STATES, Reasons
  <2>. QED
    BY <1>1, <1>2, <2>2 DEF JobStep, Moves
<1>. QED
  BY <1>1, <1>4, <1>5 DEF Unready

LEMMA SettleRunningSteps ==
    ASSUME TypeOK, NEW j \in Jobs, NEW outcome \in {"succeeded", "failed"},
           SettleRunning(j, outcome)
    PROVE  JobStep(j)
<1>1. /\ state[j] = "running" /\ state'[j] = outcome
      /\ UNCHANGED <<attachments, identity>>
      /\ _record(j, "running", outcome, "native unit reported",
                 FrozenOrAttached(j))
      /\ FrozenOrAttached(j) \in Seq(Digests)
      /\ {"running", outcome} \subseteq JOB_STATES
      /\ "native unit reported" \in Reasons
  BY DEF SettleRunning, attachVars, TypeOK, FrozenOrAttached, JOB_STATES, Reasons
<1>2. Alone(j)
  BY DEF SettleRunning, attachVars, Alone, TypeOK
<1>3. \E added : Tells(j, added)
  BY <1>1, RecordTells DEF Settles
<1>. QED
  BY <1>1, <1>2, <1>3 DEF JobStep, Moves

(* Every step changes nothing of any job, or one job, as above. *)
LEMMA StepShape ==
    ASSUME TypeOK, [Next]_vars
    PROVE  UNCHANGED <<jobVars, attachVars, events>> \/ \E j \in Jobs : JobStep(j)
<1>1. CASE Prepare
  BY <1>1, PrepareSteps DEF Prepare, PrepareAgain
<1>2. ASSUME NEW j \in Jobs, NEW k \in Keys, Call(j, k)
      PROVE  UNCHANGED <<jobVars, attachVars, events>> \/ JobStep(j)
  <2>1. ASSUME NEW r \in AttachRequests, Attach(j, k, r)
        PROVE  UNCHANGED <<jobVars, attachVars, events>> \/ JobStep(j)
    BY <2>1, AttachQuiet, AttachQuarantines, QuarantineSteps, AttachRecordsSteps
    DEF Attach
  <2>2. ASSUME NEW r \in ExecuteRequests, Execute(j, k, r)
        PROVE  UNCHANGED <<jobVars, attachVars, events>> \/ JobStep(j)
    BY <2>2, ExecuteQuiet, ExecuteRunsSteps DEF Execute
  <2>3. ASSUME NEW r \in ControlRequests, Cancel(j, k, r) \/ QuarantineJob(j, k, r)
        PROVE  UNCHANGED <<jobVars, attachVars, events>> \/ JobStep(j)
    BY <2>3, ControlQuiet, ControlSteps DEF Cancel, QuarantineJob
  <2>. QED
    BY <1>2, <2>1, <2>2, <2>3 DEF Call
<1>3. CASE Deployment
  BY <1>3, MarkReadySteps, SettleRunningSteps
  DEF Deployment, Foundry, Tick, Revoke
<1>4. CASE UNCHANGED vars
  BY <1>4 DEF vars
<1>. QED
  BY <1>1, <1>2, <1>3, <1>4 DEF Next

(* Appended events: the old ones keep their places. *)
LEMMA EventsAdded ==
    ASSUME events \in Seq(EventType), NEW added \in Seq(EventType),
           events' = events \o added
    PROVE  /\ events' \in Seq(EventType)
           /\ DOMAIN events' = 1 .. Len(events) + Len(added)
           /\ DOMAIN events = 1 .. Len(events) /\ Len(events) \in Nat
           /\ DOMAIN added = 1 .. Len(added) /\ Len(added) \in Nat
           /\ \A n \in DOMAIN events :
                n \in DOMAIN events' /\ events'[n] = events[n]
           /\ \A n \in DOMAIN events' :
                n \in DOMAIN events
                \/ \E i \in DOMAIN added : n = Len(events) + i
                                         /\ events'[n] = added[i]
<1>1. /\ Len(events) \in Nat /\ Len(added) \in Nat
      /\ DOMAIN events = 1 .. Len(events) /\ DOMAIN added = 1 .. Len(added)
  BY LenProperties
<1>2. /\ events' \in Seq(EventType) /\ Len(events') = Len(events) + Len(added)
      /\ \A n \in 1 .. Len(events) + Len(added) :
            events'[n] = IF n <= Len(events) THEN events[n]
                         ELSE added[n - Len(events)]
  BY ConcatProperties
<1>3. DOMAIN events' = 1 .. Len(events) + Len(added)
  BY <1>2, LenProperties
<1>4. ASSUME NEW n \in DOMAIN events', n \notin DOMAIN events
      PROVE  \E i \in DOMAIN added : n = Len(events) + i
                                   /\ events'[n] = added[i]
  <2>1. n - Len(events) \in DOMAIN added /\ events'[n] = added[n - Len(events)]
    BY <1>1, <1>2, <1>3, <1>4
  <2>2. n = Len(events) + (n - Len(events))
    BY <1>1, <1>3
  <2>. QED
    BY <2>1, <2>2
<1>. QED
  BY <1>1, <1>2, <1>3, <1>4
-----------------------------------------------------------------------------
(* What a step may never do *)

LEMMA NextIsRecorded ==
    ASSUME TypeOK, [Next]_vars, NEW j \in Jobs
    PROVE  \/ UNCHANGED <<state[j], source[j], policy[j], frozen[j],
                          identity[j], quarantine_reason[j], attachments[j],
                          evidence[j]>>
           \/ /\ Len(events') > Len(events)
              /\ \A n \in Len(events) + 1 .. Len(events') :
                    events'[n].job_id = j
<1>1. CASE UNCHANGED <<jobVars, attachVars, events>>
  BY <1>1 DEF jobVars, attachVars
<1>2. ASSUME NEW i \in Jobs, JobStep(i), i # j
      PROVE  UNCHANGED <<state[j], source[j], policy[j], frozen[j], identity[j],
                         quarantine_reason[j], attachments[j], evidence[j]>>
  BY <1>2 DEF JobStep, Alone
<1>3. ASSUME JobStep(j)
      PROVE  /\ Len(events') > Len(events)
             /\ \A n \in Len(events) + 1 .. Len(events') :
                   events'[n].job_id = j
  <2>1. PICK added : Tells(j, added)
    BY <1>3 DEF JobStep
  <2>2. /\ added \in Seq(EventType) /\ Len(added) \in {1, 2}
        /\ events' = events \o added
        /\ \A n \in 1 .. Len(added) : added[n].job_id = j
    BY <2>1 DEF Tells
  <2>3. events \in Seq(EventType) /\ Len(events) \in Nat
    BY LenProperties DEF TypeOK
  <2>4. /\ Len(events') = Len(events) + Len(added)
        /\ \A n \in 1 .. Len(events) + Len(added) :
              events'[n] = IF n <= Len(events) THEN events[n]
                           ELSE added[n - Len(events)]
    BY <2>2, <2>3, ConcatProperties
  <2>5. ASSUME NEW n \in Len(events) + 1 .. Len(events')
        PROVE  events'[n].job_id = j
    <3>1. /\ n \in 1 .. Len(events) + Len(added) /\ ~(n <= Len(events))
          /\ n - Len(events) \in 1 .. Len(added)
      BY <2>2, <2>3, <2>4
    <3>. QED
      BY <2>2, <2>4, <3>1
  <2>. QED
    BY <2>2, <2>3, <2>4, <2>5
<1>. QED
  BY <1>1, <1>2, <1>3, StepShape

(* The audit log leaves nothing out: no step changes a job or its           *)
(* artifacts without an event of that job, and none writes an event of      *)
(* another.                                                                 *)
THEOREM ChangesRecorded == Spec => ChangesAreRecorded
<1>1. TypeOK /\ [Next]_vars =>
        [\A j \in Jobs :
          \/ UNCHANGED <<state[j], source[j], policy[j], frozen[j],
                         identity[j], quarantine_reason[j], attachments[j],
                         evidence[j]>>
          \/ /\ Len(events') > Len(events)
             /\ \A n \in Len(events) + 1 .. Len(events') :
                   events'[n].job_id = j]_vars
  BY NextIsRecorded
<1>. QED
  BY <1>1, TypeCorrect, PTL DEF Spec, ChangesAreRecorded

LEMMA NextRefusesQuietly ==
    ASSUME TypeOK, [Next]_vars, NEW j \in Jobs, NEW k \in Keys,
           idempotency[j][k] = None, idempotency'[j][k] # None,
           idempotency'[j][k].response.code \in Refusals
    PROVE  UNCHANGED <<jobVars, attachVars, events>>
<1>1. BindsKey(j, k)
  BY BindsOneKey
<1>2. ASSUME NEW payload, NEW op, NEW code, NEW st,
             _idem_store(j, k, payload, Response(op, code, st))
      PROVE  code \in Refusals
  <2>1. idempotency'[j][k] =
          [payload |-> payload, response |-> Response(op, code, st)]
    BY <1>2, StoredSlot
  <2>. QED
    BY <2>1 DEF Response
<1>3. ASSUME NEW r \in AttachRequests, Quarantines(j, k, r)
      PROVE  FALSE
  <2>1. PICK code \in {"artifact_invalid", "artifact_verification",
                       "receipt_untrusted", "receipt_conflict"} :
          _idem_store(j, k, AttachPayload(r),
                      Response("attach", code, "quarantined"))
    BY <1>3 DEF Quarantines, QuarantineForFailure
  <2>. QED
    BY <1>2, <2>1 DEF Refusals
<1>4. ASSUME NEW r \in AttachRequests, AttachRecords(j, k, r)
      PROVE  FALSE
  <2>1. _idem_store(j, k, AttachPayload(r), Response("attach", "ok", state[j]))
    BY <1>4 DEF AttachRecords
  <2>. QED
    BY <1>2, <2>1 DEF Refusals
<1>5. ASSUME NEW r \in ExecuteRequests, ExecuteRuns(j, k, r)
      PROVE  FALSE
  <2>1. _idem_store(j, k, ExecutePayload(r),
                    Response("execute", "ok", "running"))
    BY <1>5 DEF ExecuteRuns
  <2>. QED
    BY <1>2, <2>1 DEF Refusals
<1>6. ASSUME NEW op, NEW st, NEW r \in ControlRequests, Control(op, j, k, r, st)
      PROVE  FALSE
  <2>1. _idem_store(j, k, ControlPayload(op, r), Response(op, "ok", st))
    BY <1>6 DEF Control
  <2>. QED
    BY <1>2, <2>1 DEF Refusals
<1>. QED
  BY <1>1, <1>3, <1>4, <1>5, <1>6, AttachQuiet, ExecuteQuiet DEF BindsKey

(* A refusal that is made durable costs the job nothing. *)
THEOREM RefusalsAreQuiet == Spec => RefusalsMutateNothing
<1>1. TypeOK /\ [Next]_vars =>
        [\A j \in Jobs, k \in Keys :
          (/\ idempotency[j][k] = None
           /\ idempotency'[j][k] # None
           /\ idempotency'[j][k].response.code \in Refusals)
            => UNCHANGED <<jobVars, attachVars, events>>]_vars
  BY NextRefusesQuietly
<1>. QED
  BY <1>1, TypeCorrect, PTL DEF Spec, RefusalsMutateNothing
(* A job's state moves as Moves says, or not at all. *)
LEMMA StateMoves ==
    ASSUME TypeOK, [Next]_vars, NEW j \in Jobs
    PROVE  /\ state'[j] = state[j] \/ Moves(state[j], state'[j])
           /\ identity[j] # None => identity'[j] # None
<1>1. CASE UNCHANGED <<jobVars, attachVars, events>>
  BY <1>1 DEF jobVars
<1>2. ASSUME NEW i \in Jobs, JobStep(i)
      PROVE  /\ state'[j] = state[j] \/ Moves(state[j], state'[j])
             /\ identity[j] # None => identity'[j] # None
  BY <1>2 DEF JobStep, Alone
<1>. QED
  BY <1>1, <1>2, StepShape
=============================================================================
