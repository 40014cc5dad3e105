--------------------------- MODULE GatewayApi_proofs ---------------------------
(***************************************************************************)
(* What a caller may conclude from the answers of /v3 (AnswersStand,       *)
(* ContentsBindTheirKey, ErrorsAreConclusive), for every value of the      *)
(* constants.  All three say that an answer, however old, still agrees     *)
(* with the slot of its key, so that is the invariant; what the slot says  *)
(* must in turn agree with the job and its events.                         *)
(***************************************************************************)
EXTENDS GatewayApi, FoundryJobs_log

(* The endpoints take only the client's steps, or none. *)
LEMMA ApiSteps == [ApiNext]_apiVars => [Next]_vars
<1>1. ASSUME NEW j \in Jobs, NEW k \in Keys, ApiCall(j, k)
      PROVE  Call(j, k) \/ UNCHANGED vars
  BY <1>1
  DEF ApiCall, v3_attach, v3_execute, v3_cancel, v3_quarantine, Call,
      SchemaRefuses
<1>2. UNCHANGED apiVars => UNCHANGED vars
  BY DEF apiVars
<1>. QED
  BY <1>1, <1>2 DEF ApiNext, Next

LEMMA ApiImplementsClient == ApiSpec => Spec
BY ApiSteps, PTL DEF ApiSpec, ApiInit, Spec
-----------------------------------------------------------------------------
(* What a bound key says of its job *)

(* The answers that bind no key. *)
Unbinding == {"job_not_found", "schema"}

SlotTold(j, k) ==
    LET slot == idempotency[j][k]
    IN  slot # None =>
          /\ slot.response.code \notin Unbinding
          /\ (slot.response.op = "attach" /\ slot.response.code \in Verdicts)
               => state[j] = "quarantined"

IsLauncher(j, k) ==
    /\ idempotency[j][k] # None
    /\ idempotency[j][k].response.op = "execute"
    /\ idempotency[j][k].response.code = "ok"

SlotInv ==
    /\ \A j \in Jobs, k \in Keys : SlotTold(j, k)
    /\ \A n \in DOMAIN events :
          events[n].token # None => IsLauncher(events[n].job_id, events[n].token)

LEMMA InitSlots == Init => SlotInv
BY DEF Init, SlotInv, SlotTold

(* A key that is bound stays so, and a quarantined job too. *)
LEMMA SlotStays ==
    ASSUME TypeOK, [Next]_vars, NEW j \in Jobs, NEW k \in Keys
    PROVE  /\ idempotency[j][k] # None => idempotency'[j][k] = idempotency[j][k]
           /\ state[j] = "quarantined" => state'[j] = "quarantined"
<1>1. idempotency[j][k] # None => idempotency'[j][k] = idempotency[j][k]
  <2>1. RecordsKept \/ UNCHANGED vars
    BY NextKeeps
  <2>2. CASE RecordsKept
    BY <2>2 DEF RecordsKept
  <2>3. CASE UNCHANGED vars
    BY <2>3 DEF vars, idemVars
  <2>. QED
    BY <2>1, <2>2, <2>3
<1>2. state[j] = "quarantined" => state'[j] = "quarantined"
  BY StateMoves
  DEF Moves, Unready, ATTACHABLE_STATES, NON_TERMINAL_STATES, TERMINAL_STATES
<1>. QED
  BY <1>1, <1>2

(* Only a launch puts a token into the log. *)
LEMMA TokensKept ==
    ASSUME TypeOK, [Next]_vars, ~Runs, NEW n \in DOMAIN events',
           events'[n].token # None
    PROVE  n \in DOMAIN events /\ events'[n] = events[n]
<1>1. CASE UNCHANGED events
  BY <1>1
<1>2. ASSUME NEW j \in Jobs, JobStep(j)
      PROVE  n \in DOMAIN events /\ events'[n] = events[n]
  <2>1. PICK added : Tells(j, added)
    BY <1>2 DEF JobStep
  <2>2. /\ added \in Seq(EventType) /\ events \in Seq(EventType)
        /\ events' = events \o added
    BY <2>1 DEF Tells, TypeOK
  <2>3. state'[j] # "running"
    <3>1. Moves(state[j], state'[j])
      BY <1>2 DEF JobStep
    <3>2. state[j] = "running" \/ state'[j] # "running"
      BY OnlyExecuteRuns
    <3>. QED
      BY <3>1, <3>2 DEF Moves, Unready, ATTACHABLE_STATES
  <2>4. DOMAIN added = 1 .. Len(added)
    BY <2>2, EventsAdded
  <2>5. \A i \in DOMAIN added : added[i].token = None
    BY <2>1, <2>3, <2>4 DEF Tells
  <2>6. \/ n \in DOMAIN events
        \/ \E i \in DOMAIN added : events'[n] = added[i]
    BY <2>2, EventsAdded
  <2>7. n \in DOMAIN events
    BY <2>5, <2>6
  <2>8. events'[n] = events[n]
    BY <2>2, <2>7, EventsAdded
  <2>. QED
    BY <2>7, <2>8
<1>. QED
  BY <1>1, <1>2, StepShape

(* A launch puts the key it is answered under into the log, and no other.   *)
LEMMA LaunchToken ==
    ASSUME TypeOK, NEW j \in Jobs, NEW k \in Keys, NEW r \in ExecuteRequests,
           ExecuteRuns(j, k, r)
    PROVE  /\ IsLauncher(j, k)'
           /\ \A n \in DOMAIN events' :
                 \/ n \in DOMAIN events /\ events'[n] = events[n]
                 \/ events'[n].token = None
                 \/ events'[n].token = k /\ events'[n].job_id = j
<1>. DEFINE e == Event(Len(events) + 1, j, "ready", "ready",
                       "launch reserved", k, attachments[j])
            f == Event(Len(events) + 2, j, "ready", "running",
                       "executing", None, attachments[j])
<1>1. /\ events' = events \o <<e, f>>
      /\ _idem_store(j, k, ExecutePayload(r),
                     Response("execute", "ok", "running"))
  BY DEF ExecuteRuns
<1>2. e \in EventType /\ f \in EventType
  <2>1. Len(events) \in Nat
    BY LenProperties DEF TypeOK
  <2>2. Len(events) + 1 \in Nat \ {0} /\ Len(events) + 2 \in Nat \ {0}
    BY <2>1
  <2>. QED
    BY <2>2, EventTyped DEF TypeOK, JOB_STATES, Reasons
<1>3. e.job_id = j /\ e.token = k /\ f.token = None
  BY DEF Event
<1>4. events' = events \o <<e, f>>
  BY <1>1
<1>. HIDE DEF e, f
<1>. DEFINE added == <<e, f>>
<1>5. /\ added \in Seq(EventType) /\ DOMAIN added = {1, 2}
      /\ added[1] = e /\ added[2] = f
  BY <1>2
<1>6. events \in Seq(EventType)
  BY DEF TypeOK
<1>7. events' = events \o added
  BY <1>4
<1>. HIDE DEF added
<1>8. \A n \in DOMAIN events' :
         \/ n \in DOMAIN events /\ events'[n] = events[n]
         \/ \E i \in DOMAIN added : events'[n] = added[i]
  BY <1>5, <1>6, <1>7, EventsAdded
<1>9. IsLauncher(j, k)'
  <2>1. idempotency'[j][k] =
          [payload  |-> ExecutePayload(r),
           response |-> Response("execute", "ok", "running")]
    BY <1>1, StoredSlot
  <2>2. idempotency'[j][k] \in Slots
    BY <2>1 DEF Slots, Payloads, Responses, Response, Codes, JOB_STATES
  <2>3. idempotency'[j][k] # None
    BY <2>2, NoneAssumption
  <2>. QED
    BY <2>1, <2>3 DEF IsLauncher, Response
<1>. QED
  BY <1>3, <1>5, <1>8, <1>9
(* What an attach that is answered for the first time stores. *)
LEMMA AttachStores ==
    ASSUME TypeOK, NEW j \in Jobs, NEW k \in Keys, NEW r \in AttachRequests,
           AttachRejected(j, k, r) \/ Quarantines(j, k, r)
    PROVE  \E code \in Codes, st \in JOB_STATES :
              /\ _idem_store(j, k, AttachPayload(r), Response("attach", code, st))
              /\ code \notin Unbinding
              /\ code \in Verdicts => state'[j] = "quarantined"
<1>1. CASE AttachRejected(j, k, r)
  <2>1. state[j] \in JOB_STATES
    BY <1>1 DEF AttachRejected, Begin, TypeOK
  <2>2. \E code \in {"stale_generation", "illegal_transition",
                     "verifier_not_configured"} :
           _idem_store(j, k, AttachPayload(r), Response("attach", code, state[j]))
    BY <1>1 DEF AttachRejected, StoredFailure
  <2>. QED
    BY <2>1, <2>2 DEF Codes, Verdicts, Unbinding
<1>2. CASE Quarantines(j, k, r)
  <2>1. \E code \in Verdicts :
           _idem_store(j, k, AttachPayload(r),
                       Response("attach", code, "quarantined"))
    BY <1>2 DEF Quarantines, QuarantineForFailure, Verdicts
  <2>2. state'[j] = "quarantined"
    BY <1>2 DEF Quarantines, QuarantineForFailure, TypeOK
  <2>. QED
    BY <2>1, <2>2 DEF Codes, JOB_STATES, Verdicts, Unbinding
<1>. QED
  BY <1>1, <1>2

LEMMA SlotsKept ==
    ASSUME TypeOK, AnswerInv, SlotInv, [Next]_vars, NEW j \in Jobs, NEW k \in Keys
    PROVE  SlotTold(j, k)'
<1>1. CASE idempotency'[j][k] = idempotency[j][k]
  <2>1. SlotTold(j, k)
    BY DEF SlotInv
  <2>2. state[j] = "quarantined" => state'[j] = "quarantined"
    BY SlotStays
  <2>. QED
    BY <1>1, <2>1, <2>2 DEF SlotTold
<1>2. CASE idempotency'[j][k] # idempotency[j][k]
  <2>1. BindsKey(j, k)
    BY <1>2, BindsOneKey
  <2>2. ASSUME NEW payload, NEW op, NEW code, NEW st,
               _idem_store(j, k, payload, Response(op, code, st)),
               code \notin Unbinding,
               (op = "attach" /\ code \in Verdicts) => state'[j] = "quarantined"
        PROVE  SlotTold(j, k)'
    <3>1. idempotency'[j][k] =
            [payload |-> payload, response |-> Response(op, code, st)]
      BY <2>2, StoredSlot
    <3>2. /\ idempotency'[j][k].response.op = op
          /\ idempotency'[j][k].response.code = code
      BY <3>1 DEF Response
    <3>. QED
      BY <2>2, <3>2 DEF SlotTold
  <2>3. ASSUME NEW r \in AttachRequests,
               AttachRejected(j, k, r) \/ Quarantines(j, k, r)
        PROVE  SlotTold(j, k)'
    BY <2>2, <2>3, AttachStores
  <2>4. ASSUME NEW r \in AttachRequests, AttachReplaysReceipt(j, k, r)
        PROVE  SlotTold(j, k)'
    <3>. DEFINE row == RowKey(j, r)
    <3>1. /\ registry[row] # None
          /\ _idem_store(j, k, AttachPayload(r), registry[row].response)
      BY <2>4 DEF AttachReplaysReceipt, OriginalResponse
    <3>2. registry[row].response.code = "ok"
      BY <3>1, AttachFacts DEF AnswerInv
    <3>3. idempotency'[j][k] =
            [payload |-> AttachPayload(r), response |-> registry[row].response]
      BY <3>1, StoredSlot
    <3>. QED
      BY <3>2, <3>3 DEF SlotTold, Verdicts, Unbinding
  <2>5. ASSUME NEW r \in AttachRequests, AttachRecords(j, k, r)
        PROVE  SlotTold(j, k)'
    <3>1. _idem_store(j, k, AttachPayload(r), Response("attach", "ok", state[j]))
      BY <2>5 DEF AttachRecords
    <3>. QED
      BY <2>2, <3>1 DEF Verdicts, Unbinding
  <2>6. ASSUME NEW r \in ExecuteRequests,
               ExecuteRejected(j, k, r) \/ ExecuteRuns(j, k, r)
        PROVE  SlotTold(j, k)'
    <3>1. \E code, st : /\ code \notin Unbinding
                        /\ _idem_store(j, k, ExecutePayload(r),
                                       Response("execute", code, st))
      BY <2>6 DEF ExecuteRejected, StoredFailure, ExecuteRuns, Unbinding
    <3>. QED
      BY <2>2, <3>1
  <2>7. ASSUME NEW r \in ControlRequests,
               \/ Control("cancel", j, k, r, "cancel_requested")
               \/ Control("quarantine", j, k, r, "quarantined")
        PROVE  SlotTold(j, k)'
    <3>1. \E op \in {"cancel", "quarantine"} : \E st :
             _idem_store(j, k, ControlPayload(op, r), Response(op, "ok", st))
      BY <2>7 DEF Control
    <3>. QED
      BY <2>2, <3>1 DEF Unbinding
  <2>. QED
    BY <2>1, <2>3, <2>4, <2>5, <2>6, <2>7 DEF BindsKey
<1>. QED
  BY <1>1, <1>2

LEMMA LaunchersStay ==
    ASSUME TypeOK, [Next]_vars, NEW j \in Jobs, NEW k \in Keys, IsLauncher(j, k)
    PROVE  IsLauncher(j, k)'
<1>1. idempotency'[j][k] = idempotency[j][k]
  BY SlotStays DEF IsLauncher
<1>. QED
  BY <1>1 DEF IsLauncher

LEMMA NextKeepsSlots ==
    ASSUME TypeOK, TypeOK', AnswerInv, SlotInv, [Next]_vars
    PROVE  SlotInv'
<1>1. ASSUME NEW n \in DOMAIN events', events'[n].token # None
      PROVE  IsLauncher(events[n].job_id, events[n].token)'
  <2>1. events'[n].job_id \in Jobs /\ events'[n].token \in Keys
    <3>1. events' \in Seq(EventType)
      BY DEF TypeOK
    <3>2. events'[n] \in EventType
      BY <3>1
    <3>. QED
      BY <1>1, <3>2 DEF EventType
  <2>2. CASE n \in DOMAIN events /\ events'[n] = events[n]
    <3>1. IsLauncher(events[n].job_id, events[n].token)
      BY <1>1, <2>2 DEF SlotInv
    <3>. DEFINE i == events[n].job_id
                l == events[n].token
    <3>2. i \in Jobs /\ l \in Keys /\ IsLauncher(i, l)
      BY <2>1, <2>2, <3>1
    <3>3. idempotency'[i][l] = idempotency[i][l]
      BY <3>2, SlotStays DEF IsLauncher
    <3>. QED
      BY <2>2, <3>2, <3>3 DEF IsLauncher
  <2>3. CASE ~(n \in DOMAIN events /\ events'[n] = events[n])
    <3>1. PICK j \in Jobs, k \in Keys, r \in ExecuteRequests : ExecuteRuns(j, k, r)
      BY <1>1, <2>3, TokensKept DEF Runs
    <3>2. events'[n].token = k /\ events'[n].job_id = j /\ IsLauncher(j, k)'
      BY <1>1, <2>3, <3>1, LaunchToken
    <3>. QED
      BY <3>2 DEF IsLauncher
  <2>. QED
    BY <2>2, <2>3
<1>. QED
  BY <1>1, SlotsKept DEF SlotInv
-----------------------------------------------------------------------------
(* Answers agree with the slots *)

(* An answer of the client to an attach or an execute is what its slot says; *)
(* a cancel or a quarantine may leave its key free.  A verdict on the        *)
(* artifact or its receipt has quarantined the job.                          *)
Fits(j, a) ==
    /\ a.key \in Keys
    /\ (a.op \in Contents /\ Handled(a)) =>
          LET slot == idempotency[j][a.key]
          IN  /\ slot # None
              /\ a.code = IF slot.payload = a.payload THEN slot.response.code
                                                      ELSE "idempotency_conflict"
    /\ (a.op = "attach" /\ a.code \in Verdicts) => state[j] = "quarantined"

(* The call that bound a key has been answered. *)
Accounted(j, c) ==
    BoundBy(c[1], j, c[2]) => \E a \in answers[j] : Handled(a) /\ <<a.op, a.key>> = c

AnswersInv ==
    /\ DOMAIN answers = Jobs
    /\ \A j \in Jobs : \A a \in answers[j] : Fits(j, a)
    /\ \A j \in Jobs : \A c \in Watched : Accounted(j, c)

(* An answer that fits the slots goes on fitting them. *)
LEMMA FitStays ==
    ASSUME TypeOK, [Next]_vars, NEW j \in Jobs, NEW a, Fits(j, a)
    PROVE  Fits(j, a)'
<1>1. a.key \in Keys
  BY DEF Fits
<1>2. /\ idempotency[j][a.key] # None =>
           idempotency'[j][a.key] = idempotency[j][a.key]
      /\ state[j] = "quarantined" => state'[j] = "quarantined"
  BY <1>1, SlotStays
<1>. QED
  BY <1>2 DEF Fits, Handled

(* An attach or an execute of a job there is binds a free key. *)
LEMMA ContentBinds ==
    ASSUME TypeOK, NEW j \in Jobs, NEW k \in Keys, NEW payload,
           idempotency[j][k] = None, state[j] # "absent",
           \/ \E r \in AttachRequests :
                 Attach(j, k, r) /\ payload = AttachPayload(r)
           \/ \E r \in ExecuteRequests :
                 Execute(j, k, r) /\ payload = ExecutePayload(r)
    PROVE  idempotency'[j][k] # None /\ idempotency'[j][k].payload = payload
<1>1. ASSUME NEW response \in Responses, payload \in Payloads,
             _idem_store(j, k, payload, response)
      PROVE  idempotency'[j][k] # None /\ idempotency'[j][k].payload = payload
  <2>1. idempotency'[j][k] = [payload |-> payload, response |-> response]
    BY <1>1, StoredSlot
  <2>2. idempotency'[j][k] \in Slots
    BY <1>1, <2>1 DEF Slots
  <2>. QED
    BY <2>1, <2>2, NoneAssumption
<1>2. ASSUME NEW op \in {"attach", "execute"}, NEW code \in Codes,
             NEW st \in JOB_STATES
      PROVE  Response(op, code, st) \in Responses
  BY DEF Response, Responses
<1>3. ASSUME NEW r \in AttachRequests, Attach(j, k, r), payload = AttachPayload(r)
      PROVE  idempotency'[j][k] # None /\ idempotency'[j][k].payload = payload
  <2>1. payload \in Payloads /\ state[j] \in JOB_STATES
    BY <1>3, AttachFacts DEF TypeOK
  <2>2. CASE AttachRejected(j, k, r) \/ Quarantines(j, k, r)
    BY <1>1, <1>2, <1>3, <2>1, <2>2, AttachStores
  <2>3. CASE AttachReplaysReceipt(j, k, r)
    <3>1. /\ registry[RowKey(j, r)] # None
          /\ _idem_store(j, k, payload, registry[RowKey(j, r)].response)
      BY <1>3, <2>3 DEF AttachReplaysReceipt, OriginalResponse
    <3>2. registry[RowKey(j, r)] \in Rows
      BY <3>1, AttachFacts DEF TypeOK
    <3>3. registry[RowKey(j, r)].response \in Responses
      BY <3>2 DEF Rows
    <3>. QED
      BY <1>1, <2>1, <3>1, <3>3
  <2>4. CASE AttachRecords(j, k, r)
    <3>1. _idem_store(j, k, payload, Response("attach", "ok", state[j]))
      BY <1>3, <2>4 DEF AttachRecords
    <3>2. Response("attach", "ok", state[j]) \in Responses
      BY <1>2, <2>1 DEF Codes
    <3>. QED
      BY <1>1, <2>1, <3>1, <3>2
  <2>. QED
    BY <1>3, <2>2, <2>3, <2>4, AttachQuarantines
    DEF Attach, FromSlot, JobNotFound
<1>4. ASSUME NEW r \in ExecuteRequests, Execute(j, k, r), payload = ExecutePayload(r)
      PROVE  idempotency'[j][k] # None /\ idempotency'[j][k].payload = payload
  <2>1. payload \in Payloads /\ state[j] \in JOB_STATES
    BY <1>4 DEF Payloads, TypeOK
  <2>2. \E code \in Codes, st \in JOB_STATES :
           _idem_store(j, k, payload, Response("execute", code, st))
    <3>1. CASE ExecuteRejected(j, k, r)
      BY <1>4, <2>1, <3>1 DEF ExecuteRejected, StoredFailure, Codes
    <3>2. CASE ExecuteRuns(j, k, r)
      BY <1>4, <3>2 DEF ExecuteRuns, Codes, JOB_STATES
    <3>. QED
      BY <1>4, <3>1, <3>2 DEF Execute, FromSlot, JobNotFound
  <2>. QED
    BY <1>1, <1>2, <2>1, <2>2
<1>. QED
  BY <1>3, <1>4
(* The answer a step gives fits the slots it leaves. *)
LEMMA AnswerFits ==
    ASSUME TypeOK, AnswerInv, AnswerInv', SlotInv, SlotInv', [Next]_vars,
           NEW j \in Jobs, NEW k \in Keys, NEW payload, NEW expected, NEW a,
           NEW code, code = CodeOf(j, k, payload, expected),
           a = [op |-> payload.op, key |-> k, payload |-> payload,
                code |-> code, status |-> Status(code)],
           payload.op \in Contents =>
             \/ \E r \in AttachRequests :
                   Attach(j, k, r) /\ payload = AttachPayload(r)
             \/ \E r \in ExecuteRequests :
                   Execute(j, k, r) /\ payload = ExecutePayload(r)
    PROVE  Fits(j, a)'
<1>1. a.op = payload.op /\ a.key = k /\ a.payload = payload /\ a.code = code
  OBVIOUS
<1>2. SUFFICES ASSUME payload.op \in Contents
               PROVE  /\ Handled(a) =>
                           /\ idempotency'[j][k] # None
                           /\ code = IF idempotency'[j][k].payload = payload
                                       THEN idempotency'[j][k].response.code
                                       ELSE "idempotency_conflict"
                      /\ (payload.op = "attach" /\ code \in Verdicts)
                           => state'[j] = "quarantined"
  BY <1>1 DEF Fits, Handled, Contents
<1>3. CASE idempotency[j][k] # None
  <2>1. /\ code = IF idempotency[j][k].payload = payload
                    THEN idempotency[j][k].response.code
                    ELSE "idempotency_conflict"
        /\ idempotency'[j][k] = idempotency[j][k]
        /\ state[j] = "quarantined" => state'[j] = "quarantined"
    BY <1>3, SlotStays DEF CodeOf, SameRequest
  <2>2. SlotTold(j, k) /\ idempotency[j][k].response.op = idempotency[j][k].payload.op
    BY <1>3 DEF SlotInv, AnswerInv
  <2>. QED
    BY <1>3, <2>1, <2>2 DEF SlotTold, Verdicts
<1>4. CASE idempotency[j][k] = None /\ state[j] = "absent"
  <2>1. code = "job_not_found"
    BY <1>4 DEF CodeOf
  <2>2. ~Handled(a)
    BY <1>1, <2>1 DEF Handled
  <2>. QED
    BY <2>1, <2>2 DEF Verdicts
<1>5. CASE idempotency[j][k] = None /\ state[j] # "absent"
  <2>1. idempotency'[j][k] # None /\ idempotency'[j][k].payload = payload
    BY <1>2, <1>5, ContentBinds
  <2>2. code = idempotency'[j][k].response.code
    BY <1>5, <2>1 DEF CodeOf
  <2>3. /\ idempotency'[j][k].response.op = payload.op
        /\ SlotTold(j, k)'
    BY <2>1 DEF SlotInv, AnswerInv
  <2>. QED
    BY <2>1, <2>2, <2>3 DEF SlotTold
<1>. QED
  BY <1>3, <1>4, <1>5

(* A call binds a key to the payload it is answered for, if it binds one.   *)
LEMMA CallBinds ==
    ASSUME NEW j \in Jobs, NEW k \in Keys
    PROVE  /\ \A r \in AttachRequests : Attach(j, k, r) =>
                 \/ UNCHANGED idempotency
                 \/ /\ Begin(j, k)
                    /\ \E response : _idem_store(j, k, AttachPayload(r), response)
           /\ \A r \in ExecuteRequests : Execute(j, k, r) =>
                 \/ UNCHANGED idempotency
                 \/ /\ Begin(j, k)
                    /\ \E response : _idem_store(j, k, ExecutePayload(r), response)
           /\ \A r \in ControlRequests, op \in {"cancel", "quarantine"} :
                 (\/ op = "cancel" /\ Cancel(j, k, r)
                  \/ op = "quarantine" /\ QuarantineJob(j, k, r)) =>
                    \/ UNCHANGED idempotency
                    \/ /\ Begin(j, k)
                       /\ \E response :
                             _idem_store(j, k, ControlPayload(op, r), response)
<1>1. ASSUME NEW r \in AttachRequests, Attach(j, k, r)
      PROVE  \/ UNCHANGED idempotency
             \/ /\ Begin(j, k)
                /\ \E response : _idem_store(j, k, AttachPayload(r), response)
  BY <1>1
  DEF Attach, AttachRejected, StoredFailure, AttachFailsChecks, AttachConflicts,
      QuarantineForFailure, AttachReplaysReceipt, AttachRecords, AttachChecked,
      FromSlot, JobNotFound, idemVars
<1>2. ASSUME NEW r \in ExecuteRequests, Execute(j, k, r)
      PROVE  \/ UNCHANGED idempotency
             \/ /\ Begin(j, k)
                /\ \E response : _idem_store(j, k, ExecutePayload(r), response)
  BY <1>2
  DEF Execute, ExecuteRejected, StoredFailure, ExecuteRuns, FromSlot,
      JobNotFound, idemVars
<1>3. ASSUME NEW r \in ControlRequests, NEW op \in {"cancel", "quarantine"},
             \/ op = "cancel" /\ Cancel(j, k, r)
             \/ op = "quarantine" /\ QuarantineJob(j, k, r)
      PROVE  \/ UNCHANGED idempotency
             \/ /\ Begin(j, k)
                /\ \E response : _idem_store(j, k, ControlPayload(op, r), response)
  <2>1. \/ \E st : Control(op, j, k, r, st)
        \/ ControlFails(op, j, k, r)
        \/ FromSlot(op, j, k, ControlPayload(op, r), None)
        \/ JobNotFound(op, j, None)
    BY <1>3 DEF Cancel, QuarantineJob
  <2>. QED
    BY <2>1, ControlQuiet DEF Control, idemVars
<1>. QED
  BY <1>1, <1>2, <1>3

(* The endpoints' answers, whichever of them is called. *)
LEMMA CallAnswers ==
    ASSUME NEW j \in Jobs, NEW k \in Keys, ApiCall(j, k)
    PROVE  \/ \E op \in Operations : SchemaRefuses(op, j, k)
           \/ \E payload, expected :
                 /\ Answered(payload.op, j, k, payload, expected)
                 /\ payload.op \in Contents =>
                      \/ \E r \in AttachRequests :
                            Attach(j, k, r) /\ payload = AttachPayload(r)
                      \/ \E r \in ExecuteRequests :
                            Execute(j, k, r) /\ payload = ExecutePayload(r)
                 /\ \/ UNCHANGED idempotency
                    \/ /\ Begin(j, k)
                       /\ \E response : _idem_store(j, k, payload, response)
<1>1. ASSUME NEW r \in AttachRequests, v3_attach(j, k, r)
      PROVE  \E payload, expected :
                /\ Answered(payload.op, j, k, payload, expected)
                /\ Attach(j, k, r) /\ payload = AttachPayload(r)
                /\ \/ UNCHANGED idempotency
                   \/ /\ Begin(j, k)
                      /\ \E response : _idem_store(j, k, payload, response)
  <2>1. AttachPayload(r).op = "attach"
    BY DEF AttachPayload
  <2>2. \/ UNCHANGED idempotency
        \/ /\ Begin(j, k)
           /\ \E response : _idem_store(j, k, AttachPayload(r), response)
    BY <1>1, CallBinds DEF v3_attach
  <2>. QED
    BY <1>1, <2>1, <2>2 DEF v3_attach
<1>2. ASSUME NEW r \in ExecuteRequests, v3_execute(j, k, r)
      PROVE  \E payload, expected :
                /\ Answered(payload.op, j, k, payload, expected)
                /\ Execute(j, k, r) /\ payload = ExecutePayload(r)
                /\ \/ UNCHANGED idempotency
                   \/ /\ Begin(j, k)
                      /\ \E response : _idem_store(j, k, payload, response)
  <2>1. ExecutePayload(r).op = "execute"
    BY DEF ExecutePayload
  <2>2. \/ UNCHANGED idempotency
        \/ /\ Begin(j, k)
           /\ \E response : _idem_store(j, k, ExecutePayload(r), response)
    BY <1>2, CallBinds DEF v3_execute
  <2>. QED
    BY <1>2, <2>1, <2>2 DEF v3_execute
<1>3. ASSUME NEW r \in ControlRequests, v3_cancel(j, k, r) \/ v3_quarantine(j, k, r)
      PROVE  \E payload, expected :
                /\ Answered(payload.op, j, k, payload, expected)
                /\ payload.op \notin Contents
                /\ \/ UNCHANGED idempotency
                   \/ /\ Begin(j, k)
                      /\ \E response : _idem_store(j, k, payload, response)
  <2>1. PICK op \in {"cancel", "quarantine"} :
          /\ Answered(op, j, k, ControlPayload(op, r), r.expected_generation)
          /\ \/ op = "cancel" /\ Cancel(j, k, r)
             \/ op = "quarantine" /\ QuarantineJob(j, k, r)
    BY <1>3 DEF v3_cancel, v3_quarantine
  <2>2. ControlPayload(op, r).op = op /\ op \notin Contents
    BY DEF ControlPayload, Contents
  <2>3. \/ UNCHANGED idempotency
        \/ /\ Begin(j, k)
           /\ \E response : _idem_store(j, k, ControlPayload(op, r), response)
    BY <2>1, CallBinds
  <2>. QED
    BY <2>1, <2>2, <2>3
<1>. QED
  BY <1>1, <1>2, <1>3 DEF ApiCall

(* The answer of a call that binds its key accounts for it.                 *)
LEMMA BindingAnswered ==
    ASSUME TypeOK, AnswerInv', SlotInv', NEW j \in Jobs, NEW k \in Keys,
           NEW payload, NEW expected, NEW response,
           Begin(j, k), _idem_store(j, k, payload, response),
           BoundBy(payload.op, j, k)'
    PROVE  CodeOf(j, k, payload, expected) \notin Unbinding
<1>1. idempotency[j][k] = None /\ state[j] # "absent"
  BY DEF Begin
<1>2. idempotency'[j][k] # None
  BY DEF BoundBy
<1>3. CodeOf(j, k, payload, expected) = idempotency'[j][k].response.code
  BY <1>1, <1>2 DEF CodeOf
<1>. QED
  BY <1>2, <1>3 DEF SlotInv, SlotTold

LEMMA NextKeepsAnswersFit ==
    ASSUME TypeOK, AnswerInv, AnswerInv', SlotInv, SlotInv', AnswersInv,
           [ApiNext]_apiVars
    PROVE  AnswersInv'
<1>0. [Next]_vars
  BY ApiSteps
(* Answers given so far are kept; so is what they account for, where no key *)
(* is bound.                                                                *)
<1>1. ASSUME NEW i \in Jobs, NEW c \in Watched, answers[i] \subseteq answers'[i],
             idempotency'[i][c[2]] = idempotency[i][c[2]]
      PROVE  Accounted(i, c)'
  BY <1>1 DEF AnswersInv, Accounted, BoundBy, Handled
<1>2. ASSUME UNCHANGED answers, UNCHANGED idempotency
      PROVE  AnswersInv'
  BY <1>0, <1>1, <1>2, FitStays DEF AnswersInv
<1>3. ASSUME NEW j \in Jobs, NEW k \in Keys, NEW a, Given(j, a), Fits(j, a)',
             a.key = k,
             \A i \in Jobs, l \in Keys :
                <<i, l>> # <<j, k>> => idempotency'[i][l] = idempotency[i][l],
             \A op : (idempotency'[j][k] # idempotency[j][k] /\ BoundBy(op, j, k)')
                        => Handled(a) /\ a.op = op
      PROVE  AnswersInv'
  <2>1. /\ DOMAIN answers' = Jobs
        /\ \A i \in Jobs : /\ answers[i] \subseteq answers'[i]
                           /\ answers'[i] \subseteq answers[i] \cup {a}
                           /\ i # j => answers'[i] = answers[i]
        /\ <<a.op, a.key>> \in Watched => a \in answers'[j]
    BY <1>3 DEF AnswersInv, Given
  <2>2. ASSUME NEW i \in Jobs, NEW b \in answers'[i]
        PROVE  Fits(i, b)'
    <3>1. CASE b \in answers[i]
      <4>1. Fits(i, b)
        BY <3>1 DEF AnswersInv
      <4>. QED
        BY <1>0, <4>1, FitStays
    <3>2. CASE b \notin answers[i]
      <4>1. i = j /\ b = a
        BY <2>1, <3>2
      <4>. QED
        BY <1>3, <4>1
    <3>. QED
      BY <3>1, <3>2
  <2>3. ASSUME NEW i \in Jobs, NEW c \in Watched
        PROVE  Accounted(i, c)'
    <3>1. c[2] \in Keys /\ c = <<c[1], c[2]>>
      BY WatchedAssumption
    <3>2. CASE idempotency'[i][c[2]] = idempotency[i][c[2]]
      BY <1>1, <2>1, <3>2
    <3>3. CASE idempotency'[i][c[2]] # idempotency[i][c[2]]
      <4>1. i = j /\ c[2] = k
        BY <1>3, <3>1, <3>3
      <4>2. SUFFICES ASSUME BoundBy(c[1], j, k)'
                     PROVE  \E b \in answers'[j] : Handled(b) /\ <<b.op, b.key>> = c
        BY <4>1 DEF Accounted, Handled
      <4>3. Handled(a) /\ a.op = c[1]
        BY <1>3, <3>3, <4>1, <4>2
      <4>4. <<a.op, a.key>> = c
        BY <1>3, <3>1, <4>1, <4>3
      <4>. QED
        BY <2>1, <4>3, <4>4
    <3>. QED
      BY <3>2, <3>3
  <2>. QED
    BY <2>1, <2>2, <2>3 DEF AnswersInv
<1>4. ASSUME NEW j \in Jobs, NEW k \in Keys, NEW op \in Operations,
             SchemaRefuses(op, j, k)
      PROVE  AnswersInv'
  <2>1. PICK a : a = [op |-> op, key |-> k, payload |-> None,
                      code |-> "schema", status |-> 422]
    OBVIOUS
  <2>2. Given(j, a) /\ UNCHANGED idempotency
    BY <1>4, <2>1 DEF SchemaRefuses, vars, idemVars
  <2>3. a.key = k /\ a.code = "schema"
    BY <2>1
  <2>4. Fits(j, a)'
    BY <2>3 DEF Fits, Handled, Verdicts
  <2>. QED
    BY <1>3, <2>2, <2>3, <2>4
<1>5. ASSUME NEW j \in Jobs, NEW k \in Keys, ApiCall(j, k)
      PROVE  AnswersInv'
  <2>1. CASE \E op \in Operations : SchemaRefuses(op, j, k)
    BY <1>4, <2>1
  <2>2. CASE ~ \E op \in Operations : SchemaRefuses(op, j, k)
    <3>1. PICK payload, expected :
            /\ Answered(payload.op, j, k, payload, expected)
            /\ payload.op \in Contents =>
                 \/ \E r \in AttachRequests :
                       Attach(j, k, r) /\ payload = AttachPayload(r)
                 \/ \E r \in ExecuteRequests :
                       Execute(j, k, r) /\ payload = ExecutePayload(r)
            /\ \/ UNCHANGED idempotency
               \/ /\ Begin(j, k)
                  /\ \E response : _idem_store(j, k, payload, response)
      BY <1>5, <2>2, CallAnswers
    <3>2. PICK code : code = CodeOf(j, k, payload, expected)
      OBVIOUS
    <3>3. PICK a : a = [op |-> payload.op, key |-> k, payload |-> payload,
                        code |-> code, status |-> Status(code)]
      OBVIOUS
    <3>4. Given(j, a) /\ a.key = k /\ a.op = payload.op /\ a.code = code
      BY <3>1, <3>2, <3>3 DEF Answered
    <3>5. Fits(j, a)'
      BY <1>0, <3>1, <3>2, <3>3, AnswerFits
    <3>6. \A i \in Jobs, l \in Keys :
             <<i, l>> # <<j, k>> => idempotency'[i][l] = idempotency[i][l]
      BY <3>1, StoredSlot
    <3>7. ASSUME NEW op, idempotency'[j][k] # idempotency[j][k], BoundBy(op, j, k)'
          PROVE  Handled(a) /\ a.op = op
      <4>1. PICK response : Begin(j, k) /\ _idem_store(j, k, payload, response)
        BY <3>1, <3>7
      <4>2. idempotency'[j][k] = [payload |-> payload, response |-> response]
        BY <4>1, StoredSlot
      <4>3. payload.op = op
        <5>1. idempotency'[j][k] # None /\ idempotency'[j][k].response.op = op
          BY <3>7 DEF BoundBy
        <5>2. idempotency'[j][k].response.op = idempotency'[j][k].payload.op
          BY <5>1 DEF AnswerInv
        <5>. QED
          BY <4>2, <5>1, <5>2
      <4>4. code \notin Unbinding
        BY <3>2, <3>7, <4>1, <4>3, BindingAnswered
      <4>. QED
        BY <3>4, <4>3, <4>4 DEF Handled, Unbinding
    <3>. QED
      BY <1>3, <3>4, <3>5, <3>6, <3>7
  <2>. QED
    BY <2>1, <2>2
<1>6. ASSUME (Prepare \/ Deployment) /\ UNCHANGED answers
      PROVE  AnswersInv'
  <2>1. UNCHANGED idempotency
    BY <1>6
    DEF Prepare, PrepareNew, PrepareAgain, Deployment, Foundry, MarkReady,
        SettleRunning, Tick, Revoke, idemVars
  <2>. QED
    BY <1>2, <1>6, <2>1
<1>7. ASSUME UNCHANGED apiVars
      PROVE  AnswersInv'
  BY <1>2, <1>7 DEF apiVars, vars, idemVars
<1>. QED
  BY <1>5, <1>6, <1>7 DEF ApiNext

LEMMA InitAnswersFit == ApiInit => AnswersInv
<1>. SUFFICES ASSUME ApiInit PROVE AnswersInv
  OBVIOUS
<1>1. \A j \in Jobs, k \in Keys : idempotency[j][k] = None
  BY DEF ApiInit, Init
<1>2. ASSUME NEW j \in Jobs, NEW c \in Watched
      PROVE  Accounted(j, c)
  <2>1. c[2] \in Keys
    BY WatchedAssumption
  <2>. QED
    BY <1>1, <2>1 DEF Accounted, BoundBy
<1>. QED
  BY <1>2 DEF ApiInit, AnswersInv

(* The slots say what became of their jobs, the answers what the slots say. *)
THEOREM AnswersInvariant == ApiSpec => [](SlotInv /\ AnswersInv)
<1>1. TypeOK /\ TypeOK' /\ AnswerInv /\ AnswerInv' /\ SlotInv /\ AnswersInv
        /\ [ApiNext]_apiVars => (SlotInv /\ AnswersInv)'
  BY ApiSteps, NextKeepsSlots, NextKeepsAnswersFit
<1>2. ApiInit => SlotInv /\ AnswersInv
  BY InitSlots, InitAnswersFit DEF ApiInit
<1>3. Spec => [](TypeOK /\ AnswerInv)
  BY InitAnswers, NextKeepsAnswers, TypeCorrect, PTL DEF Spec
<1>. QED
  BY <1>1, <1>2, <1>3, ApiImplementsClient, PTL DEF ApiSpec

(* A caller who lost his answer to an attach or an execute gets the same    *)
(* one by asking again, whatever happened in between.                       *)
THEOREM AnswersAlwaysStand == ApiSpec => []AnswersStand
<1>1. AnswersInv => AnswersStand
  <2>. SUFFICES ASSUME AnswersInv, NEW j \in Jobs,
                       NEW a \in answers[j], NEW b \in answers[j],
                       Handled(a), Handled(b), a.op \in Contents,
                       <<a.op, a.key, a.payload>> = <<b.op, b.key, b.payload>>
                PROVE  a.code = b.code
    BY DEF AnswersStand
  <2>1. Fits(j, a) /\ Fits(j, b) /\ a.key = b.key /\ a.payload = b.payload
          /\ b.op \in Contents
    BY DEF AnswersInv
  <2>. QED
    BY <2>1 DEF Fits
<1>. QED
  BY <1>1, AnswersInvariant, PTL

(* No two attach or execute requests of a job are answered under one key,   *)
(* other than with a conflict.                                              *)
THEOREM ContentsBind == ApiSpec => []ContentsBindTheirKey
<1>1. AnswersInv => ContentsBindTheirKey
  <2>. SUFFICES ASSUME AnswersInv, NEW j \in Jobs,
                       NEW a \in answers[j], NEW b \in answers[j],
                       Handled(a), Handled(b), a.op \in Contents,
                       b.op \in Contents, a.key = b.key,
                       a.code # "idempotency_conflict",
                       b.code # "idempotency_conflict"
                PROVE  a.payload = b.payload
    BY DEF ContentsBindTheirKey, OneRequestPerKey
  <2>1. Fits(j, a) /\ Fits(j, b)
    BY DEF AnswersInv
  <2>. QED
    BY <2>1 DEF Fits
<1>. QED
  BY <1>1, AnswersInvariant, PTL

(* An attach with a verdict on its artifact or its receipt has quarantined   *)
(* the job; an execute refused by the client never launched it by that       *)
(* request; and an operation that was only refused by the schema, or for     *)
(* want of the job, has not bound its key.                                   *)
THEOREM ErrorsConclude == ApiSpec => []ErrorsAreConclusive
<1>1. SlotInv /\ AnswersInv => ErrorsAreConclusive
  <2>. SUFFICES ASSUME SlotInv, AnswersInv, NEW j \in Jobs
                PROVE  /\ \A a \in answers[j] :
                            /\ (a.op = "attach" /\ a.code \in Verdicts)
                                 => state[j] = "quarantined"
                            /\ (a.op = "execute" /\ Handled(a) /\ a.code # "ok")
                                 => \A n \in DOMAIN events :
                                      (events[n].job_id = j /\ events[n].token = a.key)
                                        => idempotency[j][a.key].payload # a.payload
                       /\ \A c \in Watched :
                            BoundBy(c[1], j, c[2])
                              => \E a \in answers[j] : Handled(a) /\ <<a.op, a.key>> = c
    BY DEF ErrorsAreConclusive
  <2>1. ASSUME NEW a \in answers[j], a.op = "attach", a.code \in Verdicts
        PROVE  state[j] = "quarantined"
    BY <2>1 DEF AnswersInv, Fits
  <2>2. ASSUME NEW a \in answers[j], a.op = "execute", Handled(a), a.code # "ok",
               NEW n \in DOMAIN events, events[n].job_id = j,
               events[n].token = a.key, idempotency[j][a.key].payload = a.payload
        PROVE  FALSE
    <3>1. Fits(j, a)
      BY DEF AnswersInv
    <3>2. a.key \in Keys /\ a.key # None
      BY <3>1, KeysAssumption DEF Fits
    <3>3. idempotency[j][a.key].response.code = "ok"
      BY <2>2, <3>2 DEF SlotInv, IsLauncher
    <3>4. a.code = "ok"
      BY <2>2, <3>1, <3>3 DEF Fits, Contents
    <3>. QED
      BY <2>2, <3>4
  <2>3. ASSUME NEW c \in Watched, BoundBy(c[1], j, c[2])
        PROVE  \E a \in answers[j] : Handled(a) /\ <<a.op, a.key>> = c
    BY <2>3 DEF AnswersInv, Accounted
  <2>. QED
    BY <2>1, <2>2, <2>3
<1>. QED
  BY <1>1, AnswersInvariant, PTL
=============================================================================
