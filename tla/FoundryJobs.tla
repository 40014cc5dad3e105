----------------------------- MODULE FoundryJobs -----------------------------
(***************************************************************************)
(* InMemoryFoundryClient (foundry.py): the Foundry v3 job machine behind   *)
(* the gateway's /v3 endpoints.  Every handler is synchronous and the      *)
(* endpoints call it without awaiting, so one handler is one step; what    *)
(* interleaves is the order in which callers' requests arrive, under any   *)
(* idempotency key, with any of the payloads below.                        *)
(*                                                                         *)
(* A handler that answers in several ways is one action per way out.       *)
(* Attempt ids, request hashes, actors and timestamps other than           *)
(* attached_at are left out; a job's generation is a variable although no  *)
(* handler changes it, because every fence compares with it.  launch_token *)
(* is left out as a field: execute_job sets and clears it inside one call, *)
(* so what remains of it is the token in the reservation event.            *)
(***************************************************************************)
EXTENDS AttachChecks, FiniteSets, Integers

CONSTANTS
    Jobs,              \* job ids prepare_job may draw
    Keys,              \* idempotency keys of the calls on one job
    PrepareKeys,       \* idempotency keys of prepare calls
    Digests,           \* payload digests manifests carry
    Generations,       \* generations calls expect
    PrepareRequests,   \* [project, source_digest, artifact_policy]
    AttachRequests,    \* attach requests, see AttachChecks
    ExecuteRequests,   \* [command, expected_generation, native_identity]
    ControlRequests,   \* cancel and quarantine: [expected_generation, reason]
    VerifierKind,      \* the injected receipt_verifier
    Issuers,           \* HmacReceiptVerifier.issuers
    InitialDirectory,  \* the receipts the deployment's directory knows at start
    MaxNow             \* bound of the gateway clock, for TLC

ASSUME GenerationsAssumption == 1 \in Generations /\ Generations \subseteq Nat
ASSUME VerifierKindAssumption == VerifierKind \in {"none", "hmac", "opaque"}
ASSUME DigestsAssumption ==
    \A r \in AttachRequests : r.manifest.payload_digest \in Digests
ASSUME MaxNowAssumption == MaxNow \in Nat

(* What the request schemas guarantee: a key is a string and not empty, a   *)
(* manifest has its fields, and a receipt is issued at some time.           *)
ManifestFields ==
    {"well_formed", "payload_digest", "payload_bytes", "source_commit",
     "verify_commands", "fields"}
ASSUME KeysAssumption == None \notin Keys
ASSUME AttachRequestsAssumption ==
    \A r \in AttachRequests :
        /\ ManifestFields \subseteq DOMAIN r.manifest
        /\ r.receipt.issued_at \in Int

JOB_STATES ==
    {"accepted", "preparing", "ready", "running", "succeeded", "failed",
     "cancel_requested", "cancelled", "interrupted", "unknown_outcome",
     "quarantined"}
TERMINAL_STATES ==
    {"succeeded", "failed", "cancelled", "interrupted", "unknown_outcome",
     "quarantined"}
NON_TERMINAL_STATES == JOB_STATES \ TERMINAL_STATES

(* Mutant: artifacts may be attached until the job ends. *)
ATTACHABLE_UntilTheEnd == NON_TERMINAL_STATES

ATTACHABLE_STATES == {"accepted", "preparing", "ready"}

VARIABLES
    state,             \* job.state, or "absent" before prepare_job
    generation,        \* job.generation
    source,            \* job.source_digest
    policy,            \* job.artifact_policy
    frozen,            \* job.frozen_artifact_digests
    identity,          \* job.native_identity
    quarantine_reason, \* job.quarantine_reason
    attachments,       \* payload digests of attachments[job_id], in order
    evidence,          \* attachment_evidence[job_id]
    registry,          \* receipt_registry
    idempotency,       \* idempotency, scope job:<id>
    prepared,          \* idempotency, scope prepare:<project>
    events,            \* events; the seq of an event is its position
    directory,         \* external: the opaque receipt directory
    now,               \* the gateway clock
    told               \* history: the successes callers were told of

jobVars == <<state, generation, source, policy, frozen, identity,
             quarantine_reason>>
attachVars == <<attachments, evidence, registry>>
idemVars == <<idempotency, prepared>>
vars == <<jobVars, attachVars, idemVars, events, directory, now, told>>

Projects == {r.project : r \in PrepareRequests}

Init ==
    /\ state = [j \in Jobs |-> "absent"]
    /\ generation = [j \in Jobs |-> 1]
    /\ source = [j \in Jobs |-> None]
    /\ policy = [j \in Jobs |-> None]
    /\ frozen = [j \in Jobs |-> <<>>]
    /\ identity = [j \in Jobs |-> None]
    /\ quarantine_reason = [j \in Jobs |-> None]
    /\ attachments = [j \in Jobs |-> <<>>]
    /\ evidence = [j \in Jobs |-> <<>>]
    /\ registry = [row \in Jobs \X Generations \X Digests |-> None]
    /\ idempotency = [j \in Jobs |-> [k \in Keys |-> None]]
    /\ prepared = [p \in Projects |-> [k \in PrepareKeys |-> None]]
    /\ events = <<>>
    /\ directory = InitialDirectory
    /\ now = 0
    /\ told = [j \in Jobs |-> {}]

-----------------------------------------------------------------------------
(* Helpers of the handlers *)

(* Mutant: the event takes the counter before it is incremented. *)
Event_CountsFromZero(seq, j, from, to, reason, token, digests) ==
    [seq |-> seq - 1, job_id |-> j, from_state |-> from,
     to_state |-> to, reason |-> reason, token |-> token,
     artifact_digests |-> digests]

Event(seq, j, from, to, reason, token, digests) ==
    [seq |-> seq, job_id |-> j, from_state |-> from,
     to_state |-> to, reason |-> reason, token |-> token,
     artifact_digests |-> digests]

(* Mutants: from_state is read after the state was assigned; only changes  *)
(* of state are logged.                                                    *)
_record_ReadsStateLate(j, from, to, reason, digests) ==
    events' = Append(events, Event(Len(events) + 1, j, to, to, reason, None,
                                   digests))
_record_MovesOnly(j, from, to, reason, digests) ==
    events' = IF from = to /\ state[j] # "absent" THEN events
              ELSE Append(events, Event(Len(events) + 1, j, from, to, reason,
                                        None, digests))

_record(j, from, to, reason, digests) ==
    events' = Append(events, Event(Len(events) + 1, j, from, to, reason, None,
                                   digests))

(* V3WriteResponse, and the stored form of a failure: state is the job's    *)
(* when the answer was made.                                                *)
Response(op, code, st) == [op |-> op, code |-> code, state |-> st]

(* A caller of op on j, attaching digest if op is attach, is answered with  *)
(* code.                                                                    *)
Answer(op, j, digest, code) ==
    told' = IF code = "ok"
              THEN [told EXCEPT ![j] = @ \cup {[op |-> op, digest |-> digest]}]
              ELSE told

(* A first call under key k: _idem_begin finds no slot and _get the job.    *)
(* Mutants: the slot is not looked up; a stored failure may be retried. *)
Begin_NoLookup(j, k) == state[j] # "absent"
Begin_RetriesFailures(j, k) ==
    /\ state[j] # "absent"
    /\ idempotency[j][k] # None => idempotency[j][k].response.code # "ok"

Begin(j, k) ==
    /\ idempotency[j][k] = None
    /\ state[j] # "absent"

_idem_store(j, k, payload, response) ==
    /\ idempotency' = [idempotency EXCEPT
                          ![j][k] = [payload |-> payload,
                                     response |-> response]]
    /\ UNCHANGED prepared

(* A durable failure that mutates nothing: the key is bound, the job, its   *)
(* attachments and its events are left alone.  (Mutant: it quarantines.)     *)
StoredFailure_Quarantines(op, j, k, payload, digest, code) ==
    /\ _idem_store(j, k, payload, Response(op, code, state[j]))
    /\ Answer(op, j, digest, code)
    /\ state' = [state EXCEPT ![j] = "quarantined"]
    /\ UNCHANGED <<generation, source, policy, frozen, identity,
                   quarantine_reason, attachVars, events, directory, now>>

StoredFailure(op, j, k, payload, digest, code) ==
    /\ _idem_store(j, k, payload, Response(op, code, state[j]))
    /\ Answer(op, j, digest, code)
    /\ UNCHANGED <<jobVars, attachVars, events, directory, now>>

(* The slot's stored hash against the call's.  (Mutant: not compared.) *)
SameRequest_NotCompared(j, k, payload) == TRUE
SameRequest(j, k, payload) == idempotency[j][k].payload = payload

(* Under a bound key the handler answers from the slot: a conflict if the   *)
(* payload is another one, else what the slot holds.                        *)
FromSlot(op, j, k, payload, digest) ==
    /\ idempotency[j][k] # None
    /\ \/ /\ ~SameRequest(j, k, payload)
          /\ Answer(op, j, digest, "idempotency_conflict")
       \/ /\ SameRequest(j, k, payload)
          /\ Answer(op, j, digest, idempotency[j][k].response.code)
    /\ UNCHANGED <<jobVars, attachVars, idemVars, events, directory, now>>

JobNotFound(op, j, digest) ==
    /\ state[j] = "absent"
    /\ Answer(op, j, digest, "job_not_found")
    /\ UNCHANGED <<jobVars, attachVars, idemVars, events, directory, now>>

-----------------------------------------------------------------------------
(* prepare_job *)

(* _idem_begin in the scope of the project.  (Mutant: the slot is not       *)
(* looked up.)                                                              *)
BeginPrepare_NoLookup(k, r) == TRUE
BeginPrepare(k, r) == prepared[r.project][k] = None

PrepareNew(j, k, r) ==
    /\ BeginPrepare(k, r)
    /\ state[j] = "absent"
    /\ state' = [state EXCEPT ![j] = "accepted"]
    /\ source' = [source EXCEPT ![j] = r.source_digest]
    /\ policy' = [policy EXCEPT ![j] = r.artifact_policy]
    /\ _record(j, "accepted", "accepted", "job accepted", attachments[j])
    /\ prepared' = [prepared EXCEPT ![r.project][k] =
                       [payload |-> r, job_id |-> j]]
    /\ Answer("prepare", j, None, "ok")
    /\ UNCHANGED <<generation, frozen, identity, quarantine_reason,
                   attachVars, idempotency, directory, now>>

PrepareAgain(k, r) ==
    /\ prepared[r.project][k] # None
    /\ \/ /\ prepared[r.project][k].payload # r
          /\ UNCHANGED told
       \/ /\ prepared[r.project][k].payload = r
          /\ Answer("prepare", prepared[r.project][k].job_id, None, "ok")
    /\ UNCHANGED <<jobVars, attachVars, idemVars, events, directory, now>>

-----------------------------------------------------------------------------
(* attach_artifact *)

AttachPayload(r) == [op |-> "attach", request |-> r]

(* verifier.verify_receipt against this job, its generation and the digest. *)
verify_receipt(j, r) ==
    LET digest == r.manifest.payload_digest
    IN  CASE VerifierKind = "hmac" ->
               HmacVerifies(r.receipt, Issuers, j, generation[j], digest, now)
          [] VerifierKind = "opaque" ->
               OpaqueVerifies(r.receipt, directory, j, generation[j], digest,
                              now)
          [] VerifierKind = "none" -> FALSE

Verdict(j, r) == AttachVerdict(r, verify_receipt(j, r), source[j], policy[j])

(* Mutant: a missing verifier is left for the receipt check to notice. *)
VerifierMissing_Unchecked == FALSE
VerifierMissing == VerifierKind = "none"

RowKey(j, r) == <<j, generation[j], r.manifest.payload_digest>>

(* The rejections that do not touch the job, in the code's order. *)
AttachRejected(j, k, r) ==
    /\ Begin(j, k)
    /\ LET Reject(code) == StoredFailure("attach", j, k, AttachPayload(r),
                                         r.manifest.payload_digest, code)
       IN  \/ /\ r.expected_generation # generation[j]
              /\ Reject("stale_generation")
           \/ /\ r.expected_generation = generation[j]
              /\ state[j] \notin ATTACHABLE_STATES
              /\ Reject("illegal_transition")
           \/ /\ r.expected_generation = generation[j]
              /\ state[j] \in ATTACHABLE_STATES
              /\ VerifierMissing
              /\ Reject("verifier_not_configured")

(* The checks are reached. *)
AttachChecked(j, k, r) ==
    /\ Begin(j, k)
    /\ r.expected_generation = generation[j]
    /\ state[j] \in ATTACHABLE_STATES
    /\ ~VerifierMissing

(* quarantine_for_failure: _quarantine, then the failure is stored with the *)
(* state the job is left in.                                                *)
QuarantineForFailure(j, k, r, code) ==
    /\ state' = [state EXCEPT ![j] = "quarantined"]
    /\ quarantine_reason' = [quarantine_reason EXCEPT ![j] = code]
    /\ _record(j, state[j], "quarantined", "artifact verification failed",
               attachments[j])
    /\ _idem_store(j, k, AttachPayload(r),
                   Response("attach", code, "quarantined"))
    /\ Answer("attach", j, r.manifest.payload_digest, code)
    /\ UNCHANGED <<generation, source, policy, frozen, identity, attachVars,
                   directory, now>>

AttachFailsChecks(j, k, r) ==
    /\ AttachChecked(j, k, r)
    /\ Verdict(j, r) # "ok"
    /\ QuarantineForFailure(j, k, r, Verdict(j, r))

(* The registry holds another receipt for this job, generation and digest.  *)
AttachConflicts(j, k, r) ==
    /\ AttachChecked(j, k, r)
    /\ Verdict(j, r) = "ok"
    /\ registry[RowKey(j, r)] # None
    /\ registry[RowKey(j, r)].evidence.receipt_digest # r.receipt
    /\ QuarantineForFailure(j, k, r, "receipt_conflict")

(* The response an exact replay gets.  (Mutant: a fresh one.) *)
OriginalResponse_Fresh(j, r) == Response("attach", "ok", state[j])
OriginalResponse(j, r) == registry[RowKey(j, r)].response

(* Mutant: the replayed receipt is recorded again. *)
AttachReplaysReceipt_Appends(j, k, r) ==
    /\ AttachChecked(j, k, r)
    /\ Verdict(j, r) = "ok"
    /\ registry[RowKey(j, r)] # None
    /\ registry[RowKey(j, r)].evidence.receipt_digest = r.receipt
    /\ evidence' = [evidence EXCEPT
                      ![j] = Append(@, registry[RowKey(j, r)].evidence)]
    /\ _idem_store(j, k, AttachPayload(r), OriginalResponse(j, r))
    /\ Answer("attach", j, r.manifest.payload_digest, "ok")
    /\ UNCHANGED <<jobVars, attachments, registry, events, directory, now>>

(* The registry holds this very receipt: the original response is stored    *)
(* under the new key too and returned as a replay.                          *)
AttachReplaysReceipt(j, k, r) ==
    /\ AttachChecked(j, k, r)
    /\ Verdict(j, r) = "ok"
    /\ registry[RowKey(j, r)] # None
    /\ registry[RowKey(j, r)].evidence.receipt_digest = r.receipt
    /\ _idem_store(j, k, AttachPayload(r), OriginalResponse(j, r))
    /\ Answer("attach", j, r.manifest.payload_digest, "ok")
    /\ UNCHANGED <<jobVars, attachVars, events, directory, now>>

(* The manifest validate_manifest returns. *)
NormalizedManifest(m) == [m EXCEPT !.verify_commands = NormalizedPlan(m)]

(* The clock is read a second time for attached_at, after the receipt's     *)
(* window was checked.                                                      *)
Evidence(j, r, attached_at) ==
    [artifact_digest |-> r.manifest.payload_digest,
     manifest        |-> NormalizedManifest(r.manifest),
     statement       |-> receipt_statement_from_receipt(r.receipt),
     receipt_digest  |-> r.receipt,
     attached_at     |-> attached_at,
     generation      |-> generation[j]]

AttachRecords(j, k, r) ==
    /\ AttachChecked(j, k, r)
    /\ Verdict(j, r) = "ok"
    /\ registry[RowKey(j, r)] = None
    /\ \E t \in now .. MaxNow :
          LET digest == r.manifest.payload_digest
              response == Response("attach", "ok", state[j])
              listed == {attachments[j][i] : i \in DOMAIN attachments[j]}
          IN  /\ now' = t
              /\ registry' = [registry EXCEPT ![RowKey(j, r)] =
                    [evidence |-> Evidence(j, r, t), response |-> response]]
              /\ evidence' = [evidence EXCEPT
                                ![j] = Append(@, Evidence(j, r, t))]
              /\ attachments' =
                    IF digest \in listed THEN attachments
                    ELSE [attachments EXCEPT ![j] = Append(@, digest)]
              /\ _record(j, state[j], state[j], "artifact attached",
                         attachments'[j])
              /\ _idem_store(j, k, AttachPayload(r), response)
              /\ Answer("attach", j, digest, "ok")
    /\ UNCHANGED <<jobVars, directory>>

Attach(j, k, r) ==
    \/ AttachRejected(j, k, r)
    \/ AttachFailsChecks(j, k, r)
    \/ AttachConflicts(j, k, r)
    \/ AttachReplaysReceipt(j, k, r)
    \/ AttachRecords(j, k, r)
    \/ FromSlot("attach", j, k, AttachPayload(r), r.manifest.payload_digest)
    \/ JobNotFound("attach", j, r.manifest.payload_digest)

-----------------------------------------------------------------------------
(* execute_job.  Its payload leaves the native identity out. *)

ExecutePayload(r) ==
    [op |-> "execute", command |-> r.command,
     generation |-> r.expected_generation]

ExecuteRejected(j, k, r) ==
    /\ Begin(j, k)
    /\ LET Reject(code) ==
             StoredFailure("execute", j, k, ExecutePayload(r), None, code)
       IN  \/ /\ r.native_identity = None
              /\ Reject("missing_native_identity")
           \/ /\ r.native_identity # None
              /\ r.expected_generation # generation[j]
              /\ Reject("stale_generation")
           \/ /\ r.native_identity # None
              /\ r.expected_generation = generation[j]
              /\ state[j] # "ready"
              /\ Reject("illegal_transition")

(* The reservation and the running transition, two events of one call. *)
ExecuteRuns(j, k, r) ==
    /\ Begin(j, k)
    /\ r.native_identity # None
    /\ r.expected_generation = generation[j]
    /\ state[j] = "ready"
    /\ state' = [state EXCEPT ![j] = "running"]
    /\ identity' = [identity EXCEPT ![j] = r.native_identity]
    /\ frozen' = [frozen EXCEPT ![j] = attachments[j]]
    /\ LET reserved == Event(Len(events) + 1, j, "ready", "ready",
                             "launch reserved", k, attachments[j])
           running == Event(Len(events) + 2, j, "ready", "running",
                            "executing", None, attachments[j])
       IN  events' = events \o <<reserved, running>>
    /\ _idem_store(j, k, ExecutePayload(r),
                   Response("execute", "ok", "running"))
    /\ Answer("execute", j, None, "ok")
    /\ UNCHANGED <<generation, source, policy, quarantine_reason, attachVars,
                   directory, now>>

Execute(j, k, r) ==
    \/ ExecuteRejected(j, k, r)
    \/ ExecuteRuns(j, k, r)
    \/ FromSlot("execute", j, k, ExecutePayload(r), None)
    \/ JobNotFound("execute", j, None)

-----------------------------------------------------------------------------
(* cancel_job and quarantine_job.  Their requests are                       *)
(* [expected_generation, reason]; unlike attach and execute they do not     *)
(* bind their key when _transition raises.                                  *)

ControlPayload(op, r) == [op |-> op, request |-> r]

(* The states _transition lets op leave.  (Mutants: terminal states are not *)
(* checked; an accepted job can be cancelled.)                              *)
Sources_Terminal(op) == IF op = "cancel" THEN {"preparing", "ready", "running"}
                                         ELSE JOB_STATES
Sources_Accepted(op) == NON_TERMINAL_STATES
Sources(op) == IF op = "cancel" THEN {"preparing", "ready", "running"}
                                ELSE NON_TERMINAL_STATES

ControlFails(op, j, k, r) ==
    /\ Begin(j, k)
    /\ \/ /\ r.expected_generation # generation[j]
          /\ Answer(op, j, None, "stale_generation")
       \/ /\ r.expected_generation = generation[j]
          /\ state[j] \notin Sources(op)
          /\ Answer(op, j, None, "illegal_transition")
    /\ UNCHANGED <<jobVars, attachVars, idempotency, prepared, events,
                   directory, now>>

(* _transition to st, the event, the stored response. *)
Control(op, j, k, r, st) ==
    /\ Begin(j, k)
    /\ r.expected_generation = generation[j]
    /\ state[j] \in Sources(op)
    /\ state' = [state EXCEPT ![j] = st]
    /\ _record(j, state[j], st, r.reason, attachments[j])
    /\ _idem_store(j, k, ControlPayload(op, r), Response(op, "ok", st))
    /\ Answer(op, j, None, "ok")
    /\ UNCHANGED <<generation, source, policy, frozen, identity, attachVars,
                   directory, now>>

Cancel(j, k, r) ==
    \/ /\ Control("cancel", j, k, r, "cancel_requested")
       /\ UNCHANGED quarantine_reason
    \/ ControlFails("cancel", j, k, r)
    \/ FromSlot("cancel", j, k, ControlPayload("cancel", r), None)
    \/ JobNotFound("cancel", j, None)

QuarantineJob(j, k, r) ==
    \/ /\ Control("quarantine", j, k, r, "quarantined")
       /\ quarantine_reason' = [quarantine_reason EXCEPT ![j] = r.reason]
    \/ ControlFails("quarantine", j, k, r)
    \/ FromSlot("quarantine", j, k, ControlPayload("quarantine", r), None)
    \/ JobNotFound("quarantine", j, None)

-----------------------------------------------------------------------------
(* mark_ready_for_test and settle_running: what the Foundry deployment does *)
(* to a job, as the synthetic client exposes it.                            *)

Unready == {"accepted", "preparing"}

(* accepted -> preparing -> ready in one call, one event per edge. *)
MarkReady(j) ==
    /\ state[j] \in Unready
    /\ state' = [state EXCEPT ![j] = "ready"]
    /\ LET prepare == Event(Len(events) + 1, j, "accepted", "preparing",
                            "synthetic preparation", None, attachments[j])
           ready(n) == Event(Len(events) + n, j, "preparing", "ready",
                             "synthetic readiness", None, attachments[j])
       IN  events' = events \o (IF state[j] = "accepted"
                                THEN <<prepare, ready(2)>>
                                ELSE <<ready(1)>>)
    /\ UNCHANGED <<generation, source, policy, frozen, identity,
                   quarantine_reason, attachVars, idemVars, directory, now,
                   told>>

FrozenOrAttached(j) ==
    IF frozen[j] # <<>> THEN frozen[j] ELSE attachments[j]

SettleRunning(j, outcome) ==
    /\ state[j] = "running"
    /\ state' = [state EXCEPT ![j] = outcome]
    /\ frozen' = [frozen EXCEPT ![j] = FrozenOrAttached(j)]
    /\ _record(j, "running", outcome, "native unit reported",
               FrozenOrAttached(j))
    /\ UNCHANGED <<generation, source, policy, identity, quarantine_reason,
                   attachVars, idemVars, directory, now, told>>

-----------------------------------------------------------------------------
(* The environment: time passes, the deployment revokes an opaque receipt. *)

Tick ==
    /\ now < MaxNow
    /\ now' = now + 1
    /\ UNCHANGED <<jobVars, attachVars, idemVars, events, directory, told>>

Revoke(ref) ==
    /\ ref \in DOMAIN directory
    /\ directory' = [x \in DOMAIN directory \ {ref} |-> directory[x]]
    /\ UNCHANGED <<jobVars, attachVars, idemVars, events, now, told>>

-----------------------------------------------------------------------------
Prepare ==
    \E k \in PrepareKeys, r \in PrepareRequests :
        \/ \E j \in Jobs : PrepareNew(j, k, r)
        \/ PrepareAgain(k, r)

Call(j, k) ==
    \/ \E r \in AttachRequests : Attach(j, k, r)
    \/ \E r \in ExecuteRequests : Execute(j, k, r)
    \/ \E r \in ControlRequests : Cancel(j, k, r) \/ QuarantineJob(j, k, r)

Foundry(j) ==
    \/ MarkReady(j)
    \/ \E outcome \in {"succeeded", "failed"} : SettleRunning(j, outcome)

(* What happens behind the client's back. *)
Deployment ==
    \/ \E j \in Jobs : Foundry(j)
    \/ Tick
    \/ \E ref \in DOMAIN directory : Revoke(ref)

Next ==
    \/ Prepare
    \/ \E j \in Jobs, k \in Keys : Call(j, k)
    \/ Deployment

Spec == Init /\ [][Next]_vars

-----------------------------------------------------------------------------
(* Reads, as functions of the state *)

(* The elements of a list at some of its positions, in the list's order:    *)
(* what a comprehension with a condition keeps.                             *)
Nth(places, n) ==
    CHOOSE i \in places : Cardinality({m \in places : m <= i}) = n
Keep(list, places) ==
    [n \in 1 .. Cardinality(places) |-> list[Nth(places, n)]]

EventsOf(j) == Keep(events, {n \in DOMAIN events : events[n].job_id = j})

(* Mutant: the cursor is that of the whole log. *)
read_result_WholeLog(j) ==
    [state |-> state[j],
     frozen_artifact_digests |-> FrozenOrAttached(j),
     source_digest |-> source[j],
     quarantine_reason |-> quarantine_reason[j],
     cursor |-> Len(events)]

(* What read_result answers for a terminal job. *)
read_result(j) ==
    [state |-> state[j],
     frozen_artifact_digests |-> FrozenOrAttached(j),
     source_digest |-> source[j],
     quarantine_reason |-> quarantine_reason[j],
     cursor |-> EventsOf(j)[Len(EventsOf(j))].seq]

-----------------------------------------------------------------------------
(* Types *)

Codes ==
    {"ok", "job_not_found", "idempotency_conflict", "stale_generation",
     "illegal_transition", "verifier_not_configured",
     "missing_native_identity", "artifact_invalid", "artifact_verification",
     "receipt_untrusted", "receipt_conflict"}

Payloads ==
    {AttachPayload(r) : r \in AttachRequests}
      \cup {ExecutePayload(r) : r \in ExecuteRequests}
      \cup {ControlPayload(op, r) : op \in {"cancel", "quarantine"},
                                    r \in ControlRequests}

Responses ==
    [op : {"attach", "execute", "cancel", "quarantine"}, code : Codes,
     state : JOB_STATES]

Claims ==
    [op : {"prepare", "attach", "execute", "cancel", "quarantine"},
     digest : Digests \cup {None}]

Slots == [payload : Payloads, response : Responses]

Reasons ==
    {"job accepted", "artifact verification failed", "artifact attached",
     "launch reserved", "executing", "synthetic preparation",
     "synthetic readiness", "native unit reported"}
      \cup {r.reason : r \in ControlRequests}

EventType ==
    [seq : Nat \ {0}, job_id : Jobs, from_state : JOB_STATES,
     to_state : JOB_STATES, reason : Reasons, token : Keys \cup {None},
     artifact_digests : Seq(Digests)]

EvidenceType ==
    [artifact_digest : Digests,
     manifest : {NormalizedManifest(r.manifest) : r \in AttachRequests},
     statement : {receipt_statement_from_receipt(r.receipt) :
                    r \in AttachRequests},
     receipt_digest : {r.receipt : r \in AttachRequests},
     attached_at : 0 .. MaxNow, generation : Generations]

Rows == [evidence : EvidenceType, response : Responses]

PreparedSlots == [payload : PrepareRequests, job_id : Jobs]

(* A place that holds None holds nothing, and None is no reason. *)
ASSUME NoneAssumption ==
    /\ None \notin Rows /\ None \notin Slots /\ None \notin PreparedSlots
    /\ None \notin Codes \cup {r.reason : r \in ControlRequests}

(* Every variable ranges over the values the client's fields take; a job    *)
(* record exists as a whole or not at all.                                  *)
TypeOK ==
    /\ state \in [Jobs -> JOB_STATES \cup {"absent"}]
    /\ generation \in [Jobs -> Generations]
    /\ source \in [Jobs -> {r.source_digest : r \in PrepareRequests} \cup {None}]
    /\ policy \in
         [Jobs -> {r.artifact_policy : r \in PrepareRequests} \cup {None}]
    /\ identity \in
         [Jobs -> {r.native_identity : r \in ExecuteRequests} \cup {None}]
    /\ quarantine_reason \in
         [Jobs -> Codes \cup {r.reason : r \in ControlRequests} \cup {None}]
    /\ frozen \in [Jobs -> Seq(Digests)]
    /\ attachments \in [Jobs -> Seq(Digests)]
    /\ evidence \in [Jobs -> Seq(EvidenceType)]
    /\ registry \in [Jobs \X Generations \X Digests -> Rows \cup {None}]
    /\ idempotency \in [Jobs -> [Keys -> Slots \cup {None}]]
    /\ prepared \in
         [Projects -> [PrepareKeys -> PreparedSlots \cup {None}]]
    /\ told \in [Jobs -> SUBSET Claims]
    /\ events \in Seq(EventType)
    /\ now \in 0 .. MaxNow
    /\ \A j \in Jobs : state[j] = "absent" =>
          /\ source[j] = None /\ policy[j] = None
          /\ evidence[j] = <<>> /\ attachments[j] = <<>>

-----------------------------------------------------------------------------
(* Safety *)

Attached(j) == {attachments[j][i] : i \in DOMAIN attachments[j]}

(* An event may come after another of its job. *)
Follows(e, f) ==
    /\ f.from_state = e.to_state
    /\ e.seq < f.seq
    /\ e.artifact_digests =
         SubSeq(f.artifact_digests, 1, Len(e.artifact_digests))

(* es leads a job from its acceptance to its present state and artifacts.   *)
LeadTo(j, es) ==
    /\ es # <<>>
    /\ es[1].from_state = "accepted"
    /\ es[1].to_state = "accepted"
    /\ es[Len(es)].to_state = state[j]
    /\ es[Len(es)].artifact_digests = attachments[j]
    /\ \A n \in 1 .. Len(es) - 1 : Follows(es[n], es[n + 1])

(* The audit log alone tells the machine's history: the events of a job     *)
(* form one chain of states from acceptance to its present state, each      *)
(* carries the artifact list of its moment, the lists only grow, and the    *)
(* last one is the job's.  Handlers append one event, two (execute,         *)
(* readiness) or none, with from_state and to_state computed by hand at     *)
(* each site.                                                               *)
EventsTellTheJob ==
    \A j \in Jobs :
        IF state[j] = "absent" THEN EventsOf(j) = <<>>
        ELSE LeadTo(j, EventsOf(j))

(* The three books kept of an attachment agree: evidence and attachments    *)
(* list the same artifacts in the same order, none twice, and the registry  *)
(* holds a row for exactly these, with that very evidence.                  *)
BooksAgree ==
    \A j \in Jobs :
        /\ Len(evidence[j]) = Len(attachments[j])
        /\ Cardinality(Attached(j)) = Len(attachments[j])
        /\ \A i \in DOMAIN evidence[j] :
              LET e == evidence[j][i]
              IN  /\ e.artifact_digest = attachments[j][i]
                  /\ registry[<<j, e.generation, e.artifact_digest>>] # None
                  /\ registry[<<j, e.generation, e.artifact_digest>>].evidence
                       = e
        /\ \A g \in Generations, d \in Digests :
              registry[<<j, g, d>>] # None => d \in Attached(j)

(* A job that was launched keeps, as its frozen set, the artifacts attached *)
(* when it was launched, and they are still the attached ones: nothing is   *)
(* attached between launch and result.  A job that was not launched has no  *)
(* frozen set and no identity.                                              *)
FrozenAtLaunch ==
    /\ \A n \in DOMAIN events : events[n].to_state = "running" =>
          LET j == events[n].job_id
          IN  /\ frozen[j] = events[n].artifact_digests
              /\ frozen[j] = attachments[j]
              /\ identity[j] # None
    /\ \A j \in Jobs :
          (\A n \in DOMAIN events : events[n].job_id = j =>
                events[n].to_state # "running")
            => frozen[j] = <<>> /\ identity[j] = None

(* A job is launched at most once, its running event follows its            *)
(* reservation, and the reservation's token is the key under which the      *)
(* execute call that launched it is answered, the only execute call of the  *)
(* job that is answered with success.                                       *)
OneLaunch ==
    LET Launches(j) == {n \in DOMAIN events :
                          /\ events[n].job_id = j
                          /\ events[n].to_state = "running"}
        Launchers(j) == {k \in Keys :
                           /\ idempotency[j][k] # None
                           /\ idempotency[j][k].response.op = "execute"
                           /\ idempotency[j][k].response.code = "ok"}
    IN  \A j \in Jobs :
           /\ Cardinality(Launches(j)) <= 1
           /\ Launches(j) = {} => Launchers(j) = {}
           /\ \A n \in Launches(j) :
                 /\ n - 1 \in DOMAIN events
                 /\ events[n - 1].job_id = j
                 /\ events[n - 1].reason = "launch reserved"
                 /\ Launchers(j) = {events[n - 1].token}

(* Evidence of j was signed by a trusted issuer (or is what the             *)
(* deployment's directory recorded), for this job, generation and artifact, *)
(* was current when it was recorded at the earliest, covers the recorded    *)
(* plan step by step, and its manifest is the one the job's policy asks for. *)
IsGenuine(j, e) ==
    LET st == e.statement
    IN  /\ <<st.job_id, st.generation, st.artifact_digest>>
             = <<j, e.generation, e.manifest.payload_digest>>
        /\ \/ /\ VerifierKind = "hmac"
              /\ e.receipt_digest.mac.key = Issuers[st.issuer]
              /\ e.receipt_digest.mac.over = st
           \/ /\ VerifierKind = "opaque"
              /\ InitialDirectory[e.receipt_digest.receipt_ref] = st
        /\ st.issued_at <= e.attached_at
        /\ st.plan_hash.verify_commands = e.manifest.verify_commands
        /\ \A n \in DOMAIN e.manifest.verify_commands :
              st.steps[n].evidence_digest =
                step_commitment(n - 1, e.manifest.verify_commands[n])
        /\ e.manifest.source_commit = source[j]
        /\ \A f \in PolicyFields :
              policy[j][f] \in {None, e.manifest.fields[f]}

(* Every piece of evidence on record is genuine, however late, often and    *)
(* under whichever keys and altered requests receipts are presented.        *)
EvidenceIsGenuine ==
    \A j \in Jobs : \A i \in DOMAIN evidence[j] : IsGenuine(j, evidence[j][i])

(* A stored attach is the recorded one: the registry holds its receipt, with *)
(* the very response the slot holds.                                        *)
AnsweredByRow(j, slot) ==
    LET r == slot.payload.request
        row == registry[<<j, r.expected_generation, r.manifest.payload_digest>>]
    IN  /\ row # None
        /\ row.response = slot.response
        /\ row.evidence.receipt_digest = r.receipt

(* Keys may be many, a receipt has one answer: every successful attach of   *)
(* an artifact, under whichever key, is answered with the response recorded *)
(* when its receipt was.                                                    *)
OneAnswerPerReceipt ==
    \A j \in Jobs, k \in Keys :
        LET slot == idempotency[j][k]
        IN  (/\ slot # None
             /\ slot.response.op = "attach" /\ slot.response.code = "ok")
              => AnsweredByRow(j, slot)

(* What a caller was told of has happened to j: the artifact is attached,   *)
(* the job was launched, or it has left for good.                           *)
HasHappened(j, claim) ==
    CASE claim.op = "prepare" -> state[j] # "absent"
      [] claim.op = "attach" -> claim.digest \in Attached(j)
      [] claim.op = "execute" ->
           identity[j] # None /\ state[j] \notin {"accepted", "preparing", "ready"}
      [] claim.op = "cancel" -> state[j] \in {"cancel_requested", "quarantined"}
      [] claim.op = "quarantine" -> state[j] = "quarantined"

(* No caller was ever told of a success that did not happen.  Replays,      *)
(* replayed receipts and keys shared between operations are where an answer *)
(* could belong to another call.                                            *)
SuccessIsTrue ==
    \A j \in Jobs : \A claim \in told[j] : HasHappened(j, claim)

(* Without a verifier attach fails closed and stays a caller's error: no    *)
(* evidence is recorded, and no job is quarantined but on request.          *)
FailsClosed ==
    VerifierKind = "none" =>
      \A j \in Jobs :
         /\ evidence[j] = <<>> /\ attachments[j] = <<>>
         /\ quarantine_reason[j] \in
              {None} \cup {r.reason : r \in ControlRequests}

(* Every accepted job answers for exactly one prepare call. *)
OneJobPerPrepare ==
    \A j \in Jobs :
        state[j] # "absent" =>
          \E p \in Projects, k \in PrepareKeys :
             /\ prepared[p][k] # None /\ prepared[p][k].job_id = j
             /\ \A q \in Projects, l \in PrepareKeys :
                   (prepared[q][l] # None /\ prepared[q][l].job_id = j)
                     => q = p /\ l = k

-----------------------------------------------------------------------------
(* Action properties *)

IsPrefixOf(s, t) == Len(s) <= Len(t) /\ SubSeq(t, 1, Len(s)) = s

RecordsKept ==
    /\ \A j \in Jobs, k \in Keys :
          idempotency[j][k] # None => idempotency'[j][k] = idempotency[j][k]
    /\ \A p \in Projects, k \in PrepareKeys :
          prepared[p][k] # None => prepared'[p][k] = prepared[p][k]
    /\ \A row \in DOMAIN registry :
          registry[row] # None => registry'[row] = registry[row]
    /\ \A j \in Jobs : IsPrefixOf(evidence[j], evidence'[j])
    /\ IsPrefixOf(events, events')

(* What the client records is final: bound keys, registry rows, evidence    *)
(* and events are never replaced, dropped or reordered.                     *)
RecordsAreFinal == [][RecordsKept]_vars

(* Terminal states are immutable, seen through the read API: whatever is    *)
(* called on a terminal job, read_result keeps answering the same.          *)
TerminalIsFinal ==
    [][\A j \in Jobs : state[j] \in TERMINAL_STATES =>
          read_result(j)' = read_result(j)]_vars

(* Nothing happens to a job behind the audit log: a step that changes a job *)
(* or its attachments appends an event of that job, and of no other.        *)
ChangesAreRecorded ==
    [][\A j \in Jobs :
          \/ UNCHANGED <<state[j], source[j], policy[j], frozen[j],
                         identity[j], quarantine_reason[j], attachments[j],
                         evidence[j]>>
          \/ /\ Len(events') > Len(events)
             /\ \A n \in Len(events) + 1 .. Len(events') :
                   events'[n].job_id = j]_vars

Refusals == {"stale_generation", "illegal_transition",
             "verifier_not_configured", "missing_native_identity"}

(* A call refused for its generation, the job's state, a missing verifier   *)
(* or a missing identity, and made durable, leaves every job, attachment    *)
(* and event as it was.                                                     *)
RefusalsMutateNothing ==
    [][\A j \in Jobs, k \in Keys :
          (/\ idempotency[j][k] = None
           /\ idempotency'[j][k] # None
           /\ idempotency'[j][k].response.code \in Refusals)
            => UNCHANGED <<jobVars, attachVars, events>>]_vars

BindingsKept(j) ==
    /\ <<generation[j], source[j], policy[j]>>' =
         <<generation[j], source[j], policy[j]>>
    /\ state'[j] \in ATTACHABLE_STATES => state[j] \in ATTACHABLE_STATES

(* A job leaves the set of states in which artifacts can be attached only   *)
(* forwards, and its generation, source and policy never change once it is  *)
(* accepted: evidence checked against them stays valid.                     *)
BindingsAreFixed ==
    [][\A j \in Jobs : state[j] # "absent" => BindingsKept(j)]_vars

-----------------------------------------------------------------------------
(* What a job promises *)

Phase(st) ==
    CASE st \in {"succeeded", "failed"} -> "finished"
      [] st = "cancel_requested" -> "stopping"
      [] OTHER -> st

Lifecycle ==
    INSTANCE JobLifecycle WITH
        Artifacts <- Digests,
        phase     <- [j \in Jobs |-> Phase(state[j])],
        artifacts <- [j \in Jobs |-> Attached(j)],
        sealed    <- [j \in Jobs |-> {frozen[j][i] : i \in DOMAIN frozen[j]}]

(* The client implements the job machine: keys, receipts, quarantines and   *)
(* replays add no edge to it, and nothing but a launch seals artifacts.     *)
ImplementsLifecycle == Lifecycle!Spec

-----------------------------------------------------------------------------
(* What the documentation says *)

(* docs/PROTOCOL.md, "Attachment receipts are immutable": the exact same    *)
(* receipt under a new key gets the original response and changes nothing.  *)
ReplayedReceiptIsAnswered ==
    [][\A j \in Jobs, k \in Keys, r \in AttachRequests :
          (/\ AttachChecked(j, k, r)
           /\ registry[RowKey(j, r)] # None
           /\ registry[RowKey(j, r)].evidence.receipt_digest = r.receipt
           /\ idempotency'[j][k] # None
           /\ idempotency'[j][k].payload = AttachPayload(r))
            => /\ idempotency'[j][k].response = OriginalResponse(j, r)
               /\ UNCHANGED <<jobVars, attachVars, events>>]_vars

(* docs/PROTOCOL.md, "Evidence, launch, and error mapping": read_result     *)
(* binds the digests frozen at execute, the ones a status snapshot shows.   *)
ReadsBindTheFrozenSet ==
    \A j \in Jobs :
        state[j] \in TERMINAL_STATES =>
          read_result(j).frozen_artifact_digests = frozen[j]
=============================================================================
