------------------------------ MODULE GatewayApi ------------------------------
(***************************************************************************)
(* The /v3 endpoints (api.py) as a caller sees them who cannot rely on     *)
(* getting his answers: he repeats a call under its key, mixes keys up,    *)
(* changes a request, and concludes what has happened from the HTTP        *)
(* status.  Every endpoint awaits nothing between reading the request and  *)
(* answering, so a call and its answer are one step; which answers arrive  *)
(* is left open by looking at all that were ever given.                    *)
(*                                                                         *)
(* A request that its schema or the filter of router fields refuses (422)  *)
(* never reaches the client, but its caller sees the status a verdict on   *)
(* the artifact has, so it is a step here.  One with a wrong token (401)   *)
(* is not.                                                                 *)
(***************************************************************************)
EXTENDS FoundryJobs

CONSTANT Watched  \* the calls whose answers are kept, for TLC: <<op, key>>

Contents == {"attach", "execute"}
Operations == Contents \cup {"cancel", "quarantine"}

ASSUME WatchedAssumption == Watched \subseteq Operations \X Keys

VARIABLE
    answers  \* history: of each job, the answers given to calls on it

apiVars == <<vars, answers>>

(* _foundry_error *)
Status(code) ==
    CASE code = "ok" -> 200
      [] code \in {"job_not_found", "unknown_resource"} -> 404
      [] code \in {"idempotency_conflict", "stale_generation",
                   "illegal_transition", "job_not_ready",
                   "receipt_conflict"} -> 409
      [] code \in {"artifact_invalid", "artifact_verification",
                   "receipt_untrusted", "policy_invalid", "invalid_cursor",
                   "missing_idempotency_key", "missing_native_identity"} -> 422
      [] code = "verifier_not_configured" -> 503
      [] OTHER -> 502

(* The code a call ends with: from the slot if the key was bound, as stored   *)
(* if the handler has bound it now, else a refusal that is not stored.       *)
CodeOf(j, k, payload, expected_generation) ==
    CASE idempotency[j][k] # None ->
           IF SameRequest(j, k, payload) THEN idempotency[j][k].response.code
                                         ELSE "idempotency_conflict"
      [] idempotency[j][k] = None /\ state[j] = "absent" -> "job_not_found"
      [] /\ idempotency[j][k] = None /\ state[j] # "absent"
         /\ idempotency'[j][k] # None ->
           idempotency'[j][k].response.code
      [] OTHER -> IF expected_generation # generation[j] THEN "stale_generation"
                                                         ELSE "illegal_transition"

Given(j, a) ==
    answers' = IF <<a.op, a.key>> \in Watched
                 THEN [answers EXCEPT ![j] = @ \cup {a}] ELSE answers

Answered(op, j, k, payload, expected_generation) ==
    LET code == CodeOf(j, k, payload, expected_generation)
    IN  Given(j, [op |-> op, key |-> k, payload |-> payload,
                  code |-> code, status |-> Status(code)])

-----------------------------------------------------------------------------
v3_attach(j, k, r) ==
    /\ Attach(j, k, r)
    /\ Answered("attach", j, k, AttachPayload(r), r.expected_generation)

v3_execute(j, k, r) ==
    /\ Execute(j, k, r)
    /\ Answered("execute", j, k, ExecutePayload(r), r.expected_generation)

v3_cancel(j, k, r) ==
    /\ Cancel(j, k, r)
    /\ Answered("cancel", j, k, ControlPayload("cancel", r),
                r.expected_generation)

v3_quarantine(j, k, r) ==
    /\ QuarantineJob(j, k, r)
    /\ Answered("quarantine", j, k, ControlPayload("quarantine", r),
                r.expected_generation)

(* A body with a field missing, malformed or forbidden, or one of a router's, *)
(* under an id and a key that are as good as any.                            *)
SchemaRefuses(op, j, k) ==
    /\ Given(j, [op |-> op, key |-> k, payload |-> None,
                 code |-> "schema", status |-> 422])
    /\ UNCHANGED vars

ApiInit == Init /\ answers = [j \in Jobs |-> {}]

ApiCall(j, k) ==
    \/ \E r \in AttachRequests : v3_attach(j, k, r)
    \/ \E r \in ExecuteRequests : v3_execute(j, k, r)
    \/ \E r \in ControlRequests : v3_cancel(j, k, r) \/ v3_quarantine(j, k, r)
    \/ \E op \in Operations : SchemaRefuses(op, j, k)

(* prepare_job and the deployment. *)
ApiNext ==
    \/ \E j \in Jobs, k \in Keys : ApiCall(j, k)
    \/ (Prepare \/ Deployment) /\ UNCHANGED answers

ApiSpec == ApiInit /\ [][ApiNext]_apiVars

-----------------------------------------------------------------------------
(* The answers of a client that knew the job. *)
Handled(a) == a.code \notin {"job_not_found", "schema"}

(* The caller of an attach or an execute who lost his answer gets it by       *)
(* asking again: once the job exists, all answers to one request under one   *)
(* key are the same, successes, refusals, quarantines and conflicts, whatever *)
(* became of job, receipt and clock in between.                              *)
AnswersStand ==
    \A j \in Jobs : \A a, b \in {x \in answers[j] : Handled(x)} :
        (/\ a.op \in Contents
         /\ <<a.op, a.key, a.payload>> = <<b.op, b.key, b.payload>>)
          => a.code = b.code

(* docs/PROTOCOL.md: "reusing a key with a different payload is a `409`       *)
(* conflict".  The requests of a job that were answered under one key, other *)
(* than with that conflict, are one.                                         *)
OneRequestPerKey(j, ops) ==
    \A a, b \in {x \in answers[j] : /\ Handled(x) /\ x.op \in ops
                                    /\ x.code # "idempotency_conflict"} :
        a.key = b.key => a.payload = b.payload

(* Of attach and execute that is so ...                                      *)
ContentsBindTheirKey == \A j \in Jobs : OneRequestPerKey(j, Contents)

(* ... of every mutating call, as the document has it, it is not.            *)
CallsBindTheirKey ==
    \A j \in Jobs : OneRequestPerKey(j, Operations)

(* What an error lets its caller conclude for good.  An attach answered with  *)
(* a verdict on the artifact or its receipt has cost the job its life; an    *)
(* execute refused by the client has not launched the job and never will, by *)
(* this or any later delivery of the same request; and a key under which an  *)
(* operation was only ever refused by the schema, or for want of the job, is *)
(* not bound by it.  The status alone lets him conclude none of these: the   *)
(* schema's refusals, too, are a 422 (docs/PROTOCOL.md: "a `422` schema      *)
(* rejection with no quarantine").                                           *)
Verdicts == {"artifact_invalid", "artifact_verification",
             "receipt_untrusted", "receipt_conflict"}

BoundBy(op, j, k) ==
    idempotency[j][k] # None /\ idempotency[j][k].response.op = op

ErrorsAreConclusive ==
    \A j \in Jobs :
        /\ \A a \in answers[j] :
              /\ (a.op = "attach" /\ a.code \in Verdicts)
                   => state[j] = "quarantined"
              /\ (a.op = "execute" /\ Handled(a) /\ a.code # "ok")
                   => \A n \in DOMAIN events :
                         (events[n].job_id = j /\ events[n].token = a.key)
                           => idempotency[j][a.key].payload # a.payload
        /\ \A c \in Watched :
              BoundBy(c[1], j, c[2])
                => \E a \in answers[j] : Handled(a) /\ <<a.op, a.key>> = c
=============================================================================
