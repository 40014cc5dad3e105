---------------------------- MODULE AttachChecks ----------------------------
(***************************************************************************)
(* The checks attach_artifact (foundry.py) makes on one attach request, as *)
(* pure operators: the manifest schema, the staged payload, the            *)
(* authentication of the deployment's attachment receipt, the binding of   *)
(* its statement to this attach, and the job's artifact policy.            *)
(*                                                                         *)
(* Hashes are perfect: a canonical hash is the record it is computed from, *)
(* so two hashes are equal exactly when their inputs are, and a MAC is the *)
(* pair of the key and the statement it covers.  A value that hashes       *)
(* nothing genuine is a model value, equal to no hash.                     *)
(*                                                                         *)
(* An attach request is a record                                           *)
(*   manifest    : [well_formed, payload_digest, payload_bytes,            *)
(*                  source_commit, verify_commands, fields]                *)
(*   staged      : [ref, digest, size]                                     *)
(*   receipt     : the StatementFields and mac, receipt_ref                *)
(*   constraints : [PolicyFields -> value or None]                         *)
(*   expected_generation : Nat \ {0}                                       *)
(* as the request schema (V3AttachRequest and its validators) lets it      *)
(* through: every field present, exactly one of mac and receipt_ref.       *)
(***************************************************************************)
EXTENDS Naturals, Sequences

CONSTANTS
    None,             \* Python's None
    PolicyFields,     \* POLICY_FIELDS
    OptionalFields,   \* the policy fields a job may leave open: provenance_ref
    NormalStep,       \* governed step as written |-> its normalized form
    CasHandles,       \* the mount handles that are cas:/staging: references
    MaxReceiptTTL     \* MAX_RECEIPT_TTL_SECONDS, in ticks of the clock

ASSUME PolicyFieldsAssumption == OptionalFields \subseteq PolicyFields
ASSUME MaxReceiptTTLAssumption == MaxReceiptTTL \in Nat \ {0}

StatementFields ==
    {"issuer", "job_id", "generation", "artifact_digest", "staged_ref",
     "mount_handle", "verifier", "plan_hash", "steps", "issued_at",
     "expires_at", "replay_domain"}

-----------------------------------------------------------------------------
(* Canonical hashes *)

plan_hash_for_plan(plan) == [verify_commands |-> plan]

step_commitment(i, step) == [index |-> i, step |-> step]

attachment_replay_domain(j, g, digest) ==
    [job_id |-> j, generation |-> g, artifact_digest |-> digest]

_receipt_mac(key, statement) == [key |-> key, over |-> statement]

(* Everything the receipt says except how it is authenticated. *)
receipt_statement_from_receipt(receipt) ==
    [f \in StatementFields |-> receipt[f]]

(* The step results a deployment states after running a normalized plan. *)
VerifiedSteps(plan) ==
    [i \in DOMAIN plan |->
        [index |-> i - 1, step |-> plan[i],
         evidence_digest |-> step_commitment(i - 1, plan[i])]]

(* HmacReceiptIssuer.issue: the statement for payload d of job j, staged at *)
(* ref, verified with a normalized plan.                                    *)
issue(issuer, j, d, ref, handle, plan, issued_at, expires_at) ==
    [issuer |-> issuer, job_id |-> j, generation |-> 1,
     artifact_digest |-> d, staged_ref |-> ref, mount_handle |-> handle,
     verifier |-> "verifier", plan_hash |-> plan_hash_for_plan(plan),
     steps |-> VerifiedSteps(plan), issued_at |-> issued_at,
     expires_at |-> expires_at,
     replay_domain |-> attachment_replay_domain(j, 1, d)]

(* HmacReceiptIssuer: the issuer names itself and signs the whole statement. *)
issue_statement(issuer, key, statement) ==
    LET body == [f \in StatementFields |->
                    IF f = "issuer" THEN issuer ELSE statement[f]]
    IN  [f \in StatementFields \cup {"mac", "receipt_ref"} |->
            CASE f = "mac" -> _receipt_mac(key, body)
              [] f = "receipt_ref" -> None
              [] OTHER -> body[f]]

-----------------------------------------------------------------------------
(* Authentication of a receipt.  Every failure here is the same error,     *)
(* receipt_untrusted.                                                      *)

_check_receipt_window(statement, now) ==
    /\ statement.issued_at < statement.expires_at
    /\ statement.expires_at <= statement.issued_at + MaxReceiptTTL
    /\ statement.issued_at <= now
    /\ now < statement.expires_at

_check_receipt_binding(statement, j, g, digest) ==
    /\ statement.job_id = j
    /\ statement.generation = g
    /\ statement.artifact_digest = digest
    /\ statement.replay_domain = attachment_replay_domain(j, g, digest)

(* HmacReceiptVerifier: issuers is the trust store, issuer |-> key. *)
HmacVerifies(receipt, issuers, j, g, digest, now) ==
    LET statement == receipt_statement_from_receipt(receipt)
    IN  /\ receipt.issuer \in DOMAIN issuers
        /\ receipt.mac # None /\ receipt.receipt_ref = None
        /\ receipt.mac = _receipt_mac(issuers[receipt.issuer], statement)
        /\ _check_receipt_window(statement, now)
        /\ _check_receipt_binding(statement, j, g, digest)

(* OpaqueReceiptDirectory: directory maps the references the deployment     *)
(* knows and has not revoked to the statements it recorded.                 *)
(* (Mutant: the claimed statement is not compared with the resolved one.)   *)
OpaqueVerifies_Claimed(receipt, directory, j, g, digest, now) ==
    LET claimed == receipt_statement_from_receipt(receipt)
    IN  /\ receipt.receipt_ref # None /\ receipt.mac = None
        /\ receipt.receipt_ref \in DOMAIN directory
        /\ _check_receipt_window(claimed, now)
        /\ _check_receipt_binding(claimed, j, g, digest)

OpaqueVerifies(receipt, directory, j, g, digest, now) ==
    LET resolved == directory[receipt.receipt_ref]
    IN  /\ receipt.receipt_ref # None /\ receipt.mac = None
        /\ receipt.receipt_ref \in DOMAIN directory
        /\ receipt_statement_from_receipt(receipt) = resolved
        /\ _check_receipt_window(resolved, now)
        /\ _check_receipt_binding(resolved, j, g, digest)

-----------------------------------------------------------------------------
(* Manifest, statement and policy *)

(* verify_commands is a non-empty list of governed steps; well_formed       *)
(* stands for the field-by-field part of the schema.                        *)
validate_manifest(m) ==
    /\ m.well_formed
    /\ m.payload_bytes > 0
    /\ m.verify_commands # <<>>
    /\ \A i \in DOMAIN m.verify_commands :
          m.verify_commands[i] \in DOMAIN NormalStep

(* The normalized plan: a command line becomes its argument list, a named   *)
(* profile stays as it is.                                                  *)
NormalizedPlan(m) ==
    [i \in DOMAIN m.verify_commands |-> NormalStep[m.verify_commands[i]]]

StagedMatches(staged, m) ==
    /\ staged.digest = m.payload_digest
    /\ staged.size = m.payload_bytes

(* Steps are numbered from 0 in the receipt. *)
StepsCoverPlan(steps, plan) ==
    /\ Len(steps) = Len(plan)
    /\ \A i \in DOMAIN plan :
          /\ steps[i].index = i - 1
          /\ steps[i].step = plan[i]
          /\ steps[i].evidence_digest = step_commitment(i - 1, plan[i])

StatementBinds(statement, staged, m) ==
    /\ statement.staged_ref = staged.ref
    /\ statement.mount_handle \notin CasHandles
    /\ statement.plan_hash = plan_hash_for_plan(NormalizedPlan(m))
    /\ StepsCoverPlan(statement.steps, NormalizedPlan(m))

(* A declared policy field must be met and may not be contradicted by the   *)
(* caller; an undeclared one needs a constraint of the caller's, unless it  *)
(* is optional.                                                             *)
(* (Mutant: the caller's constraint replaces the declared value.)           *)
check_matches_policy_CallerWins(m, source_commit, policy, constraints) ==
    /\ m.source_commit = source_commit
    /\ \A f \in PolicyFields :
          \/ constraints[f] # None /\ m.fields[f] = constraints[f]
          \/ /\ constraints[f] = None /\ policy[f] # None
             /\ m.fields[f] = policy[f]
          \/ /\ constraints[f] = None /\ policy[f] = None
             /\ f \in OptionalFields

check_matches_policy(m, source_commit, policy, constraints) ==
    /\ m.source_commit = source_commit
    /\ \A f \in PolicyFields :
          \/ /\ policy[f] # None
             /\ m.fields[f] = policy[f]
             /\ constraints[f] \in {None, policy[f]}
          \/ /\ policy[f] = None /\ constraints[f] # None
             /\ m.fields[f] = constraints[f]
          \/ /\ policy[f] = None /\ constraints[f] = None
             /\ f \in OptionalFields

-----------------------------------------------------------------------------
(* The verdict on an attach request, the first failure in the code's order. *)
(* authentic is the verifier's answer for the request's receipt.  (Mutant:  *)
(* a policy mismatch is reported as an invalid policy.)                     *)
AttachVerdict_PolicyInvalid(r, authentic, source_commit, policy) ==
    IF ~validate_manifest(r.manifest) THEN "artifact_invalid"
    ELSE IF ~StagedMatches(r.staged, r.manifest) THEN "artifact_verification"
    ELSE IF ~authentic THEN "receipt_untrusted"
    ELSE IF ~StatementBinds(receipt_statement_from_receipt(r.receipt),
                            r.staged, r.manifest)
         THEN "artifact_verification"
    ELSE IF ~check_matches_policy(r.manifest, source_commit, policy,
                                  r.constraints)
         THEN "policy_invalid"
    ELSE "ok"

AttachVerdict(r, authentic, source_commit, policy) ==
    LET statement == receipt_statement_from_receipt(r.receipt)
    IN  IF ~validate_manifest(r.manifest) THEN "artifact_invalid"
        ELSE IF ~StagedMatches(r.staged, r.manifest)
             THEN "artifact_verification"
        ELSE IF ~authentic THEN "receipt_untrusted"
        ELSE IF \/ ~StatementBinds(statement, r.staged, r.manifest)
                \/ ~check_matches_policy(r.manifest, source_commit, policy,
                                         r.constraints)
             THEN "artifact_verification"
        ELSE "ok"
=============================================================================
