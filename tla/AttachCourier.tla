---------------------------- MODULE AttachCourier ----------------------------
(***************************************************************************)
(* One attach request on its way: the deployment states what it verified   *)
(* and mounted, or something else by mistake, and issues a receipt for it  *)
(* (signed, or entered in its directory), a client builds the request,     *)
(* someone on the way may alter what it carries, time passes, and the      *)
(* gateway gives its verdict.  At most one thing goes wrong: what was      *)
(* issued by mistake is not altered as well.                               *)
(***************************************************************************)
EXTENDS AttachChecks

CONSTANTS
    Jobs,           \* jobs the receipt may be issued for or presented to
    Digests,        \* payload digests
    Plans,          \* verify_commands plans, as written in manifests
    Handles,        \* mount handles
    Keys,           \* issuer |-> key, of every issuer there is
    Trusted,        \* the issuers in the gateway's trust store
    Ref,            \* the opaque reference
    Wrong,          \* a value nobody issued
    Policies,       \* job policies
    Constraints,    \* caller constraints
    FieldValues,    \* values of manifest.fields
    Commit,         \* the job's source commit
    MaxNow          \* bound of the clock

ASSUME TrustedAssumption == Trusted \subseteq DOMAIN Keys
ASSUME PlansAssumption == Plans \subseteq Seq(DOMAIN NormalStep) \ {<<>>}
ASSUME MaxNowAssumption == MaxNow \in Nat

VARIABLES
    kind,       \* which verifier the gateway has
    step,       \* "stated", "issued", "sent", "judged"
    job,        \* the job the request is presented to
    job_policy, \* its artifact policy
    request,    \* the attach request, its receipt only a statement at first
    directory,  \* the deployment's opaque receipts
    now,        \* the gateway clock
    mistaken,   \* history: the deployment stated what it did not verify
    altered,    \* history: the receipt was changed after it was issued
    verdict     \* the gateway's verdict

vars == <<kind, step, job, job_policy, request, directory, now, mistaken,
          altered, verdict>>

(* A manifest for payload d with plan p. *)
Manifest(d, p, v) ==
    [well_formed |-> TRUE, payload_digest |-> d, payload_bytes |-> 1,
     source_commit |-> Commit, verify_commands |-> p,
     fields |-> [f \in PolicyFields |-> v]]

(* What the deployment states for payload d of job j and plan p. *)
IssuedStatement(issuer, j, d, ref, handle, p, from, to) ==
    issue(issuer, j, d, ref, handle, NormalizedPlan(Manifest(d, p, None)),
          from, to)

(* What the deployment may state, for every payload, plan and job. *)
Statements ==
    {IssuedStatement(issuer, j, d, "cas:1", handle, p, from, to) :
        issuer \in DOMAIN Keys, j \in Jobs, d \in Digests, p \in Plans,
        handle \in Handles, from \in 0 .. 1, to \in 0 .. 3}

(* What a deployment may state instead of st: another staging reference, the *)
(* hash of another plan, the steps of another plan, or the replay domain of  *)
(* another attach, each of which contradicts the rest.                      *)
Mistakes(st) ==
    LET plans == {NormalizedPlan(Manifest(None, p, None)) : p \in Plans}
    IN  {[st EXCEPT !.staged_ref = "cas:2"]}
          \cup {[st EXCEPT !.plan_hash = plan_hash_for_plan(n)] : n \in plans}
          \cup {[st EXCEPT !.steps = VerifiedSteps(n)] : n \in plans}
          \cup {[st EXCEPT !.replay_domain = attachment_replay_domain(j, 1, d)] :
                   j \in Jobs, d \in Digests}

(* All that is ever signed or recorded. *)
Stated == Statements \cup UNION {Mistakes(st) : st \in Statements}

(* Nothing the deployment states is Wrong, and a MAC is neither that nor      *)
(* nothing.                                                                 *)
ASSUME WrongAssumption ==
    /\ Ref \notin {None, Wrong}
    /\ \A st \in Stated :
          /\ \A f \in StatementFields : st[f] # Wrong
          /\ _receipt_mac(Keys[st.issuer], st) \notin {None, Wrong}

(* The deployment verified one payload with one plan for one job; the client *)
(* asks for another of the same, perhaps.                                   *)
Init ==
    /\ kind \in {"hmac", "opaque"}
    /\ step = "stated"
    /\ job \in Jobs
    /\ job_policy \in Policies
    /\ \E st \in Statements, d \in Digests, p \in Plans, v \in FieldValues,
          c \in Constraints :
          request =
            [manifest |-> Manifest(d, p, v),
             staged |-> [ref |-> "cas:1", digest |-> d, size |-> 1],
             receipt |-> st,
             constraints |-> c, expected_generation |-> 1]
    /\ directory = <<>>
    /\ now = 0
    /\ mistaken = FALSE
    /\ altered = FALSE
    /\ verdict = None

Mistake ==
    /\ step = "stated" /\ ~mistaken
    /\ mistaken' = TRUE
    /\ \E st \in Mistakes(request.receipt) \ {request.receipt} :
          request' = [request EXCEPT !.receipt = st]
    /\ UNCHANGED <<kind, step, job, job_policy, directory, now, altered,
                   verdict>>

Issue ==
    /\ step = "stated"
    /\ step' = "issued"
    /\ LET s == request.receipt
       IN  IF kind = "hmac"
             THEN /\ request' = [request EXCEPT !.receipt =
                                   issue_statement(s.issuer, Keys[s.issuer], s)]
                  /\ UNCHANGED directory
             ELSE /\ request' = [request EXCEPT !.receipt =
                       [f \in StatementFields \cup {"mac", "receipt_ref"} |->
                          CASE f = "mac" -> None
                            [] f = "receipt_ref" -> Ref
                            [] OTHER -> s[f]]]
                  /\ directory' = [x \in {Ref} |-> s]
    /\ UNCHANGED <<kind, job, job_policy, now, mistaken, altered, verdict>>

(* What a receipt may be turned into: one field at a time. *)
Alterations(receipt) ==
    {[receipt EXCEPT ![f] = Wrong] :
        f \in {"issuer", "job_id", "generation", "artifact_digest",
               "staged_ref", "mount_handle", "verifier", "plan_hash",
               "replay_domain"}}
      \cup {[receipt EXCEPT !.expires_at = @ + 1],
            [receipt EXCEPT !.issued_at = @ + 1],
            [receipt EXCEPT !.steps = Tail(@)]}
      \cup (IF receipt.mac = None
              THEN {[receipt EXCEPT !.receipt_ref = Wrong]}
              ELSE {[receipt EXCEPT !.mac = Wrong]})

Alter ==
    /\ step = "issued" /\ ~mistaken
    /\ step' = "sent"
    /\ \E r \in Alterations(request.receipt) :
          request' = [request EXCEPT !.receipt = r]
    /\ altered' = TRUE
    /\ UNCHANGED <<kind, job, job_policy, directory, now, mistaken, verdict>>

Forward ==
    /\ step = "issued"
    /\ step' = "sent"
    /\ UNCHANGED <<kind, job, job_policy, request, directory, now, mistaken,
                   altered, verdict>>

Tick ==
    /\ step = "sent" /\ now < MaxNow
    /\ now' = now + 1
    /\ UNCHANGED <<kind, step, job, job_policy, request, directory, mistaken,
                   altered, verdict>>

Authentic ==
    LET d == request.manifest.payload_digest
        store == [i \in Trusted |-> Keys[i]]
    IN  IF kind = "hmac"
          THEN HmacVerifies(request.receipt, store, job, 1, d, now)
          ELSE OpaqueVerifies(request.receipt, directory, job, 1, d, now)

Judge ==
    /\ step = "sent"
    /\ step' = "judged"
    /\ verdict' = AttachVerdict(request, Authentic, Commit, job_policy)
    /\ UNCHANGED <<kind, job, job_policy, request, directory, now, mistaken,
                   altered>>

Next == Mistake \/ Issue \/ Alter \/ Forward \/ Tick \/ Judge

Spec == Init /\ [][Next]_vars

-----------------------------------------------------------------------------
TypeOK ==
    /\ kind \in {"hmac", "opaque"}
    /\ step \in {"stated", "issued", "sent", "judged"}
    /\ job \in Jobs /\ now \in 0 .. MaxNow
    /\ mistaken \in BOOLEAN /\ altered \in BOOLEAN
    /\ verdict \in {None, "ok", "artifact_invalid", "artifact_verification",
                    "receipt_untrusted"}

(* The receipt the deployment has to issue for this very request. *)
Owed ==
    {IssuedStatement(i, job, request.manifest.payload_digest,
                     request.staged.ref, h, request.manifest.verify_commands,
                     from, to) :
        i \in IF kind = "hmac" THEN Trusted ELSE DOMAIN Keys,
        h \in Handles \ CasHandles, from \in 0 .. now, to \in now + 1 .. 3}

(* The values the manifest must carry: the policy's, and the caller's where *)
(* the policy is silent.                                                    *)
Asked(f) == IF job_policy[f] # None THEN job_policy[f]
                                    ELSE request.constraints[f]

PolicyMet ==
    /\ \A f \in PolicyFields \ OptionalFields : Asked(f) # None
    /\ \A f \in PolicyFields :
          Asked(f) # None => request.manifest.fields[f] = Asked(f)
    /\ \A f \in PolicyFields :
          job_policy[f] # None =>
            request.constraints[f] \in {None, job_policy[f]}

(* The gateway accepts exactly what it should: a receipt that reached it as *)
(* it was issued, says what the deployment owes for this request, lives no  *)
(* longer than allowed, for a manifest the job's policy asks for.  A        *)
(* signature of the deployment's does not make up for a mistake of its.     *)
AcceptsExactlyTheOwed ==
    step = "judged" =>
      (verdict = "ok" <=>
         /\ ~altered
         /\ receipt_statement_from_receipt(request.receipt) \in Owed
         /\ request.receipt.expires_at - request.receipt.issued_at
              <= MaxReceiptTTL
         /\ PolicyMet)
=============================================================================
