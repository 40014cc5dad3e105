---------------------------- MODULE MCFoundryJobs ----------------------------
(***************************************************************************)
(* Requests and constant values for the model-checked instances of         *)
(* FoundryJobs.  The requests are what a deployment, its clients and their *)
(* mistakes send: a genuine attach of each of two artifacts, the same      *)
(* receipt again in another request, a second genuine receipt for the same *)
(* artifact, a receipt that runs out, and requests each wrong in one way.  *)
(***************************************************************************)
EXTENDS FoundryJobs, TLC

CONSTANTS j1, j2, k1, k2, k3, k4, r1, r2, r3

MCPolicyFields == {"lock_digest", "provenance_ref"}
MCOptionalFields == {"provenance_ref"}
MCNormalStep == "sha256sum payload" :> "argv sha256sum payload"
                @@ "payload-digest" :> "payload-digest"
MCCasHandles == {"cas:p1", "cas:p2"}
MCIssuers == "deployment" :> "key1"
MCDigests == {"d1", "d2"}

NoConstraints == [f \in MCPolicyFields |-> None]
JobPolicy == [f \in MCPolicyFields |->
                IF f = "lock_digest" THEN "lock1" ELSE None]

Manifest(d) ==
    [well_formed |-> TRUE, payload_digest |-> d, payload_bytes |-> 1,
     source_commit |-> "commit1",
     verify_commands |-> <<"sha256sum payload", "payload-digest">>,
     fields |-> [f \in MCPolicyFields |-> "lock1"]]

StagedRef(d) == IF d = "d1" THEN "cas:p1" ELSE "cas:p2"

(* What the deployment states after verifying and mounting payload d for j. *)
Statement(j, d, issued, expires) ==
    issue("deployment", j, d, StagedRef(d), "mount-1",
          NormalizedPlan(Manifest(d)), issued, expires)

Signed(s, key) == issue_statement("deployment", key, s)
Opaque(s, ref) == s @@ [mac |-> None, receipt_ref |-> ref]

Request(d, receipt) ==
    [manifest |-> Manifest(d),
     staged |-> [ref |-> StagedRef(d), digest |-> d, size |-> 1],
     receipt |-> receipt, constraints |-> NoConstraints,
     expected_generation |-> 1]

-----------------------------------------------------------------------------
(* Signed receipts, valid from 0 to 2 unless the name says otherwise. *)
Genuine(j, d) == Request(d, Signed(Statement(j, d, 0, 2), "key1"))
SameReceipt(j, d) ==
    [Genuine(j, d) EXCEPT !.constraints["lock_digest"] = "lock1"]
SecondReceipt(j, d) == Request(d, Signed(Statement(j, d, 1, 3), "key1"))
StaleAttach(j, d) == [Genuine(j, d) EXCEPT !.expected_generation = 2]
Forged(j, d) == Request(d, Signed(Statement(j, d, 0, 2), "key2"))
BadManifest(j, d) == [Genuine(j, d) EXCEPT !.manifest.well_formed = FALSE]
Widened(j, d) ==
    [Genuine(j, d) EXCEPT !.manifest.fields["lock_digest"] = "lock2",
                          !.constraints["lock_digest"] = "lock2"]

HmacRequests ==
    {Genuine(j1, "d1"), SameReceipt(j1, "d1"), SecondReceipt(j1, "d1"),
     Genuine(j1, "d2"), StaleAttach(j1, "d1"), Forged(j1, "d2"),
     BadManifest(j1, "d1"), Widened(j1, "d2")}

(* The genuine request and the same receipt in another one. *)
ReplayRequests == {Genuine(j1, "d1"), SameReceipt(j1, "d1")}

(* A receipt for either of two jobs; each may be sent to the other job.     *)
TwoJobRequests ==
    {Genuine(j1, "d1"), SameReceipt(j2, "d1")}

(* A receipt the deployment vouches for, until it revokes it. *)
OneReceipt == r2 :> Statement(j1, "d1", 0, 1)
Vouched == Request("d1", Opaque(OneReceipt[r2], r2))

(* What a gateway without a verifier may be sent. *)
UnverifiedRequests ==
    {Vouched, StaleAttach(j1, "d1"), BadManifest(j1, "d1")}

PrepareOne ==
    [project |-> "p", source_digest |-> "commit1", artifact_policy |-> JobPolicy]
MCPrepareRequests == {PrepareOne}
TwoPrepareRequests == {PrepareOne, [PrepareOne EXCEPT !.artifact_policy = NoConstraints]}
MCExecuteRequests ==
    [command : {"run"}, expected_generation : {1}, native_identity : {"u1", None}]
      \cup [command : {"run"}, expected_generation : {2},
            native_identity : {"u1"}]
MCControlRequests == [expected_generation : {1, 2}, reason : {"requested"}]
OneExecuteRequest ==
    [command : {"run"}, expected_generation : {1}, native_identity : {"u1"}]
OneControlRequest == [expected_generation : {1}, reason : {"requested"}]
MCNoDirectory == <<>>

KeySymmetry == Permutations(Keys) \cup Permutations(PrepareKeys)
=============================================================================
