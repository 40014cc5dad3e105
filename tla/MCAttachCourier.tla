--------------------------- MODULE MCAttachCourier ---------------------------
(* Values for model-checking AttachCourier. *)
EXTENDS AttachCourier, TLC

MCPolicyFields == {"lock_digest", "provenance_ref"}
MCOptionalFields == {"provenance_ref"}
MCNormalStep == "sha256sum payload" :> "argv sha256sum payload"
                @@ "payload-digest" :> "payload-digest"
MCCasHandles == {"cas:1"}
MCHandles == {"mount", "cas:1"}
MCKeys == "deployment" :> "key1" @@ "stranger" :> "key2"
MCTrusted == {"deployment"}
MCPlans == {<<"sha256sum payload", "payload-digest">>,
            <<"payload-digest", "sha256sum payload">>,
            <<"sha256sum payload">>}
MCFields(lock, ref) ==
    [f \in MCPolicyFields |-> IF f = "lock_digest" THEN lock ELSE ref]
MCPolicies == {MCFields("a", None), MCFields(None, None)}
MCConstraints ==
    {MCFields(None, None), MCFields("a", None), MCFields("b", "b")}

MCSymmetry == Permutations(Jobs) \cup Permutations(Digests)
=============================================================================
