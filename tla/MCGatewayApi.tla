---------------------------- MODULE MCGatewayApi ----------------------------
(* The instances of GatewayApi: one request of each outcome.  The execute    *)
(* requests with and without an identity are the same request to the slot.   *)
EXTENDS GatewayApi, MCFoundryJobs

(* A genuine attach, one with an unknown receipt, one of an unusable artifact. *)
ApiRequests ==
    {Vouched, Request("d1", Opaque(OneReceipt[r2], r3)),
     [Vouched EXCEPT !.manifest.well_formed = FALSE]}

ApiExecuteRequests ==
    [command : {"run"}, expected_generation : {1}, native_identity : {"u1", None}]

WatchedContents == Contents \X {k1}
WatchedCalls == Operations \X {k1}

OtherKeys == Permutations(Keys \ {c[2] : c \in Watched})
=============================================================================
