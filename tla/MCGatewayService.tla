--------------------------- MODULE MCGatewayService ---------------------------
(***************************************************************************)
(* Executors and requests for the model-checked instances of               *)
(* GatewayService: the executors of examples/gateway.toml's kinds, with    *)
(* tiers that make every preference order them differently, ties of        *)
(* priority among them.                                                    *)
(***************************************************************************)
EXTENDS GatewayService, TLC

Configured(name, type, caps, cost, quality, priority) ==
    [name |-> name, type |-> type, enabled |-> TRUE, argv |-> TRUE,
     capabilities |-> caps, cost_tier |-> cost, quality_tier |-> quality,
     priority |-> priority, cwd |-> FALSE,
     allowed_commands |-> {"git"}, allowed_env |-> {}]

MCConfig ==
    1 :> [Configured("agent", "agent_process", {"fs", "sh"}, 1, 3, 10)
            EXCEPT !.cwd = TRUE]
    @@ 2 :> Configured("echo", "echo", {"fs"}, 0, 0, 20)
    @@ 3 :> Configured("process", "structured_process", {"fs"}, 0, 2, 20)
    @@ 4 :> [Configured("off", "agent_process", {"fs"}, 0, 9, 1)
               EXCEPT !.enabled = FALSE]
    @@ 5 :> [Configured("empty", "agent_process", {"fs"}, 2, 1, 20)
               EXCEPT !.argv = FALSE]
    @@ 6 :> Configured("other", "unknown", {"fs"}, 0, 9, 1)

Request(id, preference) ==
    [id |-> id, capabilities |-> {"fs"}, risk |-> "read",
     preference |-> preference, executor |-> None, allow_fallback |-> TRUE,
     action |-> [command |-> "git", env |-> {}, spawnable |-> TRUE]]

(* One request per way through the service. *)
MCRequests ==
    {Request("a", "local_first"),
     Request("a", "lowest_cost"),
     [Request("b", "quality_first") EXCEPT !.action = None],
     [Request("a", "local_first") EXCEPT !.risk = "write",
                                         !.allow_fallback = FALSE],
     [Request("b", "local_first") EXCEPT !.risk = "privileged"],
     [Request("b", "lowest_cost") EXCEPT !.capabilities = {"gpu"}],
     [Request("b", "lowest_cost") EXCEPT !.allow_fallback = FALSE,
                                         !.action.spawnable = FALSE],
     [Request("a", "specific") EXCEPT !.executor = "process",
                                      !.action.command = "rm"],
     [Request("b", "specific") EXCEPT !.executor = "agent"]}

MCExitCodes == {0, 1, -9}
=============================================================================
