------------------------------- MODULE Routing -------------------------------
(***************************************************************************)
(* Which executors may serve an aigw/1 delegation, and in which order      *)
(* (service.py _policy_error, router.py route, executors.py).  A request   *)
(* is a record with the fields of DelegationRequest the gateway looks at;  *)
(* its action is None or [command, env, spawnable], where spawnable says   *)
(* that the operating system interface takes argv and environment at all   *)
(* (no NUL byte in them).                                                  *)
(***************************************************************************)
EXTENDS Integers, FiniteSets

CONSTANTS
    None,
    Executors,       \* positions in the configured list of executors
    Config,          \* ExecutorConfig of each
    AllowWrite,      \* config.allow_write
    AllowPrivileged  \* config.allow_privileged

ASSUME ExecutorsAssumption ==
    /\ Executors \subseteq Nat
    /\ IsFiniteSet(Executors)
    /\ None \notin Executors
ASSUME ConfigAssumption ==
    \A e \in Executors : {Config[e].priority, Config[e].cost_tier,
                          Config[e].quality_tier} \subseteq Int

(* RoutingPreference and Risk *)
Preferences == {"lowest_cost", "quality_first", "specific", "local_first"}
Risks == {"read", "write", "privileged"}

Kinds == {"echo", "agent_process", "structured_process"}

(* build_executors: an executor of an unknown type is skipped. *)
Built == {e \in Executors : Config[e].type \in Kinds}

(* Mutant: any risk is let through once writing is allowed. *)
PolicyAdmits_WriteIsEnough(r) == r.risk # "read" => AllowWrite

(* _policy_error finds nothing. *)
PolicyAdmits(r) ==
    /\ r.risk = "write" => AllowWrite
    /\ r.risk = "privileged" => AllowPrivileged

supports(e, r) ==
    /\ Config[e].enabled
    /\ r.capabilities \subseteq Config[e].capabilities

Candidates(r) ==
    {e \in Built : /\ supports(e, r)
                   /\ r.executor # None => Config[e].name = r.executor}

(* Mutant: the better executor is the one with the lower quality tier. *)
Key_QualityUp(r, e) ==
    LET x == Config[e]
    IN  CASE r.preference = "lowest_cost" ->
               <<x.cost_tier, x.quality_tier, x.priority, e>>
          [] r.preference = "quality_first" ->
               <<x.quality_tier, x.cost_tier, x.priority, e>>
          [] r.preference = "specific" -> <<x.priority, 0, 0, e>>
          [] r.preference = "local_first" ->
               <<x.priority, x.cost_tier, x.quality_tier, e>>

(* The sort key of route.  sorted is stable, so the position in the         *)
(* configuration decides last.                                              *)
Key(r, e) ==
    LET x == Config[e]
    IN  CASE r.preference = "lowest_cost" ->
               <<x.cost_tier, -x.quality_tier, x.priority, e>>
          [] r.preference = "quality_first" ->
               <<-x.quality_tier, x.cost_tier, x.priority, e>>
          [] r.preference = "specific" -> <<x.priority, 0, 0, e>>
          [] r.preference = "local_first" ->
               <<x.priority, x.cost_tier, -x.quality_tier, e>>

Before(r, e, f) ==
    \E n \in 1 .. 4 :
       /\ Key(r, e)[n] < Key(r, f)[n]
       /\ \A m \in 1 .. n - 1 : Key(r, e)[m] = Key(r, f)[m]

(* The executors submit's loop may still turn to, having turned to those in *)
(* done: it leaves after the first one if the request allows no fallback.   *)
Reachable(r, done) ==
    {e \in Candidates(r) \ done :
       \/ r.allow_fallback
       \/ \A f \in Candidates(r) \ {e} : Before(r, e, f)}

(* ExecutorUnavailable is raised before the executor first suspends.  Whether *)
(* the configured working directory exists is the file system's business.    *)
Refuses(e, r, missing_cwd) ==
    CASE Config[e].type = "echo" -> FALSE
      [] Config[e].type = "agent_process" ->
           ~Config[e].argv \/ e \in missing_cwd
      [] Config[e].type = "structured_process" ->
           IF r.action = None THEN TRUE
           ELSE \/ r.action.command \notin Config[e].allowed_commands
                \/ ~(r.action.env \subseteq Config[e].allowed_env)

(* The executors the loop passes over, starting after done: those that      *)
(* refuse, up to the first one that does not.                               *)
PassedOver(r, done, missing_cwd) ==
    {e \in Reachable(r, done) :
       /\ Refuses(e, r, missing_cwd)
       /\ \A f \in Reachable(r, done) :
             Before(r, f, e) => Refuses(f, r, missing_cwd)}

(* The executor that then takes the request: the first of the rest.         *)
Taker(r, done, missing_cwd) ==
    LET rest == Reachable(r, done) \ PassedOver(r, done, missing_cwd)
    IN  {e \in rest : \A f \in rest \ {e} : Before(r, e, f)}
=============================================================================
