---------------------------- MODULE JobLifecycle ----------------------------
(***************************************************************************)
(* What the Foundry v3 machine promises about a job, without keys,         *)
(* receipts, policies or an audit log: artifacts are gathered until the    *)
(* job is launched or stopped, the launch seals them, and a job that has   *)
(* reached an end stays there.                                             *)
(***************************************************************************)
CONSTANTS Jobs, Artifacts

VARIABLES
    phase,      \* where the job is; "succeeded" and "failed" are "finished"
    artifacts,  \* the artifacts attached to it
    sealed      \* the artifacts its execution is bound to

vars == <<phase, artifacts, sealed>>

Phases == {"absent", "accepted", "preparing", "ready", "running",
           "stopping", "finished", "quarantined"}
Open == {"accepted", "preparing", "ready"}
Ended == {"finished", "quarantined"}

TypeOK ==
    /\ phase \in [Jobs -> Phases]
    /\ artifacts \in [Jobs -> SUBSET Artifacts]
    /\ sealed \in [Jobs -> SUBSET Artifacts]

Init ==
    /\ phase = [j \in Jobs |-> "absent"]
    /\ artifacts = [j \in Jobs |-> {}]
    /\ sealed = [j \in Jobs |-> {}]

Move(j, from, to) ==
    /\ phase[j] \in from
    /\ phase' = [phase EXCEPT ![j] = to]

Accept(j) == Move(j, {"absent"}, "accepted") /\ UNCHANGED <<artifacts, sealed>>

Attach(j, a) ==
    /\ phase[j] \in Open
    /\ a \notin artifacts[j]
    /\ artifacts' = [artifacts EXCEPT ![j] = @ \cup {a}]
    /\ UNCHANGED <<phase, sealed>>

Ready(j) ==
    /\ Move(j, {"accepted", "preparing"}, "ready")
    /\ UNCHANGED <<artifacts, sealed>>

Launch(j) ==
    /\ Move(j, {"ready"}, "running")
    /\ sealed' = [sealed EXCEPT ![j] = artifacts[j]]
    /\ UNCHANGED artifacts

Stop(j) ==
    /\ Move(j, {"preparing", "ready", "running"}, "stopping")
    /\ UNCHANGED <<artifacts, sealed>>

Finish(j) ==
    /\ Move(j, {"running"}, "finished")
    /\ UNCHANGED <<artifacts, sealed>>

Quarantine(j) ==
    /\ Move(j, Phases \ ({"absent"} \cup Ended), "quarantined")
    /\ UNCHANGED <<artifacts, sealed>>

Next ==
    \E j \in Jobs :
        \/ Accept(j) \/ Ready(j) \/ Launch(j) \/ Stop(j)
        \/ Finish(j) \/ Quarantine(j)
        \/ \E a \in Artifacts : Attach(j, a)

Spec == Init /\ [][Next]_vars
=============================================================================
