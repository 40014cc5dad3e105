---------------------------- MODULE FoundryJobs_log ----------------------------
(***************************************************************************)
(* What the audit log of the client (FoundryJobs) says of a job, for every *)
(* value of the constants, in four parts.                                  *)
(*                                                                         *)
(* The launch.  FrozenAtLaunch is not inductive: that nothing is attached  *)
(* after a launch needs that a job with a running event has left the       *)
(* states in which artifacts are attached, and that settle_running does    *)
(* not replace the frozen set needs that a running job has a running       *)
(* event.                                                                  *)
(*                                                                         *)
(* The refinement of JobLifecycle, and OneLaunch: a job is launched once.  *)
(*                                                                         *)
(* What a comprehension keeps of a list (Keep), by the ranks of the places *)
(* it keeps: reads are built from it, and a proof about them needs that    *)
(* keeping is monotonic and that what is appended is kept behind the rest. *)
(*                                                                         *)
(* The events of one job tell its history (EventsTellTheJob), and a result *)
(* read from them is final.                                                *)
(***************************************************************************)
EXTENDS FoundryJobs_books

Launch(n) == events[n].to_state = "running"

LaunchInv ==
    /\ FrozenAtLaunch
    /\ \A n \in DOMAIN events : Launch(n) =>
          state[events[n].job_id] \notin ATTACHABLE_STATES \cup {"absent"}
    /\ \A j \in Jobs : state[j] = "running" =>
          \E n \in DOMAIN events : Launch(n) /\ events[n].job_id = j

(* What a step that launches no job may do. *)
NoLaunch(added) ==
    /\ events' = events \o added
    /\ \A i \in DOMAIN added : added[i].to_state # "running"
    /\ UNCHANGED <<frozen, identity>>
    /\ \A j \in Jobs :
          /\ attachments'[j] = attachments[j] \/ state[j] \in ATTACHABLE_STATES
          /\ \/ state'[j] = state[j]
             \/ /\ state'[j] # "running"
                /\ state'[j] \in ATTACHABLE_STATES \cup {"absent"} =>
                     state[j] \in ATTACHABLE_STATES \cup {"absent"}

(* A step that launches nothing and touches no launched job keeps LaunchInv. *)
LEMMA NoLaunchKeeps ==
    ASSUME TypeOK, LaunchInv, NEW added \in Seq(EventType), NoLaunch(added)
    PROVE  LaunchInv'
<1>1. events \in Seq(EventType)
  BY DEF TypeOK
<1>2. \A n \in DOMAIN events' : Launch(n)' =>
        n \in DOMAIN events /\ events'[n] = events[n] /\ Launch(n)
  BY <1>1, EventsAdded DEF NoLaunch, Launch
<1>3. \A n \in DOMAIN events :
        n \in DOMAIN events' /\ events'[n] = events[n]
  BY <1>1, EventsAdded DEF NoLaunch
<1>4. \A n \in DOMAIN events : events[n].job_id \in Jobs
  <2>1. \A n \in DOMAIN events : events[n] \in EventType
    BY <1>1, LenProperties
  <2>. QED
    BY <2>1 DEF EventType
<1>5. ASSUME NEW n \in DOMAIN events', Launch(n)'
      PROVE  LET j == events[n].job_id
             IN  /\ events'[n] = events[n] /\ n \in DOMAIN events
                 /\ state'[j] \notin ATTACHABLE_STATES \cup {"absent"}
                 /\ frozen'[j] = events[n].artifact_digests
                 /\ frozen'[j] = attachments'[j]
                 /\ identity'[j] # None
  <2>1. n \in DOMAIN events /\ events'[n] = events[n] /\ Launch(n)
    BY <1>2, <1>5
  <2>. QED
    BY <2>1, <1>4 DEF LaunchInv, FrozenAtLaunch, NoLaunch, Launch
<1>6. ASSUME NEW j \in Jobs,
             \A n \in DOMAIN events' : events'[n].job_id = j =>
                events'[n].to_state # "running"
      PROVE  frozen'[j] = <<>> /\ identity'[j] = None
  <2>1. \A n \in DOMAIN events : events[n].job_id = j =>
           events[n].to_state # "running"
    BY <1>3, <1>6
  <2>. QED
    BY <2>1 DEF LaunchInv, FrozenAtLaunch, NoLaunch
<1>7. ASSUME NEW j \in Jobs, state'[j] = "running"
      PROVE  \E n \in DOMAIN events' : Launch(n)' /\ events'[n].job_id = j
  <2>1. state[j] = "running"
    BY <1>7 DEF NoLaunch
  <2>2. PICK n \in DOMAIN events : Launch(n) /\ events[n].job_id = j
    BY <2>1 DEF LaunchInv
  <2>. QED
    BY <2>2, <1>3 DEF Launch
<1>. QED
  BY <1>5, <1>6, <1>7 DEF LaunchInv, FrozenAtLaunch, Launch

(* A step that adds no event. *)
LEMMA SilentKeeps ==
    ASSUME TypeOK, LaunchInv, UNCHANGED <<jobVars, attachments, events>>
    PROVE  LaunchInv'
BY DEF LaunchInv, FrozenAtLaunch, Launch, jobVars

(* One event of _record, of a job that does not run. *)
LEMMA RecordKeepsLaunch ==
    ASSUME TypeOK, LaunchInv,
           NEW j \in Jobs, NEW from \in JOB_STATES, NEW to \in JOB_STATES,
           NEW reason \in Reasons, NEW digests \in Seq(Digests),
           to # "running",
           _record(j, from, to, reason, digests),
           UNCHANGED <<frozen, identity>>,
           \A i \in Jobs :
              /\ \/ attachments'[i] = attachments[i]
                 \/ state[i] \in ATTACHABLE_STATES
              /\ \/ state'[i] = state[i]
                 \/ /\ state'[i] # "running"
                    /\ state'[i] \in ATTACHABLE_STATES \cup {"absent"} =>
                         state[i] \in ATTACHABLE_STATES \cup {"absent"}
    PROVE  LaunchInv'
<1>. DEFINE e == Event(Len(events) + 1, j, from, to, reason, None, digests)
<1>1. events \in Seq(EventType)
  BY DEF TypeOK
<1>2. e \in EventType
  <2>1. Len(events) + 1 \in Nat \ {0}
    <3>1. Len(events) \in Nat
      BY <1>1, LenProperties
    <3>. QED
      BY <3>1
  <2>. QED
    BY <2>1, EventTyped
<1>3. e.to_state # "running"
  BY DEF Event
<1>4. events' = Append(events, e)
  BY DEF _record
<1>. HIDE DEF e
<1>5. <<e>> \in Seq(EventType) /\ events' = events \o <<e>>
  BY <1>1, <1>2, <1>4
<1>6. NoLaunch(<<e>>)
  BY <1>3, <1>5 DEF NoLaunch
<1>. QED
  BY <1>5, <1>6, NoLaunchKeeps

(* prepare_job: the new job has neither launch nor frozen set. *)
LEMMA PrepareKeepsLaunch ==
    ASSUME TypeOK, LaunchInv, Prepare
    PROVE  LaunchInv'
<1>1. ASSUME NEW k \in PrepareKeys, NEW r \in PrepareRequests, NEW j \in Jobs,
             PrepareNew(j, k, r)
      PROVE  LaunchInv'
  <2>1. /\ "accepted" \in JOB_STATES /\ "job accepted" \in Reasons
        /\ attachments[j] \in Seq(Digests)
    BY DEF JOB_STATES, Reasons, TypeOK
  <2>2. _record(j, "accepted", "accepted", "job accepted", attachments[j])
    BY <1>1 DEF PrepareNew
  <2>3. UNCHANGED <<frozen, identity, attachments>>
    BY <1>1 DEF PrepareNew, attachVars
  <2>4. \A i \in Jobs :
          \/ state'[i] = state[i]
          \/ state'[i] = "accepted" /\ state[i] = "absent"
    BY <1>1 DEF PrepareNew, TypeOK
  <2>. QED
    BY <2>1, <2>2, <2>3, <2>4, RecordKeepsLaunch
<1>2. ASSUME NEW k \in PrepareKeys, NEW r \in PrepareRequests,
             PrepareAgain(k, r)
      PROVE  LaunchInv'
  BY <1>2, SilentKeeps DEF PrepareAgain, attachVars
<1>. QED
  BY <1>1, <1>2 DEF Prepare

(* attach_artifact: only jobs that were not launched gain artifacts. *)
LEMMA AttachKeepsLaunch ==
    ASSUME TypeOK, LaunchInv, NEW j \in Jobs, NEW k \in Keys,
           NEW r \in AttachRequests, Attach(j, k, r)
    PROVE  LaunchInv'
<1>1. CASE AttachFailsChecks(j, k, r) \/ AttachConflicts(j, k, r)
  <2>1. PICK code : QuarantineForFailure(j, k, r, code)
    BY <1>1 DEF AttachFailsChecks, AttachConflicts
  <2>2. /\ state[j] \in JOB_STATES /\ "quarantined" \in JOB_STATES
        /\ "artifact verification failed" \in Reasons
        /\ attachments[j] \in Seq(Digests)
    BY <1>1
    DEF AttachFailsChecks, AttachConflicts, AttachChecked, Begin, TypeOK,
        JOB_STATES, Reasons
  <2>3. /\ _record(j, state[j], "quarantined", "artifact verification failed",
                   attachments[j])
        /\ UNCHANGED <<frozen, identity, attachments>>
    BY <2>1 DEF QuarantineForFailure, attachVars
  <2>4. \A i \in Jobs : state'[i] = state[i] \/ state'[i] = "quarantined"
    BY <2>1 DEF QuarantineForFailure, TypeOK
  <2>. QED
    BY <2>2, <2>3, <2>4, RecordKeepsLaunch DEF ATTACHABLE_STATES
<1>2. CASE AttachRecords(j, k, r)
  <2>1. state[j] \in ATTACHABLE_STATES
    BY <1>2 DEF AttachRecords, AttachChecked
  <2>2. TypeOK'
    BY <1>2, AttachRecordsTyped
  <2>3. /\ state[j] \in JOB_STATES /\ state[j] # "running"
        /\ "artifact attached" \in Reasons
        /\ attachments'[j] \in Seq(Digests)
    BY <2>1, <2>2 DEF ATTACHABLE_STATES, JOB_STATES, Reasons, TypeOK
  <2>4. /\ _record(j, state[j], state[j], "artifact attached", attachments'[j])
        /\ UNCHANGED <<state, frozen, identity>>
    BY <1>2 DEF AttachRecords, jobVars
  <2>5. \A i \in Jobs : i # j => attachments'[i] = attachments[i]
    BY <1>2 DEF AttachRecords, TypeOK
  <2>. QED
    BY <2>1, <2>3, <2>4, <2>5, RecordKeepsLaunch
<1>3. CASE \/ AttachRejected(j, k, r) \/ AttachReplaysReceipt(j, k, r)
           \/ FromSlot("attach", j, k, AttachPayload(r),
                       r.manifest.payload_digest)
           \/ JobNotFound("attach", j, r.manifest.payload_digest)
  BY <1>3, SilentKeeps
  DEF AttachRejected, StoredFailure, AttachReplaysReceipt, FromSlot,
      JobNotFound, attachVars
<1>. QED
  BY <1>1, <1>2, <1>3 DEF Attach

(* The launch itself. *)
LEMMA ExecuteRunsLaunches ==
    ASSUME TypeOK, LaunchInv, NEW j \in Jobs, NEW k \in Keys,
           NEW r \in ExecuteRequests, ExecuteRuns(j, k, r)
    PROVE  LaunchInv'
<1>. DEFINE reserved == Event(Len(events) + 1, j, "ready", "ready",
                              "launch reserved", k, attachments[j])
            running == Event(Len(events) + 2, j, "ready", "running",
                             "executing", None, attachments[j])
            added == <<reserved, running>>
<1>1. /\ events \in Seq(EventType) /\ attachments[j] \in Seq(Digests)
      /\ {"ready", "running"} \subseteq JOB_STATES
      /\ {"launch reserved", "executing"} \subseteq Reasons
  BY DEF TypeOK, JOB_STATES, Reasons
<1>2. reserved \in EventType /\ running \in EventType
  <2>1. Len(events) + 1 \in Nat \ {0} /\ Len(events) + 2 \in Nat \ {0}
    <3>1. Len(events) \in Nat
      BY <1>1, LenProperties
    <3>. QED
      BY <3>1
  <2>. QED
    BY <1>1, <2>1, EventTyped
<1>3. /\ reserved.to_state = "ready"
      /\ running.to_state = "running" /\ running.job_id = j
      /\ running.artifact_digests = attachments[j]
  BY DEF Event
<1>4. /\ events' = events \o added
      /\ state[j] = "ready" /\ r.native_identity # None
      /\ state' = [state EXCEPT ![j] = "running"]
      /\ identity' = [identity EXCEPT ![j] = r.native_identity]
      /\ frozen' = [frozen EXCEPT ![j] = attachments[j]]
      /\ UNCHANGED attachments
  BY DEF ExecuteRuns, attachVars
<1>. HIDE DEF reserved, running
<1>5. added \in Seq(EventType) /\ DOMAIN added = {1, 2}
        /\ added[1] = reserved /\ added[2] = running /\ Len(added) = 2
  BY <1>2
<1>. HIDE DEF added
<1>6. /\ events'[Len(events) + 2] = running
      /\ Len(events) + 2 \in DOMAIN events'
  <2>1. /\ Len(events) \in Nat /\ Len(added) = 2
        /\ DOMAIN events' = 1 .. Len(events) + Len(added)
    BY <1>1, <1>4, <1>5, EventsAdded
  <2>2. \A n \in 1 .. Len(events) + Len(added) :
          (events \o added)[n] = IF n <= Len(events) THEN events[n]
                                 ELSE added[n - Len(events)]
    BY <1>1, <1>5, ConcatProperties
  <2>. QED
    BY <1>4, <1>5, <2>1, <2>2
<1>7. \A n \in DOMAIN events' : Launch(n)' =>
        \/ n \in DOMAIN events /\ events'[n] = events[n] /\ Launch(n)
        \/ events'[n] = running
  <2>1. \A n \in DOMAIN events' :
          n \in DOMAIN events
          \/ \E i \in DOMAIN added : n = Len(events) + i
                                   /\ events'[n] = added[i]
    <3>1. added \in Seq(EventType) /\ events' = events \o added
      BY <1>4, <1>5
    <3>. QED
      BY <1>1, <3>1, EventsAdded
  <2>2. \A n \in DOMAIN events : events'[n] = events[n]
    BY <1>1, <1>4, <1>5, EventsAdded
  <2>. QED
    BY <1>3, <1>5, <2>1, <2>2 DEF Launch
<1>8. \A n \in DOMAIN events :
        n \in DOMAIN events' /\ events'[n] = events[n]
  BY <1>1, <1>4, <1>5, EventsAdded
<1>9. \A n \in DOMAIN events : Launch(n) =>
        events[n].job_id # j /\ events[n].job_id \in Jobs
  <2>1. \A n \in DOMAIN events : events[n] \in EventType
    BY <1>1, LenProperties
  <2>. QED
    BY <1>4, <2>1 DEF LaunchInv, ATTACHABLE_STATES, EventType
<1>10. ASSUME NEW n \in DOMAIN events', Launch(n)'
       PROVE  LET i == events'[n].job_id
              IN  /\ frozen'[i] = events'[n].artifact_digests
                  /\ frozen'[i] = attachments'[i]
                  /\ identity'[i] # None
                  /\ state'[i] \notin ATTACHABLE_STATES \cup {"absent"}
  <2>1. CASE events'[n] = running
    BY <2>1, <1>3, <1>4 DEF TypeOK, ATTACHABLE_STATES
  <2>2. CASE n \in DOMAIN events /\ events'[n] = events[n] /\ Launch(n)
    BY <2>2, <1>4, <1>9 DEF TypeOK, LaunchInv, FrozenAtLaunch, Launch
  <2>. QED
    BY <1>7, <1>10, <2>1, <2>2
<1>11. ASSUME NEW i \in Jobs,
              \A n \in DOMAIN events' : events'[n].job_id = i =>
                 events'[n].to_state # "running"
       PROVE  frozen'[i] = <<>> /\ identity'[i] = None
  <2>1. i # j
    BY <1>3, <1>6, <1>11
  <2>2. \A n \in DOMAIN events : events[n].job_id = i =>
           events[n].to_state # "running"
    BY <1>8, <1>11
  <2>. QED
    BY <1>4, <2>1, <2>2 DEF TypeOK, LaunchInv, FrozenAtLaunch
<1>12. ASSUME NEW i \in Jobs, state'[i] = "running"
       PROVE  \E n \in DOMAIN events' : Launch(n)' /\ events'[n].job_id = i
  <2>1. CASE i = j
    BY <1>3, <1>6, <2>1 DEF Launch
  <2>2. CASE i # j
    <3>1. state[i] = "running"
      BY <1>4, <1>12, <2>2 DEF TypeOK
    <3>2. PICK n \in DOMAIN events : Launch(n) /\ events[n].job_id = i
      BY <3>1 DEF LaunchInv
    <3>. QED
      BY <3>2, <1>8 DEF Launch
  <2>. QED
    BY <2>1, <2>2
<1>. QED
  BY <1>10, <1>11, <1>12 DEF LaunchInv, FrozenAtLaunch, Launch

(* execute_job: the launch, or no change at all. *)
LEMMA ExecuteKeepsLaunch ==
    ASSUME TypeOK, LaunchInv, NEW j \in Jobs, NEW k \in Keys,
           NEW r \in ExecuteRequests, Execute(j, k, r)
    PROVE  LaunchInv'
<1>1. CASE ExecuteRuns(j, k, r)
  BY <1>1, ExecuteRunsLaunches
<1>2. CASE \/ ExecuteRejected(j, k, r)
           \/ FromSlot("execute", j, k, ExecutePayload(r), None)
           \/ JobNotFound("execute", j, None)
  BY <1>2, SilentKeeps
  DEF ExecuteRejected, StoredFailure, FromSlot, JobNotFound, attachVars
<1>. QED
  BY <1>1, <1>2 DEF Execute

(* cancel_job and quarantine_job launch nothing and freeze nothing. *)
LEMMA ControlKeepsLaunch ==
    ASSUME TypeOK, LaunchInv, NEW j \in Jobs, NEW k \in Keys,
           NEW r \in ControlRequests, Cancel(j, k, r) \/ QuarantineJob(j, k, r)
    PROVE  LaunchInv'
<1>1. ASSUME NEW op \in {"cancel", "quarantine"},
             NEW st \in {"cancel_requested", "quarantined"},
             Control(op, j, k, r, st)
      PROVE  LaunchInv'
  <2>1. /\ state[j] \in JOB_STATES /\ st \in JOB_STATES
        /\ st \notin ATTACHABLE_STATES \cup {"absent", "running"}
        /\ r.reason \in Reasons /\ attachments[j] \in Seq(Digests)
    BY <1>1
    DEF Control, Begin, TypeOK, JOB_STATES, ATTACHABLE_STATES, Reasons
  <2>2. /\ _record(j, state[j], st, r.reason, attachments[j])
        /\ UNCHANGED <<frozen, identity, attachments>>
    BY <1>1 DEF Control, attachVars
  <2>3. \A i \in Jobs : state'[i] = state[i] \/ state'[i] = st
    BY <1>1 DEF Control, TypeOK
  <2>. QED
    BY <2>1, <2>2, <2>3, RecordKeepsLaunch
<1>2. CASE \E op \in {"cancel", "quarantine"} :
             \/ ControlFails(op, j, k, r)
             \/ FromSlot(op, j, k, ControlPayload(op, r), None)
             \/ JobNotFound(op, j, None)
  BY <1>2, SilentKeeps DEF ControlFails, FromSlot, JobNotFound, attachVars
<1>. QED
  BY <1>1, <1>2 DEF Cancel, QuarantineJob

(* Readiness comes before the launch, and settling refreezes the same list. *)
LEMMA FoundryKeepsLaunch ==
    ASSUME TypeOK, LaunchInv, NEW j \in Jobs, Foundry(j)
    PROVE  LaunchInv'
<1>1. /\ attachments[j] \in Seq(Digests) /\ events \in Seq(EventType)
      /\ FrozenOrAttached(j) \in Seq(Digests)
      /\ {"accepted", "preparing", "ready", "running", "succeeded", "failed"}
           \subseteq JOB_STATES
      /\ {"synthetic preparation", "synthetic readiness",
          "native unit reported"} \subseteq Reasons
  BY DEF TypeOK, JOB_STATES, Reasons, FrozenOrAttached
<1>2. CASE MarkReady(j)
  <2>. DEFINE prepare == Event(Len(events) + 1, j, "accepted", "preparing",
                               "synthetic preparation", None, attachments[j])
              ready(n) == Event(Len(events) + n, j, "preparing", "ready",
                                "synthetic readiness", None, attachments[j])
  <2>1. Len(events) + 1 \in Nat \ {0} /\ Len(events) + 2 \in Nat \ {0}
    <3>1. Len(events) \in Nat
      BY <1>1, LenProperties
    <3>. QED
      BY <3>1
  <2>2. prepare \in EventType /\ ready(1) \in EventType
          /\ ready(2) \in EventType
    BY <1>1, <2>1, EventTyped
  <2>3. /\ prepare.to_state = "preparing"
        /\ ready(1).to_state = "ready" /\ ready(2).to_state = "ready"
    BY DEF Event
  <2>4. \/ events' = events \o <<prepare, ready(2)>>
        \/ events' = events \o <<ready(1)>>
    BY <1>2 DEF MarkReady
  <2>5. /\ UNCHANGED <<frozen, identity, attachments>>
        /\ state[j] \in ATTACHABLE_STATES
        /\ \A i \in Jobs : state'[i] = IF i = j THEN "ready" ELSE state[i]
    BY <1>2 DEF MarkReady, TypeOK, Unready, ATTACHABLE_STATES, attachVars
  <2>. HIDE DEF prepare, ready
  <2>6. /\ <<prepare, ready(2)>> \in Seq(EventType)
        /\ <<ready(1)>> \in Seq(EventType)
    BY <2>2
  <2>7. NoLaunch(<<prepare, ready(2)>>) \/ NoLaunch(<<ready(1)>>)
    BY <2>3, <2>4, <2>5 DEF NoLaunch
  <2>. QED
    BY <2>6, <2>7, NoLaunchKeeps
<1>3. ASSUME NEW outcome \in {"succeeded", "failed"}, SettleRunning(j, outcome)
      PROVE  LaunchInv'
  <2>1. PICK n \in DOMAIN events : Launch(n) /\ events[n].job_id = j
    BY <1>3 DEF SettleRunning, LaunchInv
  <2>2. FrozenOrAttached(j) = frozen[j]
    BY <2>1 DEF LaunchInv, FrozenAtLaunch, FrozenOrAttached, Launch
  <2>3. frozen' = frozen
    BY <1>3, <2>2 DEF SettleRunning, TypeOK
  <2>4. /\ _record(j, "running", outcome, "native unit reported",
                   FrozenOrAttached(j))
        /\ UNCHANGED <<identity, attachments>>
    BY <1>3 DEF SettleRunning, attachVars
  <2>5. \A i \in Jobs : state'[i] = state[i] \/ state'[i] = outcome
    BY <1>3 DEF SettleRunning, TypeOK
  <2>. QED
    BY <1>1, <2>3, <2>4, <2>5, RecordKeepsLaunch DEF ATTACHABLE_STATES
<1>. QED
  BY <1>2, <1>3 DEF Foundry

(* LaunchInv is inductive, given the types. *)
LEMMA NextKeepsLaunch == TypeOK /\ LaunchInv /\ [Next]_vars => LaunchInv'
<1>. SUFFICES ASSUME TypeOK, LaunchInv, [Next]_vars PROVE LaunchInv'
  OBVIOUS
<1>1. CASE Prepare
  BY <1>1, PrepareKeepsLaunch
<1>2. CASE \E j \in Jobs, k \in Keys : Call(j, k)
  BY <1>2, AttachKeepsLaunch, ExecuteKeepsLaunch, ControlKeepsLaunch DEF Call
<1>3. CASE \E j \in Jobs : Foundry(j)
  BY <1>3, FoundryKeepsLaunch
<1>4. CASE Tick \/ \E ref \in DOMAIN directory : Revoke(ref)
  BY <1>4, SilentKeeps DEF Tick, Revoke, attachVars
<1>5. CASE UNCHANGED vars
  BY <1>5, SilentKeeps DEF vars, attachVars
<1>. QED
  BY <1>1, <1>2, <1>3, <1>4, <1>5 DEF Next, Deployment

(* No job has been launched at the start. *)
LEMMA InitLaunch == Init => LaunchInv
BY DEF Init, LaunchInv, FrozenAtLaunch, Launch

(* The inductive strengthening of FrozenAtLaunch: launched jobs are out of  *)
(* reach of attach_artifact, and every running job was launched.            *)
THEOREM LaunchInvariant == Spec => []LaunchInv
BY InitLaunch, NextKeepsLaunch, TypeCorrect, PTL DEF Spec

(* A launched job is bound to exactly the artifacts attached when it was    *)
(* launched, and these stay the attached ones; a job that was not launched  *)
(* is bound to none.                                                        *)
THEOREM LaunchFreezes == Spec => []FrozenAtLaunch
<1>1. LaunchInv => FrozenAtLaunch
  BY DEF LaunchInv
<1>. QED
  BY <1>1, LaunchInvariant, PTL

-----------------------------------------------------------------------------
(* The client implements JobLifecycle *)

phase == [j \in Jobs |-> Phase(state[j])]
artifacts == [j \in Jobs |-> Attached(j)]
sealed == [j \in Jobs |-> {frozen[j][i] : i \in DOMAIN frozen[j]}]

(* The states of a client's job, and the phases they stand for. *)
LEMMA PhaseOf ==
    /\ \A st \in {"absent", "accepted", "preparing", "ready", "running",
                  "quarantined"} : Phase(st) = st
    /\ Phase("cancel_requested") = "stopping"
    /\ Phase("succeeded") = "finished" /\ Phase("failed") = "finished"
BY DEF Phase

(* What moves no job, attaches nothing and freezes nothing is a stutter. *)
LEMMA StutterRefines ==
    ASSUME UNCHANGED <<state, attachments, frozen>>
    PROVE  UNCHANGED Lifecycle!vars
BY DEF Lifecycle!vars, Attached

(* A step that moves one job and changes no list of artifacts. *)
LEMMA MoveRefines ==
    ASSUME TypeOK, NEW j \in Jobs, NEW st,
           state' = [state EXCEPT ![j] = st], UNCHANGED attachments
    PROVE  /\ phase' = [phase EXCEPT ![j] = Phase(st)]
           /\ UNCHANGED artifacts
           /\ UNCHANGED frozen => UNCHANGED sealed
<1>1. state \in [Jobs -> JOB_STATES \cup {"absent"}]
  BY DEF TypeOK
<1>2. \A i \in Jobs : state'[i] = IF i = j THEN st ELSE state[i]
  BY <1>1
<1>3. phase' = [phase EXCEPT ![j] = Phase(st)]
  <2>1. \A i \in Jobs :
          Phase(state'[i]) = IF i = j THEN Phase(st) ELSE Phase(state[i])
    BY <1>2
  <2>2. phase' = [i \in Jobs |-> Phase(state'[i])]
    BY DEF phase
  <2>3. [phase EXCEPT ![j] = Phase(st)]
          = [i \in Jobs |-> IF i = j THEN Phase(st) ELSE Phase(state[i])]
    BY DEF phase
  <2>. QED
    BY <2>1, <2>2, <2>3
<1>4. UNCHANGED artifacts
  BY DEF artifacts, Attached
<1>5. UNCHANGED frozen => UNCHANGED sealed
  BY DEF sealed
<1>. QED
  BY <1>3, <1>4, <1>5

(* Any live job may be quarantined. *)
LEMMA QuarantineRefines ==
    ASSUME TypeOK, NEW j \in Jobs, state[j] \in NON_TERMINAL_STATES,
           state' = [state EXCEPT ![j] = "quarantined"],
           UNCHANGED <<attachments, frozen>>
    PROVE  Lifecycle!Next
<1>1. phase[j] \in Lifecycle!Phases \ ({"absent"} \cup Lifecycle!Ended)
  BY DEF phase, Phase, NON_TERMINAL_STATES, JOB_STATES, TERMINAL_STATES,
         Lifecycle!Phases, Lifecycle!Ended
<1>2. Phase("quarantined") = "quarantined"
  BY PhaseOf
<1>3. phase' = [phase EXCEPT ![j] = "quarantined"]
        /\ UNCHANGED <<artifacts, sealed>>
  BY <1>2, MoveRefines
<1>4. Lifecycle!Quarantine(j)
  BY <1>1, <1>3
  DEF Lifecycle!Quarantine, Lifecycle!Move, phase, artifacts, sealed
<1>. QED
  BY <1>4 DEF Lifecycle!Next

(* prepare_job accepts a job or stutters. *)
LEMMA PrepareRefines ==
    ASSUME TypeOK, Prepare
    PROVE  [Lifecycle!Next]_(Lifecycle!vars)
<1>1. ASSUME NEW k \in PrepareKeys, NEW r \in PrepareRequests, NEW j \in Jobs,
             PrepareNew(j, k, r)
      PROVE  Lifecycle!Next
  <2>1. /\ state[j] = "absent" /\ state' = [state EXCEPT ![j] = "accepted"]
        /\ UNCHANGED <<attachments, frozen>>
    BY <1>1 DEF PrepareNew, attachVars
  <2>2. phase[j] = "absent" /\ Phase("accepted") = "accepted"
    BY <2>1, PhaseOf DEF phase
  <2>3. phase' = [phase EXCEPT ![j] = "accepted"]
          /\ UNCHANGED <<artifacts, sealed>>
    BY <2>1, <2>2, MoveRefines
  <2>4. Lifecycle!Accept(j)
    BY <2>2, <2>3
    DEF Lifecycle!Accept, Lifecycle!Move, phase, artifacts, sealed
  <2>. QED
    BY <2>4 DEF Lifecycle!Next
<1>2. ASSUME NEW k \in PrepareKeys, NEW r \in PrepareRequests,
             PrepareAgain(k, r)
      PROVE  UNCHANGED Lifecycle!vars
  BY <1>2, StutterRefines DEF PrepareAgain, jobVars, attachVars
<1>. QED
  BY <1>1, <1>2 DEF Prepare

(* attach_artifact attaches, quarantines or stutters. *)
LEMMA AttachRefines ==
    ASSUME TypeOK, NEW j \in Jobs, NEW k \in Keys, NEW r \in AttachRequests,
           Attach(j, k, r)
    PROVE  [Lifecycle!Next]_(Lifecycle!vars)
<1>1. CASE AttachFailsChecks(j, k, r) \/ AttachConflicts(j, k, r)
  <2>1. /\ state[j] \in NON_TERMINAL_STATES
        /\ state' = [state EXCEPT ![j] = "quarantined"]
        /\ UNCHANGED <<attachments, frozen>>
    BY <1>1
    DEF AttachFailsChecks, AttachConflicts, AttachChecked, ATTACHABLE_STATES,
        NON_TERMINAL_STATES, JOB_STATES, TERMINAL_STATES,
        QuarantineForFailure, attachVars
  <2>. QED
    BY <2>1, QuarantineRefines
<1>2. CASE AttachRecords(j, k, r)
  <2>. DEFINE digest == r.manifest.payload_digest
  <2>1. /\ state[j] \in ATTACHABLE_STATES /\ UNCHANGED <<state, frozen>>
        /\ attachments' = IF digest \in Attached(j) THEN attachments
                          ELSE [attachments EXCEPT ![j] = Append(@, digest)]
    BY <1>2 DEF AttachRecords, AttachChecked, Attached, jobVars
  <2>2. CASE digest \in Attached(j)
    BY <2>1, <2>2, StutterRefines
  <2>3. CASE digest \notin Attached(j)
    <3>1. attachments[j] \in Seq(Digests) /\ digest \in Digests
      BY AttachFacts
    <3>2. attachments' = [attachments EXCEPT ![j] = Append(@, digest)]
      BY <2>1, <2>3
    <3>3. /\ attachments'[j] = Append(attachments[j], digest)
          /\ \A i \in Jobs \ {j} : attachments'[i] = attachments[i]
      BY <3>2 DEF TypeOK
    <3>4. Attached(j)' = Attached(j) \cup {digest}
      BY <3>1, <3>3, AppendElements DEF Attached
    <3>5. \A i \in Jobs \ {j} : Attached(i)' = Attached(i)
      BY <3>3 DEF Attached
    <3>6. artifacts' = [artifacts EXCEPT ![j] = @ \cup {digest}]
      BY <3>4, <3>5 DEF artifacts
    <3>7. phase[j] \in Lifecycle!Open /\ digest \notin artifacts[j]
            /\ UNCHANGED <<phase, sealed>>
      BY <2>1, <2>3, PhaseOf
      DEF phase, artifacts, sealed, ATTACHABLE_STATES, Lifecycle!Open
    <3>8. Lifecycle!Attach(j, digest)
      BY <3>6, <3>7 DEF Lifecycle!Attach, phase, artifacts, sealed
    <3>. QED
      BY <3>1, <3>8 DEF Lifecycle!Next
  <2>. QED
    BY <2>2, <2>3
<1>3. CASE \/ AttachRejected(j, k, r) \/ AttachReplaysReceipt(j, k, r)
           \/ FromSlot("attach", j, k, AttachPayload(r),
                       r.manifest.payload_digest)
           \/ JobNotFound("attach", j, r.manifest.payload_digest)
  BY <1>3, StutterRefines
  DEF AttachRejected, StoredFailure, AttachReplaysReceipt, FromSlot,
      JobNotFound, jobVars, attachVars
<1>. QED
  BY <1>1, <1>2, <1>3 DEF Attach

(* execute_job launches or stutters. *)
LEMMA ExecuteRefines ==
    ASSUME TypeOK, NEW j \in Jobs, NEW k \in Keys, NEW r \in ExecuteRequests,
           Execute(j, k, r)
    PROVE  [Lifecycle!Next]_(Lifecycle!vars)
<1>1. CASE ExecuteRuns(j, k, r)
  <2>1. /\ state[j] = "ready" /\ state' = [state EXCEPT ![j] = "running"]
        /\ frozen' = [frozen EXCEPT ![j] = attachments[j]]
        /\ UNCHANGED attachments
    BY <1>1 DEF ExecuteRuns, attachVars
  <2>2. phase[j] = "ready" /\ Phase("running") = "running"
    BY <2>1, PhaseOf DEF phase
  <2>3. sealed' = [sealed EXCEPT ![j] = artifacts[j]]
    <3>1. frozen'[j] = attachments[j]
            /\ \A i \in Jobs \ {j} : frozen'[i] = frozen[i]
      BY <2>1 DEF TypeOK
    <3>2. {frozen'[j][i] : i \in DOMAIN frozen'[j]} = Attached(j)
      BY <3>1 DEF Attached
    <3>3. \A i \in Jobs : {frozen'[i][n] : n \in DOMAIN frozen'[i]}
            = IF i = j THEN Attached(j)
              ELSE {frozen[i][n] : n \in DOMAIN frozen[i]}
      BY <3>1, <3>2
    <3>4. sealed' = [i \in Jobs |-> {frozen'[i][n] : n \in DOMAIN frozen'[i]}]
      BY DEF sealed
    <3>5. [sealed EXCEPT ![j] = artifacts[j]]
            = [i \in Jobs |-> IF i = j THEN Attached(j)
                             ELSE {frozen[i][n] : n \in DOMAIN frozen[i]}]
      BY DEF sealed, artifacts
    <3>. QED
      BY <3>3, <3>4, <3>5
  <2>4. phase' = [phase EXCEPT ![j] = "running"] /\ UNCHANGED artifacts
    BY <2>1, <2>2, MoveRefines
  <2>5. Lifecycle!Launch(j)
    BY <2>2, <2>3, <2>4
    DEF Lifecycle!Launch, Lifecycle!Move, phase, artifacts, sealed
  <2>. QED
    BY <2>5 DEF Lifecycle!Next
<1>2. CASE \/ ExecuteRejected(j, k, r)
           \/ FromSlot("execute", j, k, ExecutePayload(r), None)
           \/ JobNotFound("execute", j, None)
  BY <1>2, StutterRefines
  DEF ExecuteRejected, StoredFailure, FromSlot, JobNotFound, jobVars,
      attachVars
<1>. QED
  BY <1>1, <1>2 DEF Execute

(* cancel_job stops, quarantine_job quarantines, a refusal stutters. *)
LEMMA ControlRefines ==
    ASSUME TypeOK, NEW j \in Jobs, NEW k \in Keys, NEW r \in ControlRequests,
           Cancel(j, k, r) \/ QuarantineJob(j, k, r)
    PROVE  [Lifecycle!Next]_(Lifecycle!vars)
<1>1. CASE Control("cancel", j, k, r, "cancel_requested")
  <2>1. /\ state[j] \in {"preparing", "ready", "running"}
        /\ state' = [state EXCEPT ![j] = "cancel_requested"]
        /\ UNCHANGED <<attachments, frozen>>
    BY <1>1 DEF Control, Sources, attachVars
  <2>2. phase[j] \in {"preparing", "ready", "running"}
          /\ Phase("cancel_requested") = "stopping"
    BY <2>1, PhaseOf DEF phase, Phase
  <2>3. phase' = [phase EXCEPT ![j] = "stopping"]
          /\ UNCHANGED <<artifacts, sealed>>
    BY <2>1, <2>2, MoveRefines
  <2>4. Lifecycle!Stop(j)
    BY <2>2, <2>3
    DEF Lifecycle!Stop, Lifecycle!Move, phase, artifacts, sealed
  <2>. QED
    BY <2>4 DEF Lifecycle!Next
<1>2. CASE Control("quarantine", j, k, r, "quarantined")
  <2>1. /\ state[j] \in NON_TERMINAL_STATES
        /\ state' = [state EXCEPT ![j] = "quarantined"]
        /\ UNCHANGED <<attachments, frozen>>
    BY <1>2 DEF Control, Sources, attachVars
  <2>. QED
    BY <2>1, QuarantineRefines
<1>3. CASE \E op \in {"cancel", "quarantine"} :
             \/ ControlFails(op, j, k, r)
             \/ FromSlot(op, j, k, ControlPayload(op, r), None)
             \/ JobNotFound(op, j, None)
  BY <1>3, StutterRefines
  DEF ControlFails, FromSlot, JobNotFound, jobVars, attachVars
<1>. QED
  BY <1>1, <1>2, <1>3 DEF Cancel, QuarantineJob

(* Readiness and the end of a run; settling seals nothing new. *)
LEMMA FoundryRefines ==
    ASSUME TypeOK, LaunchInv, NEW j \in Jobs, Foundry(j)
    PROVE  [Lifecycle!Next]_(Lifecycle!vars)
<1>1. CASE MarkReady(j)
  <2>1. /\ state[j] \in {"accepted", "preparing"}
        /\ state' = [state EXCEPT ![j] = "ready"]
        /\ UNCHANGED <<attachments, frozen>>
    BY <1>1 DEF MarkReady, Unready, attachVars
  <2>2. phase[j] \in {"accepted", "preparing"} /\ Phase("ready") = "ready"
    BY <2>1, PhaseOf DEF phase, Phase
  <2>3. phase' = [phase EXCEPT ![j] = "ready"]
          /\ UNCHANGED <<artifacts, sealed>>
    BY <2>1, <2>2, MoveRefines
  <2>4. Lifecycle!Ready(j)
    BY <2>2, <2>3
    DEF Lifecycle!Ready, Lifecycle!Move, phase, artifacts, sealed
  <2>. QED
    BY <2>4 DEF Lifecycle!Next
<1>2. ASSUME NEW outcome \in {"succeeded", "failed"}, SettleRunning(j, outcome)
      PROVE  Lifecycle!Next
  <2>1. PICK n \in DOMAIN events : Launch(n) /\ events[n].job_id = j
    BY <1>2 DEF SettleRunning, LaunchInv
  <2>2. FrozenOrAttached(j) = frozen[j]
    BY <2>1 DEF LaunchInv, FrozenAtLaunch, FrozenOrAttached, Launch
  <2>3. /\ state[j] = "running" /\ state' = [state EXCEPT ![j] = outcome]
        /\ UNCHANGED <<attachments, frozen>>
    BY <1>2, <2>2 DEF SettleRunning, TypeOK, attachVars
  <2>4. phase[j] = "running" /\ Phase(outcome) = "finished"
    BY <2>3, PhaseOf DEF phase
  <2>5. phase' = [phase EXCEPT ![j] = "finished"]
          /\ UNCHANGED <<artifacts, sealed>>
    BY <2>3, <2>4, MoveRefines
  <2>6. Lifecycle!Finish(j)
    BY <2>4, <2>5
    DEF Lifecycle!Finish, Lifecycle!Move, phase, artifacts, sealed
  <2>. QED
    BY <2>6 DEF Lifecycle!Next
<1>. QED
  BY <1>1, <1>2 DEF Foundry

(* Every step is a step of the lifecycle or a stutter. *)
LEMMA NextRefines ==
    TypeOK /\ LaunchInv /\ [Next]_vars => [Lifecycle!Next]_(Lifecycle!vars)
<1>. SUFFICES ASSUME TypeOK, LaunchInv, [Next]_vars
              PROVE  [Lifecycle!Next]_(Lifecycle!vars)
  OBVIOUS
<1>1. CASE Prepare
  BY <1>1, PrepareRefines
<1>2. CASE \E j \in Jobs, k \in Keys : Call(j, k)
  BY <1>2, AttachRefines, ExecuteRefines, ControlRefines DEF Call
<1>3. CASE \E j \in Jobs : Foundry(j)
  BY <1>3, FoundryRefines
<1>4. CASE \/ Tick \/ UNCHANGED vars
           \/ \E ref \in DOMAIN directory : Revoke(ref)
  BY <1>4, StutterRefines DEF Tick, Revoke, vars, jobVars, attachVars
<1>. QED
  BY <1>1, <1>2, <1>3, <1>4 DEF Next, Deployment

(* No job is accepted at the start. *)
LEMMA InitRefines == Init => Lifecycle!Init
BY PhaseOf DEF Init, Lifecycle!Init, Attached

(* The client implements the job machine of JobLifecycle: keys, receipts,   *)
(* quarantines and replays add no edge to it, nothing is attached to a job  *)
(* that was launched, and nothing but the launch seals its artifacts.       *)
THEOREM Implementation == Spec => ImplementsLifecycle
BY InitRefines, NextRefines, TypeCorrect, LaunchInvariant, PTL
   DEF Spec, ImplementsLifecycle, Lifecycle!Spec
-----------------------------------------------------------------------------
(* One launch *)

Launches(j) == {n \in DOMAIN events :
                  /\ events[n].job_id = j
                  /\ events[n].to_state = "running"}
Launchers(j) == {k \in Keys :
                   /\ idempotency[j][k] # None
                   /\ idempotency[j][k].response.op = "execute"
                   /\ idempotency[j][k].response.code = "ok"}

Reserved(n, j) ==
    /\ n - 1 \in DOMAIN events
    /\ events[n - 1].job_id = j
    /\ events[n - 1].reason = "launch reserved"

OnceFor(j) ==
    /\ \A m, n \in Launches(j) : m = n
    /\ Launches(j) = {} => Launchers(j) = {}
    /\ \A n \in Launches(j) :
          Reserved(n, j) /\ Launchers(j) = {events[n - 1].token}

OnceInv == \A j \in Jobs : OnceFor(j)

Runs == \E j \in Jobs, k \in Keys, r \in ExecuteRequests : ExecuteRuns(j, k, r)

(* Nothing but an execute makes a job run. *)
LEMMA OnlyExecuteRuns ==
    ASSUME TypeOK, [Next]_vars, NEW j \in Jobs, state'[j] = "running",
           state[j] # "running"
    PROVE  Runs
<1>1. ASSUME NEW i \in Jobs, NEW st, st # "running",
             state' = [state EXCEPT ![i] = st]
      PROVE  FALSE
  BY <1>1 DEF TypeOK
<1>2. CASE Prepare
  BY <1>1, <1>2 DEF Prepare, PrepareNew, PrepareAgain, jobVars
<1>3. ASSUME NEW i \in Jobs, NEW k \in Keys, Call(i, k)
      PROVE  Runs
  <2>1. ASSUME NEW r \in AttachRequests, Attach(i, k, r)
        PROVE  FALSE
    BY <1>1, <2>1, AttachQuiet, AttachQuarantines
    DEF Attach, AttachRecords, Quarantines, QuarantineForFailure, jobVars
  <2>2. ASSUME NEW r \in ExecuteRequests, Execute(i, k, r)
        PROVE  Runs
    BY <2>2, ExecuteQuiet DEF Execute, Runs, jobVars
  <2>3. ASSUME NEW r \in ControlRequests, Cancel(i, k, r) \/ QuarantineJob(i, k, r)
        PROVE  FALSE
    BY <1>1, <2>3, ControlQuiet DEF Cancel, QuarantineJob, Control, jobVars
  <2>. QED
    BY <1>3, <2>1, <2>2, <2>3 DEF Call
<1>4. ASSUME NEW i \in Jobs, Foundry(i)
      PROVE  FALSE
  BY <1>1, <1>4 DEF Foundry, MarkReady, SettleRunning
<1>5. CASE Tick \/ (\E ref \in DOMAIN directory : Revoke(ref)) \/ UNCHANGED vars
  BY <1>5 DEF Tick, Revoke, vars, jobVars
<1>. QED
  BY <1>2, <1>3, <1>4, <1>5 DEF Next, Deployment

(* A step that is no launch leaves the launches of every job as they were. *)
LEMMA LaunchesKept ==
    ASSUME TypeOK, [Next]_vars, ~Runs, NEW j \in Jobs
    PROVE  /\ Launches(j)' = Launches(j)
           /\ \A n \in DOMAIN events :
                n \in DOMAIN events' /\ events'[n] = events[n]
<1>1. CASE UNCHANGED events
  BY <1>1 DEF Launches
<1>2. ASSUME NEW i \in Jobs, JobStep(i)
      PROVE  /\ Launches(j)' = Launches(j)
             /\ \A n \in DOMAIN events :
                  n \in DOMAIN events' /\ events'[n] = events[n]
  <2>1. PICK added : Tells(i, added)
    BY <1>2 DEF JobStep
  <2>2. /\ added \in Seq(EventType) /\ Len(added) \in {1, 2}
        /\ events' = events \o added /\ events \in Seq(EventType)
    BY <2>1 DEF Tells, TypeOK
  <2>3. state'[i] # "running"
    <3>1. Moves(state[i], state'[i])
      BY <1>2 DEF JobStep
    <3>2. state[i] = "running" \/ state'[i] # "running"
      BY OnlyExecuteRuns
    <3>. QED
      BY <3>1, <3>2 DEF Moves, Unready, ATTACHABLE_STATES
  <2>4. \A n \in DOMAIN added : added[n].to_state # "running"
    <3>1. \A n \in DOMAIN added : n = Len(added) \/ (Len(added) = 2 /\ n = 1)
      <4>1. DOMAIN added = 1 .. Len(added)
        BY <2>2, LenProperties
      <4>2. CASE Len(added) = 1
        BY <4>1, <4>2
      <4>3. CASE Len(added) = 2
        BY <4>1, <4>3
      <4>. QED
        BY <2>2, <4>2, <4>3
    <3>2. added[Len(added)].to_state # "running"
      BY <2>1, <2>3 DEF Tells
    <3>3. Len(added) = 2 => added[1].to_state # "running"
      BY <2>1 DEF Tells, ATTACHABLE_STATES
    <3>. QED
      BY <3>1, <3>2, <3>3
  <2>5. /\ \A n \in DOMAIN events :
             n \in DOMAIN events' /\ events'[n] = events[n]
        /\ \A n \in DOMAIN events' :
             n \in DOMAIN events
             \/ \E l \in DOMAIN added : n = Len(events) + l
                                      /\ events'[n] = added[l]
    BY <2>2, EventsAdded
  <2>6. \A n : n \in Launches(j)' <=> n \in Launches(j)
    BY <2>4, <2>5 DEF Launches
  <2>. QED
    BY <2>5, <2>6
<1>. QED
  BY <1>1, <1>2, StepShape

(* It also leaves the keys alone that answer for one. *)
LEMMA LaunchersKept ==
    ASSUME TypeOK, AnswerInv, [Next]_vars, ~Runs, NEW j \in Jobs
    PROVE  Launchers(j)' = Launchers(j)
<1>1. ASSUME NEW k \in Keys, idempotency'[j][k] # idempotency[j][k]
      PROVE  /\ idempotency[j][k] = None
             /\ idempotency'[j][k].response.op = "execute" =>
                  idempotency'[j][k].response.code # "ok"
  <2>1. BindsKey(j, k)
    BY <1>1, BindsOneKey
  <2>2. idempotency[j][k] = None
    BY <2>1
    DEF BindsKey, AttachRejected, Quarantines, AttachReplaysReceipt,
        AttachRecords, AttachChecked, ExecuteRejected, ExecuteRuns, Control, Begin
  <2>3. ASSUME NEW payload, NEW op, NEW code, NEW st,
               op = "execute" => code # "ok",
               _idem_store(j, k, payload, Response(op, code, st))
        PROVE  idempotency'[j][k].response.op = "execute" =>
                  idempotency'[j][k].response.code # "ok"
    <3>1. idempotency'[j][k] =
            [payload |-> payload, response |-> Response(op, code, st)]
      BY <2>3, StoredSlot
    <3>. QED
      BY <2>3, <3>1 DEF Response
  <2>4. ASSUME NEW r \in AttachRequests,
               AttachRejected(j, k, r) \/ Quarantines(j, k, r)
        PROVE  \E payload, code, st :
                  _idem_store(j, k, payload, Response("attach", code, st))
    BY <2>4 DEF AttachRejected, StoredFailure, Quarantines, QuarantineForFailure
  <2>5. ASSUME NEW r \in AttachRequests,
               AttachReplaysReceipt(j, k, r) \/ AttachRecords(j, k, r)
        PROVE  idempotency'[j][k].response.op = "attach"
    BY <2>5, AttachAnswers, GenerationKept
  <2>6. ASSUME NEW r \in ExecuteRequests, ExecuteRejected(j, k, r)
        PROVE  \E payload, code, st :
                  /\ code # "ok"
                  /\ _idem_store(j, k, payload, Response("execute", code, st))
    BY <2>6 DEF ExecuteRejected, StoredFailure
  <2>7. ASSUME NEW r \in ControlRequests,
               \/ Control("cancel", j, k, r, "cancel_requested")
               \/ Control("quarantine", j, k, r, "quarantined")
        PROVE  \E payload, st :
                  \/ _idem_store(j, k, payload, Response("cancel", "ok", st))
                  \/ _idem_store(j, k, payload, Response("quarantine", "ok", st))
    BY <2>7 DEF Control
  <2>. QED
    BY <2>1, <2>2, <2>3, <2>4, <2>5, <2>6, <2>7 DEF BindsKey, Runs
<1>2. \A k \in Keys : k \in Launchers(j)' <=> k \in Launchers(j)
  BY <1>1 DEF Launchers
<1>. QED
  BY <1>2 DEF Launchers

(* A launch is the job's first and is answered for by its key. *)
LEMMA RunsOnce ==
    ASSUME TypeOK, LaunchInv, OnceInv, NEW j \in Jobs, NEW k \in Keys,
           NEW r \in ExecuteRequests, ExecuteRuns(j, k, r)
    PROVE  OnceInv'
<1>. DEFINE reserved == Event(Len(events) + 1, j, "ready", "ready",
                              "launch reserved", k, attachments[j])
            running == Event(Len(events) + 2, j, "ready", "running",
                             "executing", None, attachments[j])
            N == Len(events)
<1>1. /\ state[j] = "ready" /\ events' = events \o <<reserved, running>>
      /\ _idem_store(j, k, ExecutePayload(r), Response("execute", "ok", "running"))
      /\ N \in Nat /\ DOMAIN events = 1 .. N /\ events \in Seq(EventType)
  <2>1. /\ state[j] = "ready" /\ events' = events \o <<reserved, running>>
        /\ _idem_store(j, k, ExecutePayload(r),
                       Response("execute", "ok", "running"))
    BY DEF ExecuteRuns
  <2>2. events \in Seq(EventType)
    BY DEF TypeOK
  <2>3. N \in Nat /\ DOMAIN events = 1 .. N
    BY <2>2, LenProperties
  <2>. QED
    BY <2>1, <2>2, <2>3
<1>2. reserved \in EventType /\ running \in EventType
  <2>1. N \in Nat
    BY <1>1
  <2>2. N + 1 \in Nat \ {0} /\ N + 2 \in Nat \ {0}
    BY <2>1
  <2>. QED
    BY <2>2, EventTyped DEF TypeOK, JOB_STATES, Reasons
<1>3. /\ reserved.job_id = j /\ reserved.reason = "launch reserved"
      /\ reserved.token = k /\ reserved.to_state = "ready"
      /\ running.job_id = j /\ running.to_state = "running"
  BY DEF Event
<1>. HIDE DEF reserved, running
<1>4. /\ DOMAIN events' = 1 .. N + 2
      /\ \A n \in 1 .. N : events'[n] = events[n]
      /\ events'[N + 1] = reserved /\ events'[N + 2] = running
  <2>1. /\ <<reserved, running>> \in Seq(EventType)
        /\ Len(<<reserved, running>>) = 2
        /\ <<reserved, running>>[1] = reserved
        /\ <<reserved, running>>[2] = running
    BY <1>2
  <2>2. /\ Len(events') = N + 2 /\ events' \in Seq(EventType)
        /\ \A n \in 1 .. N + 2 :
              events'[n] = IF n <= N THEN events[n]
                           ELSE <<reserved, running>>[n - N]
    BY <1>1, <2>1, ConcatProperties
  <2>3. /\ N + 1 \in 1 .. N + 2 /\ N + 2 \in 1 .. N + 2
        /\ (N + 1) - N = 1 /\ (N + 2) - N = 2
        /\ ~(N + 1 <= N) /\ ~(N + 2 <= N)
        /\ \A n \in 1 .. N : n \in 1 .. N + 2 /\ n <= N
    BY <1>1
  <2>. QED
    BY <2>1, <2>2, <2>3, LenProperties
<1>5. Launches(j) = {} /\ Launchers(j) = {}
  <2>1. Launches(j) = {}
    BY <1>1 DEF Launches, LaunchInv, Launch, ATTACHABLE_STATES
  <2>. QED
    BY <2>1 DEF OnceInv, OnceFor
<1>6. Launches(j)' = {N + 2}
  <2>1. \A n : n \in Launches(j)' <=> n = N + 2
    <3>1. \A n \in 1 .. N + 2 : n \in 1 .. N \/ n = N + 1 \/ n = N + 2
      BY <1>1
    <3>2. \A n \in 1 .. N : ~(events[n].job_id = j /\ events[n].to_state = "running")
      BY <1>1, <1>5 DEF Launches
    <3>3. N + 2 \in 1 .. N + 2
      BY <1>1
    <3>. QED
      BY <1>3, <1>4, <3>1, <3>2, <3>3 DEF Launches
  <2>. QED
    BY <2>1
<1>7. idempotency'[j][k] =
        [payload  |-> ExecutePayload(r),
         response |-> Response("execute", "ok", "running")]
        /\ \A i \in Jobs, l \in Keys :
              <<i, l>> # <<j, k>> => idempotency'[i][l] = idempotency[i][l]
  BY <1>1, StoredSlot
<1>8. Launchers(j)' = {k}
  <2>1. /\ idempotency'[j][k].response.op = "execute"
        /\ idempotency'[j][k].response.code = "ok"
        /\ idempotency'[j][k] # None
    <3>1. idempotency'[j][k] \in Slots
      BY <1>7
      DEF Slots, Payloads, Responses, Response, Codes, JOB_STATES
    <3>. QED
      BY <1>7, <3>1, NoneAssumption DEF Response
  <2>2. \A l \in Keys : l # k => l \notin Launchers(j)'
    BY <1>5, <1>7 DEF Launchers
  <2>. QED
    BY <2>1, <2>2 DEF Launchers
<1>9. ASSUME NEW i \in Jobs, i # j
      PROVE  /\ Launches(i)' = Launches(i) /\ Launchers(i)' = Launchers(i)
  <2>1. \A n : n \in Launches(i)' <=> n \in Launches(i)
    <3>1. \A n \in 1 .. N + 2 : n \in 1 .. N \/ n = N + 1 \/ n = N + 2
      BY <1>1
    <3>2. \A n \in 1 .. N : n \in 1 .. N + 2
      BY <1>1
    <3>. QED
      BY <1>1, <1>3, <1>4, <1>9, <3>1, <3>2 DEF Launches
  <2>2. \A l \in Keys : idempotency'[i][l] = idempotency[i][l]
    BY <1>7, <1>9
  <2>3. Launchers(i)' = Launchers(i)
    BY <2>2 DEF Launchers
  <2>. QED
    BY <2>1, <2>3
<1>10. ASSUME NEW i \in Jobs, i # j, NEW n \in Launches(i)
       PROVE  /\ n - 1 \in DOMAIN events' /\ events'[n - 1] = events[n - 1]
  <2>1. n - 1 \in 1 .. N
    BY <1>1, <1>10 DEF OnceInv, OnceFor, Reserved
  <2>. QED
    BY <1>1, <1>4, <2>1
<1>11. /\ (N + 2) - 1 = N + 1 /\ N + 1 \in DOMAIN events'
  BY <1>1, <1>4
<1>. QED
  <2>1. OnceFor(j)'
    <3>1. \A m, n \in Launches(j)' : m = n
      BY <1>6
    <3>2. Launches(j)' # {}
      BY <1>6
    <3>3. ASSUME NEW n \in Launches(j)'
          PROVE  /\ Reserved(n, j)'
                 /\ Launchers(j)' = {events'[n - 1].token}
      <4>1. n = N + 2 /\ n - 1 = N + 1
        BY <1>6, <1>11
      <4>. QED
        BY <4>1, <1>3, <1>4, <1>8, <1>11 DEF Reserved
    <3>. QED
      BY <3>1, <3>2, <3>3 DEF OnceFor
  <2>2. ASSUME NEW i \in Jobs, i # j
        PROVE  OnceFor(i)'
    <3>1. OnceFor(i)
      BY DEF OnceInv
    <3>2. /\ Launches(i)' = Launches(i) /\ Launchers(i)' = Launchers(i)
      BY <2>2, <1>9
    <3>3. ASSUME NEW n \in Launches(i)'
          PROVE  /\ Reserved(n, i)'
                 /\ Launchers(i)' = {events'[n - 1].token}
      <4>1. n \in Launches(i)
        BY <3>2
      <4>2. n - 1 \in DOMAIN events' /\ events'[n - 1] = events[n - 1]
        BY <4>1, <2>2, <1>10
      <4>. QED
        BY <3>1, <3>2, <4>1, <4>2 DEF OnceFor, Reserved
    <3>. QED
      BY <3>1, <3>2, <3>3 DEF OnceFor
  <2>. QED
    BY <2>1, <2>2 DEF OnceInv

LEMMA NextKeepsOnce ==
    ASSUME TypeOK, AnswerInv, LaunchInv, OnceInv, [Next]_vars
    PROVE  OnceInv'
<1>1. CASE Runs
  BY <1>1, RunsOnce DEF Runs
<1>2. CASE ~Runs
  <2>1. ASSUME NEW j \in Jobs
        PROVE  /\ Launches(j)' = Launches(j) /\ Launchers(j)' = Launchers(j)
               /\ \A n \in DOMAIN events :
                    n \in DOMAIN events' /\ events'[n] = events[n]
    BY <1>2, LaunchesKept, LaunchersKept
  <2>2. ASSUME NEW j \in Jobs
        PROVE  OnceFor(j)'
    <3>1. OnceFor(j)
      BY DEF OnceInv
    <3>2. /\ Launches(j)' = Launches(j) /\ Launchers(j)' = Launchers(j)
          /\ \A n \in DOMAIN events :
               n \in DOMAIN events' /\ events'[n] = events[n]
      BY <2>1
    <3>3. ASSUME NEW n \in Launches(j)'
          PROVE  /\ Reserved(n, j)'
                 /\ Launchers(j)' = {events'[n - 1].token}
      BY <3>1, <3>2 DEF OnceFor, Reserved
    <3>. QED
      BY <3>1, <3>2, <3>3 DEF OnceFor
  <2>. QED
    BY <2>2 DEF OnceInv
<1>. QED
  BY <1>1, <1>2

LEMMA InitOnce == Init => OnceInv
BY DEF Init, OnceInv, OnceFor, Launches, Launchers

(* A job is launched once, right after its launch was reserved, and the     *)
(* only execute call of it that is answered with success is the one whose   *)
(* key the reservation carries.                                             *)
THEOREM LaunchesOnce == Spec => []OneLaunch
<1>1. OnceInv => OneLaunch
  <2>1. ASSUME OnceInv, NEW j \in Jobs
        PROVE  Cardinality(Launches(j)) <= 1
    <3>1. OnceFor(j)
      BY <2>1 DEF OnceInv
    <3>2. CASE Launches(j) = {}
      <4>1. Cardinality(Launches(j)) = 0
        BY <3>2, FS_EmptySet
      <4>. QED
        BY <4>1
    <3>3. CASE Launches(j) # {}
      <4>1. PICK n : n \in Launches(j)
        BY <3>3
      <4>2. Launches(j) = {n}
        BY <3>1, <4>1 DEF OnceFor
      <4>3. Cardinality(Launches(j)) = 1
        BY <4>2, FS_Singleton
      <4>. QED
        BY <4>3
    <3>. QED
      BY <3>2, <3>3
  <2>. QED
    BY <2>1 DEF OnceInv, OnceFor, Reserved, OneLaunch, Launches, Launchers
<1>2. TypeOK /\ AnswerInv /\ LaunchInv /\ OnceInv /\ [Next]_vars => OnceInv'
  BY NextKeepsOnce
<1>3. Spec => []AnswerInv
  BY InitAnswers, NextKeepsAnswers, TypeCorrect, PTL DEF Spec
<1>. QED
  BY InitOnce, <1>1, <1>2, <1>3, LaunchInvariant, TypeCorrect, PTL DEF Spec
-----------------------------------------------------------------------------
(* What a comprehension keeps *)

Places == {I \in SUBSET Nat : IsFiniteSet(I)}

Rank(I, i) == Cardinality({m \in I : m <= i})

(* The places up to one: how many there are and how they grow. *)
LEMMA RankFacts ==
    ASSUME NEW I \in Places
    PROVE  /\ Cardinality(I) \in Nat
           /\ \A i \in I : Rank(I, i) \in 1 .. Cardinality(I)
           /\ \A i, k \in I : i < k => Rank(I, i) < Rank(I, k)
<1>1. IsFiniteSet(I) /\ Cardinality(I) \in Nat /\ I \subseteq Nat
  BY FS_CardinalityType DEF Places
<1>2. ASSUME NEW i \in I
      PROVE  /\ IsFiniteSet({m \in I : m <= i})
             /\ Rank(I, i) \in 1 .. Cardinality(I)
  <2>. DEFINE B == {m \in I : m <= i}
  <2>1. B \in SUBSET I
    OBVIOUS
  <2>2. IsFiniteSet(B) /\ Cardinality(B) <= Cardinality(I)
    BY <1>1, <2>1, FS_Subset
  <2>3. i \in B
    BY <1>1
  <2>4. Cardinality(B) \in Nat /\ Cardinality(B) # 0
    BY <2>2, <2>3, FS_EmptySet, FS_CardinalityType
  <2>. QED
    BY <1>1, <2>2, <2>4 DEF Rank
<1>3. ASSUME NEW i \in I, NEW k \in I, i < k
      PROVE  Rank(I, i) < Rank(I, k)
  <2>. DEFINE B == {m \in I : m <= i}
              C == {m \in I : m <= k}
  <2>1. B \in SUBSET C /\ B # C
    <3>1. k \in C /\ k \notin B
      BY <1>1, <1>3
    <3>2. \A m \in I : m <= i => m <= k
      BY <1>1, <1>3
    <3>. QED
      BY <3>1, <3>2
  <2>2. /\ Cardinality(B) <= Cardinality(C)
        /\ Cardinality(C) = Cardinality(B) => C = B
    BY <1>2, <2>1, FS_Subset
  <2>3. Cardinality(B) \in Nat /\ Cardinality(C) \in Nat
    BY <1>2, FS_CardinalityType
  <2>. QED
    BY <2>1, <2>2, <2>3 DEF Rank
<1>. QED
  BY <1>1, <1>2, <1>3

(* Every number up to that of the places is the rank of one of them. *)
LEMMA RankOnto ==
    ASSUME NEW I \in Places, NEW n \in 1 .. Cardinality(I)
    PROVE  \E i \in I : Rank(I, i) = n
<1>. DEFINE f == [i \in I |-> Rank(I, i)]
            N == 1 .. Cardinality(I)
<1>1. IsFiniteSet(I) /\ Cardinality(I) \in Nat /\ I \subseteq Nat
  BY FS_CardinalityType DEF Places
<1>2. IsFiniteSet(N) /\ Cardinality(N) = Cardinality(I)
  <2>1. /\ IsFiniteSet(N)
        /\ Cardinality(N) = IF 1 > Cardinality(I) THEN 0 ELSE Cardinality(I) - 1 + 1
    BY <1>1, FS_Interval
  <2>. QED
    BY <1>1, <2>1
<1>3. f \in [I -> N]
  BY RankFacts
<1>4. \A i, k \in I : f[i] = f[k] => i = k
  <2>1. \A i, k \in I : i < k => f[i] < f[k]
    BY RankFacts
  <2>2. \A i, k \in I : i < k \/ k < i \/ i = k
    BY <1>1
  <2>. QED
    BY <1>1, <1>3, <2>1, <2>2
<1>5. f \in Injection(I, N)
  BY <1>3, <1>4 DEF Injection, IsInjective
<1>6. f \in Surjection(I, N)
  BY <1>2, <1>5, FS_Injection
<1>7. \E i \in I : f[i] = n
  BY <1>6 DEF Surjection
<1>. QED
  BY <1>7

(* The n-th place is the one of rank n. *)
LEMMA NthRank ==
    ASSUME NEW I \in Places
    PROVE  /\ \A n \in 1 .. Cardinality(I) :
                Nth(I, n) \in I /\ Rank(I, Nth(I, n)) = n
           /\ \A i \in I : Nth(I, Rank(I, i)) = i
           /\ \A n, m \in 1 .. Cardinality(I) : n < m => Nth(I, n) < Nth(I, m)
<1>1. ASSUME NEW n \in 1 .. Cardinality(I)
      PROVE  Nth(I, n) \in I /\ Rank(I, Nth(I, n)) = n
  BY RankOnto DEF Nth, Rank
<1>2. I \subseteq Nat /\ Cardinality(I) \in Nat
  BY RankFacts DEF Places
<1>3. ASSUME NEW i \in I
      PROVE  Nth(I, Rank(I, i)) = i
  <2>1. Rank(I, i) \in 1 .. Cardinality(I)
    BY RankFacts
  <2>2. /\ Nth(I, Rank(I, i)) \in I
        /\ Rank(I, Nth(I, Rank(I, i))) = Rank(I, i)
    BY <1>1, <2>1
  <2>3. PICK k \in I : k = Nth(I, Rank(I, i)) /\ Rank(I, k) = Rank(I, i)
    BY <2>2
  <2>4. k \in Nat /\ i \in Nat
    BY <1>2
  <2>5. /\ k < i => Rank(I, k) < Rank(I, i)
        /\ i < k => Rank(I, i) < Rank(I, k)
    BY RankFacts
  <2>6. Rank(I, i) \in Nat
    BY <1>2, <2>1
  <2>. QED
    BY <2>3, <2>4, <2>5, <2>6
<1>4. ASSUME NEW n \in 1 .. Cardinality(I), NEW m \in 1 .. Cardinality(I), n < m
      PROVE  Nth(I, n) < Nth(I, m)
  <2>1. PICK i \in I : i = Nth(I, n) /\ Rank(I, i) = n
    BY <1>1
  <2>2. PICK k \in I : k = Nth(I, m) /\ Rank(I, k) = m
    BY <1>1
  <2>3. k < i => m < n
    BY <2>1, <2>2, RankFacts
  <2>4. i # k
    BY <1>2, <1>4, <2>1, <2>2
  <2>5. i \in Nat /\ k \in Nat /\ n \in Nat /\ m \in Nat
    BY <1>2
  <2>6. i < k
    BY <1>4, <2>3, <2>4, <2>5
  <2>. QED
    BY <2>1, <2>2, <2>6
<1>. QED
  BY <1>1, <1>3, <1>4
(* A list of the places is kept as it is, in order. *)
LEMMA KeepFacts ==
    ASSUME NEW S, NEW list \in Seq(S), NEW I \in Places, I \subseteq DOMAIN list
    PROVE  /\ Keep(list, I) \in Seq(S) /\ Len(Keep(list, I)) = Cardinality(I)
           /\ DOMAIN Keep(list, I) = 1 .. Cardinality(I)
           /\ \A n \in 1 .. Cardinality(I) : Keep(list, I)[n] = list[Nth(I, n)]
           /\ \A i \in I : Keep(list, I)[Rank(I, i)] = list[i]
<1>1. /\ Cardinality(I) \in Nat
      /\ \A i \in I : Rank(I, i) \in 1 .. Cardinality(I)
  BY RankFacts
<1>2. \A n \in 1 .. Cardinality(I) : list[Nth(I, n)] \in S
  <2>1. \A i \in DOMAIN list : list[i] \in S
    BY LenProperties
  <2>. QED
    BY <2>1, NthRank
<1>3. /\ Keep(list, I) \in [1 .. Cardinality(I) -> S]
      /\ \A n \in 1 .. Cardinality(I) : Keep(list, I)[n] = list[Nth(I, n)]
  BY <1>2 DEF Keep
<1>4. Keep(list, I) \in Seq(S)
  BY <1>1, <1>3, SeqDef
<1>5. Len(Keep(list, I)) = Cardinality(I)
  <2>1. /\ DOMAIN Keep(list, I) = 1 .. Len(Keep(list, I))
        /\ Len(Keep(list, I)) \in Nat
    BY <1>4, LenProperties
  <2>. QED
    BY <1>1, <1>3, <2>1
<1>6. \A i \in I : Keep(list, I)[Rank(I, i)] = list[i]
  BY <1>1, <1>3, NthRank
<1>. QED
  BY <1>3, <1>4, <1>5, <1>6

(* What is kept depends on the places kept alone. *)
LEMMA KeepSame ==
    ASSUME NEW I \in Places, NEW s, NEW t, \A i \in I : s[i] = t[i]
    PROVE  Keep(s, I) = Keep(t, I)
BY NthRank DEF Keep

(* Places behind others go behind them. *)
LEMMA RankAfter ==
    ASSUME NEW I \in Places, NEW K \in Places, \A i \in I, k \in K : i < k
    PROVE  /\ I \cup K \in Places
           /\ Cardinality(I \cup K) = Cardinality(I) + Cardinality(K)
           /\ \A i \in I : Rank(I \cup K, i) = Rank(I, i)
           /\ \A k \in K : Rank(I \cup K, k) = Cardinality(I) + Rank(K, k)
<1>1. /\ IsFiniteSet(I) /\ IsFiniteSet(K) /\ I \subseteq Nat /\ K \subseteq Nat
      /\ Cardinality(I) \in Nat /\ Cardinality(K) \in Nat
  BY FS_CardinalityType DEF Places
<1>2. ASSUME NEW L, IsFiniteSet(L), L \subseteq K
      PROVE  /\ IsFiniteSet(I \cup L)
             /\ Cardinality(I \cup L) = Cardinality(I) + Cardinality(L)
  <2>1. I \cap L = {}
    BY <1>1, <1>2
  <2>2. Cardinality(I \cap L) = 0
    BY <2>1, FS_EmptySet
  <2>3. /\ IsFiniteSet(I \cup L)
        /\ Cardinality(I \cup L)
             = Cardinality(I) + Cardinality(L) - Cardinality(I \cap L)
    BY <1>1, <1>2, FS_Union
  <2>4. Cardinality(L) \in Nat
    BY <1>2, FS_CardinalityType
  <2>. QED
    BY <1>1, <2>2, <2>3, <2>4
<1>3. ASSUME NEW i \in I
      PROVE  Rank(I \cup K, i) = Rank(I, i)
  <2>1. \A m \in K : ~(m <= i)
    BY <1>1, <1>3
  <2>2. {m \in I \cup K : m <= i} = {m \in I : m <= i}
    BY <2>1
  <2>. QED
    BY <2>2 DEF Rank
<1>4. ASSUME NEW k \in K
      PROVE  Rank(I \cup K, k) = Cardinality(I) + Rank(K, k)
  <2>. DEFINE L == {m \in K : m <= k}
  <2>1. \A m \in I : m <= k
    BY <1>1, <1>4
  <2>2. {m \in I \cup K : m <= k} = I \cup L
    BY <2>1
  <2>3. IsFiniteSet(L) /\ L \subseteq K
    <3>1. L \in SUBSET K
      OBVIOUS
    <3>. QED
      BY <1>1, <3>1, FS_Subset
  <2>4. Cardinality(I \cup L) = Cardinality(I) + Cardinality(L)
    BY <1>2, <2>3
  <2>. QED
    BY <2>2, <2>4 DEF Rank
<1>5. /\ IsFiniteSet(I \cup K)
      /\ Cardinality(I \cup K) = Cardinality(I) + Cardinality(K)
  BY <1>1, <1>2
<1>. QED
  BY <1>1, <1>3, <1>4, <1>5 DEF Places

LEMMA KeepConcat ==
    ASSUME NEW S, NEW list \in Seq(S), NEW I \in Places, NEW K \in Places,
           I \subseteq DOMAIN list, K \subseteq DOMAIN list,
           \A i \in I, k \in K : i < k
    PROVE  Keep(list, I \cup K) = Keep(list, I) \o Keep(list, K)
<1>. DEFINE U == I \cup K
            c == Cardinality(I)
            d == Cardinality(K)
<1>1. /\ U \in Places /\ U \subseteq DOMAIN list
      /\ Cardinality(U) = c + d /\ c \in Nat /\ d \in Nat
      /\ \A i \in I : Rank(U, i) = Rank(I, i)
      /\ \A k \in K : Rank(U, k) = c + Rank(K, k)
  BY RankAfter, RankFacts
<1>2. /\ Keep(list, U) \in Seq(S) /\ Len(Keep(list, U)) = c + d
      /\ \A i \in U : Keep(list, U)[Rank(U, i)] = list[i]
  BY <1>1, KeepFacts
<1>3. /\ Keep(list, I) \in Seq(S) /\ Len(Keep(list, I)) = c
      /\ Keep(list, K) \in Seq(S) /\ Len(Keep(list, K)) = d
      /\ \A n \in 1 .. c : Keep(list, I)[n] = list[Nth(I, n)]
      /\ \A n \in 1 .. d : Keep(list, K)[n] = list[Nth(K, n)]
  BY KeepFacts
<1>. DEFINE cat == Keep(list, I) \o Keep(list, K)
<1>4. /\ cat \in Seq(S) /\ Len(cat) = c + d
      /\ \A n \in 1 .. c + d :
            cat[n] = IF n <= c THEN Keep(list, I)[n] ELSE Keep(list, K)[n - c]
  <2>. DEFINE s == Keep(list, I)
              t == Keep(list, K)
  <2>1. s \in Seq(S) /\ t \in Seq(S) /\ Len(s) = c /\ Len(t) = d
    BY <1>3
  <2>. HIDE DEF s, t, c, d
  <2>2. /\ s \o t \in Seq(S) /\ Len(s \o t) = c + d
        /\ \A n \in 1 .. c + d : (s \o t)[n] = IF n <= c THEN s[n] ELSE t[n - c]
    BY <2>1, ConcatProperties
  <2>. QED
    BY <2>2 DEF s, t
<1>5. ASSUME NEW n \in 1 .. c + d
      PROVE  Keep(list, U)[n] = cat[n]
  <2>1. CASE n <= c
    <3>1. n \in 1 .. c
      BY <1>1, <2>1
    <3>2. Nth(I, n) \in I /\ Rank(I, Nth(I, n)) = n
      BY <3>1, NthRank
    <3>3. Rank(U, Nth(I, n)) = n
      BY <1>1, <3>2
    <3>4. Keep(list, U)[n] = list[Nth(I, n)]
      BY <1>2, <3>2, <3>3
    <3>. QED
      BY <1>3, <1>4, <2>1, <3>1, <3>4
  <2>2. CASE ~(n <= c)
    <3>1. PICK m \in 1 .. d : m = n - c /\ n = c + m
      BY <1>1, <2>2
    <3>2. Nth(K, m) \in K /\ Rank(K, Nth(K, m)) = m
      BY NthRank
    <3>3. Rank(U, Nth(K, m)) = n
      BY <1>1, <3>1, <3>2
    <3>4. Keep(list, U)[n] = list[Nth(K, m)]
      BY <1>2, <3>2, <3>3
    <3>. QED
      BY <1>3, <1>4, <2>2, <3>1, <3>4
  <2>. QED
    BY <2>1, <2>2
<1>. HIDE DEF cat, U, c, d
<1>6. Keep(list, U) = cat
  BY <1>2, <1>4, <1>5, SeqEqual
<1>. QED
  BY <1>6 DEF cat, U
(* Places in a list. *)
LEMMA ListPlaces ==
    ASSUME NEW S, NEW list \in Seq(S), NEW I \in SUBSET (DOMAIN list)
    PROVE  I \in Places
<1>1. Len(list) \in Nat /\ DOMAIN list = 1 .. Len(list)
  BY LenProperties
<1>2. IsFiniteSet(1 .. Len(list))
  BY <1>1, FS_Interval
<1>3. IsFiniteSet(I)
  BY <1>1, <1>2, FS_Subset
<1>. QED
  BY <1>1, <1>3 DEF Places

LEMMA KeepNothing ==
    ASSUME NEW list PROVE Keep(list, {}) = <<>>
<1>1. Cardinality({}) = 0
  BY FS_EmptySet
<1>2. Keep(list, {}) = [n \in 1 .. 0 |-> list[Nth({}, n)]]
  BY <1>1 DEF Keep
<1>3. 1 .. 0 = {}
  OBVIOUS
<1>4. [n \in {} |-> list[Nth({}, n)]] = <<>>
  OBVIOUS
<1>. QED
  BY <1>2, <1>3, <1>4

(* The places behind a list are those of what was appended. *)
LEMMA KeepTail ==
    ASSUME NEW S, NEW s \in Seq(S), NEW t \in Seq(S)
    PROVE  Keep(s \o t, Len(s) + 1 .. Len(s) + Len(t)) = t
<1>. DEFINE a == Len(s)
            b == Len(t)
            list == s \o t
            K == a + 1 .. a + b
<1>1. /\ a \in Nat /\ b \in Nat /\ list \in Seq(S) /\ Len(list) = a + b
      /\ \A n \in 1 .. a + b : list[n] = IF n <= a THEN s[n] ELSE t[n - a]
  BY LenProperties, ConcatProperties
<1>2. DOMAIN list = 1 .. a + b
  BY <1>1, LenProperties
<1>. HIDE DEF a, b, list
<1>3. K \subseteq DOMAIN list
  BY <1>1, <1>2
<1>4. K \in Places
  BY <1>1, <1>3, ListPlaces
<1>5. ASSUME NEW n \in Nat, n <= b
      PROVE  Cardinality(a + 1 .. a + n) = n
  <2>1. Cardinality(a + 1 .. a + n)
          = IF a + 1 > a + n THEN 0 ELSE (a + n) - (a + 1) + 1
    BY <1>1, FS_Interval
  <2>. QED
    BY <1>1, <2>1
<1>6. ASSUME NEW n \in 1 .. b
      PROVE  a + n \in K /\ Rank(K, a + n) = n
  <2>1. {m \in K : m <= a + n} = a + 1 .. a + n
    BY <1>1
  <2>2. Cardinality(a + 1 .. a + n) = n
    BY <1>1, <1>5
  <2>3. a + n \in K
    BY <1>1
  <2>. QED
    BY <2>1, <2>2, <2>3 DEF Rank
<1>7. Cardinality(K) = b
  BY <1>1, <1>5
<1>8. /\ Keep(list, K) \in Seq(S) /\ Len(Keep(list, K)) = b
      /\ \A i \in K : Keep(list, K)[Rank(K, i)] = list[i]
  BY <1>1, <1>3, <1>4, <1>7, KeepFacts
<1>9. ASSUME NEW n \in 1 .. b
      PROVE  Keep(list, K)[n] = t[n]
  <2>1. Keep(list, K)[n] = list[a + n]
    BY <1>6, <1>8
  <2>2. list[a + n] = t[n]
    <3>1. a + n \in 1 .. a + b /\ ~(a + n <= a) /\ (a + n) - a = n
      BY <1>1
    <3>. QED
      BY <1>1, <3>1
  <2>. QED
    BY <2>1, <2>2
<1>. HIDE DEF K
<1>10. Keep(list, K) = t
  BY <1>8, <1>9, SeqEqual DEF b
<1>. QED
  BY <1>10 DEF a, b, list, K
-----------------------------------------------------------------------------
(* The events of a job *)

Mine(j) == {n \in DOMAIN events : events[n].job_id = j}

LEMMA MineFacts ==
    ASSUME TypeOK, NEW j
    PROVE  /\ events \in Seq(EventType) /\ DOMAIN events = 1 .. Len(events)
           /\ Len(events) \in Nat /\ Mine(j) \in Places
           /\ Mine(j) \subseteq DOMAIN events
           /\ EventsOf(j) = Keep(events, Mine(j))
           /\ EventsOf(j) \in Seq(EventType)
<1>1. events \in Seq(EventType)
  BY DEF TypeOK
<1>2. DOMAIN events = 1 .. Len(events) /\ Len(events) \in Nat
  BY <1>1, LenProperties
<1>3. Mine(j) \in SUBSET (DOMAIN events)
  BY DEF Mine
<1>4. Mine(j) \in Places
  BY <1>1, <1>3, ListPlaces
<1>5. EventsOf(j) = Keep(events, Mine(j))
  BY DEF EventsOf, Mine
<1>6. Keep(events, Mine(j)) \in Seq(EventType)
  BY <1>1, <1>3, <1>4, KeepFacts
<1>. QED
  BY <1>1, <1>2, <1>3, <1>4, <1>5, <1>6

(* The events of a step are the job's latest. *)
LEMMA EventsOfStep ==
    ASSUME TypeOK, NEW j \in Jobs, NEW added, Tells(j, added)
    PROVE  /\ EventsOf(j)' = EventsOf(j) \o added
           /\ \A i \in Jobs : i # j => EventsOf(i)' = EventsOf(i)
           /\ \A i \in Jobs : i # j => Mine(i)' = Mine(i)
           /\ Mine(j)' = Mine(j)
                \cup (Len(events) + 1 .. Len(events) + Len(added))
<1>. DEFINE N == Len(events)
            K == N + 1 .. N + Len(added)
<1>1. /\ added \in Seq(EventType) /\ events' = events \o added
      /\ \A n \in 1 .. Len(added) : added[n].job_id = j
      /\ events \in Seq(EventType)
  BY DEF Tells, TypeOK
<1>2. /\ events' \in Seq(EventType) /\ N \in Nat /\ Len(added) \in Nat
      /\ DOMAIN events' = 1 .. N + Len(added) /\ DOMAIN events = 1 .. N
      /\ DOMAIN added = 1 .. Len(added)
      /\ \A n \in DOMAIN events : n \in DOMAIN events' /\ events'[n] = events[n]
      /\ \A n \in DOMAIN events' :
           n \in DOMAIN events
           \/ \E i \in DOMAIN added : n = N + i /\ events'[n] = added[i]
  BY <1>1, EventsAdded
<1>3. \A n \in DOMAIN events' :
         \/ n \in DOMAIN events
         \/ n \in K /\ events'[n].job_id = j
  BY <1>1, <1>2
<1>4. \A n \in K : n \in DOMAIN events' /\ n \notin DOMAIN events
  BY <1>2
<1>5. Mine(j)' = Mine(j) \cup K
  BY <1>2, <1>3, <1>4 DEF Mine
<1>6. ASSUME NEW i \in Jobs, i # j
      PROVE  Mine(i)' = Mine(i)
  BY <1>2, <1>3, <1>6 DEF Mine
<1>7. ASSUME NEW i \in Jobs
      PROVE  Keep(events', Mine(i)) = EventsOf(i)
  <2>1. \A n \in Mine(i) : events'[n] = events[n]
    BY <1>2 DEF Mine
  <2>. QED
    BY <2>1, MineFacts, KeepSame
<1>8. ASSUME NEW i \in Jobs
      PROVE  EventsOf(i)' = Keep(events', Mine(i)')
  BY DEF EventsOf, Mine
<1>9. EventsOf(j)' = EventsOf(j) \o added
  <2>1. Mine(j) \in Places /\ Mine(j) \subseteq DOMAIN events'
    BY <1>2, MineFacts
  <2>2. K \in Places /\ K \subseteq DOMAIN events'
    <3>1. K \in SUBSET DOMAIN events'
      BY <1>4
    <3>. QED
      BY <1>2, <3>1, ListPlaces
  <2>3. \A n \in Mine(j), m \in K : n < m
    <3>1. Mine(j) \subseteq 1 .. N
      BY <1>2, MineFacts
    <3>. QED
      BY <1>2, <3>1
  <2>4. Keep(events', Mine(j) \cup K) = Keep(events', Mine(j)) \o Keep(events', K)
    BY <1>2, <2>1, <2>2, <2>3, KeepConcat
  <2>5. Keep(events', K) = added
    BY <1>1, KeepTail
  <2>. QED
    BY <1>5, <1>7, <1>8, <2>4, <2>5
<1>10. \A i \in Jobs : i # j => EventsOf(i)' = EventsOf(i)
  BY <1>6, <1>7, <1>8
<1>. QED
  BY <1>5, <1>6, <1>9, <1>10
(* The events of a job number their places in the log, in order. *)
LEMMA EventPlaces ==
    ASSUME TypeOK, NEW j
    PROVE  /\ DOMAIN EventsOf(j) = 1 .. Len(EventsOf(j))
           /\ Len(EventsOf(j)) = Cardinality(Mine(j)) /\ Len(EventsOf(j)) \in Nat
           /\ \A n \in 1 .. Len(EventsOf(j)) :
                 /\ Nth(Mine(j), n) \in Mine(j)
                 /\ EventsOf(j)[n] = events[Nth(Mine(j), n)]
           /\ \A i \in Mine(j) : \E n \in 1 .. Len(EventsOf(j)) :
                 i = Nth(Mine(j), n)
<1>1. /\ events \in Seq(EventType) /\ Mine(j) \in Places
      /\ Mine(j) \subseteq DOMAIN events /\ EventsOf(j) = Keep(events, Mine(j))
  BY MineFacts
<1>2. /\ Len(EventsOf(j)) = Cardinality(Mine(j))
      /\ DOMAIN EventsOf(j) = 1 .. Cardinality(Mine(j))
      /\ \A n \in 1 .. Cardinality(Mine(j)) :
            EventsOf(j)[n] = events[Nth(Mine(j), n)]
  BY <1>1, KeepFacts
<1>3. /\ \A n \in 1 .. Cardinality(Mine(j)) : Nth(Mine(j), n) \in Mine(j)
      /\ \A i \in Mine(j) : /\ Rank(Mine(j), i) \in 1 .. Cardinality(Mine(j))
                            /\ Nth(Mine(j), Rank(Mine(j), i)) = i
      /\ Cardinality(Mine(j)) \in Nat
  BY <1>1, NthRank, RankFacts
<1>. QED
  BY <1>2, <1>3
-----------------------------------------------------------------------------
(* The log tells the job *)

(* EventsTellTheJob is not inductive: that numbers grow along the events of *)
(* a job needs that they are places in the log, and what a settled job's    *)
(* last event carries needs LaunchInv.  That no event leaves a terminal     *)
(* state follows with it.                                                   *)
LogInv ==
    /\ \A n \in DOMAIN events :
          events[n].seq = n /\ events[n].from_state \notin TERMINAL_STATES
    /\ EventsTellTheJob

LEMMA InitLog == Init => LogInv
<1>. SUFFICES ASSUME Init PROVE LogInv
  OBVIOUS
<1>1. events = <<>> /\ \A j \in Jobs : state[j] = "absent"
  BY DEF Init
<1>2. ASSUME NEW j \in Jobs
      PROVE  EventsOf(j) = <<>>
  <2>1. {n \in DOMAIN events : events[n].job_id = j} = {}
    BY <1>1
  <2>. QED
    BY <2>1, KeepNothing DEF EventsOf
<1>. QED
  BY <1>1, <1>2 DEF LogInv, EventsTellTheJob

(* Artifacts are attached behind the others. *)
LEMMA AttachmentsGrow ==
    ASSUME TypeOK, [Next]_vars, NEW j \in Jobs
    PROVE  IsPrefixOf(attachments[j], attachments'[j])
<1>1. attachments[j] \in Seq(Digests)
  BY DEF TypeOK
<1>2. CASE attachments'[j] = attachments[j]
  BY <1>1, <1>2, PrefixRefl
<1>3. CASE attachments'[j] # attachments[j]
  <2>1. PICK i \in Jobs, k \in Keys, r \in AttachRequests : AttachRecords(i, k, r)
    BY <1>3, BooksWritten DEF attachVars
  <2>2. \/ attachments' = attachments
        \/ attachments' = [attachments EXCEPT
                             ![i] = Append(@, r.manifest.payload_digest)]
    BY <2>1 DEF AttachRecords
  <2>3. attachments'[j] = Append(attachments[j], r.manifest.payload_digest)
    BY <1>3, <2>2 DEF TypeOK
  <2>4. r.manifest.payload_digest \in Digests
    BY DigestsAssumption
  <2>. QED
    BY <1>1, <2>3, <2>4, PrefixAppend
<1>. QED
  BY <1>2, <1>3

(* What a job is frozen to, if it is, are its artifacts. *)
LEMMA FrozenAreAttached ==
    ASSUME LaunchInv, NEW j \in Jobs
    PROVE  FrozenOrAttached(j) = attachments[j]
<1>1. CASE \E n \in DOMAIN events : Launch(n) /\ events[n].job_id = j
  BY <1>1 DEF LaunchInv, FrozenAtLaunch, FrozenOrAttached, Launch
<1>2. CASE ~\E n \in DOMAIN events : Launch(n) /\ events[n].job_id = j
  BY <1>2 DEF LaunchInv, FrozenAtLaunch, FrozenOrAttached, Launch
<1>. QED
  BY <1>1, <1>2

(* Every event a step appends carries the artifacts attached by then. *)
LEMMA EventDigests ==
    ASSUME TypeOK, LaunchInv, [Next]_vars, NEW j \in Jobs, NEW added,
           Tells(j, added), NEW n \in 1 .. Len(added)
    PROVE  added[n].artifact_digests = attachments'[j]
<1>1. CASE ~Settles(state[j], state'[j])
  BY <1>1 DEF Tells
<1>2. CASE Settles(state[j], state'[j])
  <2>1. added[n].artifact_digests = attachments[j]
    BY <1>2, FrozenAreAttached DEF Tells
  <2>2. UNCHANGED attachments
    <3>1. state'[j] # state[j]
      BY <1>2 DEF Settles
    <3>. QED
      BY <3>1, BooksWritten DEF AttachRecords, jobVars, attachVars
  <2>. QED
    BY <2>1, <2>2
<1>. QED
  BY <1>1, <1>2

(* The events of one step follow each other. *)
LEMMA AddedFollow ==
    ASSUME TypeOK, LaunchInv, [Next]_vars, NEW j \in Jobs, NEW added,
           Tells(j, added), NEW n \in 1 .. Len(added) - 1
    PROVE  n = 1 /\ Len(added) = 2 /\ Follows(added[n], added[n + 1])
<1>1. n = 1 /\ Len(added) = 2
  BY DEF Tells
<1>2. /\ added[2].from_state = added[1].to_state
      /\ added[1].seq = Len(events) + 1 /\ added[2].seq = Len(events) + 2
  BY <1>1 DEF Tells
<1>3. /\ added[1].artifact_digests = attachments'[j]
      /\ added[2].artifact_digests = attachments'[j]
  BY <1>1, EventDigests
<1>4. added[1].seq < added[2].seq
  <2>1. Len(events) \in Nat
    BY MineFacts
  <2>. QED
    BY <1>2, <2>1
<1>5. attachments'[j] \in Seq(Digests)
  <2>1. added \in Seq(EventType)
    BY DEF Tells
  <2>2. added[1] \in EventType
    BY <1>1, <2>1
  <2>. QED
    BY <1>3, <2>2 DEF EventType
<1>6. attachments'[j] = SubSeq(attachments'[j], 1, Len(attachments'[j]))
  BY <1>5, PrefixRefl DEF IsPrefixOf
<1>. QED
  BY <1>1, <1>2, <1>3, <1>4, <1>6 DEF Follows
(* A step carries the tale of its job on. *)
LEMMA StepLeads ==
    ASSUME TypeOK, LaunchInv, LogInv, [Next]_vars, NEW j \in Jobs,
           Moves(state[j], state'[j]), NEW added, Tells(j, added)
    PROVE  LeadTo(j, EventsOf(j))'
<1>. DEFINE es == EventsOf(j)
            m == Len(es)
            L == Len(added)
            fs == es \o added
<1>1. EventsOf(j)' = fs
  BY EventsOfStep
<1>2. /\ es \in Seq(EventType) /\ added \in Seq(EventType) /\ m \in Nat
      /\ L \in {1, 2}
  BY MineFacts, EventPlaces DEF Tells
<1>3. /\ fs \in Seq(EventType) /\ Len(fs) = m + L
      /\ \A n \in 1 .. m + L : fs[n] = IF n <= m THEN es[n] ELSE added[n - m]
  <2>. HIDE DEF es
  <2>. QED
    BY <1>2, ConcatProperties
<1>4. /\ \A n \in 1 .. m : fs[n] = es[n]
      /\ \A n \in 1 .. L : fs[m + n] = added[n]
  <2>. HIDE DEF es, m, L, fs
  <2>1. ASSUME NEW n \in 1 .. L
        PROVE  fs[m + n] = added[n]
    <3>1. m + n \in 1 .. m + L /\ ~(m + n <= m) /\ (m + n) - m = n
      BY <1>2
    <3>. QED
      BY <1>3, <3>1
  <2>2. ASSUME NEW n \in 1 .. m
        PROVE  fs[n] = es[n]
    BY <1>2, <1>3
  <2>. QED
    BY <2>1, <2>2
<1>5. /\ fs[m + L].to_state = state'[j]
      /\ fs[m + L].artifact_digests = attachments'[j]
  <2>1. added[L].to_state = state'[j] /\ L \in 1 .. L
    BY <1>2 DEF Tells
  <2>2. added[L].artifact_digests = attachments'[j]
    BY <2>1, EventDigests
  <2>. HIDE DEF es, m, L, fs
  <2>. QED
    BY <1>4, <2>1, <2>2
<1>6. ASSUME NEW n \in 1 .. L - 1
      PROVE  Follows(fs[m + n], fs[(m + n) + 1])
  <2>1. Follows(added[n], added[n + 1])
    BY AddedFollow
  <2>. HIDE DEF es, m, L, fs
  <2>2. n \in 1 .. L /\ n + 1 \in 1 .. L /\ (m + n) + 1 = m + (n + 1)
    BY <1>2
  <2>. QED
    BY <1>4, <2>1, <2>2
<1>7. CASE state[j] = "absent"
  <2>1. m = 0
    <3>1. es = <<>>
      BY <1>7 DEF LogInv, EventsTellTheJob
    <3>. QED
      BY <3>1
  <2>2. L = 1 /\ state'[j] = "accepted" /\ added[1].from_state = "accepted"
    BY <1>2, <1>7
    DEF Tells, Moves, Unready, ATTACHABLE_STATES, NON_TERMINAL_STATES, JOB_STATES
  <2>. HIDE DEF es, m, L, fs
  <2>3. Len(fs) = 1 /\ fs[1] = added[1]
    <3>1. m + L = 1 /\ 1 \in 1 .. L /\ m + 1 = 1
      BY <2>1, <2>2
    <3>. QED
      BY <1>3, <1>4, <3>1
  <2>4. fs # <<>>
    BY <2>3
  <2>5. fs[1].to_state = "accepted" /\ fs[1].artifact_digests = attachments'[j]
    BY <1>5, <2>1, <2>2
  <2>. QED
    BY <1>1, <2>2, <2>3, <2>4, <2>5 DEF LeadTo
<1>8. CASE state[j] # "absent"
  <2>1. LeadTo(j, es)
    BY <1>8 DEF LogInv, EventsTellTheJob
  <2>2. m >= 1
    <3>1. m # 0
      <4>. HIDE DEF es
      <4>. QED
        BY <1>2, <2>1, EmptySeq DEF LeadTo
    <3>. HIDE DEF es, m
    <3>. QED
      BY <1>2, <3>1
  <2>3. /\ es[m].to_state = state[j] /\ es[m].artifact_digests = attachments[j]
        /\ es[1].from_state = "accepted" /\ es[1].to_state = "accepted"
        /\ \A n \in 1 .. m - 1 : Follows(es[n], es[n + 1])
    BY <2>1 DEF LeadTo
  <2>4. Follows(es[m], added[1])
    <3>1. added[1].from_state = state[j]
      BY <1>8 DEF Tells
    <3>2. 1 \in 1 .. L
      <4>1. L \in {1, 2}
        BY <1>2
      <4>. HIDE DEF L
      <4>. QED
        BY <4>1
    <3>3. added[1].artifact_digests = attachments'[j]
      BY <3>2, EventDigests
    <3>4. attachments[j] = SubSeq(attachments'[j], 1, Len(attachments[j]))
      BY AttachmentsGrow DEF IsPrefixOf
    <3>5. es[m].seq < added[1].seq
      <4>1. added[1].seq = Len(events) + 1
        BY <3>2 DEF Tells
      <4>2. m \in 1 .. m
        BY <1>2, <2>2
      <4>3. PICK i \in Mine(j) : es[m] = events[i]
        BY <4>2, EventPlaces
      <4>4. i \in 1 .. Len(events) /\ Len(events) \in Nat
        BY MineFacts
      <4>5. es[m].seq = i
        BY <4>3, <4>4, MineFacts DEF LogInv
      <4>. QED
        BY <4>1, <4>4, <4>5
    <3>. HIDE DEF es, m, L
    <3>. QED
      BY <2>3, <3>1, <3>3, <3>4, <3>5 DEF Follows
  <2>. HIDE DEF es, m, L, fs
  <2>5. ASSUME NEW n \in 1 .. Len(fs) - 1
        PROVE  Follows(fs[n], fs[n + 1])
    <3>1. CASE n < m
      <4>1. n \in 1 .. m /\ n + 1 \in 1 .. m /\ n \in 1 .. m - 1
        BY <1>2, <3>1
      <4>. QED
        BY <1>4, <2>3, <4>1
    <3>2. CASE n = m
      <4>1. n \in 1 .. m /\ 1 \in 1 .. L
        BY <1>2, <2>2, <3>2
      <4>. QED
        BY <1>4, <2>4, <3>2, <4>1
    <3>3. CASE n > m
      <4>1. PICK i \in 1 .. L - 1 : n = m + i
        <5>1. n - m \in 1 .. L - 1 /\ n = m + (n - m)
          BY <1>2, <1>3, <3>3
        <5>. QED
          BY <5>1
      <4>. QED
        BY <1>6, <4>1
    <3>. QED
      BY <1>2, <3>1, <3>2, <3>3
  <2>6. fs[1] = es[1] /\ Len(fs) = m + L /\ fs # <<>>
    <3>1. 1 \in 1 .. m /\ m + L # 0
      BY <1>2, <2>2
    <3>. QED
      BY <1>3, <1>4, <3>1, EmptySeq
  <2>. QED
    BY <1>1, <1>5, <2>3, <2>5, <2>6 DEF LeadTo
<1>. QED
  BY <1>7, <1>8

(* A step appends events that number their places and leave no final state. *)
LEMMA PlacesNumbered ==
    ASSUME TypeOK, LogInv, NEW j \in Jobs, Moves(state[j], state'[j]),
           NEW added, Tells(j, added), NEW n \in DOMAIN events'
    PROVE  events'[n].seq = n /\ events'[n].from_state \notin TERMINAL_STATES
<1>1. /\ added \in Seq(EventType) /\ events' = events \o added
      /\ events \in Seq(EventType) /\ Len(added) \in {1, 2}
  BY DEF Tells, TypeOK
<1>2. /\ DOMAIN added = 1 .. Len(added) /\ Len(events) \in Nat
      /\ \A i \in DOMAIN events : events'[i] = events[i]
      /\ \/ n \in DOMAIN events
         \/ \E i \in DOMAIN added : n = Len(events) + i /\ events'[n] = added[i]
  BY <1>1, EventsAdded
<1>3. CASE n \in DOMAIN events
  BY <1>2, <1>3 DEF LogInv
<1>4. ASSUME NEW i \in DOMAIN added, n = Len(events) + i, events'[n] = added[i]
      PROVE  events'[n].seq = n /\ events'[n].from_state \notin TERMINAL_STATES
  <2>1. added[i].seq = Len(events) + i
    BY <1>2, <1>4 DEF Tells
  <2>2. i = 1 \/ (i = 2 /\ Len(added) = 2)
    BY <1>1, <1>2, <1>4
  <2>3. added[i].from_state \notin TERMINAL_STATES
    <3>1. added[1].from_state \notin TERMINAL_STATES
      BY DEF Tells, Moves, Unready, ATTACHABLE_STATES, NON_TERMINAL_STATES,
             TERMINAL_STATES
    <3>2. Len(added) = 2 => added[2].from_state \notin TERMINAL_STATES
      BY DEF Tells, ATTACHABLE_STATES, TERMINAL_STATES
    <3>. QED
      BY <2>2, <3>1, <3>2
  <2>. QED
    BY <1>4, <2>1, <2>3
<1>. QED
  BY <1>2, <1>3, <1>4

LEMMA NextKeepsLog == TypeOK /\ LaunchInv /\ LogInv /\ [Next]_vars => LogInv'
<1>. SUFFICES ASSUME TypeOK, LaunchInv, LogInv, [Next]_vars PROVE LogInv'
  OBVIOUS
<1>1. CASE UNCHANGED <<jobVars, attachVars, events>>
  BY <1>1 DEF LogInv, EventsTellTheJob, LeadTo, EventsOf, jobVars, attachVars
<1>2. ASSUME NEW j \in Jobs, JobStep(j)
      PROVE  LogInv'
  <2>1. PICK added : Tells(j, added)
    BY <1>2 DEF JobStep
  <2>2. Moves(state[j], state'[j]) /\ Alone(j)
    BY <1>2 DEF JobStep
  <2>3. LeadTo(j, EventsOf(j))'
    BY <2>1, <2>2, StepLeads
  <2>4. state'[j] # "absent"
    BY <2>2 DEF Moves, ATTACHABLE_STATES
  <2>5. ASSUME NEW i \in Jobs, i # j
        PROVE  IF state'[i] = "absent" THEN EventsOf(i)' = <<>>
               ELSE LeadTo(i, EventsOf(i))'
    <3>1. /\ EventsOf(i)' = EventsOf(i) /\ state'[i] = state[i]
          /\ attachments'[i] = attachments[i]
      BY <2>1, <2>2, <2>5, EventsOfStep DEF Alone
    <3>. QED
      BY <3>1 DEF LogInv, EventsTellTheJob, LeadTo
  <2>6. EventsTellTheJob'
    BY <2>3, <2>4, <2>5 DEF EventsTellTheJob
  <2>. QED
    BY <2>1, <2>2, <2>6, PlacesNumbered DEF LogInv
<1>. QED
  BY <1>1, <1>2, StepShape

(* The numbers of the log are its places, and the tale of every job is whole:*)
(* inductive together, given the launch.                                    *)
THEOREM LogInvariant == Spec => []LogInv
BY InitLog, NextKeepsLog, LaunchInvariant, TypeCorrect, PTL DEF Spec

(* The audit log alone tells the history of every job, from its acceptance  *)
(* to its present state and artifacts, whatever is called in whatever order. *)
THEOREM LogTellsTheJob == Spec => []EventsTellTheJob
<1>1. LogInv => EventsTellTheJob
  BY DEF LogInv
<1>. QED
  BY <1>1, LogInvariant, PTL

(* What read_result answers for a job that has ended stays its answer. *)
LEMMA ResultStays ==
    ASSUME TypeOK, [Next]_vars, NEW j \in Jobs, state[j] \in TERMINAL_STATES
    PROVE  state'[j] = state[j] /\ read_result(j)' = read_result(j)
<1>1. CASE UNCHANGED <<jobVars, attachVars, events>>
  BY <1>1 DEF read_result, FrozenOrAttached, EventsOf, jobVars, attachVars
<1>2. ASSUME NEW i \in Jobs, JobStep(i)
      PROVE  state'[j] = state[j] /\ read_result(j)' = read_result(j)
  <2>1. PICK added : Tells(i, added)
    BY <1>2 DEF JobStep
  <2>2. i # j
    BY <1>2
    DEF JobStep, Moves, Unready, ATTACHABLE_STATES, NON_TERMINAL_STATES,
        TERMINAL_STATES
  <2>3. EventsOf(j)' = EventsOf(j)
    BY <2>1, <2>2, EventsOfStep
  <2>4. /\ state'[j] = state[j] /\ source'[j] = source[j]
        /\ frozen'[j] = frozen[j] /\ attachments'[j] = attachments[j]
        /\ quarantine_reason'[j] = quarantine_reason[j]
    BY <1>2, <2>2 DEF JobStep, Alone
  <2>. QED
    BY <2>3, <2>4 DEF read_result, FrozenOrAttached
<1>. QED
  BY <1>1, <1>2, StepShape

(* What read_result answers for a job that has ended, it answers for ever.  *)
THEOREM ResultsAreFinal == Spec => TerminalIsFinal
<1>1. TypeOK /\ [Next]_vars =>
        [\A j \in Jobs : state[j] \in TERMINAL_STATES =>
           read_result(j)' = read_result(j)]_vars
  BY ResultStays
<1>. QED
  BY <1>1, TypeCorrect, PTL DEF Spec, TerminalIsFinal
=============================================================================
