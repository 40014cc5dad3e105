---------------------------- MODULE StatusCursor ----------------------------
(***************************************************************************)
(* A caller that follows jobs through GET /v3/jobs/{id}/status: it polls    *)
(* with the cursor of the last answer it got (foundry.py job_status), and   *)
(* reads the result once there is one.  The log is shared by all jobs, so  *)
(* the cursor of one job skips the numbers of the others.                  *)
(*                                                                         *)
(* The read itself is one step of the client.  The answer travels: the     *)
(* client goes on meanwhile, and the answer may be lost, so that the caller *)
(* asks again with its old cursor.  A caller has one question about a job  *)
(* under way at a time.                                                    *)
(***************************************************************************)
EXTENDS FoundryJobs

CONSTANT Followed  \* the jobs this caller follows

ASSUME FollowedAssumption == Followed \subseteq Jobs

VARIABLES
    cursor,    \* the caller's after_cursor for each job
    heard,     \* the events it was given of each job
    reply,     \* the status answer on its way to it, or None
    snapshot,  \* the job as the last status answer showed it, or None
    result     \* read_result's answer, or None

caller == <<cursor, heard, reply, snapshot, result>>
allVars == <<vars, caller>>

FollowInit ==
    /\ Init
    /\ cursor = [j \in Followed |-> 0]
    /\ heard = [j \in Followed |-> <<>>]
    /\ reply = [j \in Followed |-> None]
    /\ snapshot = [j \in Followed |-> None]
    /\ result = [j \in Followed |-> None]

(* Mutant: a snapshot falls back to the attached digests, as a result does.  *)
_job_dict_LikeResult(j) ==
    [state |-> state[j], frozen_artifact_digests |-> FrozenOrAttached(j),
     native_identity |-> identity[j],
     quarantine_reason |-> quarantine_reason[j]]

(* The fields of a job that change. *)
_job_dict(j) ==
    [state |-> state[j], frozen_artifact_digests |-> frozen[j],
     native_identity |-> identity[j],
     quarantine_reason |-> quarantine_reason[j]]

(* Mutants: the event at the cursor is given again; the one behind it is     *)
(* left out.                                                                *)
After_Inclusive(e, after) == e.seq >= after
After_OffByOne(e, after) == e.seq > after + 1
After(e, after) == e.seq > after

job_status(j, after) ==
    LET new == Keep(events, {n \in DOMAIN events : /\ events[n].job_id = j
                                                  /\ After(events[n], after)})
    IN  [job    |-> _job_dict(j),
         events |-> new,
         cursor |-> IF new = <<>> THEN after ELSE new[Len(new)].seq]

-----------------------------------------------------------------------------
Poll(j) ==
    /\ reply[j] = None
    /\ state[j] # "absent"
    /\ reply' = [reply EXCEPT ![j] = job_status(j, cursor[j])]
    /\ UNCHANGED <<vars, cursor, heard, snapshot, result>>

Receive(j) ==
    /\ reply[j] # None
    /\ cursor' = [cursor EXCEPT ![j] = reply[j].cursor]
    /\ heard' = [heard EXCEPT ![j] = @ \o reply[j].events]
    /\ snapshot' = [snapshot EXCEPT ![j] = reply[j].job]
    /\ reply' = [reply EXCEPT ![j] = None]
    /\ UNCHANGED <<vars, result>>

Lose(j) ==
    /\ reply[j] # None
    /\ reply' = [reply EXCEPT ![j] = None]
    /\ UNCHANGED <<vars, cursor, heard, snapshot, result>>

(* Before a terminal state read_result raises JobNotReady. *)
ReadResult(j) ==
    /\ state[j] \in TERMINAL_STATES
    /\ result[j] = None
    /\ result' = [result EXCEPT ![j] = read_result(j)]
    /\ UNCHANGED <<vars, cursor, heard, reply, snapshot>>

Caller(j) == Poll(j) \/ Receive(j) \/ Lose(j) \/ ReadResult(j)

FollowNext ==
    \/ Next /\ UNCHANGED caller
    \/ \E j \in Followed : Caller(j)

FollowSpec == FollowInit /\ [][FollowNext]_allVars

(* A caller that goes on polling, over a channel that does not lose every    *)
(* answer.  Nothing is assumed of the gateway but that it answers.           *)
KeepsPolling ==
    \A j \in Followed : WF_allVars(Poll(j)) /\ SF_allVars(Receive(j))

FollowFairSpec == FollowSpec /\ KeepsPolling

-----------------------------------------------------------------------------
Last(s) == s[Len(s)]

(* Polling loses nothing and repeats nothing, whatever is recorded between a *)
(* read, its answer and the next poll, and whichever answers are lost: the   *)
(* caller holds the job's events up to its cursor, in order, each once.      *)
HearsTheLog ==
    \A j \in Followed :
        heard[j] = Keep(events, {n \in DOMAIN events :
                                   /\ events[n].job_id = j
                                   /\ events[n].seq <= cursor[j]})

(* The job a caller is shown is the job its events tell: in the state of the *)
(* last one, frozen to what its launch recorded and to nothing before, with  *)
(* an identity from launch on and a reason once it is quarantined.           *)
SnapshotsFitTheEvents ==
    \A j \in Followed : snapshot[j] # None =>
        LET launches == {n \in DOMAIN heard[j] :
                           heard[j][n].to_state = "running"}
        IN  /\ heard[j] # <<>>
            /\ snapshot[j].state = Last(heard[j]).to_state
            /\ IF launches = {}
                 THEN /\ snapshot[j].frozen_artifact_digests = <<>>
                      /\ snapshot[j].native_identity = None
                 ELSE /\ \A n \in launches :
                           snapshot[j].frozen_artifact_digests =
                             heard[j][n].artifact_digests
                      /\ snapshot[j].native_identity # None
            /\ (snapshot[j].state = "quarantined")
                 = (snapshot[j].quarantine_reason # None)

(* A result is the last word on a job: no event follows the one its cursor   *)
(* names, no poll gets further than it, and its state and digests are those  *)
(* of the end of the log.                                                    *)
ResultIsTheLastWord ==
    \A j \in Followed : result[j] # None =>
        LET last == Last(EventsOf(j))
        IN  /\ result[j].cursor = last.seq
            /\ result[j].state = last.to_state
            /\ result[j].frozen_artifact_digests = last.artifact_digests
            /\ cursor[j] <= result[j].cursor
            /\ heard[j] # <<>> =>
                 (cursor[j] = result[j].cursor
                    <=> Last(heard[j]).to_state \in TERMINAL_STATES)

(* A caller that goes on polling has, some time after a job has ended, heard *)
(* everything that ever happened to it.                                      *)
EverythingIsHeard ==
    \A j \in Followed :
        state[j] \in TERMINAL_STATES ~> heard[j] = EventsOf(j)
=============================================================================
