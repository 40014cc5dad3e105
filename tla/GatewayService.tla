---------------------------- MODULE GatewayService ----------------------------
(***************************************************************************)
(* The aigw/1 delegation service (service.py) and the executors it awaits  *)
(* (executors.py).  Every POST /v1/delegations is a coroutine of one event *)
(* loop; from one await that suspends to the next it runs alone, so that   *)
(* is one step.  Coroutines interleave where submit waits for a subprocess *)
(* to be created, to finish, or to die after its deadline, and meet in the *)
(* table of results, under ids the callers choose.                         *)
(*                                                                         *)
(* The subprocess is the operating system's and asyncio's: it exits when   *)
(* it likes, its pipes stay open as long as it or any descendant holds     *)
(* them, and asyncio forgets the process a moment after both are over.     *)
(* Output, timestamps and error texts are left out, but for what kind of   *)
(* error it is.                                                            *)
(***************************************************************************)
EXTENDS Routing

CONSTANTS
    Calls,      \* submits under way or answered
    Requests,   \* delegation requests, see Routing
    ExitCodes   \* return codes of subprocesses, -9 for one that was killed

ASSUME RequestsAssumption ==
    /\ None \notin Requests
    /\ \A r \in Requests :
          /\ r.preference \in Preferences
          /\ r.risk \in Risks
          /\ r.allow_fallback \in BOOLEAN
ASSUME ExitCodesAssumption ==
    /\ {0, -9} \subseteq ExitCodes
    /\ ExitCodes \subseteq Int
    /\ None \notin ExitCodes

(* Why a call failed or was rejected, in place of the text of its error. *)
Errors == {"policy", "no_executor", "unavailable", "exit_code", "timeout"}

(* A subprocess as the event loop sees it: exit is its return code once it   *)
(* has been reaped, held says that some process has its pipes open, gone     *)
(* that the transport has dropped it (_call_connection_lost).                *)
Child(exit, held, gone) == [exit |-> exit, held |-> held, gone |-> gone]

Children == [exit : ExitCodes \cup {None}, held : BOOLEAN, gone : BOOLEAN]

ASSUME NoneAssumption == None \notin Errors /\ None \notin Children

VARIABLES
    results,    \* service.results
    pc,         \* where the call's coroutine is
    request,    \* the call's request
    tried,      \* executors its loop has turned to
    executor,   \* the executor it is awaiting
    child,      \* the subprocess of that executor
    answer,     \* what submit returned
    worked      \* history: executors that began to work for the call

vars == <<results, pc, request, tried, executor, child, answer, worked>>

Ids == {r.id : r \in Requests}
Ended == {"returned", "raised"}

Init ==
    /\ results = [i \in Ids |-> None]
    /\ pc = [c \in Calls |-> "idle"]
    /\ request = [c \in Calls |-> None]
    /\ tried = [c \in Calls |-> {}]
    /\ executor = [c \in Calls |-> None]
    /\ child = [c \in Calls |-> None]
    /\ answer = [c \in Calls |-> None]
    /\ worked = [c \in Calls |-> {}]

(* DelegationResult.  exec is None when no executor was reached. *)
Result(r, st, exec, exit_code, error) ==
    [delegation_id |-> r.id, state |-> st,
     executor |-> IF exec = None THEN None ELSE Config[exec].name,
     exit_code |-> exit_code, error |-> error]

(* Mutant: a result is kept only if there is none under the id yet. *)
Answer_FirstStands(c, r, a) ==
    /\ answer' = [answer EXCEPT ![c] = a]
    /\ results' = IF results[r.id] # None THEN results
                  ELSE [results EXCEPT ![r.id] = a]
    /\ pc' = [pc EXCEPT ![c] = "returned"]

(* submit puts its result in the table and returns it. *)
Answer(c, r, a) ==
    /\ answer' = [answer EXCEPT ![c] = a]
    /\ results' = [results EXCEPT ![r.id] = a]
    /\ pc' = [pc EXCEPT ![c] = "returned"]

(* An exception other than ExecutorUnavailable leaves submit: HTTP 500, and   *)
(* nothing in the table.                                                     *)
Raise(c) ==
    /\ pc' = [pc EXCEPT ![c] = "raised"]
    /\ UNCHANGED <<answer, results>>

-----------------------------------------------------------------------------
(* The loop of submit, from one suspension to the next *)

(* Nobody takes the request: the answer names the last executor's error.      *)
AllUnavailable(c, r, done, missing_cwd) ==
    /\ Taker(r, done, missing_cwd) = {}
    /\ tried' = [tried EXCEPT ![c] = done \cup PassedOver(r, done, missing_cwd)]
    /\ executor' = [executor EXCEPT ![c] = None]
    /\ Answer(c, r, Result(r, "failed", None, None, "unavailable"))
    /\ UNCHANGED <<child, worked>>

(* EchoExecutor answers without suspending. *)
Echo(c, r, done, missing_cwd, e) ==
    /\ Config[e].type = "echo"
    /\ tried' = [tried EXCEPT
                   ![c] = done \cup PassedOver(r, done, missing_cwd) \cup {e}]
    /\ executor' = [executor EXCEPT ![c] = e]
    /\ worked' = [worked EXCEPT ![c] = @ \cup {e}]
    /\ Answer(c, r, Result(r, "succeeded", e, 0, None))
    /\ UNCHANGED child

(* create_subprocess_exec is awaited. *)
Launch(c, r, done, missing_cwd, e) ==
    /\ Config[e].type # "echo"
    /\ tried' = [tried EXCEPT
                   ![c] = done \cup PassedOver(r, done, missing_cwd) \cup {e}]
    /\ executor' = [executor EXCEPT ![c] = e]
    /\ pc' = [pc EXCEPT ![c] = "spawning"]
    /\ UNCHANGED <<results, child, answer, worked>>

TryNext(c, r, done) ==
    \E missing_cwd \in SUBSET {e \in Executors : Config[e].cwd} :
       \/ AllUnavailable(c, r, done, missing_cwd)
       \/ \E e \in Taker(r, done, missing_cwd) :
             \/ Echo(c, r, done, missing_cwd, e)
             \/ Launch(c, r, done, missing_cwd, e)

-----------------------------------------------------------------------------
(* submit *)

RejectedBecause(c, r, why) ==
    /\ Answer(c, r, Result(r, "rejected", None, None, why))
    /\ UNCHANGED <<tried, executor, child, worked>>

SubmitRejected(c, r) ==
    /\ pc[c] = "idle"
    /\ request' = [request EXCEPT ![c] = r]
    /\ \/ /\ ~PolicyAdmits(r)
          /\ RejectedBecause(c, r, "policy")
       \/ /\ PolicyAdmits(r)
          /\ Candidates(r) = {}
          /\ RejectedBecause(c, r, "no_executor")

SubmitRouted(c, r) ==
    /\ pc[c] = "idle"
    /\ PolicyAdmits(r)
    /\ Candidates(r) # {}
    /\ request' = [request EXCEPT ![c] = r]
    /\ TryNext(c, r, {})

-----------------------------------------------------------------------------
(* The executor: creating the subprocess *)

Spawnable(c) ==
    Config[executor[c]].type = "structured_process" =>
        request[c].action.spawnable

(* OSError becomes ExecutorUnavailable and the loop goes on. *)
SpawnFails(c) ==
    /\ pc[c] = "spawning"
    /\ TryNext(c, request[c], tried[c])
    /\ UNCHANGED request

(* ValueError does not. *)
SpawnRaises(c) ==
    /\ pc[c] = "spawning"
    /\ ~Spawnable(c)
    /\ Raise(c)
    /\ UNCHANGED <<request, tried, executor, child, worked>>

SpawnStarts(c) ==
    /\ pc[c] = "spawning"
    /\ Spawnable(c)
    /\ pc' = [pc EXCEPT ![c] = "running"]
    /\ child' = [child EXCEPT ![c] = Child(None, TRUE, FALSE)]
    /\ worked' = [worked EXCEPT ![c] = @ \cup {executor[c]}]
    /\ UNCHANGED <<results, request, tried, executor, answer>>

-----------------------------------------------------------------------------
(* The subprocess *)

Alive(c) == child[c] # None /\ child[c].exit = None
Reaped(c) == child[c] # None /\ child[c].exit # None
Held(c) == child[c] # None /\ child[c].held

SubprocessVars == <<results, pc, request, tried, executor, answer, worked>>

Exits(c, code) ==
    /\ child[c] # None
    /\ child[c].exit = None
    /\ child' = [child EXCEPT ![c].exit = code]
    /\ UNCHANGED SubprocessVars

(* SIGKILL is not refused; the process may have gone another way just before. *)
DiesKilled(c) ==
    /\ pc[c] = "reaping"
    /\ \E code \in ExitCodes : Exits(c, code)

(* The last process that holds the pipes closes them: the child, or, later   *)
(* than its exit, one it has started.                                        *)
PipesClose(c) ==
    /\ child[c] # None
    /\ child[c].held
    /\ child' = [child EXCEPT ![c].held = FALSE]
    /\ UNCHANGED SubprocessVars

Forgotten(c) ==
    /\ child[c] # None
    /\ child[c].exit # None
    /\ ~child[c].held
    /\ ~child[c].gone
    /\ child' = [child EXCEPT ![c].gone = TRUE]
    /\ UNCHANGED SubprocessVars

-----------------------------------------------------------------------------
(* The executor: awaiting the subprocess *)

(* Mutant: whatever the subprocess returned, it has finished. *)
Outcome_Finished(r, e, code) == Result(r, "succeeded", e, code, None)

Outcome(r, e, code) ==
    IF code = 0 THEN Result(r, "succeeded", e, code, None)
                ELSE Result(r, "failed", e, code, "exit_code")

(* communicate has read both pipes to their end and waited for the exit.     *)
Communicated(c) ==
    /\ pc[c] = "running"
    /\ Reaped(c)
    /\ ~Held(c)
    /\ Answer(c, request[c], Outcome(request[c], executor[c], child[c].exit))
    /\ UNCHANGED <<request, tried, executor, child, worked>>

(* Mutant: a timeout is one more way of being unavailable. *)
TimedOut_Unavailable(c) ==
    /\ TryNext(c, request[c], tried[c])
    /\ UNCHANGED request

TimedOut(c) ==
    /\ Answer(c, request[c],
              Result(request[c], "failed", executor[c], None, "timeout"))
    /\ UNCHANGED <<request, tried, executor, child, worked>>

(* Mutant: the executor does not wait for the process it has killed.         *)
DeadlineKills_NoWait(c) ==
    /\ pc[c] = "running"
    /\ Alive(c)
    /\ TimedOut(c)

(* The deadline passes while the process runs: it is killed, and waited for. *)
DeadlineKills(c) ==
    /\ pc[c] = "running"
    /\ Alive(c)
    /\ pc' = [pc EXCEPT ![c] = "reaping"]
    /\ UNCHANGED <<results, request, tried, executor, child, answer, worked>>

(* The deadline passes after the exit, communicate being still at the pipes:  *)
(* kill does nothing and wait returns at once.                               *)
DeadlineAfterExit(c) ==
    /\ pc[c] = "running"
    /\ Reaped(c)
    /\ ~child[c].gone
    /\ TimedOut(c)

(* Later still the transport has forgotten the process: kill raises          *)
(* ProcessLookupError, which is not caught.                                  *)
DeadlineTooLate(c) ==
    /\ pc[c] = "running"
    /\ Reaped(c)
    /\ child[c].gone
    /\ Raise(c)
    /\ UNCHANGED <<request, tried, executor, child, worked>>

(* Mutant: the deadline is one of the process, not of communicate. *)
Deadline_OfProcess(c) == DeadlineKills(c)

Deadline(c) == DeadlineKills(c) \/ DeadlineAfterExit(c) \/ DeadlineTooLate(c)

(* process.wait returns after the kill.  Until asyncio 3.12 it also waits for *)
(* the pipes, later it does not: possible with open pipes, assured (see      *)
(* LoopFair) only without.                                                   *)
WaitReturns(c) ==
    /\ pc[c] = "reaping"
    /\ Reaped(c)
    /\ TimedOut(c)

-----------------------------------------------------------------------------
Submit(c) == \E r \in Requests : SubmitRejected(c, r) \/ SubmitRouted(c, r)

Subprocess(c) ==
    \/ \E code \in ExitCodes : Exits(c, code)
    \/ PipesClose(c)
    \/ Forgotten(c)

Next ==
    \E c \in Calls :
       \/ Submit(c)
       \/ SpawnFails(c) \/ SpawnRaises(c) \/ SpawnStarts(c)
       \/ Subprocess(c)
       \/ Communicated(c) \/ Deadline(c) \/ WaitReturns(c)

Spec == Init /\ [][Next]_vars

(* What the event loop and the kernel owe: a spawn ends one way or another,   *)
(* a timer fires, a killed process dies, and a coroutine whose await is over *)
(* resumes.  Nothing is owed by the subprocess, nor by those who inherited   *)
(* its pipes.                                                                *)
LoopFair ==
    \A c \in Calls :
       /\ WF_vars(SpawnFails(c) \/ SpawnRaises(c) \/ SpawnStarts(c))
       /\ WF_vars(Communicated(c) \/ Deadline(c))
       /\ WF_vars(DiesKilled(c))
       /\ WF_vars(WaitReturns(c) /\ ~Held(c))

FairSpec == Spec /\ LoopFair

-----------------------------------------------------------------------------
(* Types *)

Names == {Config[e].name : e \in Executors}

ResultsWith(states, executors, codes, errors) ==
    [delegation_id : Ids, state : states, executor : executors,
     exit_code : codes, error : errors]

Results ==
    ResultsWith({"rejected"}, {None}, {None}, {"policy", "no_executor"})
      \cup ResultsWith({"failed"}, {None}, {None}, {"unavailable"})
      \cup ResultsWith({"succeeded"}, Names, {0}, {None})
      \cup ResultsWith({"failed"}, Names, ExitCodes \ {0}, {"exit_code"})
      \cup ResultsWith({"failed"}, Names, {None}, {"timeout"})

(* Every variable has its type, and a coroutine that waits for a subprocess  *)
(* has a request, an executor and, once it was created, a subprocess.        *)
TypeOK ==
    /\ results \in [Ids -> Results \cup {None}]
    /\ pc \in [Calls -> {"idle", "spawning", "running", "reaping"} \cup Ended]
    /\ request \in [Calls -> Requests \cup {None}]
    /\ tried \in [Calls -> SUBSET Executors]
    /\ executor \in [Calls -> Executors \cup {None}]
    /\ child \in [Calls -> Children \cup {None}]
    /\ answer \in [Calls -> Results \cup {None}]
    /\ worked \in [Calls -> SUBSET Executors]
    /\ \A c \in Calls :
          /\ pc[c] # "idle" => request[c] \in Requests
          /\ pc[c] \in {"spawning", "running", "reaping"} =>
                executor[c] \in Executors
          /\ pc[c] \in {"running", "reaping"} => child[c] \in Children

-----------------------------------------------------------------------------
(* Safety *)

(* Work is never done twice for one call: whatever fails, times out or is    *)
(* unavailable, at most one executor has begun to work, and it is the one    *)
(* the answer names.                                                         *)
WorkStartsOnce ==
    \A c \in Calls :
        /\ \A e, f \in worked[c] : e = f
        /\ pc[c] = "returned" =>
              \A e \in worked[c] : answer[c].executor = Config[e].name

(* A call that is over, with an answer or an exception, leaves no subprocess *)
(* of its own behind.                                                        *)
NoneLeftRunning ==
    \A c \in Calls : pc[c] \in Ended /\ child[c] # None => child[c].exit # None

(* An answer tells what happened: success that the executor's process exited *)
(* with 0, an exit code that it exited with that one, unavailable that nobody *)
(* began, and that nobody who could have been asked was left out.            *)
AnswersAreTrue ==
    \A c \in Calls : pc[c] = "returned" =>
        LET a == answer[c]
        IN  /\ a.state = "succeeded" <=> a.exit_code = 0
            /\ a.exit_code # None <=>
                  \E e \in worked[c] :
                     \/ Config[e].type = "echo" /\ a.exit_code = 0
                     \/ Reaped(c) /\ a.exit_code = child[c].exit
                        /\ a.error # "timeout"
            /\ a.error = "timeout" => Reaped(c)
            /\ a.error = "unavailable" =>
                  /\ worked[c] = {}
                  /\ tried[c] # {}
                  /\ request[c].allow_fallback =>
                        tried[c] = Candidates(request[c])
            /\ a.state = "rejected" => tried[c] = {} /\ worked[c] = {}

(* docs/PROTOCOL.md, "Routing", in its words. *)
Preferred(r, e, f) ==
    LET x == Config[e]
        y == Config[f]
    IN  CASE r.preference = "lowest_cost" ->
               \/ x.cost_tier < y.cost_tier
               \/ /\ x.cost_tier = y.cost_tier
                  /\ x.quality_tier > y.quality_tier
          [] r.preference = "quality_first" ->
               \/ x.quality_tier > y.quality_tier
               \/ /\ x.quality_tier = y.quality_tier
                  /\ x.cost_tier < y.cost_tier
          [] r.preference = "local_first" ->
               \/ x.priority < y.priority
               \/ /\ x.priority = y.priority
                  /\ x.cost_tier < y.cost_tier
               \/ /\ x.priority = y.priority
                  /\ x.cost_tier = y.cost_tier
                  /\ x.quality_tier > y.quality_tier
          [] OTHER -> x.priority < y.priority

(* An executor is turned to only after every executor the request prefers to *)
(* it, and, without fallback, only one is turned to.                         *)
BestFirst ==
    \A c \in Calls : request[c] # None =>
        /\ \A e \in tried[c], f \in Candidates(request[c]) \ tried[c] :
              ~Preferred(request[c], f, e)
        /\ \A e \in worked[c], f \in tried[c] :
              ~Preferred(request[c], e, f)
        /\ ~request[c].allow_fallback => \A e, f \in tried[c] : e = f

(* Machine-owner policy: work begins only for a risk the owner enabled, on   *)
(* an enabled executor with the capabilities (and, if given, the name) asked  *)
(* for, and a structured action only if its command and environment are on   *)
(* that executor's lists.                                                    *)
OnlyWhatIsAllowed ==
    \A c \in Calls : \A e \in worked[c] :
        LET r == request[c]
            x == Config[e]
        IN  /\ r.risk \in {"read"} \cup (IF AllowWrite THEN {"write"} ELSE {})
                 \cup (IF AllowPrivileged THEN {"privileged"} ELSE {})
            /\ x.enabled
            /\ r.capabilities \subseteq x.capabilities
            /\ r.executor \in {None, x.name}
            /\ x.type = "structured_process" =>
                  /\ r.action.command \in x.allowed_commands
                  /\ r.action.env \subseteq x.allowed_env

(* get *)
get(i) == results[i]

(* A caller that has the id to itself reads, from its answer on and whatever *)
(* other calls do, exactly that answer; before it, and after an exception,    *)
(* nothing.                                                                  *)
OwnIdReadsBack ==
    \A c \in Calls :
        (/\ request[c] # None
         /\ \A d \in Calls \ {c} :
               request[d] # None => request[d].id # request[c].id)
          => get(request[c].id) = answer[c]

(* With the event loop fair, every submit ends: with a subprocess that never *)
(* exits, that exits as its deadline passes, or that cannot be created.  Only *)
(* a process that keeps the pipes of a killed one open for ever can prevent  *)
(* it.                                                                       *)
EverySubmitEnds ==
    \A c \in Calls :
        []<>(~(pc[c] = "reaping" /\ Held(c)))
          => (pc[c] # "idle" ~> pc[c] \in Ended)

-----------------------------------------------------------------------------
(* What the service promises *)

Phase(p) ==
    CASE p = "idle" -> "idle"
      [] p = "returned" -> "answered"
      [] p = "raised" -> "failed"
      [] OTHER -> "pending"
IdOf(r) == IF r = None THEN None ELSE r.id

Table ==
    INSTANCE DelegationTable WITH
        Answers <- Results,
        phase <- [c \in Calls |-> Phase(pc[c])],
        asked <- [c \in Calls |-> IdOf(request[c])],
        told  <- answer,
        table <- results

(* Policy, routing, fallback, subprocesses and deadlines only delay a reply   *)
(* or let the call fail: to its callers the service is the abstract table.   *)
ImplementsTable == Table!Spec
=============================================================================
