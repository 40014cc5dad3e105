# Verification of agent-interop-gateway

TLA+ specifications of the gateway's core logic, the TLC runs that check them
on small instances, and theorems about them checked by TLAPS. Line numbers
refer to the files under `src/`; `foundry.py`, `service.py` and so on are in
`src/agent_interop_gateway/`.

- [1. The system](#1-the-system)
- [2. Modules](#2-modules)
- [3. How the model corresponds to the code](#3-how-the-model-corresponds-to-the-code)
- [4. Runs](#4-runs)
- [5. Proofs](#5-proofs)
- [6. What the code does and the documentation does not say](#6-what-the-code-does-and-the-documentation-does-not-say)
- [7. Not modelled, and what is left](#7-not-modelled-and-what-is-left)

## 1. The system

The gateway is one Python process. It speaks two protocols: the deprecated
`aigw/1` (submit a delegation, get its result) and `foundry/v3` (a job machine
with authenticated artifacts). Everything is in memory; a restart forgets it.
The Android relay is a process of its own, a client of the first protocol.

| component | state it keeps | operations | talks to |
|---|---|---|---|
| Foundry v3 client, `foundry.py` 1413-2073 | jobs, event log, attachments, their evidence, receipt registry, idempotency slots | `prepare_job`, `attach_artifact`, `execute_job`, `cancel_job`, `quarantine_job`, `read_result`; `mark_ready_for_test`, `settle_running` stand for the deployment | called by the API, synchronously; calls the injected receipt verifier |
| Receipts, manifests, policy, `foundry.py` 226-896 | trust store or receipt directory | issue, verify, validate, match | called by `attach_artifact` |
| Status and bulk reads, `foundry.py` 1975-1979, 2077-2225 | none; cursors are the caller's | `job_status`, `bulk_read` | reads the client's log and tables |
| Request schemas, `foundry.py` 902-1183 | none | validation before a handler runs | API |
| HTTP API, `api.py` | none | one endpoint per operation, error code to HTTP status | service, Foundry client |
| Delegation service, `service.py`, `router.py` | `results` by delegation id | `submit` (policy, route, ordered fallback), `get` | awaits executors; submits interleave there |
| Executors, `executors.py` | one subprocess per call | echo, agent process, structured process, each with a deadline | operating system |
| Android relay, `android_relay.py` | texts already seen | poll, submit, type the answer | gateway over HTTP, adb |
| Android bridge, `android_adb.py`, `chatgpt_android.py` | none | adb commands, candidates of a dump | phone |
| configuration, command line, scripts | none | read once, start the process | |

What is hard about it, and what makes each part correct:

- **Foundry v3 client.** Calls arrive in any order, repeated, under keys that
  every operation on a job shares, with generations and receipts that may be out
  of date by then. Correct means: a key has one answer and a receipt has one
  answer; nobody is told of a success that did not happen; a refused call
  changes nothing; the log alone tells the job's history; what is executed is
  what was attached at launch; a job is launched once; terminal is terminal.
- **Receipts.** A dozen fields that must all agree with the request, the job and
  the clock. Correct means: accepted exactly when a trusted deployment issued
  this very statement for this very request, in time, for a manifest the job's
  policy asks for.
- **Reads.** Answers to polls are delayed and lost, and pages are cut by offset
  from tables that grow meanwhile. Correct means: a poller with a cursor misses
  no event, gets none twice and is shown the job these events tell; a walk over
  pages meets every row that was there when it began, and ends.
- **API.** A caller that lost an answer repeats the call. Correct means: it gets
  the answer it lost, and an error's code tells it what has happened for good;
  its status does not, because the schema's refusals and the verdicts on an
  artifact are both a 422.
- **Delegation service and executors.** Submits interleave while they wait for
  subprocesses, which exit, hang, die as their deadline passes, or leave
  descendants behind. Correct means: at most one executor begins to work per
  call, within the owner's policy, in the order of the request's preference;
  the answer tells what happened; the table holds the last answer given under
  each id; every submit ends and leaves no process.
- **Relay.** Every adb command may fail, halfway too, and the phone has a user.
  Correct means: a request is submitted once per life of the relay, one that
  stays on the screen is submitted in the end, a dry run only watches, and an
  answer never becomes a request.

## 2. Modules

| module | what it is |
|---|---|
| `AttachChecks` | the checks of an attach request as pure operators: manifest, staged payload, receipt authentication (signed and opaque), binding, policy |
| `FoundryJobs` | the v3 client: its fields as variables, one action per way out of each handler |
| `JobLifecycle` | the abstract specification of a job: phases, artifacts, the sealed set |
| `AttachCourier` | one attach request from the deployment to the verdict, with a channel that may alter it; the exhaustive check of `AttachChecks` |
| `StatusCursor` | `FoundryJobs` with a caller that polls jobs over a channel that delays and loses answers |
| `BulkPages` | `FoundryJobs` with a caller that walks a table page by page |
| `GatewayApi` | `FoundryJobs` behind the endpoints: codes, HTTP statuses, and every answer ever given |
| `Routing` | who may serve a delegation and in which order, as pure operators |
| `GatewayService` | concurrent submits over `Routing`, executors and their subprocesses |
| `DelegationTable` | the abstract specification of the service: replies and the table they are read from |
| `AndroidRelay` | the relay's loop, the phone and its user |
| `MC*` | requests, texts, configurations and symmetry sets for TLC |
| `FoundryJobs_proofs` | types, final records, fixed bindings, the log behind every change, quiet refusals |
| `FoundryJobs_books` | the books of attachments, genuine evidence, one answer per receipt, one job per prepare, true answers |
| `FoundryJobs_log` | the freeze at launch, `FoundryJobs` implements `JobLifecycle`, one launch, the tale of the log, final results |
| `Reads_proofs` | what a poller hears and is shown; what the pages of a table bring |
| `GatewayApi_proofs` | which answers stand |
| `AttachCourier_proofs` | accepted is exactly what is owed |
| `GatewayService_proofs` | the sort key is a total order; types, work, routing, answers, reading back; `GatewayService` implements `DelegationTable` |
| `AndroidRelay_proofs` | types, single submission, dry run, the relay's own results |

`FoundryJobs` and `AttachCourier` extend `AttachChecks`; `StatusCursor`,
`BulkPages` and `GatewayApi` extend `FoundryJobs`, each with a caller of its own;
`GatewayService` extends `Routing`. `FoundryJobs` and `GatewayService`
instantiate their abstract specifications under a refinement mapping.

Some definitions stand in front of a code definition with a suffix
(`Begin_NoLookup`) and a comment that begins with "Mutant": the same code with a
plausible bug. They are used by nothing; PROJECT.json says which property each
one breaks.

## 3. How the model corresponds to the code

### 3.1 The v3 client (`FoundryJobs`)

**Steps.** Every handler of the client is a plain function and the endpoints,
coroutines of one event loop, call it without awaiting, so a handler runs
without interleaving: one handler, one step. What interleaves is the order of calls.
A handler with several ways out is one action per way out, disjoint by their
guards; `Attach` is the disjunction of seven:

| way out of `attach_artifact` | action | lines |
|---|---|---|
| the key is bound | `FromSlot` | 1689-1691 |
| no such job | `JobNotFound` | 1692 |
| stale generation, wrong state, no verifier: stored, nothing else | `AttachRejected` | 1694-1723 |
| a check fails: quarantined and stored | `AttachFailsChecks` | 1733-1844 |
| another receipt is on record: quarantined and stored | `AttachConflicts` | 1861-1867 |
| this receipt is on record: original response, stored under the new key | `AttachReplaysReceipt` | 1856-1860 |
| recorded: row, evidence, attachment, event, slot | `AttachRecords` | 1869-1899 |

**State.** One variable per field the properties tell apart; the slots of scope
`job:<id>` are `idempotency`, those of scope `prepare:<project>` are
`prepared`; `events` is the log. An event's `seq` is a number to the type invariant; that it
is the event's place in the log is part of `LogInv`, proved as `LogInvariant`. `told` is a history variable: the
successes callers were told of, now or from a slot.
The events of a job are those of the log at certain places (`EventsOf`, `Keep`):
the comprehensions of the code, stated by places rather than by recursion, which
is what the proofs need.

**Data.** A canonical hash is the record it is computed from and a MAC is the
pair of key and statement: hashes without collisions, MACs without forgeries. A
bound key stores its payload instead of the payload's hash. A manifest's text
fields are one flag (`well_formed`) and the two policy fields
`lock_digest` (required) and `provenance_ref` (optional), one of each kind the
policy match distinguishes. Command lines are normalized by a table
(`NormalStep`). Mount handles that are CAS references are the set `CasHandles`.

**Left out of the client, with the reason.**
- `launch_token` as a field: `execute_job` sets and clears it in one call, so no
  other call ever sees it set, and the branch for a pending reservation
  (1952-1955) is never taken. The token in the reservation event is kept.
- A `prepare_job` that raises for its policy (1644-1650): it leaves no trace;
  the prepare requests of the model have valid policies.
- `mark_ready_for_test` on a ready job and failing calls of it: no change.
- Attempt ids, request hashes, actors, objectives, timestamps other than
  `attached_at`: no property is about them.
- `generation` is a variable although no handler changes it, because every
  fence compares with it.

**Environment.** `Tick` is the clock, bounded by `MaxNow`; `AttachRecords` reads
it twice as the code does (in the verifier and at 1847), with any time between.
`Revoke` removes a reference from the deployment's receipt directory. `Foundry`
(`MarkReady`, `SettleRunning`) is what the deployment does to a job. Together
they are `Deployment`.

### 3.2 Its callers (`StatusCursor`, `BulkPages`, `GatewayApi`)

| code | model |
|---|---|
| `job_status` (1975-1979): job, events behind the cursor, new cursor | `job_status`, read in one step by `Poll`; `Receive` and `Lose` are the way back |
| `read_result` (1993-2012), refused before a terminal state | `read_result`, `ReadResult` |
| `_resource_rows` (2093-2225), built anew for every call | `RowsAt`, the eight tables, a row being what identifies it, and `_resource_rows`, their rows in order |
| `bulk_read` (2077-2091): clamped limit, slice by offset, next offset if there is more | `bulk_read`, `Clamped`, `NextOffset` |
| `v3_attach` ... `v3_quarantine` (`api.py` 153-221) | the action of `FoundryJobs` together with the answer |
| `_foundry_error` (`api.py` 118-139) | `Status`, `Given` |
| the schemas (`foundry.py` 1102-1141), `_reject_router_fields` (`api.py` 113-116) | `SchemaRefuses` |

`SchemaRefuses` is the 422 a caller gets from the request schema or the filter of
router fields: the client is not reached, but the caller sees the status that
`artifact_invalid` or `receipt_untrusted` have, which did quarantine the job
(`docs/PROTOCOL.md` 179-188 tells the two apart). It is a step that changes nothing
but what was answered. A cursor that is no number is refused before anything is
read, and a request with a wrong token (401) is never looked at: neither is a
step. `created_at` is assumed not to go
backwards, so that the tables sorted by it are sorted by preparation; the client
keeps no approvals, and that table is empty.

A table is a function from places to rows. The loops of `_resource_rows` go over
jobs in the order they were prepared (or over projects in the order of their
names, or over events) and, within a job, over its result and its artifacts: a
place is the pair of these two positions, a job's being the number of its first
event, and `InOrder` reads the rows off in the order of their places. Rows that
come later have places of their own, between the others or behind them; this is
what the proofs about pages need, and what concatenated lists do not show.

`CodeOf` is not a second copy of the handlers: it reads the code from the slot
the step has found or bound, and the two refusals that bind none are told apart
by the generation.

### 3.3 Delegations (`Routing`, `GatewayService`)

**Steps.** A submit is a coroutine. From one await that suspends to the next it
runs alone, and that is one step: `submit` with its loop up to the first
executor that does not refuse at once (`TryNext`), the creation of the process
(`SpawnStarts`, `SpawnFails`, `SpawnRaises`), the end of `communicate`
(`Communicated`), the deadline (`Deadline`), and the wait after the kill
(`WaitReturns`). An echo answers without suspending. Between these steps other
submits run, and meet in `results` under ids the callers choose.

| code | model |
|---|---|
| `_policy_error` (`service.py` 23-28) | `PolicyAdmits` |
| `build_executors`, `supports`, `route` (`executors.py`, `router.py`) | `Built`, `supports`, `Candidates`, `Key`, `Before` |
| the loop of `submit` (52-70), `ExecutorUnavailable` before any await | `Reachable`, `Refuses`, `PassedOver`, `Taker` |
| `create_subprocess_exec` raises `OSError`: the loop goes on | `SpawnFails` (a further round of `TryNext`) |
| it raises `ValueError` (a NUL byte in the arguments): nobody catches it | `SpawnRaises`, `Raise` |
| `wait_for(process.communicate(), timeout)` | `Communicated` or `Deadline` |
| `kill`, `wait`, answer `timeout` | `DeadlineKills`, `WaitReturns`, `DeadlineAfterExit` |
| `self.results[request.id] = result; return result` | `Answer` |

**The subprocess** is the operating system's and asyncio's (external): it exits
when it likes (`Exits`), its pipes stay open while any process holds them
(`PipesClose`), and once both are over the transport drops it (`Forgotten`). The
three stages matter when the deadline passes: `communicate` waits for the pipes
too, so it may still be waiting when the process has exited; `kill` then does
nothing, or, if the transport has already dropped the process, raises
`ProcessLookupError`, which is not caught and ends the call without an entry
(`DeadlineTooLate`). `process.wait` waits for the pipes up to asyncio 3.12 and
does not later; `WaitReturns` is possible with open pipes and owed only without.

**Data.** A configuration entry is a record; an executor is its position in the
list, the last component of the key because the sort is stable. Capabilities,
commands and environment names are set elements. Output and its truncation,
task text, timestamps, origin and metadata are left out; an error text is the
kind of error it is (`Errors`).

### 3.4 The relay (`AndroidRelay`)

The relay is one thread, but between two adb commands the phone is its user's.
One step per adb command or submission (`Check`, `Dump`, `Submit`,
`FindEditor`, `Type`, `Press`); `PassOver` is a candidate the scan needs no
command for, `Abandon` the `except` of the loop (103-105), which drops the rest
of the dump. `SubmitFails` is the `RuntimeError` that the loop survives; `Dies`
covers what it does not (an unreachable gateway, an answer that is no JSON) and
a kill, at any point. `Restart` runs the same command again with an empty
`seen`. A text is the sequence of its words, as far as the code looks at them:
the prefix of results, words `looks_like_delegation` finds, others. Candidates
of one dump are taken in any order, for the order of nodes is left out.
`Type` appends to the message field, cut short where the device's
shell would, and may report an error after it has acted. The user speaks,
types, sends and changes the app at any time.

### 3.5 Fairness

- The v3 client: none. Nothing in it drives a job: every step is a call from
  outside, which may never come. In particular no code completes a
  `cancel_requested` job.
- `KeepsPolling` (`StatusCursor`): the caller polls again and again, and of
  infinitely many answers not all are lost. It is the caller's and the
  channel's; of the gateway nothing is assumed but that it answers.
- `LoopFair` (`GatewayService`): what the event loop and the kernel owe. The
  creation of a process ends, the timer of `wait_for` fires, a killed process
  dies, and a coroutine whose await is over resumes. Nothing is owed by the
  subprocess: it need not exit, and nobody need close its pipes.
- `RelayFair` (`AndroidRelay`): the loop goes on, each command and each
  submission ends (they have timeouts), and a dump that is tried for ever
  succeeds at some time (`SF`: the code retries it every poll). Submissions and
  injections may fail always, and the relay may die.

### 3.6 Deadlock

The check is off in every run: a system in which every job is terminal, every
key is bound and the clock has stopped at its bound really has nothing left to
do; neither has a judged request, or a service whose calls are answered.

## 4. Runs

| run | instance | distinct states | what it shows |
|---|---|---|---|
| `hmac` | 1 job, 3 keys, 2 artifacts, 8 attach requests with signed receipts, clock 0-2 | 29,722 | everything about one job |
| `unconfigured` | 1 job with or without a policy, no verifier, a receipt that is revoked | 6,902 | attach fails closed |
| `attach_courier` | every request described below, both verifiers | 3,704,832 | the verdict on one attach |
| `polling` | 2 jobs in one log, one of them followed, 1 call key, 2 prepare keys, receipts sent to either job | 133,183 | the log, repeated prepares, and what a poller hears, with liveness |
| `pages` | 1 job, 2 artifacts, 8 tables, with and without a job filter, limits below one and above the cap of 2 | 35,602 | pages of growing tables |
| `retries` | 1 job, 2 keys, attach and execute watched under one of them, a revocable and an unknown opaque receipt, an unusable manifest, schema refusals | 328,448 | what the answers let a caller conclude |
| `delegations` | 2 calls, 2 ids, 9 requests, 6 executors (agent, structured, echo, disabled, without argv, of unknown type), exit codes 0, 1, -9 | 70,754 | the service, its refinement and its liveness |
| `relay` | armed and not, a request and a remark spoken, a request typed, 2 texts on a screen, 2 lives | 177,996 | the relay, with liveness |
| `replay_after_expiry`, `result_before_launch`, `control_keys`, `relay_draft` | as the above, with fewer requests | | violations: section 6 |

**Bounds of the client.** A hazard of the client takes at most three calls under
different keys on one job: an attach, its repetition or rival, and an execute,
cancel or quarantine; readiness and settling need no key. Three keys give all
of these, and every reuse of a key by another operation. Two artifacts suffice
for the order of lists. Receipts live two ticks (`MaxReceiptTTL = 2`) and the
clock passes the expiry of the genuine one. The requests include a genuine
attach of each artifact, the same receipt in another request, a second genuine
receipt for the same artifact, a stale generation, a forged receipt, a malformed
manifest and a request whose constraint contradicts the policy. Keys are
symmetric where no request mentions one and no liveness is checked.

The opaque verifier is checked on every statement by `attach_courier` and with
its directory changing under repeated calls by `retries`; two jobs, whose only
common state is the log and the counter of their sequence numbers, by `polling`.

**Bounds of the callers.** `polling`: one call key still allows, per job, an
attach or an execute or a cancel, their repetition, and every step of the
deployment, and two prepare keys allow the second job; a poll may be answered
at any point of this, and one answer is under way at a time because a caller
asks one question at a time. `pages`: up to two artifact rows and a result row
before them, with pages of one and of two rows, are all ways in which rows are
inserted before an offset. `retries`: the caller's key and another one, whose
calls may change the job in between; only answers to attach and execute under
the watched key are kept (`Watched`), because the properties compare answers to
these under one key. `control_keys` watches all four calls.

**Bounds of the service.** Two calls give every interleaving of two coroutines
on one row of the table; calls share nothing else. The requests take every way
through `submit`: rejected by policy and for want of an executor, with and
without fallback, each preference, a structured action that is none, is not
allowed, cannot be spawned; the six executors take every branch of `Refuses`, and three of them have the same
priority, so that `local_first` has a tie to break.

**Bounds of the relay.** One request spoken and another typed show how they
disturb each other, one remark is passed over, two lives are one restart.
`MaxTexts`, `MaxOutput`, `MaxComposed` cap the screen, the answer and the message
field; the theorems of section 5 hold without them.

**Properties of the client.**

| property | the question |
|---|---|
| `EventsTellTheJob` | is the log of each job one chain of states, with growing artifact lists, that ends where the job is? |
| `ChangesAreRecorded` | does nothing happen to a job behind the log? |
| `BooksAgree` | do evidence, attachments and registry list the same artifacts, once each? |
| `FrozenAtLaunch` | is what was frozen at launch what was attached, and still is? |
| `OneLaunch` | is a job launched once, and is the reservation's key the one execute that is answered with success? |
| `EvidenceIsGenuine` | was everything on record issued by the trusted party, for this job, step by step, under its policy? |
| `OneAnswerPerReceipt` | do all successful attaches of an artifact, under any key, get the one recorded answer? |
| `SuccessIsTrue` | was nobody told of a success that did not happen? |
| `FailsClosed` | without a verifier, is nothing recorded and nothing quarantined? |
| `OneJobPerPrepare` | does each job answer for exactly one prepare? |
| `RecordsAreFinal` | is nothing on record replaced, dropped or reordered? |
| `TerminalIsFinal` | does a terminal job always read the same? |
| `RefusalsMutateNothing` | does a refused and stored attach or execute leave all jobs, books and events alone? |
| `ImplementsLifecycle` | do keys, receipts, replays and quarantines add no edge to the abstract machine? |

**The courier.** The deployment (trusted or a stranger) states what it verified,
for either job, either payload and three plans (one, its reordering, its
beginning), mounted apart or not, with any window in 0-3. It may make one mistake: state another staging reference, the
hash or the steps of another plan, or the replay domain of another attach, and
sign or record that. The client asks for
the same or another payload, plan and constraint, under either of two policies;
one field of a receipt without a mistake, or none, is altered on the way; the
clock stands anywhere in 0-2. `AcceptsExactlyTheOwed` compares the verdict with a definition
that does not repeat the checks: the statement the deployment owes for this
request, unaltered. `TypeOK` bounds the errors the checks of an attach may end
in.

**Properties of the callers.**

| property | the question |
|---|---|
| `HearsTheLog` | does the caller hold the job's events up to its cursor, each once, whatever was recorded or lost between read, answer and next poll? |
| `SnapshotsFitTheEvents` | is the job it was shown last the job its events tell? |
| `ResultIsTheLastWord` | does no event follow the one a result names, and does no poll get further? |
| `EverythingIsHeard` | does a caller that goes on polling hear the whole history of a job that ended? |
| `PagesMissNothing` | does a finished walk hold every row that was there when it began? |
| `GrowingTablesReadOnce` | are the pages of a table that grows at its end one reading of it, nothing twice? |
| `PagesMoveOn` | does every page but the last one deliver rows, for every limit? |
| `AnswersStand` | does a repeated attach or execute always get the answer that may have been lost? |
| `ContentsBindTheirKey` | is one key good for one attach or execute, ever? |
| `ErrorsAreConclusive` | has an attach answered with a verdict on its artifact or receipt cost the job its life, is an execute the client refused never carried out by a later delivery, and is a key that only the schema refused unbound by that call? |

Tables of all jobs (`artifacts` and `evidence` without a filter, `projects`,
and `evidence` of one job) insert rows before an offset, so that a walk over them may
see a row twice; that no row is missed holds for them too.

**Properties of the service.**

| property | the question |
|---|---|
| `WorkStartsOnce` | does at most one executor begin to work for a call, and does the answer name it? |
| `NoneLeftRunning` | does no call end while its subprocess runs? |
| `AnswersAreTrue` | is success an exit with 0, an exit code the process's own, a timeout a process that is gone, and unavailable only said after all who may be asked have refused? |
| `BestFirst` | are executors turned to in the order `docs/PROTOCOL.md` gives each preference, its tie-breaks included, and only one without fallback? |
| `OnlyWhatIsAllowed` | does work begin only within risk policy, capabilities, name and allowlists, through every fallback? |
| `ImplementsTable` | is the service, to its callers, the abstract table: one final answer per call, readable under its id until the next one? |
| `EverySubmitEnds` | does every submit end, unless a descendant keeps the pipes of a killed process for ever? |

**Properties of the relay.**

| property | the question |
|---|---|
| `SubmittedOncePerLife` | is no text submitted twice while the relay lives? |
| `SeenIsDealtWith` | is what was marked as seen and asks for work exactly what was submitted? |
| `DryRunOnlyWatches` | without `--arm`, is nothing submitted, typed or sent? |
| `RequestsAreHeard` | is a request that stays on the screen of a living relay submitted in the end? |

What the relay submits again after a restart is what is still on the screen:
`seen` is in memory, and nothing in the repository promises otherwise.

## 5. Proofs

For every value of the constants that satisfies the named assumptions, all of
which the code or its schemas guarantee:

- `FoundryJobs`: generations are numbers and contain 1; digests contain those of
  the requests; a key is not `None`, a manifest has its fields and a receipt is
  issued at a number (`KeysAssumption`, `AttachRequestsAssumption`: the request
  schemas); `None` is no row, slot, code or reason (`NoneAssumption`), so that what
  is recorded can be told from nothing.
- `AttachCourier`: plans are not empty and of known commands, the clock's bound
  is a number, no field the deployment states and no MAC is the value nobody
  issued (`WrongAssumption`: otherwise an alteration might alter nothing).
- `StatusCursor`: the followed jobs are jobs.
- `BulkPages`: the projects stand in their order once each, limits are integers
  and the cap is positive, `None` is neither a number nor a job
  (`NoCursorAssumption`: the absence of a cursor or of a filter).
- `Routing`, `GatewayService`: executors are finitely many positions, tiers and
  priorities are integers (`config.py` gives them that type), requests have a
  preference, a risk and a fallback flag (their schema does), `None` is none of the
  values it stands beside.
- `AndroidRelay`: texts are not empty and only the relay writes its prefix.

| theorem | module | statement |
|---|---|---|
| `TypeCorrect` | `FoundryJobs_proofs` | `Spec => []TypeOK` |
| `RecordsFinal` | `FoundryJobs_proofs` | `Spec => RecordsAreFinal` |
| `BindingsFixed` | `FoundryJobs_proofs` | `Spec => BindingsAreFixed`: generation, source and policy stay, no job becomes attachable again |
| `ChangesRecorded`, `RefusalsAreQuiet` | `FoundryJobs_proofs` | `Spec => ChangesAreRecorded`, `Spec => RefusalsMutateNothing` |
| `BooksAlwaysAgree` | `FoundryJobs_books` | `Spec => []BooksAgree` |
| `ReceiptsHaveOneAnswer` | `FoundryJobs_books` | `Spec => []OneAnswerPerReceipt` |
| `PreparesMakeOneJob` | `FoundryJobs_books` | `Spec => []OneJobPerPrepare` |
| `EvidenceGenuine`, `ClosedWithoutVerifier` | `FoundryJobs_books` | `Spec => []EvidenceIsGenuine`, `Spec => []FailsClosed` |
| `ReasonInvariant` | `FoundryJobs_books` | `Spec => []ReasonInv`: a reason exactly while quarantined |
| `SuccessesAreTrue` | `FoundryJobs_books` | `Spec => []SuccessIsTrue`, by `ClientInvariant` |
| `LaunchInvariant`, `LaunchFreezes` | `FoundryJobs_log` | `Spec => []LaunchInv`, `Spec => []FrozenAtLaunch` |
| `Implementation` | `FoundryJobs_log` | `Spec => ImplementsLifecycle` |
| `LaunchesOnce` | `FoundryJobs_log` | `Spec => []OneLaunch` |
| `LogTellsTheJob` | `FoundryJobs_log` | `Spec => []EventsTellTheJob`, by `LogInvariant` |
| `ResultsAreFinal` | `FoundryJobs_log` | `Spec => TerminalIsFinal` |
| `PollingHearsTheLog` | `Reads_proofs` | `FollowSpec => []HearsTheLog`, by `CursorInvariant` |
| `SnapshotsFit` | `Reads_proofs` | `FollowSpec => []SnapshotsFitTheEvents` |
| `ResultsAreTheLastWord` | `Reads_proofs` | `FollowSpec => []ResultIsTheLastWord` |
| `PagesMissNoRow` | `Reads_proofs` | `WalkSpec => []PagesMissNothing`, by `WalkInvariant` |
| `PagesAreOneReading` | `Reads_proofs` | `WalkSpec => []GrowingTablesReadOnce` |
| `PagesAlwaysMoveOn` | `Reads_proofs` | `WalkSpec => PagesMoveOn` |
| `AnswersAlwaysStand` | `GatewayApi_proofs` | `ApiSpec => []AnswersStand`, by `AnswersInvariant` |
| `ContentsBind`, `ErrorsConclude` | `GatewayApi_proofs` | `ApiSpec => []ContentsBindTheirKey`, `ApiSpec => []ErrorsAreConclusive` |
| `TypeCorrect`, `OwedIsAccepted` | `AttachCourier_proofs` | `Spec => []TypeOK`, `Spec => []AcceptsExactlyTheOwed`, by `CourierInvariant` |
| `TypeCorrect` | `GatewayService_proofs` | `Spec => []TypeOK` |
| `WorkOnce`, `NoneRunning` | `GatewayService_proofs` | `Spec => []WorkStartsOnce`, `Spec => []NoneLeftRunning` |
| `OnlyAllowed`, `InOrder` | `GatewayService_proofs` | `Spec => []OnlyWhatIsAllowed`, `Spec => []BestFirst` |
| `AnswersTrue` | `GatewayService_proofs` | `Spec => []AnswersAreTrue` |
| `ReadsBack` | `GatewayService_proofs` | `Spec => []OwnIdReadsBack`: who has an id to itself reads its own answer |
| `Implementation` | `GatewayService_proofs` | `Spec => ImplementsTable` |
| `TypeCorrect` | `AndroidRelay_proofs` | `Spec => []TypeOK` |
| `SeenDealtWith`, `OncePerLife`, `DryRun` | `AndroidRelay_proofs` | the three safety properties of the relay |
| `OwnResultsIgnored` | `AndroidRelay_proofs` | with a user who types nothing, `Spec => []IgnoresItsResults` |

**The client: steps.** Type correctness is inductive with one strengthening that
is part of `TypeOK`: a job id that was never accepted owns nothing, so that
`prepare_job`'s fresh lists are no change. Finality is proved action by action
from it: a slot, row or prepared entry is written only where the guard found
none, and lists only grow. That every change is in the log, and that a refusal
which is stored changes nothing else, are read off the same case split.

**The client: books.** None of the properties is inductive alone. `BooksInv` adds
to `BooksAgree` that evidence carries its job's one generation: only so is a receipt
without a row a receipt for an artifact that is not attached, and appending it
lists nothing twice. `AnswerInv` adds to `OneAnswerPerReceipt` that rows hold
successful answers to attaches and slots answers to the operation that bound
them: what a replay finds is then what the first call stored. `PrepareInv` adds
that prepared jobs exist. `TruthInv` says that every success in a slot, told or not,
holds: what a replay repeats is true because it was when it was stored and
because what it claims (attached, running, cancelled, quarantined) is never taken
back. `GenuineInv` adds that the deployment's directory only shrinks, so that what
the verifier found in it had been there from the start.

**The client: log.** `FrozenAtLaunch` does not exclude a launched job that is still
attachable, nor a running job without a launch. `LaunchInv` adds both; attaching
then touches no launched job, and settling, which refreezes `FrozenOrAttached`,
finds the frozen list equal to the attached one. In the refinement each step
maps to a step of `JobLifecycle` or to a stutter; settling uses `LaunchInv`, because
the abstract `Finish` seals nothing. `OnceInv` ties the launch event to the
reservation right before it and to the one slot that holds a successful execute.
`EventsTellTheJob` speaks of the events of one job, a sublist of the log. `Keep`
builds it from the places it keeps, in order (section 3.1); the lemmas about it
say that keeping is monotonic, that what is appended and kept comes last, and
that of consecutive windows of places one list continues the other. `LogInv` adds
that an event's number is its place and that no event leaves a terminal state.

**The callers.** The caller of `StatusCursor` takes only steps of the client or
steps that leave it alone, so that every invariant of the client is one of
`FollowSpec`. `CursorInv`: what was heard is the window of the log up to the
cursor, and the answer under way is the window behind it, up to the cursor it
carries; events recorded in between are behind both, so that neither changes.
`ShownInv` says the same of the job in the answer: it is the one told by what was
heard and the answer's events, by `LogInv`, `LaunchInv` and `ReasonInv`. For results
`ResultStays`: what `read_result` says of an ended job it says for ever. In
`GatewayApi`, `SlotInv` says which answer each kind of slot can hold and what is
then true of its job, and `AnswersInv` that an answer given under a key fits the
slot of that key, and that the call that bound a watched key was answered by the
client; as slots are final, so are the answers. The schema's refusals fit
every slot and account for none.

**The pages.** The number of a row in its table is the number of places up to its
own. More places can only raise it (`PositionGrows`), and not at all if they come
behind. What remains is that tables grow: every row keeps its place and what it
says (`StepGrowsTables`: events and evidence are final, artifacts are only
appended, an ended job keeps its result, `BooksInv`), no row stands twice
(`TablesWellFormed`: events are numbered by their places, `LogInv`, and no
artifact is listed twice, `BooksInv`). `WalkInv`: of the rows owed, those before
the offset are collected. A step of the client moves none of the others in front
of the offset, since what stands there now stood there or farther in front
before. That every table is finite needs that lists of finitely many lists are,
which is proved by a least counterexample (`FiniteRows`).

**The courier.** `CourierInv` says that what is in the gateway's hands was made from
one statement, true or with a mistake in it: it is the statement, the receipt
issued for it, or that receipt with one alteration. An alteration either changes what the receipt states, while
the MAC or the directory still says the old, or spoils the MAC or the reference:
in both cases it is not authentic (`AlteredFails`). For an unaltered receipt the
checks pass exactly if the statement is owed: one direction rebuilds the
statement from the checked fields (`PassingIsOwed`), where the plan's hash
determines the normalized plan and through it the steps, the other shows that
a verified plan is covered step by step (`VerifiedCovers`). That
holds of statements with a mistake too, for the fields it can be in (reference,
plan hash, steps, replay domain) are among those the checks determine; the MAC
and the directory, which vouch for it, are no help to it.

**The service.** Of the sort key is shown that `Before` is a strict total order of
the executors under every preference (keys of integers compared
lexicographically, the position last), so that of finitely many one comes
first: the one with the smallest set before it, by cardinality and the least
number principle. Three inductive invariants follow a call through its stages. `WorkInv`:
nothing has worked and there is no process before `running`; from then on the
awaited executor alone. `RouteInv`: what the loop has turned to is always a
beginning of the candidates in their order (only the first one without fallback), and
who works or is awaited was chosen, that is allowed and the last in turn.
`AccountInv`: an answer is one of five, each with what must have happened; for
"unavailable" the order gives that nobody is left. `TableInv`, for `ReadsBack`:
what is under an id was put there by an answered call that brought it. The
refinement maps a call to its phase; every step is a step of `DelegationTable` or
a stutter, by `TypeOK`.

**The relay.** `SeenIsDealtWith` is inductive: every assignment to `seen` is
paired with the submission, or is of a text that needs none. `OncePerLife` follows
from it, because a text is submitted only if it is not in `seen`. `DryRun`
needs that no marked text is anywhere on the phone or under way, and
`OwnResultsIgnored` that a mark is always in front.

**Only model-checked.** Liveness under fairness (`EverythingIsHeard`,
`EverySubmitEnds`, `RequestsAreHeard`) and `ENABLED`, which are out of the prover's
reach. Every other property of a passing run is a theorem. The four sentences
of section 6 are refuted by TLC, and what remains true of them is proved
(`ResultsAreFinal`, `ContentsBind`, `OwnResultsIgnored`).

## 6. What the code does and the documentation does not say

- **A replayed receipt that has expired.** `docs/PROTOCOL.md` 199-202 promises the
  original response to an exact replay of a receipt under a new key.
  `attach_artifact` authenticates the receipt against the clock (1774) before it
  looks in the registry (1855). Once the receipt has expired the replay is
  `receipt_untrusted` and quarantines the job that it was recorded for.
  Run `replay_after_expiry`.
- **The result of a job that was never launched.** `docs/PROTOCOL.md` 212-214 says
  `read_result` and status snapshots bind the digests frozen at execute. For a job
  quarantined before execute, `read_result` (1997) reports the attached digests
  as frozen while a status snapshot shows none. Run `result_before_launch`.
- **The key of a refused cancel.** `docs/PROTOCOL.md` 86-88 says that reusing a key
  with a different payload is a conflict. A cancel or a quarantine that is refused
  stores nothing (1987, 2020), so another request under its key is carried out.
  For attach and execute the sentence holds: `ContentsBindTheirKey`. Run
  `control_keys`.
- **A result behind a draft.** `docs/ANDROID_BRIDGE.md` 37 says that the relay
  ignores its own results. It tells them by their first words
  (`android_relay.py` 86), and types them behind whatever stands in the message
  field (`android_adb.py` 118). With a draft in front, the text is found, in the
  field or in the conversation, and submitted as a request of its own. If the
  user types nothing the sentence holds: `OwnResultsIgnored`. Run `relay_draft`.

Two behaviours that no document speaks of, but that the properties must allow:
a deadline that fires when the exited process has been dropped ends the call
with an exception and no entry in the table (`executors.py` 89), and so does a
process that cannot be created for a NUL byte in its arguments (133);
`DelegationTable` has `Fail` for both.

## 7. Not modelled, and what is left

Not modelled:

- `config.py`, `cli.py`, the launch scripts: read once at start; policy flags and
  executor settings are constants.
- The schemas beyond the shape of requests they guarantee and the refusals they
  answer with, and the text syntax of manifests, handles, commands and
  identities (226-243, 569-754): parsing without state, best tested.
- A manifest whose `kind` cannot be hashed (a list, an object): the membership
  test at 777 raises `TypeError`, which no handler catches, so that the call ends
  with a 500, before anything is stored or quarantined. The model's
  manifests are well formed or refused.
- The bridge's `snapshot`, `probe`, `watch` and `inject` commands, screenshots,
  the parsing of nodes and bounds: no state.
- The bearer check and `/health`: they reach no state.
- The deployment of a real Foundry: outside the repository; `Foundry` stands for
  what the test hooks do in its place.

Left to do: two followed jobs in `polling` and two jobs in `pages`. Both multiply
the states of runs whose safety properties are proved for any number of jobs, so
that what they would add is liveness with two followed jobs.
