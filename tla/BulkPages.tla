------------------------------ MODULE BulkPages ------------------------------
(***************************************************************************)
(* A caller that walks a table page by page through GET /v3/{resource}     *)
(* (foundry.py bulk_read, _resource_rows) while the client goes on.  A page *)
(* is cut by offset from a list that is built anew for every call, so what *)
(* is inserted before the offset shifts the rest.                          *)
(*                                                                         *)
(* A row is what identifies it; its other columns are the job's or the     *)
(* evidence's of the moment.  The clock behind created_at is assumed not to *)
(* go backwards, so that jobs sort as they were prepared.  The client      *)
(* records no approvals.                                                   *)
(***************************************************************************)
EXTENDS FoundryJobs, Integers

CONSTANTS
    ProjectOrder,  \* the project names in their order
    Limits,        \* limits callers ask for
    MaxLimit       \* the most rows a page may have

ASSUME ProjectOrderAssumption ==
    /\ ProjectOrder \in Seq(Projects)
    /\ \A p \in Projects : \E i \in DOMAIN ProjectOrder : ProjectOrder[i] = p
    /\ \A i, k \in DOMAIN ProjectOrder :
          ProjectOrder[i] = ProjectOrder[k] => i = k
ASSUME LimitsAssumption == Limits \subseteq Int /\ MaxLimit \in Nat \ {0}
ASSUME NoCursorAssumption == None \notin Nat \cup Jobs

VARIABLE
    walk  \* the caller's walk, or None

walkVars == <<vars, walk>>

BULK_RESOURCES ==
    {"projects", "jobs", "attempts", "activity", "artifacts", "approvals",
     "health", "evidence"}

-----------------------------------------------------------------------------
(* _resource_rows *)

(* The rows of a table stand at places, pairs of numbers: the place of a job  *)
(* (or a project, an event) in the order in which the code meets them, and   *)
(* the place of the row among those of the job.                             *)
UpTo(places, p) ==
    {q \in places : q[1] < p[1] \/ (q[1] = p[1] /\ q[2] <= p[2])}
PlaceOf(places, n) == CHOOSE p \in places : Cardinality(UpTo(places, p)) = n
InOrder(rows) ==
    [n \in 1 .. Cardinality(DOMAIN rows) |-> rows[PlaceOf(DOMAIN rows, n)]]

(* The jobs asked for, at the places of the events they were accepted with,  *)
(* their first.                                                             *)
JobPlaces(j) ==
    {n \in DOMAIN events :
        /\ j \in {None, events[n].job_id}
        /\ \A m \in 1 .. n - 1 : events[m].job_id # events[n].job_id}

HasJobs(p) ==
    \E k \in PrepareKeys : prepared[p][k] # None

JobByJob(j, rowsOf) ==
    [p \in UNION {{n} \X DOMAIN rowsOf[events[n].job_id] : n \in JobPlaces(j)} |->
       rowsOf[events[p[1]].job_id][p[2]]]

(* Mutant: the newest artifact of a job comes first. *)
ArtifactRows_NewestFirst(j) ==
    [n \in DOMAIN evidence[j] |->
       <<j, "artifact", evidence[j][Len(evidence[j]) + 1 - n].artifact_digest>>]

(* One row per attached artifact, job by job. *)
ArtifactRows(j) == [n \in DOMAIN evidence[j] |->
                      <<j, "artifact", evidence[j][n].artifact_digest>>]

(* The result of a job, once it has one, comes before its artifacts.         *)
EvidenceRows(j) ==
    [n \in (IF state[j] \in {"succeeded", "failed"} THEN {0} ELSE {})
              \cup DOMAIN attachments[j] |->
       IF n = 0 THEN <<j, "result">> ELSE <<j, "artifact", attachments[j][n]>>]

RowsAt(resource, j) ==
    CASE resource = "projects" ->
           [p \in {n \in DOMAIN ProjectOrder : HasJobs(ProjectOrder[n])} \X {0} |->
              <<ProjectOrder[p[1]]>>]
      [] resource = "jobs" ->
           [p \in JobPlaces(None) \X {0} |-> <<events[p[1]].job_id>>]
      [] resource = "attempts" ->
           [p \in JobPlaces(j) \X {0} |-> <<events[p[1]].job_id>>]
      [] resource = "activity" ->
           [p \in {n \in DOMAIN events : j \in {None, events[n].job_id}} \X {0} |->
              <<events[p[1]].job_id, events[p[1]].seq>>]
      [] resource = "artifacts" -> JobByJob(j, [i \in Jobs |-> ArtifactRows(i)])
      [] resource = "evidence" -> JobByJob(j, [i \in Jobs |-> EvidenceRows(i)])
      [] resource = "health" -> [p \in {<<0, 0>>} |-> <<"foundry">>]
      [] resource = "approvals" -> <<>>

_resource_rows(resource, j) == InOrder(RowsAt(resource, j))

-----------------------------------------------------------------------------
(* bulk_read *)

Least(a, b) == IF a < b THEN a ELSE b
Greatest(a, b) == IF a > b THEN a ELSE b

(* Mutant: the limit has no lower bound but zero. *)
Clamped_ToZero(limit) == Greatest(0, Least(limit, MaxLimit))
Clamped(limit) == Greatest(1, Least(limit, MaxLimit))

(* Mutant: the next cursor counts the rows asked for. *)
NextOffset_AsAsked(offset, page, limit) == offset + Greatest(1, limit)
NextOffset(offset, page, limit) == offset + Len(page)

bulk_read(resource, offset, limit, j) ==
    LET rows == _resource_rows(resource, j)
        page == SubSeq(rows, offset + 1, Least(offset + Clamped(limit), Len(rows)))
        next == NextOffset(offset, page, limit)
    IN  [items |-> page,
         next_cursor |-> IF next < Len(rows) THEN next ELSE None]

-----------------------------------------------------------------------------
(* The caller *)

WalkInit == Init /\ walk = None

(* owed are the rows of the table at the first page. *)
StartWalk(resource, j, limit) ==
    LET answer == bulk_read(resource, 0, limit, j)
    IN  /\ walk = None
        /\ walk' = [resource |-> resource, job_id |-> j, limit |-> limit,
                    pages |-> 1,
                    items |-> answer.items, next |-> answer.next_cursor,
                    owed |-> {RowsAt(resource, j)[p] :
                                p \in DOMAIN RowsAt(resource, j)}]
        /\ UNCHANGED vars

Walking == walk # None /\ walk.next # None

NextPage ==
    /\ Walking
    /\ LET answer == bulk_read(walk.resource, walk.next, walk.limit,
                               walk.job_id)
       IN  walk' = [walk EXCEPT !.pages = @ + 1,
                                !.items = @ \o answer.items,
                                !.next = answer.next_cursor]
    /\ UNCHANGED vars

WalkNext ==
    \/ Next /\ UNCHANGED walk
    \/ \E resource \in BULK_RESOURCES, j \in Jobs \cup {None}, limit \in Limits :
          StartWalk(resource, j, limit)
    \/ NextPage

WalkSpec == WalkInit /\ [][WalkNext]_walkVars

-----------------------------------------------------------------------------
Collected == {walk.items[n] : n \in DOMAIN walk.items}

(* Pages miss nothing: a walk that has come to its end has met every row      *)
(* that was in the table when it began, though rows were inserted in front   *)
(* of those already read.                                                    *)
PagesMissNothing ==
    (walk # None /\ ~Walking) => walk.owed \subseteq Collected

(* Tables whose order is that of their growth. *)
AppendOnly(w) ==
    \/ w.resource \in {"jobs", "attempts", "activity", "health", "approvals"}
    \/ w.resource = "artifacts" /\ w.job_id # None

(* Of a table that only grows at its end, the pages are one reading: what     *)
(* was collected is the beginning of the table, nothing twice, nothing left  *)
(* out, in its order.                                                        *)
GrowingTablesReadOnce ==
    (walk # None /\ AppendOnly(walk)) =>
        walk.items = SubSeq(_resource_rows(walk.resource, walk.job_id), 1,
                            Len(walk.items))

(* Every page but the last one moves on, with any limits, zero and negative  *)
(* ones included: a walk ends once the table has stopped to grow.            *)
PagesMoveOn ==
    [][Walking /\ walk' # walk => Len(walk'.items) > Len(walk.items)]_walkVars
=============================================================================
