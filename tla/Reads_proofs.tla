----------------------------- MODULE Reads_proofs -----------------------------
(***************************************************************************)
(* What those who read the client are told, for every value of the         *)
(* constants.                                                              *)
(*                                                                         *)
(* A caller who follows a job through its status (StatusCursor: HearsTheLog, *)
(* SnapshotsFitTheEvents, ResultIsTheLastWord).  The invariant is about the *)
(* answer under way: what it carries continues what was heard, whatever    *)
(* was recorded since.                                                     *)
(*                                                                         *)
(* A caller who walks a table page by page (BulkPages: PagesMissNothing,    *)
(* GrowingTablesReadOnce, PagesMoveOn).  A row stands at a place that it    *)
(* keeps, and rows that come get places of their own: so a row may move    *)
(* back in the table, and never to the front, where the walk has been.     *)
(***************************************************************************)
EXTENDS StatusCursor, BulkPages, FoundryJobs_log, WellFoundedInduction

-----------------------------------------------------------------------------
(* Following a job *)

(* The caller takes only the client's steps. *)
LEMMA FollowSteps == [FollowNext]_allVars => [Next]_vars
BY DEF FollowNext, Caller, Poll, Receive, Lose, ReadResult, allVars

LEMMA FollowImplementsClient == FollowSpec => Spec
BY FollowSteps, PTL DEF FollowSpec, FollowInit, Spec
-----------------------------------------------------------------------------
(* Windows of the log *)

(* The events of j behind lo, up to hi. *)
Window(j, lo, hi) == {n \in Mine(j) : lo < n /\ n <= hi}

LEMMA LastPlace ==
    ASSUME NEW I \in Places, I # {}
    PROVE  /\ Cardinality(I) \in Nat /\ Cardinality(I) >= 1
           /\ Nth(I, Cardinality(I)) \in I
           /\ \A i \in I : i <= Nth(I, Cardinality(I))
<1>1. Cardinality(I) \in Nat /\ I \subseteq Nat
  BY RankFacts DEF Places
<1>2. Cardinality(I) >= 1
  <2>1. PICK i \in I : TRUE
    OBVIOUS
  <2>2. Rank(I, i) \in 1 .. Cardinality(I)
    BY RankFacts
  <2>. QED
    BY <1>1, <2>2
<1>3. Cardinality(I) \in 1 .. Cardinality(I)
  BY <1>1, <1>2
<1>4. Nth(I, Cardinality(I)) \in I /\ Rank(I, Nth(I, Cardinality(I))) = Cardinality(I)
  BY <1>3, NthRank
<1>5. ASSUME NEW i \in I
      PROVE  i <= Nth(I, Cardinality(I))
  <2>1. PICK k \in I : k = Nth(I, Cardinality(I)) /\ Rank(I, k) = Cardinality(I)
    BY <1>4
  <2>2. k < i => Rank(I, k) < Rank(I, i)
    BY RankFacts
  <2>3. Rank(I, i) \in 1 .. Cardinality(I)
    BY RankFacts
  <2>4. i \in Nat /\ k \in Nat
    BY <1>1
  <2>5. ~(k < i)
    BY <1>1, <2>1, <2>2, <2>3
  <2>. QED
    BY <2>1, <2>4, <2>5
<1>. QED
  BY <1>1, <1>2, <1>4, <1>5

(* What is kept of the log ends with the last place kept. *)
LEMMA KeptLast ==
    ASSUME TypeOK, NEW I \in SUBSET (DOMAIN events)
    PROVE  /\ I \in Places /\ Keep(events, I) \in Seq(EventType)
           /\ I = {} <=> Keep(events, I) = <<>>
           /\ I # {} => \E i \in I : /\ Last(Keep(events, I)) = events[i]
                                     /\ \A k \in I : k <= i
<1>1. events \in Seq(EventType) /\ I \in Places
  BY MineFacts, ListPlaces
<1>2. /\ Keep(events, I) \in Seq(EventType)
      /\ Len(Keep(events, I)) = Cardinality(I)
      /\ \A n \in 1 .. Cardinality(I) : Keep(events, I)[n] = events[Nth(I, n)]
  BY <1>1, KeepFacts
<1>3. CASE I = {}
  BY <1>1, <1>2, <1>3, KeepNothing
<1>4. CASE I # {}
  <2>1. /\ Cardinality(I) \in Nat /\ Cardinality(I) >= 1
        /\ Nth(I, Cardinality(I)) \in I
        /\ \A i \in I : i <= Nth(I, Cardinality(I))
    BY <1>1, <1>4, LastPlace
  <2>2. Cardinality(I) \in 1 .. Cardinality(I)
    BY <2>1
  <2>3. Last(Keep(events, I)) = events[Nth(I, Cardinality(I))]
    BY <1>2, <2>2 DEF Last
  <2>4. Keep(events, I) # <<>>
    <3>1. Len(Keep(events, I)) # 0
      BY <1>2, <2>1
    <3>. QED
      BY <3>1, EmptySeq
  <2>. QED
    BY <1>1, <1>2, <1>4, <2>1, <2>3, <2>4
<1>. QED
  BY <1>3, <1>4

(* Parts of the log, one behind the other, make one. *)
LEMMA PartsJoin ==
    ASSUME TypeOK, NEW I \in SUBSET (DOMAIN events),
           NEW K \in SUBSET (DOMAIN events), \A i \in I, k \in K : i < k
    PROVE  Keep(events, I \cup K) = Keep(events, I) \o Keep(events, K)
<1>1. events \in Seq(EventType)
  BY DEF TypeOK
<1>2. I \in Places /\ K \in Places
  BY <1>1, ListPlaces
<1>. QED
  BY <1>1, <1>2, KeepConcat

(* What is recorded comes behind every window there was. *)
LEMMA WindowStays ==
    ASSUME TypeOK, [Next]_vars, NEW j \in Jobs, NEW lo, NEW hi \in Nat,
           hi <= Len(events)
    PROVE  /\ Mine(j) \subseteq Mine(j)' /\ Len(events) <= Len(events')
           /\ Window(j, lo, hi)' = Window(j, lo, hi)
           /\ Keep(events', {n \in Mine(j)' : lo < n /\ n <= hi})
                = Keep(events, Window(j, lo, hi))
<1>0. SUFFICES /\ Mine(j) \subseteq Mine(j)' /\ Len(events) <= Len(events')
               /\ Window(j, lo, hi)' = Window(j, lo, hi)
               /\ Keep(events, Window(j, lo, hi))' = Keep(events, Window(j, lo, hi))
  BY DEF Window
<1>1. /\ Len(events) \in Nat /\ DOMAIN events = 1 .. Len(events)
      /\ Window(j, lo, hi) \in Places /\ Window(j, lo, hi) \subseteq DOMAIN events
  <2>1. /\ events \in Seq(EventType) /\ Mine(j) \subseteq DOMAIN events
        /\ Len(events) \in Nat /\ DOMAIN events = 1 .. Len(events)
    BY MineFacts
  <2>2. Window(j, lo, hi) \in SUBSET (DOMAIN events)
    BY <2>1 DEF Window
  <2>. QED
    BY <2>1, <2>2, ListPlaces
<1>2. CASE UNCHANGED events
  BY <1>1, <1>2 DEF Mine, Window
<1>3. ASSUME NEW i \in Jobs, NEW added, Tells(i, added)
      PROVE  /\ Mine(j) \subseteq Mine(j)' /\ Len(events) <= Len(events')
             /\ Window(j, lo, hi)' = Window(j, lo, hi)
             /\ Keep(events, Window(j, lo, hi))' = Keep(events, Window(j, lo, hi))
  <2>1. /\ added \in Seq(EventType) /\ events' = events \o added
        /\ events \in Seq(EventType) /\ Len(added) \in Nat
    BY <1>3 DEF Tells, TypeOK
  <2>2. \A n \in DOMAIN events : n \in DOMAIN events' /\ events'[n] = events[n]
    BY <2>1, EventsAdded
  <2>3. Mine(j)' = Mine(j)
          \/ Mine(j)' = Mine(j) \cup (Len(events) + 1 .. Len(events) + Len(added))
    BY <1>3, EventsOfStep
  <2>4. Window(j, lo, hi)' = Window(j, lo, hi)
    <3>1. \A n \in Len(events) + 1 .. Len(events) + Len(added) : ~(n <= hi)
      BY <1>1, <2>1
    <3>. QED
      BY <2>3, <3>1 DEF Window
  <2>5. Len(events) <= Len(events')
    <3>1. Len(events') = Len(events) + Len(added)
      BY <2>1, ConcatProperties
    <3>. QED
      BY <1>1, <2>1, <3>1
  <2>6. Keep(events', Window(j, lo, hi)) = Keep(events, Window(j, lo, hi))
    BY <1>1, <2>2, KeepSame
  <2>. QED
    BY <2>3, <2>4, <2>5, <2>6
<1>. QED
  BY <1>2, <1>3, StepShape DEF JobStep
-----------------------------------------------------------------------------
(* The cursor *)

(* What was heard of j are its events up to the cursor; the answer under way *)
(* carries the next ones, up to its own cursor.                             *)
FollowsLog(j) ==
    /\ cursor[j] = 0 \/ cursor[j] \in Mine(j)
    /\ heard[j] = Keep(events, Window(j, 0, cursor[j]))
    /\ reply[j] # None =>
          /\ reply[j].cursor = cursor[j] \/ reply[j].cursor \in Mine(j)
          /\ cursor[j] <= reply[j].cursor
          /\ reply[j].events
               = Keep(events, Window(j, cursor[j], reply[j].cursor))

CallerOfFollowed ==
    /\ DOMAIN cursor = Followed /\ DOMAIN heard = Followed
    /\ DOMAIN reply = Followed /\ DOMAIN snapshot = Followed
    /\ DOMAIN result = Followed

CursorInv == CallerOfFollowed /\ \A j \in Followed : FollowsLog(j)

LEMMA InitCursor == FollowInit => CursorInv
<1>1. ASSUME FollowInit, NEW j \in Followed
      PROVE  FollowsLog(j)
  <2>1. events = <<>> /\ cursor[j] = 0 /\ heard[j] = <<>> /\ reply[j] = None
    BY <1>1 DEF FollowInit, Init
  <2>2. Window(j, 0, cursor[j]) = {}
    BY <2>1 DEF Window, Mine
  <2>. QED
    BY <2>1, <2>2, KeepNothing DEF FollowsLog
<1>2. FollowInit => CallerOfFollowed
  BY DEF FollowInit, CallerOfFollowed
<1>. QED
  BY <1>1, <1>2 DEF CursorInv

(* A window, and the one behind it. *)
LEMMA WindowsMeet ==
    ASSUME TypeOK, NEW j, NEW lo \in Nat, NEW hi \in Nat, lo <= hi
    PROVE  Keep(events, Window(j, 0, hi))
             = Keep(events, Window(j, 0, lo)) \o Keep(events, Window(j, lo, hi))
<1>1. Mine(j) \subseteq 1 .. Len(events) /\ Len(events) \in Nat
  BY MineFacts
<1>2. Mine(j) \subseteq DOMAIN events
  BY MineFacts
<1>3. /\ Window(j, 0, lo) \in SUBSET (DOMAIN events)
      /\ Window(j, lo, hi) \in SUBSET (DOMAIN events)
      /\ \A i \in Window(j, 0, lo), k \in Window(j, lo, hi) : i < k
  BY <1>1, <1>2 DEF Window
<1>4. Window(j, 0, hi) = Window(j, 0, lo) \cup Window(j, lo, hi)
  BY <1>1 DEF Window
<1>. QED
  BY <1>3, <1>4, PartsJoin

(* What a status answer carries: what happened behind the cursor it was      *)
(* asked with, to the end of the log.                                       *)
LEMMA StatusAnswer ==
    ASSUME TypeOK, LogInv, NEW j, NEW c, c = 0 \/ c \in Mine(j),
           NEW s, s = job_status(j, c)
    PROVE  /\ s.job = _job_dict(j)
           /\ s.cursor = c \/ s.cursor \in Mine(j)
           /\ c <= s.cursor
           /\ s.events = Keep(events, Window(j, c, s.cursor))
           /\ Keep(events, Window(j, 0, c)) \o s.events = EventsOf(j)
<1>1. /\ Mine(j) \subseteq 1 .. Len(events) /\ DOMAIN events = 1 .. Len(events)
      /\ Len(events) \in Nat
  BY MineFacts
<1>2. c \in Nat
  BY <1>1
<1>. DEFINE W == {n \in Mine(j) : c < n}
<1>3. {n \in DOMAIN events : /\ events[n].job_id = j
                             /\ After(events[n], c)} = W
  <2>1. \A n \in DOMAIN events : After(events[n], c) <=> c < n
    BY <1>1, <1>2 DEF LogInv, After
  <2>. QED
    BY <2>1 DEF Mine
<1>4. /\ s.job = _job_dict(j) /\ s.events = Keep(events, W)
      /\ s.cursor = IF Keep(events, W) = <<>> THEN c
                    ELSE Keep(events, W)[Len(Keep(events, W))].seq
  BY <1>3 DEF job_status
<1>5. W \in SUBSET (DOMAIN events)
  BY <1>1
<1>6. /\ W = {} <=> Keep(events, W) = <<>>
      /\ W # {} => \E i \in W : /\ Last(Keep(events, W)) = events[i]
                                /\ \A k \in W : k <= i
  BY <1>5, KeptLast
<1>7. /\ s.cursor = c \/ s.cursor \in Mine(j)
      /\ c <= s.cursor
      /\ W = Window(j, c, s.cursor)
  <2>1. CASE W = {}
    <3>1. s.cursor = c
      BY <1>4, <1>6, <2>1
    <3>2. Window(j, c, c) = {}
      BY <2>1 DEF Window
    <3>. QED
      BY <1>2, <2>1, <3>1, <3>2
  <2>2. CASE W # {}
    <3>1. PICK i \in W : /\ Last(Keep(events, W)) = events[i]
                         /\ \A k \in W : k <= i
      BY <1>6, <2>2
    <3>2. s.cursor = i
      <4>1. s.cursor = events[i].seq
        BY <1>4, <1>6, <2>2, <3>1 DEF Last
      <4>. QED
        BY <1>1, <4>1 DEF LogInv
    <3>3. i \in Mine(j) /\ c < i /\ i \in Nat
      BY <1>1
    <3>4. W = Window(j, c, i)
      BY <3>1 DEF Window
    <3>5. c <= i
      BY <1>2, <3>3
    <3>. QED
      BY <3>2, <3>3, <3>4, <3>5
  <2>. QED
    BY <2>1, <2>2
<1>8. Keep(events, Window(j, 0, c)) \o Keep(events, W) = EventsOf(j)
  <2>1. /\ Window(j, 0, c) \in SUBSET (DOMAIN events)
        /\ \A i \in Window(j, 0, c), k \in W : i < k
    BY <1>1, <1>2 DEF Window
  <2>2. Window(j, 0, c) \cup W = Mine(j)
    BY <1>1, <1>2 DEF Window
  <2>. HIDE DEF W
  <2>3. Keep(events, Window(j, 0, c) \cup W)
          = Keep(events, Window(j, 0, c)) \o Keep(events, W)
    BY <1>5, <2>1, PartsJoin
  <2>. QED
    BY <2>2, <2>3, MineFacts
<1>. QED
  BY <1>4, <1>7, <1>8
(* A cursor is no number behind the log. *)
LEMMA CursorInLog ==
    ASSUME TypeOK, NEW j, NEW c, c = 0 \/ c \in Mine(j)
    PROVE  c \in Nat /\ c <= Len(events)
<1>1. Mine(j) \subseteq 1 .. Len(events) /\ Len(events) \in Nat
  BY MineFacts
<1>. QED
  BY <1>1

(* Nothing the client does disturbs a caller. *)
LEMMA ClientKeepsCursor ==
    ASSUME TypeOK, [Next]_vars, NEW j \in Jobs, FollowsLog(j),
           cursor'[j] = cursor[j], heard'[j] = heard[j], reply'[j] = reply[j]
    PROVE  FollowsLog(j)'
<1>1. cursor[j] \in Nat /\ cursor[j] <= Len(events)
  BY CursorInLog DEF FollowsLog
<1>2. ASSUME NEW lo, NEW hi \in Nat, hi <= Len(events)
      PROVE  /\ Mine(j) \subseteq Mine(j)'
             /\ Keep(events', {n \in Mine(j)' : lo < n /\ n <= hi})
                  = Keep(events, {n \in Mine(j) : lo < n /\ n <= hi})
  BY <1>2, WindowStays DEF Window
<1>3. heard'[j] = Keep(events, Window(j, 0, cursor[j]))'
  BY <1>1, <1>2 DEF FollowsLog, Window
<1>4. ASSUME reply[j] # None
      PROVE  reply'[j].events = Keep(events, Window(j, cursor[j], reply[j].cursor))'
  <2>1. reply[j].cursor \in Nat /\ reply[j].cursor <= Len(events)
    BY <1>4, CursorInLog DEF FollowsLog
  <2>. QED
    BY <1>2, <1>4, <2>1 DEF FollowsLog, Window
<1>5. Mine(j) \subseteq Mine(j)'
  BY <1>1, <1>2
<1>. QED
  BY <1>3, <1>4, <1>5 DEF FollowsLog

(* Neither does what the caller does about other jobs. *)
LEMMA OthersKept ==
    ASSUME CallerOfFollowed, NEW i \in Followed, Caller(i), NEW j \in Followed, i # j
    PROVE  /\ UNCHANGED vars
           /\ UNCHANGED <<cursor[j], heard[j], reply[j], snapshot[j], result[j]>>
BY DEF CallerOfFollowed, Caller, Poll, Receive, Lose, ReadResult

LEMMA PollKeepsCursor ==
    ASSUME TypeOK, LogInv, CallerOfFollowed, NEW j \in Followed, FollowsLog(j), Poll(j)
    PROVE  FollowsLog(j)'
<1>1. UNCHANGED vars /\ cursor' = cursor /\ heard' = heard
  BY DEF Poll
<1>2. reply'[j] = job_status(j, cursor[j])
  BY DEF Poll, CallerOfFollowed
<1>3. PICK c : c = cursor[j] /\ (c = 0 \/ c \in Mine(j))
  BY DEF FollowsLog
<1>4. PICK s : s = job_status(j, c) /\ s = reply'[j]
  BY <1>2, <1>3
<1>5. /\ s.cursor = c \/ s.cursor \in Mine(j)
      /\ c <= s.cursor
      /\ s.events = Keep(events, Window(j, c, s.cursor))
  BY <1>3, <1>4, StatusAnswer
<1>6. Mine(j)' = Mine(j) /\ events' = events
  BY <1>1 DEF vars, Mine
<1>. QED
  BY <1>1, <1>3, <1>4, <1>5, <1>6 DEF FollowsLog, Window

LEMMA ReceiveKeepsCursor ==
    ASSUME TypeOK, CallerOfFollowed, NEW j \in Followed, FollowsLog(j), Receive(j)
    PROVE  FollowsLog(j)'
<1>1. UNCHANGED vars /\ reply[j] # None
  BY DEF Receive
<1>2. /\ cursor'[j] = reply[j].cursor /\ reply'[j] = None
      /\ heard'[j] = heard[j] \o reply[j].events
  BY DEF Receive, CallerOfFollowed
<1>3. PICK lo : lo = cursor[j] /\ (lo = 0 \/ lo \in Mine(j))
  BY DEF FollowsLog
<1>4. PICK hi : /\ hi = reply[j].cursor /\ lo <= hi
                /\ (hi = 0 \/ hi \in Mine(j))
                /\ reply[j].events = Keep(events, Window(j, lo, hi))
                /\ heard[j] = Keep(events, Window(j, 0, lo))
  BY <1>1, <1>3 DEF FollowsLog
<1>5. lo \in Nat /\ hi \in Nat
  BY <1>3, <1>4, CursorInLog
<1>6. heard'[j] = Keep(events, Window(j, 0, hi))
  BY <1>2, <1>4, <1>5, WindowsMeet
<1>7. Mine(j)' = Mine(j) /\ events' = events
  BY <1>1 DEF vars, Mine
<1>. QED
  BY <1>2, <1>4, <1>6, <1>7 DEF FollowsLog, Window

LEMMA NextKeepsCursor ==
    TypeOK /\ LogInv /\ CursorInv /\ [FollowNext]_allVars => CursorInv'
<1>. SUFFICES ASSUME TypeOK, LogInv, CursorInv, [FollowNext]_allVars
              PROVE  CursorInv'
  OBVIOUS
<1>1. CallerOfFollowed /\ [Next]_vars /\ \A j \in Followed : j \in Jobs /\ FollowsLog(j)
  BY FollowSteps, FollowedAssumption DEF CursorInv
<1>2. CallerOfFollowed'
  BY <1>1 DEF CallerOfFollowed, FollowNext, Caller, Poll, Receive, Lose, ReadResult,
              caller, allVars
<1>3. ASSUME NEW j \in Followed
      PROVE  FollowsLog(j)'
  <2>1. CASE Poll(j)
    BY <1>1, <2>1, PollKeepsCursor
  <2>2. CASE Receive(j)
    BY <1>1, <2>2, ReceiveKeepsCursor
  <2>3. CASE Lose(j) \/ ReadResult(j)
    <3>1. /\ UNCHANGED <<vars, cursor, heard>>
          /\ reply'[j] # None => reply'[j] = reply[j]
      BY <1>1, <2>3 DEF Lose, ReadResult, CallerOfFollowed
    <3>2. Mine(j)' = Mine(j) /\ events' = events
      BY <3>1 DEF vars, Mine
    <3>. QED
      BY <1>1, <3>1, <3>2 DEF FollowsLog, Window
  <2>4. CASE UNCHANGED <<cursor[j], heard[j], reply[j]>>
    BY <1>1, <2>4, ClientKeepsCursor
  <2>. QED
    BY <1>1, <2>1, <2>2, <2>3, <2>4, OthersKept
    DEF FollowNext, Caller, caller, allVars
<1>. QED
  BY <1>2, <1>3 DEF CursorInv

(* What the caller heard and what is under way to it are consecutive windows *)
(* of the log, whatever was recorded since the answer was read.             *)
THEOREM CursorInvariant == FollowSpec => []CursorInv
<1>1. FollowSpec => [](TypeOK /\ LogInv)
  BY FollowImplementsClient, TypeCorrect, LogInvariant, PTL
<1>. QED
  BY <1>1, InitCursor, NextKeepsCursor, PTL DEF FollowSpec

(* A caller that polls with the cursor it was given hears the whole log of  *)
(* a job up to it, each event once and in order, whichever answers are lost *)
(* and whatever is recorded meanwhile.                                      *)
THEOREM PollingHearsTheLog == FollowSpec => []HearsTheLog
<1>1. TypeOK /\ LogInv /\ CursorInv => HearsTheLog
  <2>. SUFFICES ASSUME TypeOK, LogInv, CursorInv, NEW j \in Followed
                PROVE  {n \in DOMAIN events : /\ events[n].job_id = j
                                             /\ events[n].seq <= cursor[j]}
                         = Window(j, 0, cursor[j])
    BY DEF HearsTheLog, CursorInv, FollowsLog
  <2>1. \A n \in DOMAIN events : n \in Nat /\ 0 < n /\ events[n].seq = n
    <3>1. DOMAIN events = 1 .. Len(events) /\ Len(events) \in Nat
      BY MineFacts
    <3>. QED
      BY <3>1 DEF LogInv
  <2>. QED
    BY <2>1 DEF Window, Mine
<1>2. FollowSpec => [](TypeOK /\ LogInv)
  BY FollowImplementsClient, TypeCorrect, LogInvariant, PTL
<1>. QED
  BY <1>1, <1>2, CursorInvariant, PTL
-----------------------------------------------------------------------------
(* The snapshots *)

(* job is the job es tell. *)
Shows(job, es) ==
    LET launches == {n \in DOMAIN es : es[n].to_state = "running"}
    IN  /\ es # <<>>
        /\ job.state = Last(es).to_state
        /\ IF launches = {}
             THEN /\ job.frozen_artifact_digests = <<>>
                  /\ job.native_identity = None
             ELSE /\ \A n \in launches :
                       job.frozen_artifact_digests = es[n].artifact_digests
                  /\ job.native_identity # None
        /\ (job.state = "quarantined") = (job.quarantine_reason # None)

(* The answer under way fits once it is received. *)
ShownInv ==
    \A j \in Followed :
        /\ snapshot[j] # None => Shows(snapshot[j], heard[j])
        /\ reply[j] # None => Shows(reply[j].job, heard[j] \o reply[j].events)

(* A job as it is is the one its events tell. *)
LEMMA JobFitsItsEvents ==
    ASSUME TypeOK, LogInv, LaunchInv, ReasonInv, NEW j \in Jobs,
           state[j] # "absent"
    PROVE  Shows(_job_dict(j), EventsOf(j))
<1>. DEFINE es == EventsOf(j)
            job == _job_dict(j)
            launches == {n \in DOMAIN es : es[n].to_state = "running"}
<1>1. /\ job.state = state[j] /\ job.frozen_artifact_digests = frozen[j]
      /\ job.native_identity = identity[j]
      /\ job.quarantine_reason = quarantine_reason[j]
  BY DEF _job_dict
<1>2. es # <<>> /\ Last(es).to_state = state[j]
  BY DEF LogInv, EventsTellTheJob, LeadTo, Last
<1>3. ASSUME NEW n \in launches
      PROVE  frozen[j] = es[n].artifact_digests /\ identity[j] # None
  <2>1. PICK i \in Mine(j) : es[n] = events[i]
    BY EventPlaces
  <2>2. i \in DOMAIN events /\ events[i].job_id = j /\ events[i].to_state = "running"
    BY <2>1 DEF Mine
  <2>. QED
    BY <2>1, <2>2 DEF LaunchInv, FrozenAtLaunch
<1>4. ASSUME launches = {}
      PROVE  frozen[j] = <<>> /\ identity[j] = None
  <2>1. ASSUME NEW i \in DOMAIN events, events[i].job_id = j
        PROVE  events[i].to_state # "running"
    <3>1. i \in Mine(j)
      BY <2>1 DEF Mine
    <3>2. PICK n \in DOMAIN es : es[n] = events[i]
      BY <3>1, EventPlaces
    <3>. QED
      BY <1>4, <3>2
  <2>. QED
    BY <2>1 DEF LaunchInv, FrozenAtLaunch
<1>5. (state[j] = "quarantined") = (quarantine_reason[j] # None)
  BY DEF ReasonInv
<1>6. IF launches = {}
        THEN frozen[j] = <<>> /\ identity[j] = None
        ELSE /\ \A n \in launches : frozen[j] = es[n].artifact_digests
             /\ identity[j] # None
  BY <1>3, <1>4
<1>. QED
  BY <1>1, <1>2, <1>5, <1>6 DEF Shows

LEMMA NextKeepsShown ==
    /\ TypeOK /\ LogInv /\ LaunchInv /\ ReasonInv /\ CursorInv
    /\ ShownInv /\ [FollowNext]_allVars
    => ShownInv'
<1>. SUFFICES ASSUME TypeOK, LogInv, LaunchInv, ReasonInv, CursorInv, ShownInv,
                     [FollowNext]_allVars, NEW j \in Followed
              PROVE  /\ snapshot'[j] # None => Shows(snapshot'[j], heard'[j])
                     /\ reply'[j] # None =>
                          Shows(reply'[j].job, heard'[j] \o reply'[j].events)
  BY DEF ShownInv, Shows, Last
<1>1. /\ CallerOfFollowed /\ j \in Jobs /\ FollowsLog(j)
      /\ snapshot[j] # None => Shows(snapshot[j], heard[j])
      /\ reply[j] # None => Shows(reply[j].job, heard[j] \o reply[j].events)
  BY FollowedAssumption DEF CursorInv, ShownInv
<1>2. CASE Poll(j)
  <2>1. /\ reply'[j] = job_status(j, cursor[j]) /\ state[j] # "absent"
        /\ UNCHANGED <<heard, snapshot>>
    BY <1>1, <1>2 DEF Poll, CallerOfFollowed
  <2>2. PICK c : /\ c = cursor[j] /\ (c = 0 \/ c \in Mine(j))
                 /\ heard[j] = Keep(events, Window(j, 0, c))
    BY <1>1 DEF FollowsLog
  <2>3. PICK s : s = job_status(j, c) /\ s = reply'[j]
    BY <2>1, <2>2
  <2>4. /\ s.job = _job_dict(j)
        /\ Keep(events, Window(j, 0, c)) \o s.events = EventsOf(j)
    <3>1. c = 0 \/ c \in Mine(j)
      BY <2>2
    <3>2. s = job_status(j, c)
      BY <2>3
    <3>. QED
      BY <3>1, <3>2, StatusAnswer
  <2>5. Shows(_job_dict(j), EventsOf(j))
    BY <1>1, <2>1, JobFitsItsEvents
  <2>. QED
    BY <1>1, <2>1, <2>2, <2>3, <2>4, <2>5
<1>3. CASE Receive(j)
  <2>1. /\ snapshot'[j] = reply[j].job /\ reply[j] # None /\ reply'[j] = None
        /\ heard'[j] = heard[j] \o reply[j].events
    BY <1>1, <1>3 DEF Receive, CallerOfFollowed
  <2>. QED
    BY <1>1, <2>1
<1>4. CASE Lose(j) \/ ReadResult(j)
  <2>1. /\ UNCHANGED <<heard, snapshot>>
        /\ reply'[j] # None => reply'[j] = reply[j]
    BY <1>1, <1>4 DEF Lose, ReadResult, CallerOfFollowed
  <2>. QED
    BY <1>1, <2>1
<1>5. CASE UNCHANGED <<heard[j], reply[j], snapshot[j]>>
  BY <1>1, <1>5
<1>. QED
  BY <1>1, <1>2, <1>3, <1>4, <1>5, OthersKept
  DEF FollowNext, Caller, caller, allVars

(* Whatever status answer reached the caller last, the job in it is the one  *)
(* the events it was given tell, however many answers were lost before.     *)
THEOREM SnapshotsFit == FollowSpec => []SnapshotsFitTheEvents
<1>1. FollowSpec => [](TypeOK /\ LogInv /\ LaunchInv /\ ReasonInv)
  BY FollowImplementsClient, TypeCorrect, LogInvariant, LaunchInvariant,
     ReasonInvariant, PTL
<1>2. FollowInit => ShownInv
  BY DEF FollowInit, ShownInv
<1>3. ShownInv => SnapshotsFitTheEvents
  BY DEF ShownInv, Shows, SnapshotsFitTheEvents
<1>. QED
  BY <1>1, <1>2, <1>3, NextKeepsShown, CursorInvariant, PTL DEF FollowSpec
-----------------------------------------------------------------------------
(* The result *)

ResultInv ==
    \A j \in Followed : result[j] # None =>
        state[j] \in TERMINAL_STATES /\ result[j] = read_result(j)

LEMMA NextKeepsResult ==
    TypeOK /\ CallerOfFollowed /\ ResultInv /\ [FollowNext]_allVars => ResultInv'
<1>. SUFFICES ASSUME TypeOK, CallerOfFollowed, ResultInv, [FollowNext]_allVars,
                     NEW j \in Followed, result'[j] # None
              PROVE  state'[j] \in TERMINAL_STATES /\ result'[j] = read_result(j)'
  BY DEF ResultInv
<1>1. j \in Jobs /\ [Next]_vars
  BY FollowSteps, FollowedAssumption
<1>2. CASE ReadResult(j)
  <2>1. /\ state[j] \in TERMINAL_STATES /\ result'[j] = read_result(j)
        /\ UNCHANGED vars
    BY <1>2 DEF ReadResult, CallerOfFollowed
  <2>2. state'[j] = state[j] /\ read_result(j)' = read_result(j)
    BY <1>1, <2>1, ResultStays
  <2>. QED
    BY <2>1, <2>2
<1>3. CASE result'[j] = result[j]
  <2>1. state[j] \in TERMINAL_STATES /\ result[j] = read_result(j)
    BY <1>3 DEF ResultInv
  <2>2. state'[j] = state[j] /\ read_result(j)' = read_result(j)
    BY <1>1, <2>1, ResultStays
  <2>. QED
    BY <1>3, <2>1, <2>2
<1>. QED
  BY <1>2, <1>3, OthersKept
  DEF FollowNext, Caller, Poll, Receive, Lose, caller, allVars

(* The last event of a job is the one at the last of its places. *)
LEMMA LastOfMine ==
    ASSUME TypeOK, NEW j, EventsOf(j) # <<>>
    PROVE  \E i \in Mine(j) : /\ Last(EventsOf(j)) = events[i]
                              /\ \A k \in Mine(j) : k <= i
<1>1. Mine(j) \in SUBSET (DOMAIN events) /\ EventsOf(j) = Keep(events, Mine(j))
  BY MineFacts
<1>. QED
  BY <1>1, KeptLast

(* A terminal state is left by no event: one that leads there is the last. *)
LEMMA TerminalIsLast ==
    ASSUME TypeOK, LogInv, NEW j \in Jobs, state[j] # "absent",
           NEW i \in Mine(j), events[i].to_state \in TERMINAL_STATES,
           NEW k \in Mine(j)
    PROVE  k <= i
<1>. DEFINE es == EventsOf(j)
<1>1. PICK n \in 1 .. Len(es) : i = Nth(Mine(j), n) /\ es[n] = events[i]
  BY EventPlaces
<1>2. PICK m \in 1 .. Len(es) : k = Nth(Mine(j), m)
  BY EventPlaces
<1>3. Len(es) \in Nat /\ Len(es) = Cardinality(Mine(j))
  BY EventPlaces
<1>4. n = Len(es)
  <2>1. SUFFICES ASSUME n \in 1 .. Len(es) - 1
                 PROVE  FALSE
    <3>. HIDE DEF es
    <3>. QED
      BY <1>3, <2>1
  <2>2. es[n + 1].from_state = es[n].to_state
    BY <2>1 DEF LogInv, EventsTellTheJob, LeadTo, Follows
  <2>3. n + 1 \in 1 .. Len(es)
    BY <1>3, <2>1
  <2>4. PICK l \in Mine(j) : es[n + 1] = events[l]
    BY <2>3, EventPlaces
  <2>5. es[n + 1].from_state \notin TERMINAL_STATES
    BY <2>4, MineFacts DEF LogInv
  <2>. QED
    BY <1>1, <2>2, <2>5
<1>5. m < n => Nth(Mine(j), m) < Nth(Mine(j), n)
  BY <1>3, MineFacts, NthRank
<1>6. i \in Nat /\ k \in Nat
  <2>1. Mine(j) \subseteq 1 .. Len(events)
    BY MineFacts
  <2>. QED
    BY <2>1
<1>7. m < n \/ m = n
  <2>. HIDE DEF es
  <2>. QED
    BY <1>3, <1>4
<1>. QED
  BY <1>1, <1>2, <1>5, <1>6, <1>7

LEMMA LastWord ==
    ASSUME TypeOK, LogInv, LaunchInv, CursorInv, ResultInv, NEW j \in Followed,
           result[j] # None
    PROVE  LET last == Last(EventsOf(j))
           IN  /\ result[j].cursor = last.seq
               /\ result[j].state = last.to_state
               /\ result[j].frozen_artifact_digests = last.artifact_digests
               /\ cursor[j] <= result[j].cursor
               /\ heard[j] # <<>> =>
                    (cursor[j] = result[j].cursor
                       <=> Last(heard[j]).to_state \in TERMINAL_STATES)
<1>. DEFINE es == EventsOf(j)
<1>1. /\ j \in Jobs /\ FollowsLog(j)
      /\ state[j] \in TERMINAL_STATES /\ state[j] # "absent"
      /\ result[j] = read_result(j)
  BY FollowedAssumption DEF CursorInv, ResultInv, TERMINAL_STATES
<1>2. /\ es # <<>> /\ Last(es).to_state = state[j]
      /\ Last(es).artifact_digests = attachments[j]
  BY <1>1 DEF LogInv, EventsTellTheJob, LeadTo, Last
<1>3. /\ result[j].cursor = Last(es).seq
      /\ result[j].state = Last(es).to_state
      /\ result[j].frozen_artifact_digests = Last(es).artifact_digests
  <2>1. /\ result[j].cursor = Last(es).seq /\ result[j].state = state[j]
        /\ result[j].frozen_artifact_digests = FrozenOrAttached(j)
    BY <1>1 DEF read_result, Last
  <2>. QED
    BY <1>1, <1>2, <2>1, FrozenAreAttached
<1>4. PICK x \in Mine(j) : Last(es) = events[x] /\ \A k \in Mine(j) : k <= x
  BY <1>2, LastOfMine
<1>5. /\ Mine(j) \subseteq 1 .. Len(events) /\ Len(events) \in Nat
      /\ DOMAIN events = 1 .. Len(events) /\ Mine(j) \subseteq DOMAIN events
  BY MineFacts
<1>6. result[j].cursor = x
  BY <1>3, <1>4, <1>5 DEF LogInv
<1>7. PICK c \in Nat : c = cursor[j] /\ (c = 0 \/ c \in Mine(j))
  BY <1>1, CursorInLog DEF FollowsLog
<1>8. c <= x
  BY <1>4, <1>5, <1>7
<1>9. ASSUME heard[j] # <<>>
      PROVE  c = x <=> Last(heard[j]).to_state \in TERMINAL_STATES
  <2>1. heard[j] = Keep(events, Window(j, 0, c))
    BY <1>1, <1>7 DEF FollowsLog
  <2>2. Window(j, 0, c) \in SUBSET (DOMAIN events)
    BY <1>5 DEF Window
  <2>3. PICK i \in Window(j, 0, c) : /\ Last(heard[j]) = events[i]
                                     /\ \A k \in Window(j, 0, c) : k <= i
    BY <1>9, <2>1, <2>2, KeptLast
  <2>4. i \in Mine(j) /\ i \in Nat /\ 0 < i /\ i <= c
    BY <1>5, <2>3 DEF Window
  <2>5. i = c
    <3>1. c \in Window(j, 0, c)
      BY <1>7, <2>4 DEF Window
    <3>. QED
      BY <2>3, <2>4, <3>1
  <2>6. ASSUME c = x
        PROVE  Last(heard[j]).to_state \in TERMINAL_STATES
    BY <1>1, <1>2, <1>4, <2>3, <2>5, <2>6
  <2>7. ASSUME Last(heard[j]).to_state \in TERMINAL_STATES
        PROVE  c = x
    <3>1. x <= i
      BY <1>1, <2>3, <2>4, <2>7, TerminalIsLast
    <3>. QED
      BY <1>5, <1>8, <2>4, <2>5, <3>1
  <2>. QED
    BY <2>6, <2>7
<1>. QED
  BY <1>3, <1>6, <1>7, <1>8, <1>9

(* A result read once is what the end of the log says, and polling reaches  *)
(* a terminal event exactly when it reaches the result's cursor.            *)
THEOREM ResultsAreTheLastWord == FollowSpec => []ResultIsTheLastWord
<1>1. FollowSpec => [](TypeOK /\ LogInv /\ LaunchInv)
  BY FollowImplementsClient, TypeCorrect, LogInvariant, LaunchInvariant, PTL
<1>2. FollowInit => ResultInv
  BY DEF FollowInit, ResultInv
<1>3. CursorInv => CallerOfFollowed
  BY DEF CursorInv
<1>4. TypeOK /\ LogInv /\ LaunchInv /\ CursorInv /\ ResultInv
        => ResultIsTheLastWord
  BY LastWord DEF ResultIsTheLastWord
<1>. QED
  BY <1>1, <1>2, <1>3, <1>4, NextKeepsResult, CursorInvariant, PTL
  DEF FollowSpec
-----------------------------------------------------------------------------
(* Places in a table *)

PairPlaces == {I \in SUBSET (Nat \X Nat) : IsFiniteSet(I)}

Before(p, q) == p[1] < q[1] \/ (p[1] = q[1] /\ p[2] < q[2])

Position(I, p) == Cardinality(UpTo(I, p))

LEMMA BeforeOrders ==
    /\ \A p, q \in Nat \X Nat : Before(p, q) \/ Before(q, p) \/ p = q
    /\ \A p \in Nat \X Nat : ~Before(p, p)
    /\ \A p, q, r \in Nat \X Nat : Before(p, q) /\ Before(q, r) => Before(p, r)
<1>1. \A p, q \in Nat \X Nat :
         /\ p[1] \in Nat /\ p[2] \in Nat
         /\ p[1] = q[1] /\ p[2] = q[2] => p = q
  OBVIOUS
<1>. QED
  BY <1>1 DEF Before

(* UpTo holds a place and those before it. *)
LEMMA UpToBefore ==
    ASSUME NEW I \in SUBSET (Nat \X Nat), NEW p \in I
    PROVE  \A q \in I : q \in UpTo(I, p) <=> q = p \/ Before(q, p)
<1>1. \A q \in I : /\ p[1] \in Nat /\ p[2] \in Nat /\ q[1] \in Nat /\ q[2] \in Nat
                   /\ q[1] = p[1] /\ q[2] = p[2] => q = p
  OBVIOUS
<1>. QED
  BY <1>1 DEF UpTo, Before

LEMMA PositionFacts ==
    ASSUME NEW I \in PairPlaces
    PROVE  /\ Cardinality(I) \in Nat
           /\ \A p \in I : IsFiniteSet(UpTo(I, p))
           /\ \A p \in I : Position(I, p) \in 1 .. Cardinality(I)
           /\ \A p, q \in I : Before(p, q) => Position(I, p) < Position(I, q)
<1>1. IsFiniteSet(I) /\ Cardinality(I) \in Nat /\ I \subseteq Nat \X Nat
  BY FS_CardinalityType DEF PairPlaces
<1>2. ASSUME NEW p \in I
      PROVE  /\ IsFiniteSet(UpTo(I, p))
             /\ Position(I, p) \in 1 .. Cardinality(I)
  <2>1. UpTo(I, p) \in SUBSET I /\ p \in UpTo(I, p)
    BY <1>1, UpToBefore DEF UpTo
  <2>2. IsFiniteSet(UpTo(I, p)) /\ Cardinality(UpTo(I, p)) <= Cardinality(I)
    BY <1>1, <2>1, FS_Subset
  <2>3. Cardinality(UpTo(I, p)) \in Nat /\ Cardinality(UpTo(I, p)) # 0
    BY <2>1, <2>2, FS_EmptySet, FS_CardinalityType
  <2>. QED
    BY <1>1, <2>2, <2>3 DEF Position
<1>3. ASSUME NEW p \in I, NEW q \in I, Before(p, q)
      PROVE  Position(I, p) < Position(I, q)
  <2>1. UpTo(I, p) \in SUBSET UpTo(I, q)
    BY <1>1, <1>3, UpToBefore, BeforeOrders DEF UpTo
  <2>2. q \in UpTo(I, q) /\ q \notin UpTo(I, p)
    BY <1>1, <1>3, UpToBefore, BeforeOrders
  <2>3. /\ Cardinality(UpTo(I, p)) <= Cardinality(UpTo(I, q))
        /\ Cardinality(UpTo(I, q)) = Cardinality(UpTo(I, p))
             => UpTo(I, q) = UpTo(I, p)
    BY <1>2, <2>1, FS_Subset
  <2>4. Cardinality(UpTo(I, p)) \in Nat /\ Cardinality(UpTo(I, q)) \in Nat
    BY <1>2, FS_CardinalityType
  <2>. QED
    BY <2>2, <2>3, <2>4 DEF Position
<1>. QED
  BY <1>1, <1>2, <1>3

(* Different places have different positions. *)
LEMMA PositionsDiffer ==
    ASSUME NEW I \in PairPlaces, NEW p \in I, NEW q \in I,
           Position(I, p) = Position(I, q)
    PROVE  p = q
<1>1. p \in Nat \X Nat /\ q \in Nat \X Nat
  BY DEF PairPlaces
<1>2. Position(I, p) \in Nat /\ Position(I, q) \in Nat
  BY PositionFacts
<1>3. ~(Position(I, p) < Position(I, q)) /\ ~(Position(I, q) < Position(I, p))
  BY <1>2
<1>4. ~Before(p, q) /\ ~Before(q, p)
  BY <1>3, PositionFacts
<1>. QED
  BY <1>1, <1>4, BeforeOrders

(* Every number up to that of the places is the position of one of them. *)
LEMMA PositionOnto ==
    ASSUME NEW I \in PairPlaces, NEW n \in 1 .. Cardinality(I)
    PROVE  \E p \in I : Position(I, p) = n
<1>. DEFINE f == [p \in I |-> Position(I, p)]
            N == 1 .. Cardinality(I)
<1>1. IsFiniteSet(I) /\ Cardinality(I) \in Nat
  BY FS_CardinalityType DEF PairPlaces
<1>2. IsFiniteSet(N) /\ Cardinality(N) = Cardinality(I)
  <2>1. /\ IsFiniteSet(N)
        /\ Cardinality(N) = IF 1 > Cardinality(I) THEN 0 ELSE Cardinality(I) - 1 + 1
    BY <1>1, FS_Interval
  <2>. QED
    BY <1>1, <2>1
<1>3. f \in [I -> N]
  BY PositionFacts
<1>4. \A p, q \in I : f[p] = f[q] => p = q
  BY PositionsDiffer
<1>5. f \in Injection(I, N)
  BY <1>3, <1>4 DEF Injection, IsInjective
<1>6. f \in Surjection(I, N)
  BY <1>2, <1>5, FS_Injection
<1>. QED
  BY <1>6 DEF Surjection

LEMMA PlaceFacts ==
    ASSUME NEW I \in PairPlaces
    PROVE  /\ \A n \in 1 .. Cardinality(I) :
                PlaceOf(I, n) \in I /\ Position(I, PlaceOf(I, n)) = n
           /\ \A p \in I : PlaceOf(I, Position(I, p)) = p
<1>1. ASSUME NEW n \in 1 .. Cardinality(I)
      PROVE  PlaceOf(I, n) \in I /\ Position(I, PlaceOf(I, n)) = n
  BY PositionOnto DEF PlaceOf, Position
<1>2. ASSUME NEW p \in I
      PROVE  PlaceOf(I, Position(I, p)) = p
  <2>1. Position(I, p) \in 1 .. Cardinality(I)
    BY PositionFacts
  <2>2. PICK q \in I : q = PlaceOf(I, Position(I, p)) /\ Position(I, q) = Position(I, p)
    BY <1>1, <2>1
  <2>. QED
    BY <2>2, PositionsDiffer
<1>. QED
  BY <1>1, <1>2

(* More places push a place back, or leave it where it is. *)
LEMMA PositionGrows ==
    ASSUME NEW I \in PairPlaces, NEW K \in PairPlaces, I \subseteq K, NEW p \in I
    PROVE  /\ Position(I, p) <= Position(K, p)
           /\ (\A q \in K \ I : Before(p, q)) => Position(K, p) = Position(I, p)
<1>1. p \in K /\ IsFiniteSet(UpTo(K, p)) /\ K \in SUBSET (Nat \X Nat)
  BY PositionFacts DEF PairPlaces
<1>2. UpTo(I, p) \in SUBSET UpTo(K, p)
  BY DEF UpTo
<1>3. Position(I, p) <= Position(K, p)
  BY <1>1, <1>2, FS_Subset DEF Position
<1>4. ASSUME \A q \in K \ I : Before(p, q)
      PROVE  UpTo(K, p) = UpTo(I, p)
  <2>1. ASSUME NEW q \in UpTo(K, p)
        PROVE  q \in UpTo(I, p)
    <3>1. q \in K /\ (q = p \/ Before(q, p))
      BY <1>1, <2>1, UpToBefore DEF UpTo
    <3>2. q \in I
      BY <1>1, <1>4, <3>1, BeforeOrders
    <3>. QED
      BY <2>1, <3>2 DEF UpTo
  <2>. QED
    BY <1>2, <2>1
<1>. QED
  BY <1>3, <1>4 DEF Position

-----------------------------------------------------------------------------
(* Tables *)

RowSet(rows) == {rows[p] : p \in DOMAIN rows}

Distinct(rows) == \A p, q \in DOMAIN rows : rows[p] = rows[q] => p = q

(* Every row stands where its place comes in the order of the places. *)
LEMMA TableFacts ==
    ASSUME NEW rows, DOMAIN rows \in PairPlaces
    PROVE  /\ InOrder(rows) \in Seq(RowSet(rows))
           /\ Len(InOrder(rows)) = Cardinality(DOMAIN rows)
           /\ Cardinality(DOMAIN rows) \in Nat
           /\ \A p \in DOMAIN rows :
                 /\ Position(DOMAIN rows, p) \in 1 .. Cardinality(DOMAIN rows)
                 /\ InOrder(rows)[Position(DOMAIN rows, p)] = rows[p]
           /\ \A n \in 1 .. Cardinality(DOMAIN rows) :
                 \E p \in DOMAIN rows :
                    Position(DOMAIN rows, p) = n /\ InOrder(rows)[n] = rows[p]
<1>. DEFINE D == DOMAIN rows
            c == Cardinality(D)
<1>1. c \in Nat /\ \A p \in D : Position(D, p) \in 1 .. c
  BY PositionFacts
<1>2. /\ \A n \in 1 .. c : PlaceOf(D, n) \in D /\ Position(D, PlaceOf(D, n)) = n
      /\ \A p \in D : PlaceOf(D, Position(D, p)) = p
  BY PlaceFacts
<1>3. /\ InOrder(rows) \in [1 .. c -> RowSet(rows)]
      /\ \A n \in 1 .. c : InOrder(rows)[n] = rows[PlaceOf(D, n)]
  BY <1>2 DEF InOrder, RowSet
<1>. HIDE DEF D, c
<1>4. InOrder(rows) \in Seq(RowSet(rows))
  BY <1>1, <1>3, SeqDef
<1>5. Len(InOrder(rows)) = c
  <2>1. /\ DOMAIN InOrder(rows) = 1 .. Len(InOrder(rows))
        /\ Len(InOrder(rows)) \in Nat
    BY <1>4, LenProperties
  <2>. QED
    BY <1>1, <1>3, <2>1
<1>6. \A p \in D : InOrder(rows)[Position(D, p)] = rows[p]
  BY <1>1, <1>2, <1>3
<1>7. \A n \in 1 .. c : \E p \in D : Position(D, p) = n /\ InOrder(rows)[n] = rows[p]
  BY <1>2, <1>3
<1>. QED
  BY <1>1, <1>4, <1>5, <1>6, <1>7 DEF D, c

(* The table new has the rows of old, at their places, and perhaps others. *)
Enlarges(new, old) ==
    /\ DOMAIN old \subseteq DOMAIN new
    /\ \A p \in DOMAIN old : new[p] = old[p]

AtEnd(new, old) ==
    \A p \in DOMAIN old, q \in DOMAIN new \ DOMAIN old : Before(p, q)

(* No row moves to the front, and what two rows had before them they keep. *)
LEMMA RowsMoveBack ==
    ASSUME NEW old, DOMAIN old \in PairPlaces,
           NEW new, DOMAIN new \in PairPlaces, Enlarges(new, old),
           NEW n \in 1 .. Cardinality(DOMAIN new),
           InOrder(new)[n] \in RowSet(old), Distinct(new)
    PROVE  \E m \in 1 .. Cardinality(DOMAIN old) :
              m <= n /\ InOrder(old)[m] = InOrder(new)[n]
<1>1. PICK q \in DOMAIN new : /\ Position(DOMAIN new, q) = n
                              /\ InOrder(new)[n] = new[q]
  BY TableFacts
<1>2. PICK p \in DOMAIN old : old[p] = new[q]
  BY <1>1 DEF RowSet
<1>3. p = q
  BY <1>2 DEF Enlarges, Distinct
<1>4. Position(DOMAIN old, p) <= n
  BY <1>1, <1>3, PositionGrows DEF Enlarges
<1>5. /\ Position(DOMAIN old, p) \in 1 .. Cardinality(DOMAIN old)
      /\ InOrder(old)[Position(DOMAIN old, p)] = old[p]
  BY TableFacts
<1>. QED
  BY <1>1, <1>2, <1>4, <1>5

(* What grows at its end keeps its beginning. *)
LEMMA BeginningStays ==
    ASSUME NEW old, DOMAIN old \in PairPlaces,
           NEW new, DOMAIN new \in PairPlaces, Enlarges(new, old), AtEnd(new, old),
           NEW n \in 1 .. Cardinality(DOMAIN old)
    PROVE  /\ n \in 1 .. Cardinality(DOMAIN new)
           /\ InOrder(new)[n] = InOrder(old)[n]
<1>1. PICK p \in DOMAIN old : /\ Position(DOMAIN old, p) = n
                              /\ InOrder(old)[n] = old[p]
  BY TableFacts
<1>2. Position(DOMAIN new, p) = n
  BY <1>1, PositionGrows DEF Enlarges, AtEnd
<1>3. /\ Position(DOMAIN new, p) \in 1 .. Cardinality(DOMAIN new)
      /\ InOrder(new)[Position(DOMAIN new, p)] = new[p]
  BY TableFacts DEF Enlarges
<1>. QED
  BY <1>1, <1>2, <1>3 DEF Enlarges

(* A set of natural numbers has a least one. *)
LEMMA LeastNatural ==
    ASSUME NEW T, T \subseteq Nat, T # {}
    PROVE  \E x \in T : \A y \in T : ~(y < x)
<1>. DEFINE R == {ss \in Nat \X Nat : ss[1] < ss[2]}
<1>1. IsWellFoundedOn(R, Nat)
  BY NatLessThanWellFounded DEF OpToRel
<1>2. \A x, y \in Nat : y < x => <<y, x>> \in R
  OBVIOUS
<1>. HIDE DEF R
<1>3. \E x \in T : \A y \in T : ~(<<y, x>> \in R)
  BY <1>1, WFMin, Zenon
<1>. QED
  BY <1>2, <1>3

(* Lists of finite sets have finitely many places: there is no least number *)
(* of lists that have not.                                                  *)
LEMMA FiniteRows ==
    ASSUME NEW B, \A n \in Nat : IsFiniteSet(B[n])
    PROVE  \A n \in Nat : IsFiniteSet(UNION {{m} \X B[m] : m \in 1 .. n})
<1>. DEFINE U(n) == UNION {{m} \X B[m] : m \in 1 .. n}
            T == {n \in Nat : ~IsFiniteSet(U(n))}
<1>. SUFFICES ASSUME T # {} PROVE FALSE
  OBVIOUS
<1>1. PICK x \in T : \A y \in T : ~(y < x)
  BY LeastNatural
<1>2. x \in Nat /\ ~IsFiniteSet(U(x))
  OBVIOUS
<1>3. x # 0
  <2>1. U(0) = {}
    OBVIOUS
  <2>. QED
    BY <1>2, <2>1, FS_EmptySet
<1>4. x - 1 \in Nat /\ x - 1 < x
  BY <1>2, <1>3
<1>5. IsFiniteSet(U(x - 1))
  BY <1>1, <1>4
<1>6. IsFiniteSet({x} \X B[x])
  <2>. DEFINE f == [b \in B[x] |-> <<x, b>>]
  <2>1. f \in Surjection(B[x], {x} \X B[x])
    BY DEF Surjection
  <2>. QED
    BY <1>2, <2>1, FS_Surjection
<1>7. U(x) = U(x - 1) \cup ({x} \X B[x])
  <2>1. 1 .. x = 1 .. (x - 1) \cup {x}
    BY <1>2, <1>3
  <2>. QED
    BY <2>1
<1>8. IsFiniteSet(U(x))
  <2>. HIDE DEF U
  <2>1. IsFiniteSet(U(x - 1) \cup ({x} \X B[x]))
    BY <1>5, <1>6, FS_Union
  <2>. QED
    BY <1>7, <2>1
<1>. QED
  BY <1>2, <1>8

-----------------------------------------------------------------------------
(* The tables of the client *)

(* What a step leaves of what the tables are read from. *)
LEMMA StepKeepsLists ==
    ASSUME TypeOK, TypeOK', [Next]_vars
    PROVE  /\ Len(events) \in Nat /\ DOMAIN events = 1 .. Len(events)
           /\ Len(events') \in Nat /\ DOMAIN events' = 1 .. Len(events')
           /\ Len(events) <= Len(events')
           /\ \A n \in DOMAIN events : events'[n] = events[n]
           /\ \A j \in Jobs :
                 /\ Len(evidence[j]) \in Nat
                 /\ DOMAIN evidence[j] = 1 .. Len(evidence[j])
                 /\ DOMAIN evidence'[j] \subseteq Nat
                 /\ DOMAIN evidence[j] \subseteq DOMAIN evidence'[j]
                 /\ \A n \in DOMAIN evidence[j] : evidence'[j][n] = evidence[j][n]
                 /\ DOMAIN attachments[j] \subseteq DOMAIN attachments'[j]
                 /\ \A n \in DOMAIN attachments[j] :
                       attachments'[j][n] = attachments[j][n]
<1>1. ASSUME NEW S, NEW s \in Seq(S), NEW t \in Seq(S), IsPrefixOf(s, t)
      PROVE  /\ Len(s) \in Nat /\ DOMAIN s = 1 .. Len(s)
             /\ Len(t) \in Nat /\ DOMAIN t = 1 .. Len(t)
             /\ Len(s) <= Len(t) /\ DOMAIN s \subseteq DOMAIN t
             /\ \A n \in DOMAIN s : t[n] = s[n]
  <2>1. /\ Len(s) \in Nat /\ Len(t) \in Nat
        /\ DOMAIN s = 1 .. Len(s) /\ DOMAIN t = 1 .. Len(t)
        /\ \A n \in DOMAIN t : t[n] \in S
    BY LenProperties
  <2>2. Len(s) <= Len(t) /\ SubSeq(t, 1, Len(s)) = s
    BY <1>1 DEF IsPrefixOf
  <2>3. \A n \in 1 .. Len(s) : t[n] \in S
    BY <2>1, <2>2
  <2>4. \A n \in 1 .. Len(s) - 1 + 1 : SubSeq(t, 1, Len(s))[n] = t[1 + n - 1]
    BY <2>1, <2>3, SubSeqProperties
  <2>5. \A n \in 1 .. Len(s) : s[n] = t[n]
    BY <2>1, <2>2, <2>4
  <2>. QED
    BY <2>1, <2>2, <2>5
<1>2. /\ events \in Seq(EventType) /\ events' \in Seq(EventType)
      /\ \A j \in Jobs :
            /\ evidence[j] \in Seq(EvidenceType) /\ evidence'[j] \in Seq(EvidenceType)
            /\ attachments[j] \in Seq(Digests) /\ attachments'[j] \in Seq(Digests)
  BY DEF TypeOK
<1>3. /\ IsPrefixOf(events, events')
      /\ \A j \in Jobs : IsPrefixOf(evidence[j], evidence'[j])
  <2>1. CASE RecordsKept
    BY <2>1 DEF RecordsKept
  <2>2. CASE UNCHANGED vars
    BY <1>2, <2>2, PrefixRefl DEF vars, attachVars
  <2>. QED
    BY <2>1, <2>2, NextKeeps
<1>4. \A j \in Jobs : IsPrefixOf(attachments[j], attachments'[j])
  BY AttachmentsGrow
<1>5. /\ Len(events) \in Nat /\ DOMAIN events = 1 .. Len(events)
      /\ Len(events') \in Nat /\ DOMAIN events' = 1 .. Len(events')
      /\ Len(events) <= Len(events')
      /\ \A n \in DOMAIN events : events'[n] = events[n]
  BY <1>1, <1>2, <1>3
<1>6. ASSUME NEW j \in Jobs
      PROVE  /\ Len(evidence[j]) \in Nat
             /\ DOMAIN evidence[j] = 1 .. Len(evidence[j])
             /\ DOMAIN evidence'[j] = 1 .. Len(evidence'[j])
             /\ DOMAIN evidence[j] \subseteq DOMAIN evidence'[j]
             /\ \A n \in DOMAIN evidence[j] : evidence'[j][n] = evidence[j][n]
  BY <1>1, <1>2, <1>3
<1>7. ASSUME NEW j \in Jobs
      PROVE  /\ DOMAIN attachments[j] \subseteq DOMAIN attachments'[j]
             /\ \A n \in DOMAIN attachments[j] :
                   attachments'[j][n] = attachments[j][n]
  BY <1>1, <1>2, <1>4
<1>. QED
  BY <1>5, <1>6, <1>7

(* Places of events, of jobs and of projects. *)
LEMMA SinglePlaces ==
    ASSUME NEW S, NEW list \in Seq(S), NEW I \in SUBSET (DOMAIN list)
    PROVE  I \X {0} \in PairPlaces
<1>. DEFINE f == [i \in I |-> <<i, 0>>]
<1>1. IsFiniteSet(I) /\ I \subseteq Nat
  BY ListPlaces DEF Places
<1>2. f \in Surjection(I, I \X {0})
  <2>1. f \in [I -> I \X {0}]
    OBVIOUS
  <2>2. ASSUME NEW t \in I \X {0}
        PROVE  \E i \in I : f[i] = t
    <3>1. t[1] \in I /\ t = <<t[1], 0>>
      OBVIOUS
    <3>2. f[t[1]] = t
      BY <3>1
    <3>. QED
      BY <3>1, <3>2
  <2>. QED
    BY <2>1, <2>2 DEF Surjection
<1>3. IsFiniteSet(I \X {0})
  BY <1>1, <1>2, FS_Surjection
<1>. QED
  BY <1>1, <1>3 DEF PairPlaces

(* The jobs of a table are jobs, each at one place. *)
LEMMA JobPlaceFacts ==
    ASSUME TypeOK, NEW j
    PROVE  /\ JobPlaces(j) \in SUBSET (DOMAIN events)
           /\ DOMAIN events = 1 .. Len(events) /\ Len(events) \in Nat
           /\ \A n \in DOMAIN events :
                 events[n].job_id \in Jobs /\ events[n].seq \in Nat
           /\ \A m, n \in JobPlaces(j) : events[m].job_id = events[n].job_id => m = n
           /\ j # None => \A m, n \in JobPlaces(j) : m = n
<1>1. events \in Seq(EventType)
  BY DEF TypeOK
<1>2. /\ DOMAIN events = 1 .. Len(events) /\ Len(events) \in Nat
      /\ \A n \in DOMAIN events : events[n] \in EventType
  BY <1>1, LenProperties
<1>3. \A n \in DOMAIN events : events[n].job_id \in Jobs /\ events[n].seq \in Nat
  BY <1>2 DEF EventType
<1>4. JobPlaces(j) \in SUBSET (DOMAIN events)
  BY DEF JobPlaces
<1>5. ASSUME NEW m \in JobPlaces(j), NEW n \in JobPlaces(j),
             events[m].job_id = events[n].job_id
      PROVE  m = n
  <2>1. m \in Nat \ {0} /\ n \in Nat \ {0}
    BY <1>2, <1>4
  <2>2. m \notin 1 .. n - 1 /\ n \notin 1 .. m - 1
    BY <1>5 DEF JobPlaces
  <2>. QED
    BY <2>1, <2>2
<1>6. j # None => \A m, n \in JobPlaces(j) : events[m].job_id = events[n].job_id
  BY DEF JobPlaces
<1>. QED
  BY <1>2, <1>3, <1>4, <1>5, <1>6

(* Jobs that were in a table stay, and others come behind them. *)
LEMMA JobPlacesGrow ==
    ASSUME TypeOK, TypeOK', [Next]_vars, NEW j
    PROVE  /\ JobPlaces(j) \subseteq JobPlaces(j)'
           /\ \A n \in JobPlaces(j)' \ JobPlaces(j) : n > Len(events)
<1>1. /\ Len(events) \in Nat /\ DOMAIN events = 1 .. Len(events)
      /\ Len(events') \in Nat /\ DOMAIN events' = 1 .. Len(events')
      /\ Len(events) <= Len(events')
      /\ \A n \in DOMAIN events : events'[n] = events[n]
  BY StepKeepsLists
<1>2. ASSUME NEW n \in DOMAIN events
      PROVE  n \in JobPlaces(j) <=> n \in JobPlaces(j)'
  <2>1. n \in DOMAIN events' /\ \A m \in 1 .. n - 1 : m \in DOMAIN events
    BY <1>1
  <2>. QED
    BY <1>1, <2>1 DEF JobPlaces
<1>3. JobPlaces(j) \subseteq DOMAIN events /\ JobPlaces(j)' \subseteq DOMAIN events'
  BY DEF JobPlaces
<1>4. \A n \in DOMAIN events' : n \in DOMAIN events \/ n > Len(events)
  BY <1>1
<1>. QED
  BY <1>2, <1>3, <1>4

(* The places of a table that lists rows job by job. *)
LEMMA JobByJobFacts ==
    ASSUME TypeOK, NEW j, NEW rowsOf,
           \A i \in Jobs : /\ DOMAIN rowsOf[i] \subseteq Nat
                           /\ IsFiniteSet(DOMAIN rowsOf[i])
    PROVE  /\ DOMAIN JobByJob(j, rowsOf) \in PairPlaces
           /\ \A p : p \in DOMAIN JobByJob(j, rowsOf) <=>
                /\ p = <<p[1], p[2]>> /\ p[1] \in JobPlaces(j)
                /\ p[2] \in DOMAIN rowsOf[events[p[1]].job_id]
           /\ \A p \in DOMAIN JobByJob(j, rowsOf) :
                JobByJob(j, rowsOf)[p] = rowsOf[events[p[1]].job_id][p[2]]
<1>. DEFINE D == UNION {{n} \X DOMAIN rowsOf[events[n].job_id] : n \in JobPlaces(j)}
            B == [n \in Nat |-> IF n \in JobPlaces(j)
                                  THEN DOMAIN rowsOf[events[n].job_id] ELSE {}]
            U == UNION {{m} \X B[m] : m \in 1 .. Len(events)}
<1>1. DOMAIN JobByJob(j, rowsOf) = D
  BY DEF JobByJob
<1>2. \A p \in D : JobByJob(j, rowsOf)[p] = rowsOf[events[p[1]].job_id][p[2]]
  BY DEF JobByJob
<1>3. /\ JobPlaces(j) \subseteq 1 .. Len(events) /\ Len(events) \in Nat
      /\ \A n \in JobPlaces(j) : events[n].job_id \in Jobs
  BY JobPlaceFacts
<1>4. \A p : p \in D <=> /\ p = <<p[1], p[2]>> /\ p[1] \in JobPlaces(j)
                         /\ p[2] \in DOMAIN rowsOf[events[p[1]].job_id]
  OBVIOUS
<1>5. \A n \in Nat : IsFiniteSet(B[n])
  <2>1. ASSUME NEW n \in Nat PROVE IsFiniteSet(B[n])
    <3>1. CASE n \in JobPlaces(j)
      <4>1. B[n] = DOMAIN rowsOf[events[n].job_id]
        BY <3>1
      <4>. QED
        BY <1>3, <3>1, <4>1
    <3>2. CASE n \notin JobPlaces(j)
      <4>1. B[n] = {}
        BY <3>2
      <4>. QED
        BY <4>1, FS_EmptySet
    <3>. QED
      BY <3>1, <3>2
  <2>. QED
    BY <2>1
<1>6. IsFiniteSet(U)
  <2>. HIDE DEF B
  <2>. QED
    BY <1>3, <1>5, FiniteRows
<1>7. D \in SUBSET U
  <2>1. ASSUME NEW n \in JobPlaces(j)
        PROVE  {n} \X DOMAIN rowsOf[events[n].job_id] \in {{m} \X B[m] : m \in 1 .. Len(events)}
    BY <1>3, <2>1
  <2>. QED
    BY <2>1
<1>8. IsFiniteSet(D)
  <2>. HIDE DEF D, U
  <2>. QED
    BY <1>6, <1>7, FS_Subset
<1>9. D \subseteq Nat \X Nat
  <2>1. ASSUME NEW n \in JobPlaces(j)
        PROVE  {n} \X DOMAIN rowsOf[events[n].job_id] \subseteq Nat \X Nat
    BY <1>3
  <2>. QED
    BY <2>1
<1>. QED
  BY <1>1, <1>2, <1>4, <1>8, <1>9 DEF PairPlaces

(* No artifact is listed twice. *)
LEMMA ListedOnce ==
    ASSUME TypeOK, BooksInv, NEW j \in Jobs
    PROVE  /\ IsFiniteSet(DOMAIN attachments[j]) /\ DOMAIN attachments[j] \subseteq Nat
           /\ 0 \notin DOMAIN attachments[j]
           /\ DOMAIN evidence[j] = DOMAIN attachments[j]
           /\ \A n \in DOMAIN attachments[j] :
                 evidence[j][n].artifact_digest = attachments[j][n]
           /\ \A m, n \in DOMAIN attachments[j] :
                 attachments[j][m] = attachments[j][n] => m = n
<1>. DEFINE list == attachments[j]
            N == 1 .. Len(list)
            S == Attached(j)
<1>1. /\ list \in Seq(Digests) /\ evidence[j] \in Seq(EvidenceType)
      /\ Len(list) \in Nat /\ DOMAIN list = N
      /\ DOMAIN evidence[j] = 1 .. Len(evidence[j])
  BY LenProperties DEF TypeOK
<1>2. IsFiniteSet(N) /\ Cardinality(N) = Len(list)
  <2>1. ASSUME NEW l \in Nat
        PROVE  IsFiniteSet(1 .. l) /\ Cardinality(1 .. l) = l
    <3>1. IsFiniteSet(1 .. l) /\ Cardinality(1 .. l) = IF 1 > l THEN 0 ELSE l - 1 + 1
      BY FS_Interval
    <3>. QED
      BY <3>1
  <2>. QED
    BY <1>1, <2>1
<1>3. /\ Cardinality(S) = Len(list) /\ Len(evidence[j]) = Len(list)
      /\ \A n \in DOMAIN evidence[j] : evidence[j][n].artifact_digest = list[n]
  BY DEF BooksInv, BooksAgree
<1>4. list \in Surjection(N, S)
  BY <1>1, LenProperties DEF Attached, Surjection
<1>5. list \in Injection(N, S)
  <2>. HIDE DEF N, S, list
  <2>. QED
    BY <1>2, <1>3, <1>4, FS_SurjSameCardinalityImpliesInj
<1>6. \A m, n \in N : list[m] = list[n] => m = n
  BY <1>5 DEF Injection, IsInjective
<1>. QED
  BY <1>1, <1>2, <1>3, <1>6

LEMMA ArtifactRowFacts ==
    ASSUME TypeOK, BooksInv, NEW j \in Jobs
    PROVE  /\ IsFiniteSet(DOMAIN ArtifactRows(j)) /\ DOMAIN ArtifactRows(j) \subseteq Nat
           /\ \A m, n \in DOMAIN ArtifactRows(j) :
                 ArtifactRows(j)[m] = ArtifactRows(j)[n] => m = n
           /\ \A n \in DOMAIN ArtifactRows(j) : ArtifactRows(j)[n][1] = j
<1>1. /\ DOMAIN ArtifactRows(j) = DOMAIN attachments[j]
      /\ \A n \in DOMAIN attachments[j] :
            ArtifactRows(j)[n] = <<j, "artifact", attachments[j][n]>>
  BY ListedOnce DEF ArtifactRows
<1>2. ASSUME NEW m \in DOMAIN attachments[j], NEW n \in DOMAIN attachments[j],
             ArtifactRows(j)[m] = ArtifactRows(j)[n]
      PROVE  m = n
  <2>1. attachments[j][m] = attachments[j][n]
    BY <1>1, <1>2
  <2>. QED
    BY <2>1, ListedOnce
<1>. QED
  BY <1>1, <1>2, ListedOnce

LEMMA EvidenceRowFacts ==
    ASSUME TypeOK, BooksInv, NEW j \in Jobs
    PROVE  /\ IsFiniteSet(DOMAIN EvidenceRows(j)) /\ DOMAIN EvidenceRows(j) \subseteq Nat
           /\ \A m, n \in DOMAIN EvidenceRows(j) :
                 EvidenceRows(j)[m] = EvidenceRows(j)[n] => m = n
           /\ \A n \in DOMAIN EvidenceRows(j) : EvidenceRows(j)[n][1] = j
<1>. DEFINE Z == IF state[j] \in {"succeeded", "failed"} THEN {0} ELSE {}
<1>1. DOMAIN EvidenceRows(j) = Z \cup DOMAIN attachments[j]
  BY DEF EvidenceRows
<1>2. IsFiniteSet(Z) /\ Z \subseteq {0}
  BY FS_EmptySet, FS_Singleton
<1>3. /\ 0 \in DOMAIN EvidenceRows(j) => EvidenceRows(j)[0] = <<j, "result">>
      /\ \A n \in DOMAIN attachments[j] :
            EvidenceRows(j)[n] = <<j, "artifact", attachments[j][n]>>
  BY ListedOnce DEF EvidenceRows
<1>4. /\ IsFiniteSet(DOMAIN EvidenceRows(j)) /\ DOMAIN EvidenceRows(j) \subseteq Nat
      /\ \A n \in DOMAIN EvidenceRows(j) : n = 0 \/ n \in DOMAIN attachments[j]
  <2>. HIDE DEF Z
  <2>1. IsFiniteSet(Z \cup DOMAIN attachments[j])
    BY <1>2, ListedOnce, FS_Union
  <2>2. DOMAIN attachments[j] \subseteq Nat
    BY ListedOnce
  <2>3. IsFiniteSet(DOMAIN EvidenceRows(j))
    BY <1>1, <2>1
  <2>4. \A n \in DOMAIN EvidenceRows(j) : n = 0 \/ n \in DOMAIN attachments[j]
    BY <1>1, <1>2
  <2>. QED
    BY <2>2, <2>3, <2>4
<1>5. ASSUME NEW m \in DOMAIN EvidenceRows(j), NEW n \in DOMAIN EvidenceRows(j),
             EvidenceRows(j)[m] = EvidenceRows(j)[n]
      PROVE  m = n
  <2>1. CASE m = 0 /\ n = 0
    BY <2>1
  <2>2. CASE m \in DOMAIN attachments[j] /\ n \in DOMAIN attachments[j]
    <3>1. attachments[j][m] = attachments[j][n]
      BY <1>3, <1>5, <2>2
    <3>. QED
      BY <2>2, <3>1, ListedOnce
  <2>3. ASSUME NEW b \in DOMAIN attachments[j], 0 \in DOMAIN EvidenceRows(j),
               EvidenceRows(j)[b] = EvidenceRows(j)[0]
        PROVE  FALSE
    <3>1. EvidenceRows(j)[b][2] = "artifact" /\ EvidenceRows(j)[0][2] = "result"
      BY <1>3, <2>3
    <3>. QED
      BY <2>3, <3>1
  <2>. QED
    BY <1>4, <1>5, <2>1, <2>2, <2>3
<1>6. \A n \in DOMAIN EvidenceRows(j) : EvidenceRows(j)[n][1] = j
  BY <1>3, <1>4
<1>. QED
  BY <1>4, <1>5, <1>6

(* Rows listed job by job are different if those of every job are. *)
LEMMA JobByJobDistinct ==
    ASSUME TypeOK, NEW j, NEW rowsOf,
           \A i \in Jobs :
              /\ DOMAIN rowsOf[i] \subseteq Nat /\ IsFiniteSet(DOMAIN rowsOf[i])
              /\ \A m, n \in DOMAIN rowsOf[i] : rowsOf[i][m] = rowsOf[i][n] => m = n
              /\ \A n \in DOMAIN rowsOf[i] : rowsOf[i][n][1] = i
    PROVE  DOMAIN JobByJob(j, rowsOf) \in PairPlaces /\ Distinct(JobByJob(j, rowsOf))
<1>. DEFINE table == JobByJob(j, rowsOf)
<1>1. /\ DOMAIN table \in PairPlaces
      /\ \A p : p \in DOMAIN table <=>
            /\ p = <<p[1], p[2]>> /\ p[1] \in JobPlaces(j)
            /\ p[2] \in DOMAIN rowsOf[events[p[1]].job_id]
      /\ \A p \in DOMAIN table : table[p] = rowsOf[events[p[1]].job_id][p[2]]
  BY JobByJobFacts
<1>2. ASSUME NEW p \in DOMAIN table, NEW q \in DOMAIN table, table[p] = table[q]
      PROVE  p = q
  <2>. HIDE DEF table
  <2>1. /\ p = <<p[1], p[2]>> /\ p[1] \in JobPlaces(j)
        /\ q = <<q[1], q[2]>> /\ q[1] \in JobPlaces(j)
    BY <1>1
  <2>2. PICK i \in Jobs : /\ events[p[1]].job_id = i
                          /\ p[2] \in DOMAIN rowsOf[i] /\ table[p] = rowsOf[i][p[2]]
    BY <1>1, <2>1, JobPlaceFacts
  <2>3. PICK k \in Jobs : /\ events[q[1]].job_id = k
                          /\ q[2] \in DOMAIN rowsOf[k] /\ table[q] = rowsOf[k][q[2]]
    BY <1>1, <2>1, JobPlaceFacts
  <2>4. i = k
    <3>1. rowsOf[i][p[2]][1] = i
      BY <2>2
    <3>2. rowsOf[k][q[2]][1] = k
      BY <2>3
    <3>. QED
      BY <1>2, <2>2, <2>3, <3>1, <3>2
  <2>5. p[1] = q[1]
    BY <2>1, <2>2, <2>3, <2>4, JobPlaceFacts
  <2>6. p[2] = q[2]
    <3>1. q[2] \in DOMAIN rowsOf[i] /\ rowsOf[i][p[2]] = rowsOf[i][q[2]]
      BY <1>2, <2>2, <2>3, <2>4
    <3>. QED
      BY <2>2, <3>1
  <2>. QED
    BY <2>1, <2>5, <2>6
<1>. QED
  BY <1>1, <1>2 DEF Distinct
-----------------------------------------------------------------------------
(* Every table is well formed, and grows *)

TableOK ==
    \A resource \in BULK_RESOURCES, j \in Jobs \cup {None} :
        /\ DOMAIN RowsAt(resource, j) \in PairPlaces
        /\ Distinct(RowsAt(resource, j))

(* Rows that stand at one place each. *)
LEMMA SingleRows ==
    ASSUME NEW S, NEW list \in Seq(S), NEW I \in SUBSET (DOMAIN list), NEW rows,
           DOMAIN rows = I \X {0},
           \A p, q \in I \X {0} : rows[p] = rows[q] => p[1] = q[1]
    PROVE  DOMAIN rows \in PairPlaces /\ Distinct(rows)
<1>1. I \X {0} \in PairPlaces
  BY SinglePlaces
<1>2. \A p, q \in I \X {0} : p[1] = q[1] => p = q
  OBVIOUS
<1>. QED
  BY <1>1, <1>2 DEF Distinct

LEMMA TablesWellFormed == TypeOK /\ BooksInv /\ LogInv => TableOK
<1>. SUFFICES ASSUME TypeOK, BooksInv, LogInv,
                     NEW resource \in BULK_RESOURCES, NEW j \in Jobs \cup {None}
              PROVE  /\ DOMAIN RowsAt(resource, j) \in PairPlaces
                     /\ Distinct(RowsAt(resource, j))
  BY DEF TableOK
<1>1. /\ events \in Seq(EventType)
      /\ \A i : JobPlaces(i) \in SUBSET (DOMAIN events)
      /\ \A i : \A m, n \in JobPlaces(i) :
            events[m].job_id = events[n].job_id => m = n
  BY JobPlaceFacts DEF TypeOK
<1>2. ASSUME NEW i, NEW rows,
             rows = [p \in JobPlaces(i) \X {0} |-> <<events[p[1]].job_id>>]
      PROVE  DOMAIN rows \in PairPlaces /\ Distinct(rows)
  <2>1. DOMAIN rows = JobPlaces(i) \X {0}
    BY <1>2
  <2>2. ASSUME NEW p \in JobPlaces(i) \X {0}, NEW q \in JobPlaces(i) \X {0},
               rows[p] = rows[q]
        PROVE  p[1] = q[1]
    <3>1. events[p[1]].job_id = events[q[1]].job_id
      BY <1>2, <2>2
    <3>2. p[1] \in JobPlaces(i) /\ q[1] \in JobPlaces(i)
      OBVIOUS
    <3>. QED
      BY <1>1, <3>1, <3>2
  <2>. QED
    BY <1>1, <2>1, <2>2, SingleRows
<1>3. CASE resource = "projects"
  <2>. DEFINE I == {n \in DOMAIN ProjectOrder : HasJobs(ProjectOrder[n])}
              rows == RowsAt(resource, j)
  <2>1. /\ DOMAIN rows = I \X {0}
        /\ \A p \in I \X {0} : rows[p] = <<ProjectOrder[p[1]]>>
    BY <1>3 DEF RowsAt
  <2>2. I \in SUBSET (DOMAIN ProjectOrder)
    OBVIOUS
  <2>3. ASSUME NEW p \in I \X {0}, NEW q \in I \X {0}, rows[p] = rows[q]
        PROVE  p[1] = q[1]
    <3>1. p[1] \in DOMAIN ProjectOrder /\ q[1] \in DOMAIN ProjectOrder
      OBVIOUS
    <3>2. ProjectOrder[p[1]] = ProjectOrder[q[1]]
      BY <2>1, <2>3
    <3>. QED
      BY <3>1, <3>2, ProjectOrderAssumption
  <2>. HIDE DEF I, rows
  <2>4. DOMAIN rows \in PairPlaces /\ Distinct(rows)
    BY <2>1, <2>2, <2>3, SingleRows, ProjectOrderAssumption
  <2>. QED
    BY <2>4 DEF rows
<1>4. CASE resource = "jobs"
  BY <1>2, <1>4 DEF RowsAt
<1>5. CASE resource = "attempts"
  BY <1>2, <1>5 DEF RowsAt
<1>6. CASE resource = "activity"
  <2>. DEFINE I == {n \in DOMAIN events : j \in {None, events[n].job_id}}
              rows == RowsAt(resource, j)
  <2>1. /\ DOMAIN rows = I \X {0}
        /\ \A p \in I \X {0} : rows[p] = <<events[p[1]].job_id, events[p[1]].seq>>
    BY <1>6 DEF RowsAt
  <2>2. I \in SUBSET (DOMAIN events)
    OBVIOUS
  <2>3. ASSUME NEW p \in I \X {0}, NEW q \in I \X {0}, rows[p] = rows[q]
        PROVE  p[1] = q[1]
    <3>1. p[1] \in DOMAIN events /\ q[1] \in DOMAIN events
      OBVIOUS
    <3>2. events[p[1]].seq = events[q[1]].seq
      BY <2>1, <2>3
    <3>. QED
      BY <3>1, <3>2 DEF LogInv
  <2>. HIDE DEF I, rows
  <2>4. DOMAIN rows \in PairPlaces /\ Distinct(rows)
    BY <1>1, <2>1, <2>2, <2>3, SingleRows
  <2>. QED
    BY <2>4 DEF rows
<1>7. CASE resource = "artifacts"
  <2>. DEFINE rowsOf == [i \in Jobs |-> ArtifactRows(i)]
  <2>1. \A i \in Jobs :
          /\ DOMAIN rowsOf[i] \subseteq Nat /\ IsFiniteSet(DOMAIN rowsOf[i])
          /\ \A m, n \in DOMAIN rowsOf[i] : rowsOf[i][m] = rowsOf[i][n] => m = n
          /\ \A n \in DOMAIN rowsOf[i] : rowsOf[i][n][1] = i
    <3>1. \A i \in Jobs : rowsOf[i] = ArtifactRows(i)
      OBVIOUS
    <3>. QED
      BY <3>1, ArtifactRowFacts
  <2>2. RowsAt(resource, j) = JobByJob(j, rowsOf)
    BY <1>7 DEF RowsAt
  <2>. HIDE DEF rowsOf
  <2>. QED
    BY <2>1, <2>2, JobByJobDistinct
<1>8. CASE resource = "evidence"
  <2>. DEFINE rowsOf == [i \in Jobs |-> EvidenceRows(i)]
  <2>1. \A i \in Jobs :
          /\ DOMAIN rowsOf[i] \subseteq Nat /\ IsFiniteSet(DOMAIN rowsOf[i])
          /\ \A m, n \in DOMAIN rowsOf[i] : rowsOf[i][m] = rowsOf[i][n] => m = n
          /\ \A n \in DOMAIN rowsOf[i] : rowsOf[i][n][1] = i
    <3>1. \A i \in Jobs : rowsOf[i] = EvidenceRows(i)
      OBVIOUS
    <3>. QED
      BY <3>1, EvidenceRowFacts
  <2>2. RowsAt(resource, j) = JobByJob(j, rowsOf)
    BY <1>8 DEF RowsAt
  <2>. HIDE DEF rowsOf
  <2>. QED
    BY <2>1, <2>2, JobByJobDistinct
<1>9. CASE resource = "health"
  <2>1. RowsAt(resource, j) = [p \in {<<0, 0>>} |-> <<"foundry">>]
    BY <1>9 DEF RowsAt
  <2>2. DOMAIN RowsAt(resource, j) = {<<0, 0>>}
    BY <2>1
  <2>3. IsFiniteSet({<<0, 0>>})
    BY FS_Singleton
  <2>. QED
    BY <2>2, <2>3 DEF PairPlaces, Distinct
<1>10. CASE resource = "approvals"
  <2>1. RowsAt(resource, j) = <<>>
    BY <1>10 DEF RowsAt
  <2>2. DOMAIN RowsAt(resource, j) = {}
    BY <2>1
  <2>. QED
    BY <2>2, FS_EmptySet DEF PairPlaces, Distinct
<1>. QED
  BY <1>3, <1>4, <1>5, <1>6, <1>7, <1>8, <1>9, <1>10 DEF BULK_RESOURCES
-----------------------------------------------------------------------------
(* The rows of jobs in the order of their places, those of a job as they are. *)
Listing(places, es, rowsOf) ==
    [p \in UNION {{n} \X DOMAIN rowsOf[es[n].job_id] : n \in places} |->
       rowsOf[es[p[1]].job_id][p[2]]]

LEMMA ListingGrows ==
    ASSUME NEW P, NEW Q, P \subseteq Q, NEW es, NEW et,
           \A n \in P : et[n] = es[n] /\ es[n].job_id \in Jobs,
           NEW rowsOf, NEW rowsNext,
           \A i \in Jobs : Enlarges(rowsNext[i], rowsOf[i])
    PROVE  Enlarges(Listing(Q, et, rowsNext), Listing(P, es, rowsOf))
<1>. DEFINE old == Listing(P, es, rowsOf)
            new == Listing(Q, et, rowsNext)
<1>1. \A p : p \in DOMAIN old <=> /\ p = <<p[1], p[2]>> /\ p[1] \in P
                                  /\ p[2] \in DOMAIN rowsOf[es[p[1]].job_id]
  BY DEF Listing
<1>2. \A p : p \in DOMAIN new <=> /\ p = <<p[1], p[2]>> /\ p[1] \in Q
                                  /\ p[2] \in DOMAIN rowsNext[et[p[1]].job_id]
  BY DEF Listing
<1>3. /\ \A p \in DOMAIN old : old[p] = rowsOf[es[p[1]].job_id][p[2]]
      /\ \A p \in DOMAIN new : new[p] = rowsNext[et[p[1]].job_id][p[2]]
  BY DEF Listing
<1>4. ASSUME NEW p \in DOMAIN old
      PROVE  p \in DOMAIN new /\ new[p] = old[p]
  <2>. HIDE DEF old, new
  <2>1. PICK i \in Jobs : es[p[1]].job_id = i /\ et[p[1]].job_id = i
    BY <1>1
  <2>2. /\ p = <<p[1], p[2]>> /\ p[1] \in Q /\ p[2] \in DOMAIN rowsOf[i]
        /\ old[p] = rowsOf[i][p[2]]
    BY <1>1, <1>3, <2>1
  <2>3. p[2] \in DOMAIN rowsNext[i] /\ rowsNext[i][p[2]] = rowsOf[i][p[2]]
    BY <2>2 DEF Enlarges
  <2>4. p \in DOMAIN new
    BY <1>2, <2>1, <2>2, <2>3
  <2>. QED
    BY <1>3, <2>1, <2>2, <2>3, <2>4
<1>. QED
  BY <1>4 DEF Enlarges

LEMMA ArtifactRowsGrow ==
    ASSUME TypeOK, TypeOK', [Next]_vars, NEW j \in Jobs
    PROVE  /\ Enlarges(ArtifactRows(j)', ArtifactRows(j))
           /\ \A n \in DOMAIN ArtifactRows(j),
                 m \in DOMAIN ArtifactRows(j)' \ DOMAIN ArtifactRows(j) : n < m
<1>1. /\ Len(evidence[j]) \in Nat /\ DOMAIN evidence[j] = 1 .. Len(evidence[j])
      /\ DOMAIN evidence'[j] \subseteq Nat
      /\ DOMAIN evidence[j] \subseteq DOMAIN evidence'[j]
      /\ \A n \in DOMAIN evidence[j] : evidence'[j][n] = evidence[j][n]
  BY StepKeepsLists
<1>2. evidence'[j] \in Seq(EvidenceType)
  BY DEF TypeOK
<1>3. DOMAIN evidence'[j] = 1 .. Len(evidence'[j]) /\ Len(evidence'[j]) \in Nat
  BY <1>2, LenProperties
<1>4. /\ DOMAIN ArtifactRows(j) = DOMAIN evidence[j]
      /\ DOMAIN ArtifactRows(j)' = DOMAIN evidence'[j]
      /\ \A n \in DOMAIN evidence[j] :
            ArtifactRows(j)[n] = <<j, "artifact", evidence[j][n].artifact_digest>>
      /\ \A n \in DOMAIN evidence'[j] :
            ArtifactRows(j)'[n] = <<j, "artifact", evidence'[j][n].artifact_digest>>
  BY DEF ArtifactRows
<1>5. \A n \in DOMAIN evidence[j] : ArtifactRows(j)'[n] = ArtifactRows(j)[n]
  BY <1>1, <1>4
<1>6. \A n \in DOMAIN evidence[j], m \in DOMAIN evidence'[j] \ DOMAIN evidence[j] :
         n < m
  BY <1>1, <1>3
<1>. QED
  BY <1>1, <1>4, <1>5, <1>6 DEF Enlarges

(* The result comes first, and when it comes it stays. *)
LEMMA EvidenceRowsGrow ==
    ASSUME TypeOK, TypeOK', BooksInv, [Next]_vars, NEW j \in Jobs
    PROVE  Enlarges(EvidenceRows(j)', EvidenceRows(j))
<1>1. /\ DOMAIN attachments[j] \subseteq DOMAIN attachments'[j]
      /\ \A n \in DOMAIN attachments[j] : attachments'[j][n] = attachments[j][n]
  BY StepKeepsLists
<1>2. state[j] \in {"succeeded", "failed"} => state'[j] \in {"succeeded", "failed"}
  BY ResultStays DEF TERMINAL_STATES
<1>3. /\ \A n : n \in DOMAIN EvidenceRows(j) <=>
            \/ n = 0 /\ state[j] \in {"succeeded", "failed"}
            \/ n \in DOMAIN attachments[j]
      /\ \A n : n \in DOMAIN EvidenceRows(j)' <=>
            \/ n = 0 /\ state'[j] \in {"succeeded", "failed"}
            \/ n \in DOMAIN attachments'[j]
  BY DEF EvidenceRows
<1>4. /\ \A n \in DOMAIN EvidenceRows(j) :
            EvidenceRows(j)[n] = IF n = 0 THEN <<j, "result">>
                                 ELSE <<j, "artifact", attachments[j][n]>>
      /\ \A n \in DOMAIN EvidenceRows(j)' :
            EvidenceRows(j)'[n] = IF n = 0 THEN <<j, "result">>
                                  ELSE <<j, "artifact", attachments'[j][n]>>
  BY DEF EvidenceRows
<1>5. ASSUME NEW n \in DOMAIN EvidenceRows(j)
      PROVE  n \in DOMAIN EvidenceRows(j)' /\ EvidenceRows(j)'[n] = EvidenceRows(j)[n]
  <2>1. n \in DOMAIN EvidenceRows(j)'
    BY <1>1, <1>2, <1>3
  <2>2. n = 0 \/ n \in DOMAIN attachments[j]
    BY <1>3
  <2>. QED
    BY <1>1, <1>4, <2>1, <2>2
<1>. QED
  BY <1>5 DEF Enlarges

(* The tables that only grow at their end. *)
GrowsAtEnd(resource, j) ==
    \/ resource \in {"jobs", "attempts", "activity", "health", "approvals"}
    \/ resource = "artifacts" /\ j # None

LEMMA JobTableGrows ==
    ASSUME TypeOK, TypeOK', [Next]_vars, NEW i, NEW old, NEW new,
           old = [p \in JobPlaces(i) \X {0} |-> <<events[p[1]].job_id>>],
           new = [p \in JobPlaces(i)' \X {0} |-> <<events'[p[1]].job_id>>]
    PROVE  Enlarges(new, old) /\ AtEnd(new, old)
<1>1. /\ Len(events) \in Nat /\ DOMAIN events = 1 .. Len(events)
      /\ \A n \in DOMAIN events : events'[n] = events[n]
      /\ JobPlaces(i) \subseteq DOMAIN events /\ JobPlaces(i)' \subseteq DOMAIN events'
      /\ DOMAIN events' = 1 .. Len(events') /\ Len(events') \in Nat
  BY StepKeepsLists DEF JobPlaces
<1>2. /\ JobPlaces(i) \subseteq JobPlaces(i)'
      /\ \A n \in JobPlaces(i)' \ JobPlaces(i) : n > Len(events)
  BY JobPlacesGrow
<1>3. DOMAIN old = JobPlaces(i) \X {0} /\ DOMAIN new = JobPlaces(i)' \X {0}
  OBVIOUS
<1>4. ASSUME NEW p \in JobPlaces(i) \X {0}
      PROVE  p \in JobPlaces(i)' \X {0} /\ new[p] = old[p]
  <2>1. p[1] \in JobPlaces(i) /\ p \in JobPlaces(i)' \X {0}
    BY <1>2
  <2>2. events'[p[1]] = events[p[1]]
    BY <1>1, <2>1
  <2>. QED
    BY <2>1, <2>2
<1>5. ASSUME NEW p \in JobPlaces(i) \X {0},
             NEW q \in (JobPlaces(i)' \X {0}) \ (JobPlaces(i) \X {0})
      PROVE  Before(p, q)
  <2>1. p[1] \in JobPlaces(i) /\ q[1] \in JobPlaces(i)' \ JobPlaces(i)
    OBVIOUS
  <2>2. p[1] <= Len(events) /\ q[1] > Len(events) /\ p[1] \in Nat /\ q[1] \in Nat
    BY <1>1, <1>2, <2>1
  <2>. QED
    BY <1>1, <2>2 DEF Before
<1>. QED
  BY <1>3, <1>4, <1>5 DEF Enlarges, AtEnd

(* Whatever the client does, every table keeps its rows at their places, and *)
(* those that grow at their end get new rows there.                         *)
TablesGrow ==
    \A resource \in BULK_RESOURCES, j \in Jobs \cup {None} :
        /\ Enlarges(RowsAt(resource, j)', RowsAt(resource, j))
        /\ GrowsAtEnd(resource, j) =>
              AtEnd(RowsAt(resource, j)', RowsAt(resource, j))

LEMMA StepGrowsTables == TypeOK /\ TypeOK' /\ BooksInv /\ [Next]_vars => TablesGrow
<1>. SUFFICES ASSUME TypeOK, TypeOK', BooksInv, [Next]_vars,
                     NEW resource \in BULK_RESOURCES, NEW j \in Jobs \cup {None}
              PROVE  /\ Enlarges(RowsAt(resource, j)', RowsAt(resource, j))
                     /\ GrowsAtEnd(resource, j) =>
                           AtEnd(RowsAt(resource, j)', RowsAt(resource, j))
  BY DEF TablesGrow
<1>1. /\ Len(events) \in Nat /\ DOMAIN events = 1 .. Len(events)
      /\ Len(events') \in Nat /\ DOMAIN events' = 1 .. Len(events')
      /\ Len(events) <= Len(events')
      /\ \A n \in DOMAIN events : events'[n] = events[n]
  BY StepKeepsLists
<1>2. /\ JobPlaces(j) \subseteq JobPlaces(j)'
      /\ \A n \in JobPlaces(j) : events'[n] = events[n] /\ events[n].job_id \in Jobs
  BY <1>1, JobPlacesGrow, JobPlaceFacts
<1>3. CASE resource = "projects"
  <2>. DEFINE I == {n \in DOMAIN ProjectOrder : HasJobs(ProjectOrder[n])}
              K == {n \in DOMAIN ProjectOrder : HasJobs(ProjectOrder[n])'}
  <2>1. /\ DOMAIN RowsAt(resource, j) = I \X {0}
        /\ \A p \in I \X {0} : RowsAt(resource, j)[p] = <<ProjectOrder[p[1]]>>
    BY <1>3 DEF RowsAt
  <2>2. /\ DOMAIN RowsAt(resource, j)' = K \X {0}
        /\ \A p \in K \X {0} : RowsAt(resource, j)'[p] = <<ProjectOrder[p[1]]>>
    BY <1>3 DEF RowsAt
  <2>3. \A n \in DOMAIN ProjectOrder : ProjectOrder[n] \in Projects
    BY ProjectOrderAssumption
  <2>4. \A p \in Projects, k \in PrepareKeys :
           prepared[p][k] # None => prepared'[p][k] = prepared[p][k]
    BY NextKeeps DEF RecordsKept, vars, idemVars
  <2>5. I \subseteq K
    BY <2>3, <2>4 DEF HasJobs
  <2>6. I \X {0} \subseteq K \X {0}
    BY <2>5
  <2>. HIDE DEF I, K
  <2>7. Enlarges(RowsAt(resource, j)', RowsAt(resource, j))
    BY <2>1, <2>2, <2>6 DEF Enlarges
  <2>. QED
    BY <1>3, <2>7 DEF GrowsAtEnd
<1>4. CASE resource = "jobs"
  <2>1. /\ RowsAt(resource, j) = [p \in JobPlaces(None) \X {0} |-> <<events[p[1]].job_id>>]
        /\ RowsAt(resource, j)'
             = [p \in JobPlaces(None)' \X {0} |-> <<events'[p[1]].job_id>>]
    BY <1>4 DEF RowsAt
  <2>. QED
    BY <2>1, JobTableGrows
<1>5. CASE resource = "attempts"
  <2>1. /\ RowsAt(resource, j) = [p \in JobPlaces(j) \X {0} |-> <<events[p[1]].job_id>>]
        /\ RowsAt(resource, j)'
             = [p \in JobPlaces(j)' \X {0} |-> <<events'[p[1]].job_id>>]
    BY <1>5 DEF RowsAt
  <2>. QED
    BY <2>1, JobTableGrows
<1>6. CASE resource = "activity"
  <2>. DEFINE I == {n \in DOMAIN events : j \in {None, events[n].job_id}}
              K == {n \in DOMAIN events' : j \in {None, events'[n].job_id}}
  <2>1. /\ DOMAIN RowsAt(resource, j) = I \X {0}
        /\ \A p \in I \X {0} :
              RowsAt(resource, j)[p] = <<events[p[1]].job_id, events[p[1]].seq>>
    BY <1>6 DEF RowsAt
  <2>2. /\ DOMAIN RowsAt(resource, j)' = K \X {0}
        /\ \A p \in K \X {0} :
              RowsAt(resource, j)'[p] = <<events'[p[1]].job_id, events'[p[1]].seq>>
    BY <1>6 DEF RowsAt
  <2>3. /\ I \subseteq K /\ I \subseteq DOMAIN events
        /\ \A n \in K \ I : n \in Nat /\ n > Len(events)
    BY <1>1
  <2>. HIDE DEF I, K
  <2>4. ASSUME NEW p \in I \X {0}
        PROVE  p \in K \X {0} /\ RowsAt(resource, j)'[p] = RowsAt(resource, j)[p]
    <3>1. p \in K \X {0} /\ p[1] \in DOMAIN events
      BY <2>3
    <3>. QED
      BY <1>1, <2>1, <2>2, <3>1
  <2>5. ASSUME NEW p \in I \X {0}, NEW q \in (K \X {0}) \ (I \X {0})
        PROVE  Before(p, q)
    <3>1. p[1] \in DOMAIN events /\ q[1] \in K \ I
      BY <2>3
    <3>2. p[1] \in Nat /\ p[1] <= Len(events) /\ q[1] \in Nat /\ q[1] > Len(events)
      BY <1>1, <2>3, <3>1
    <3>. QED
      BY <1>1, <3>2 DEF Before
  <2>. QED
    BY <2>1, <2>2, <2>4, <2>5 DEF Enlarges, AtEnd
<1>7. CASE resource = "artifacts"
  <2>. DEFINE rowsOf == [i \in Jobs |-> ArtifactRows(i)]
              rowsNext == [i \in Jobs |-> ArtifactRows(i)']
  <2>1. /\ RowsAt(resource, j) = Listing(JobPlaces(j), events, rowsOf)
        /\ RowsAt(resource, j)' = Listing(JobPlaces(j)', events', rowsNext)
    BY <1>7 DEF RowsAt, JobByJob, Listing
  <2>2. \A i \in Jobs :
          /\ rowsOf[i] = ArtifactRows(i) /\ rowsNext[i] = ArtifactRows(i)'
          /\ Enlarges(rowsNext[i], rowsOf[i])
          /\ \A n \in DOMAIN rowsOf[i],
                m \in DOMAIN rowsNext[i] \ DOMAIN rowsOf[i] : n < m
    BY ArtifactRowsGrow
  <2>. HIDE DEF rowsOf, rowsNext
  <2>3. Enlarges(RowsAt(resource, j)', RowsAt(resource, j))
    BY <1>2, <2>1, <2>2, ListingGrows
  <2>4. ASSUME j # None,
               NEW p \in DOMAIN RowsAt(resource, j),
               NEW q \in DOMAIN RowsAt(resource, j)' \ DOMAIN RowsAt(resource, j)
        PROVE  Before(p, q)
    <3>1. /\ p = <<p[1], p[2]>> /\ p[1] \in JobPlaces(j)
          /\ p[2] \in DOMAIN rowsOf[events[p[1]].job_id]
      BY <2>1 DEF Listing
    <3>2. /\ q = <<q[1], q[2]>> /\ q[1] \in JobPlaces(j)'
          /\ q[2] \in DOMAIN rowsNext[events'[q[1]].job_id]
      BY <2>1 DEF Listing
    <3>3. \A m, n \in JobPlaces(j)' : m = n
      <4>1. \A n \in JobPlaces(j)' :
              /\ n \in DOMAIN events' /\ events'[n].job_id = j
              /\ \A m \in 1 .. n - 1 : events'[m].job_id # events'[n].job_id
        BY <2>4 DEF JobPlaces
      <4>2. \A m, n \in JobPlaces(j)' :
              m \in Nat \ {0} /\ n \in Nat \ {0} /\ ~(m < n) /\ ~(n < m)
        BY <1>1, <4>1
      <4>. QED
        BY <4>2
    <3>4. q[1] = p[1] /\ events'[p[1]] = events[p[1]] /\ events[p[1]].job_id \in Jobs
      BY <1>2, <3>1, <3>2, <3>3
    <3>5. q[2] \notin DOMAIN rowsOf[events[p[1]].job_id]
      <4>1. SUFFICES ASSUME q[2] \in DOMAIN rowsOf[events[p[1]].job_id] PROVE FALSE
        OBVIOUS
      <4>2. q \in DOMAIN Listing(JobPlaces(j), events, rowsOf)
        BY <3>1, <3>2, <3>4, <4>1 DEF Listing
      <4>. QED
        BY <2>1, <4>2
    <3>6. p[2] < q[2]
      BY <2>2, <3>1, <3>2, <3>4, <3>5
    <3>. QED
      BY <3>4, <3>6 DEF Before
  <2>. QED
    BY <1>7, <2>3, <2>4 DEF GrowsAtEnd, AtEnd
<1>8. CASE resource = "evidence"
  <2>. DEFINE rowsOf == [i \in Jobs |-> EvidenceRows(i)]
              rowsNext == [i \in Jobs |-> EvidenceRows(i)']
  <2>1. /\ RowsAt(resource, j) = Listing(JobPlaces(j), events, rowsOf)
        /\ RowsAt(resource, j)' = Listing(JobPlaces(j)', events', rowsNext)
    BY <1>8 DEF RowsAt, JobByJob, Listing
  <2>2. \A i \in Jobs : Enlarges(rowsNext[i], rowsOf[i])
    BY EvidenceRowsGrow
  <2>. HIDE DEF rowsOf, rowsNext
  <2>3. Enlarges(RowsAt(resource, j)', RowsAt(resource, j))
    BY <1>2, <2>1, <2>2, ListingGrows
  <2>. QED
    BY <1>8, <2>3 DEF GrowsAtEnd
<1>9. CASE resource \in {"health", "approvals"}
  <2>1. RowsAt(resource, j)' = RowsAt(resource, j)
    BY <1>9 DEF RowsAt
  <2>. QED
    BY <2>1 DEF Enlarges, AtEnd
<1>. QED
  BY <1>3, <1>4, <1>5, <1>6, <1>7, <1>8, <1>9 DEF BULK_RESOURCES
-----------------------------------------------------------------------------
(* Pages *)

(* A page begins behind the offset, and the next one behind its last row.    *)
LEMMA PageFacts ==
    ASSUME NEW resource, NEW j, NEW offset \in Nat, NEW limit \in Limits,
           NEW S, _resource_rows(resource, j) \in Seq(S),
           offset <= Len(_resource_rows(resource, j))
    PROVE  LET rows == _resource_rows(resource, j)
               answer == bulk_read(resource, offset, limit, j)
           IN  \E hi \in Nat :
                 /\ offset <= hi /\ hi <= Len(rows)
                 /\ offset < Len(rows) => offset < hi
                 /\ answer.items \in Seq(S) /\ Len(answer.items) = hi - offset
                 /\ \A n \in 1 .. hi - offset : answer.items[n] = rows[offset + n]
                 /\ hi < Len(rows) => answer.next_cursor = hi
                 /\ hi = Len(rows) => answer.next_cursor = None
<1>. DEFINE rows == _resource_rows(resource, j)
            answer == bulk_read(resource, offset, limit, j)
            L == Len(rows)
            c == Clamped(limit)
            hi == Least(offset + c, L)
            page == SubSeq(rows, offset + 1, hi)
<1>1. L \in Nat /\ offset <= L /\ rows \in Seq(S) /\ DOMAIN rows = 1 .. L
  BY LenProperties
<1>2. c \in Nat /\ c >= 1
  BY LimitsAssumption DEF Clamped, Greatest, Least
<1>. HIDE DEF L, c
<1>3. /\ hi \in Nat /\ offset <= hi /\ hi <= L
      /\ offset < L => offset < hi
  BY <1>1, <1>2 DEF Least
<1>4. answer.items = page /\ answer.next_cursor
                               = IF offset + Len(page) < L THEN offset + Len(page) ELSE None
  BY DEF bulk_read, NextOffset, L, c
<1>. HIDE DEF hi, rows, answer
<1>5. /\ page \in Seq(S) /\ Len(page) = hi - offset
      /\ \A n \in 1 .. hi - offset : page[n] = rows[offset + n]
  <2>1. \A n \in offset + 1 .. hi : rows[n] \in S
    <3>1. \A n \in 1 .. L : rows[n] \in S
      BY <1>1, LenProperties
    <3>. QED
      BY <1>1, <1>3, <3>1
  <2>2. offset + 1 \in Int /\ hi \in Int
    BY <1>3
  <2>3. /\ page \in Seq(S)
        /\ Len(page) = IF offset + 1 <= hi THEN hi - (offset + 1) + 1 ELSE 0
        /\ \A n \in 1 .. hi - (offset + 1) + 1 :
              page[n] = rows[offset + 1 + n - 1]
    BY <2>1, <2>2, SubSeqProperties
  <2>4. \A n \in 1 .. hi - offset :
          n \in 1 .. hi - (offset + 1) + 1 /\ offset + 1 + n - 1 = offset + n
    BY <1>3
  <2>5. Len(page) = hi - offset
    BY <1>3, <2>3
  <2>. QED
    BY <2>3, <2>4, <2>5
<1>. HIDE DEF page
<1>6. offset + Len(page) = hi
  BY <1>3, <1>5
<1>7. /\ hi < L => answer.next_cursor = hi
      /\ hi = L => answer.next_cursor = None
  BY <1>3, <1>4, <1>6
<1>8. /\ hi \in Nat
      /\ offset <= hi /\ hi <= Len(rows)
      /\ offset < Len(rows) => offset < hi
      /\ answer.items \in Seq(S) /\ Len(answer.items) = hi - offset
      /\ \A n \in 1 .. hi - offset : answer.items[n] = rows[offset + n]
      /\ hi < Len(rows) => answer.next_cursor = hi
      /\ hi = Len(rows) => answer.next_cursor = None
  BY <1>3, <1>4, <1>5, <1>7 DEF L
<1>. QED
  BY <1>8 DEF rows, answer

-----------------------------------------------------------------------------
(* The walk *)

Among(items) == {items[n] : n \in DOMAIN items}

(* Of the places read so far, every one with an owed row is collected; of a *)
(* table that grows at its end, every one is, in order.                     *)
WalkAt(resource, j) ==
    LET rows == _resource_rows(resource, j)
        table == RowsAt(resource, j)
    IN  /\ walk.items \in Seq(RowSet(table))
        /\ walk.owed \subseteq RowSet(table)
        /\ walk.next = None => walk.owed \subseteq Among(walk.items)
        /\ walk.next # None =>
              /\ walk.next \in Nat /\ walk.next < Len(rows)
              /\ walk.next = Len(walk.items)
              /\ \A n \in 1 .. walk.next :
                    rows[n] \in walk.owed => rows[n] \in Among(walk.items)
        /\ GrowsAtEnd(resource, j) =>
              /\ Len(walk.items) <= Len(rows)
              /\ \A n \in 1 .. Len(walk.items) : walk.items[n] = rows[n]

WalkInv ==
    walk # None =>
      /\ DOMAIN walk = {"resource", "job_id", "limit", "pages", "items", "next",
                        "owed"}
      /\ walk.resource \in BULK_RESOURCES
      /\ walk.job_id \in Jobs \cup {None} /\ walk.limit \in Limits
      /\ \A resource \in BULK_RESOURCES, j \in Jobs \cup {None} :
            walk.resource = resource /\ walk.job_id = j => WalkAt(resource, j)

LEMMA RowsFacts ==
    ASSUME TableOK, NEW resource \in BULK_RESOURCES, NEW j \in Jobs \cup {None}
    PROVE  LET rows == _resource_rows(resource, j)
               table == RowsAt(resource, j)
           IN  /\ rows \in Seq(RowSet(table)) /\ Len(rows) \in Nat
               /\ Len(rows) = Cardinality(DOMAIN table)
               /\ \A row \in RowSet(table) : \E n \in 1 .. Len(rows) : rows[n] = row
<1>1. DOMAIN RowsAt(resource, j) \in PairPlaces
  BY DEF TableOK
<1>. DEFINE table == RowsAt(resource, j)
<1>2. _resource_rows(resource, j) = InOrder(table)
  BY DEF _resource_rows
<1>. HIDE DEF table
<1>3. DOMAIN table \in PairPlaces
  BY <1>1 DEF table
<1>4. /\ InOrder(table) \in Seq(RowSet(table))
      /\ Len(InOrder(table)) = Cardinality(DOMAIN table)
      /\ Cardinality(DOMAIN table) \in Nat
  BY <1>3, TableFacts
<1>5. ASSUME NEW row \in RowSet(table)
      PROVE  \E n \in 1 .. Cardinality(DOMAIN table) : InOrder(table)[n] = row
  <2>1. PICK p \in DOMAIN table : table[p] = row
    BY DEF RowSet
  <2>2. /\ Position(DOMAIN table, p) \in 1 .. Cardinality(DOMAIN table)
        /\ InOrder(table)[Position(DOMAIN table, p)] = table[p]
    BY <1>3, TableFacts
  <2>. QED
    BY <2>1, <2>2
<1>6. /\ InOrder(table) \in Seq(RowSet(table)) /\ Len(InOrder(table)) \in Nat
      /\ Len(InOrder(table)) = Cardinality(DOMAIN table)
      /\ \A row \in RowSet(table) :
            \E n \in 1 .. Len(InOrder(table)) : InOrder(table)[n] = row
  BY <1>4, <1>5
<1>. QED
  BY <1>2, <1>6 DEF table

(* The next page behind the places read. *)
LEMMA PageRead ==
    ASSUME TableOK, NEW resource \in BULK_RESOURCES, NEW j \in Jobs \cup {None},
           NEW limit \in Limits,
           NEW items \in Seq(RowSet(RowsAt(resource, j))),
           NEW owed \in SUBSET RowSet(RowsAt(resource, j)),
           Len(items) <= Len(_resource_rows(resource, j)),
           \A n \in 1 .. Len(items) :
              _resource_rows(resource, j)[n] \in owed
                => _resource_rows(resource, j)[n] \in Among(items)
    PROVE  LET rows == _resource_rows(resource, j)
               answer == bulk_read(resource, Len(items), limit, j)
               all == items \o answer.items
           IN  /\ answer.items \in Seq(RowSet(RowsAt(resource, j)))
               /\ all \in Seq(RowSet(RowsAt(resource, j)))
               /\ Len(all) <= Len(rows)
               /\ Len(items) < Len(rows) => Len(items) < Len(all)
               /\ answer.next_cursor = None => owed \subseteq Among(all)
               /\ answer.next_cursor # None =>
                     /\ answer.next_cursor \in Nat
                     /\ answer.next_cursor < Len(rows)
                     /\ answer.next_cursor = Len(all)
                     /\ \A n \in 1 .. answer.next_cursor :
                           rows[n] \in owed => rows[n] \in Among(all)
               /\ (\A n \in 1 .. Len(items) : items[n] = rows[n])
                     => \A n \in 1 .. Len(all) : all[n] = rows[n]
<1>. DEFINE rows == _resource_rows(resource, j)
            S == RowSet(RowsAt(resource, j))
            offset == Len(items)
            answer == bulk_read(resource, offset, limit, j)
            all == items \o answer.items
<1>1. rows \in Seq(S) /\ Len(rows) \in Nat
  BY RowsFacts
<1>2. \A row \in S : \E n \in 1 .. Len(rows) : rows[n] = row
  BY RowsFacts
<1>3. items \in Seq(S) /\ offset \in Nat /\ offset <= Len(rows)
  BY LenProperties
<1>4. PICK hi \in Nat :
         /\ offset <= hi /\ hi <= Len(rows)
         /\ offset < Len(rows) => offset < hi
         /\ answer.items \in Seq(S) /\ Len(answer.items) = hi - offset
         /\ \A n \in 1 .. hi - offset : answer.items[n] = rows[offset + n]
         /\ hi < Len(rows) => answer.next_cursor = hi
         /\ hi = Len(rows) => answer.next_cursor = None
  <2>. HIDE DEF S
  <2>. QED
    BY <1>1, <1>3, PageFacts
<1>5. owed \subseteq S
  OBVIOUS
<1>6. \A n \in 1 .. offset : rows[n] \in owed => rows[n] \in Among(items)
  OBVIOUS
<1>. HIDE DEF rows, S, answer
<1>7. /\ all \in Seq(S) /\ Len(all) = hi
      /\ \A n \in 1 .. offset : all[n] = items[n]
      /\ \A n \in offset + 1 .. hi : all[n] = rows[n]
  <2>1. /\ all \in Seq(S) /\ Len(all) = offset + Len(answer.items)
        /\ \A n \in 1 .. offset + Len(answer.items) :
              all[n] = IF n <= offset THEN items[n] ELSE answer.items[n - offset]
    BY <1>3, <1>4, ConcatProperties
  <2>2. Len(all) = hi
    BY <1>3, <1>4, <2>1
  <2>3. \A n \in 1 .. offset : all[n] = items[n]
    BY <1>3, <1>4, <2>1
  <2>4. ASSUME NEW n \in offset + 1 .. hi
        PROVE  all[n] = rows[n]
    <3>1. n - offset \in 1 .. hi - offset /\ offset + (n - offset) = n
      BY <1>3
    <3>2. all[n] = answer.items[n - offset]
      BY <1>3, <1>4, <2>1
    <3>. QED
      BY <1>4, <3>1, <3>2
  <2>. QED
    BY <2>1, <2>2, <2>3, <2>4
<1>8. DOMAIN all = 1 .. hi /\ DOMAIN items = 1 .. offset
  BY <1>3, <1>7, LenProperties
<1>. HIDE DEF all, offset
<1>9. ASSUME NEW n \in 1 .. hi, rows[n] \in owed
      PROVE  rows[n] \in Among(all)
  <2>1. CASE n \in 1 .. offset
    <3>1. PICK m \in 1 .. offset : items[m] = rows[n]
      BY <1>6, <1>8, <1>9, <2>1 DEF Among
    <3>2. m \in DOMAIN all /\ all[m] = rows[n]
      BY <1>3, <1>4, <1>7, <1>8, <3>1
    <3>. QED
      BY <3>2 DEF Among
  <2>2. CASE n \in offset + 1 .. hi
    BY <1>7, <1>8, <1>9, <2>2 DEF Among
  <2>. QED
    BY <1>3, <2>1, <2>2
<1>10. CASE hi < Len(rows)
  <2>1. answer.next_cursor = hi /\ answer.next_cursor # None
    BY <1>4, <1>10, NoCursorAssumption
  <2>2. (\A n \in 1 .. offset : items[n] = rows[n])
           => \A n \in 1 .. hi : all[n] = rows[n]
    BY <1>3, <1>7
  <2>3. \A n \in 1 .. hi : rows[n] \in owed => rows[n] \in Among(all)
    BY <1>9
  <2>. QED
    BY <1>4, <1>7, <1>10, <2>1, <2>2, <2>3 DEF all, rows, S, answer, offset
<1>11. CASE hi = Len(rows)
  <2>1. answer.next_cursor = None
    BY <1>4, <1>11
  <2>2. (\A n \in 1 .. offset : items[n] = rows[n])
           => \A n \in 1 .. hi : all[n] = rows[n]
    BY <1>3, <1>7
  <2>3. owed \subseteq Among(all)
    BY <1>2, <1>5, <1>9, <1>11
  <2>. QED
    BY <1>1, <1>4, <1>7, <1>11, <2>1, <2>2, <2>3 DEF all, rows, S, answer, offset
<1>. QED
  BY <1>1, <1>4, <1>10, <1>11

LEMMA TablesSame ==
    ASSUME UNCHANGED vars, NEW resource, NEW j
    PROVE  /\ RowsAt(resource, j)' = RowsAt(resource, j)
           /\ _resource_rows(resource, j)' = _resource_rows(resource, j)
<1>1. RowsAt(resource, j)' = RowsAt(resource, j)
  BY DEF RowsAt, JobPlaces, HasJobs, JobByJob, ArtifactRows, EvidenceRows, vars,
         jobVars, attachVars, idemVars
<1>. QED
  BY <1>1 DEF _resource_rows

LEMMA StartKeepsWalk ==
    ASSUME TableOK, NEW resource \in BULK_RESOURCES, NEW j \in Jobs \cup {None},
           NEW limit \in Limits, StartWalk(resource, j, limit)
    PROVE  WalkInv'
<1>. DEFINE rows == _resource_rows(resource, j)
            table == RowsAt(resource, j)
            answer == bulk_read(resource, 0, limit, j)
<1>1. /\ walk'.resource = resource /\ walk'.job_id = j /\ walk'.limit = limit
      /\ walk'.items = answer.items /\ walk'.next = answer.next_cursor
      /\ walk'.owed = RowSet(table)
      /\ UNCHANGED vars
      /\ DOMAIN walk' = {"resource", "job_id", "limit", "pages", "items", "next",
                         "owed"}
  BY DEF StartWalk, RowSet
<1>2. /\ RowsAt(resource, j)' = table
      /\ _resource_rows(resource, j)' = rows
  BY <1>1, TablesSame
<1>3. rows \in Seq(RowSet(table)) /\ Len(rows) \in Nat
  BY RowsFacts
<1>4. /\ <<>> \in Seq(RowSet(table)) /\ Len(<<>>) = 0
      /\ \A s \in Seq(RowSet(table)) : <<>> \o s = s
  BY EmptySeq, ConcatEmptySeq
<1>5. /\ answer.items \in Seq(RowSet(table))
      /\ Len(answer.items) <= Len(rows)
      /\ answer.next_cursor = None => RowSet(table) \subseteq Among(answer.items)
      /\ answer.next_cursor # None =>
            /\ answer.next_cursor \in Nat
            /\ answer.next_cursor < Len(rows)
            /\ answer.next_cursor = Len(answer.items)
            /\ \A n \in 1 .. answer.next_cursor :
                  rows[n] \in RowSet(table) => rows[n] \in Among(answer.items)
      /\ \A n \in 1 .. Len(answer.items) : answer.items[n] = rows[n]
  <2>. DEFINE page == bulk_read(resource, Len(<<>>), limit, j)
              all == <<>> \o page.items
  <2>1. /\ Len(<<>>) <= Len(rows)
        /\ \A n \in 1 .. Len(<<>>) :
              rows[n] \in RowSet(table) => rows[n] \in Among(<<>>)
        /\ \A n \in 1 .. Len(<<>>) : <<>>[n] = rows[n]
    BY <1>3, <1>4
  <2>2. RowSet(table) \in SUBSET RowSet(table)
    OBVIOUS
  <2>3. /\ page.items \in Seq(RowSet(table))
        /\ Len(all) <= Len(rows)
        /\ page.next_cursor = None => RowSet(table) \subseteq Among(all)
        /\ page.next_cursor # None =>
              /\ page.next_cursor \in Nat
              /\ page.next_cursor < Len(rows)
              /\ page.next_cursor = Len(all)
              /\ \A n \in 1 .. page.next_cursor :
                    rows[n] \in RowSet(table) => rows[n] \in Among(all)
        /\ (\A n \in 1 .. Len(<<>>) : <<>>[n] = rows[n])
              => \A n \in 1 .. Len(all) : all[n] = rows[n]
    BY <1>4, <2>1, <2>2, PageRead
  <2>4. page = answer
    BY <1>4
  <2>5. all = page.items
    BY <1>4, <2>3
  <2>. HIDE DEF all, page, rows, table, answer
  <2>. QED
    BY <2>1, <2>3, <2>4, <2>5
<1>6. WalkAt(resource, j)'
  <2>. HIDE DEF rows, table, answer
  <2>. QED
    BY <1>1, <1>2, <1>5 DEF WalkAt
<1>. QED
  BY <1>1, <1>6 DEF WalkInv

LEMMA PageKeepsWalk ==
    ASSUME TableOK, WalkInv, NextPage
    PROVE  WalkInv' /\ Len(walk'.items) > Len(walk.items)
<1>0. walk # None /\ walk.next # None /\ UNCHANGED vars
  BY DEF NextPage, Walking
<1>1. PICK resource \in BULK_RESOURCES, j \in Jobs \cup {None} :
         walk.resource = resource /\ walk.job_id = j /\ WalkAt(resource, j)
  BY <1>0 DEF WalkInv
<1>. DEFINE rows == _resource_rows(resource, j)
            table == RowsAt(resource, j)
            items == walk.items
            owed == walk.owed
            answer == bulk_read(resource, Len(items), walk.limit, j)
            all == items \o answer.items
<1>2. /\ items \in Seq(RowSet(table)) /\ owed \in SUBSET RowSet(table)
      /\ Len(items) < Len(rows) /\ walk.next = Len(items)
      /\ \A n \in 1 .. Len(items) : rows[n] \in owed => rows[n] \in Among(items)
      /\ GrowsAtEnd(resource, j) => \A n \in 1 .. Len(items) : items[n] = rows[n]
      /\ walk.limit \in Limits
  BY <1>0, <1>1 DEF WalkAt, WalkInv
<1>3. /\ walk'.resource = resource /\ walk'.job_id = j
      /\ walk'.limit = walk.limit /\ walk'.owed = owed
      /\ walk'.items = all /\ walk'.next = answer.next_cursor
      /\ DOMAIN walk' = DOMAIN walk
      /\ DOMAIN walk = {"resource", "job_id", "limit", "pages", "items", "next",
                        "owed"}
  <2>1. DOMAIN walk = {"resource", "job_id", "limit", "pages", "items", "next",
                       "owed"}
    BY <1>0 DEF WalkInv
  <2>2. walk' = [walk EXCEPT !.pages = @ + 1, !.items = all,
                             !.next = answer.next_cursor]
    BY <1>1, <1>2 DEF NextPage
  <2>. HIDE DEF all, answer
  <2>. QED
    BY <1>1, <2>1, <2>2
<1>4. RowsAt(resource, j)' = table /\ _resource_rows(resource, j)' = rows
  BY <1>0, TablesSame
<1>5. Len(items) \in Nat /\ Len(rows) \in Nat /\ Len(items) <= Len(rows)
  BY <1>2, RowsFacts, LenProperties
<1>6. /\ all \in Seq(RowSet(table)) /\ Len(all) <= Len(rows)
      /\ Len(items) < Len(all)
      /\ answer.next_cursor = None => owed \subseteq Among(all)
      /\ answer.next_cursor # None =>
            /\ answer.next_cursor \in Nat
            /\ answer.next_cursor < Len(rows)
            /\ answer.next_cursor = Len(all)
            /\ \A n \in 1 .. answer.next_cursor :
                  rows[n] \in owed => rows[n] \in Among(all)
      /\ (\A n \in 1 .. Len(items) : items[n] = rows[n])
            => \A n \in 1 .. Len(all) : all[n] = rows[n]
  BY <1>2, <1>5, PageRead
<1>. HIDE DEF rows, table, answer, all
<1>7. WalkAt(resource, j)'
  BY <1>2, <1>3, <1>4, <1>6 DEF WalkAt
<1>8. WalkInv'
  BY <1>2, <1>3, <1>7 DEF WalkInv
<1>9. Len(walk'.items) > Len(walk.items)
  BY <1>3, <1>5, <1>6, LenProperties
<1>. QED
  BY <1>8, <1>9

LEMMA ClientKeepsWalk ==
    ASSUME TableOK, TableOK', TablesGrow, WalkInv, UNCHANGED walk
    PROVE  WalkInv'
<1>. SUFFICES ASSUME walk # None PROVE WalkInv'
  BY DEF WalkInv
<1>1. PICK resource \in BULK_RESOURCES, j \in Jobs \cup {None} :
         walk.resource = resource /\ walk.job_id = j /\ WalkAt(resource, j)
  BY DEF WalkInv
<1>. DEFINE rows == _resource_rows(resource, j)
            table == RowsAt(resource, j)
            rowsNext == _resource_rows(resource, j)'
            tableNext == RowsAt(resource, j)'
<1>2. /\ rows = InOrder(table) /\ rowsNext = InOrder(tableNext)
      /\ DOMAIN table \in PairPlaces /\ DOMAIN tableNext \in PairPlaces
      /\ Distinct(tableNext) /\ Enlarges(tableNext, table)
      /\ GrowsAtEnd(resource, j) => AtEnd(tableNext, table)
  BY DEF TableOK, TablesGrow, _resource_rows
<1>. HIDE DEF rows, table, rowsNext, tableNext
<1>3. /\ Len(rows) = Cardinality(DOMAIN table) /\ Len(rows) \in Nat
      /\ Len(rowsNext) = Cardinality(DOMAIN tableNext) /\ Len(rowsNext) \in Nat
      /\ Len(rows) <= Len(rowsNext)
  <2>1. /\ Len(InOrder(table)) = Cardinality(DOMAIN table)
        /\ Cardinality(DOMAIN table) \in Nat
    BY <1>2, TableFacts
  <2>2. /\ Len(InOrder(tableNext)) = Cardinality(DOMAIN tableNext)
        /\ Cardinality(DOMAIN tableNext) \in Nat
    BY <1>2, TableFacts
  <2>3. Cardinality(DOMAIN table) <= Cardinality(DOMAIN tableNext)
    <3>1. IsFiniteSet(DOMAIN tableNext) /\ DOMAIN table \in SUBSET DOMAIN tableNext
      BY <1>2 DEF PairPlaces, Enlarges
    <3>. QED
      BY <3>1, FS_Subset
  <2>. QED
    BY <1>2, <2>1, <2>2, <2>3
<1>4. RowSet(table) \subseteq RowSet(tableNext)
  BY <1>2 DEF RowSet, Enlarges
<1>5. /\ walk.items \in Seq(RowSet(table)) /\ walk.owed \subseteq RowSet(table)
      /\ walk.next = None => walk.owed \subseteq Among(walk.items)
      /\ walk.next # None =>
            /\ walk.next \in Nat /\ walk.next < Len(rows)
            /\ walk.next = Len(walk.items)
            /\ \A n \in 1 .. walk.next :
                  rows[n] \in walk.owed => rows[n] \in Among(walk.items)
      /\ GrowsAtEnd(resource, j) =>
            /\ Len(walk.items) <= Len(rows)
            /\ \A n \in 1 .. Len(walk.items) : walk.items[n] = rows[n]
  BY <1>1 DEF WalkAt, rows, table
<1>6. walk.items \in Seq(RowSet(tableNext)) /\ Len(walk.items) \in Nat
  <2>1. \A A, B : A \subseteq B => Seq(A) \subseteq Seq(B)
    BY SeqDef
  <2>. QED
    BY <1>4, <1>5, <2>1, LenProperties
<1>7. ASSUME walk.next # None, NEW n \in 1 .. walk.next, rowsNext[n] \in walk.owed
      PROVE  rowsNext[n] \in Among(walk.items)
  <2>1. n \in 1 .. Cardinality(DOMAIN tableNext) /\ n \in Nat
    BY <1>3, <1>5, <1>7
  <2>2. InOrder(tableNext)[n] \in RowSet(table)
    BY <1>2, <1>5, <1>7
  <2>3. PICK m \in 1 .. Cardinality(DOMAIN table) :
           m <= n /\ InOrder(table)[m] = InOrder(tableNext)[n]
    BY <1>2, <2>1, <2>2, RowsMoveBack
  <2>4. m \in 1 .. walk.next
    BY <1>5, <1>7, <2>1, <2>3
  <2>. QED
    BY <1>2, <1>5, <1>7, <2>3, <2>4
<1>8. ASSUME GrowsAtEnd(resource, j), NEW n \in 1 .. Len(walk.items)
      PROVE  walk.items[n] = rowsNext[n]
  <2>1. n \in 1 .. Cardinality(DOMAIN table)
    BY <1>3, <1>5, <1>6, <1>8
  <2>2. InOrder(tableNext)[n] = InOrder(table)[n]
    BY <1>2, <1>8, <2>1, BeginningStays
  <2>. QED
    BY <1>2, <1>5, <1>8, <2>2
<1>9. walk.next # None => walk.next < Len(rowsNext)
  BY <1>3, <1>5
<1>10. GrowsAtEnd(resource, j) => Len(walk.items) <= Len(rowsNext)
  BY <1>3, <1>5, <1>6
<1>11. WalkAt(resource, j)'
  <2>1. walk' = walk
    OBVIOUS
  <2>2. walk.owed \subseteq RowSet(tableNext)
    BY <1>4, <1>5
  <2>3. GrowsAtEnd(resource, j)' = GrowsAtEnd(resource, j)
    BY DEF GrowsAtEnd
  <2>. QED
    BY <1>5, <1>6, <1>7, <1>8, <1>9, <1>10, <2>1, <2>2
    DEF WalkAt, rowsNext, tableNext
<1>12. /\ DOMAIN walk = {"resource", "job_id", "limit", "pages", "items", "next",
                         "owed"}
       /\ walk.limit \in Limits /\ walk' = walk
  BY DEF WalkInv
<1>. QED
  BY <1>1, <1>11, <1>12 DEF WalkInv

LEMMA NextKeepsWalk ==
    TypeOK /\ TypeOK' /\ BooksInv /\ TableOK /\ TableOK' /\ WalkInv
      /\ [WalkNext]_walkVars => WalkInv'
<1>. SUFFICES ASSUME TypeOK, TypeOK', BooksInv, TableOK, TableOK', WalkInv,
                     [WalkNext]_walkVars
              PROVE  WalkInv'
  OBVIOUS
<1>1. CASE Next /\ UNCHANGED walk
  BY <1>1, StepGrowsTables, ClientKeepsWalk
<1>2. ASSUME NEW resource \in BULK_RESOURCES, NEW j \in Jobs \cup {None},
             NEW limit \in Limits, StartWalk(resource, j, limit)
      PROVE  WalkInv'
  BY <1>2, StartKeepsWalk
<1>3. CASE NextPage
  BY <1>3, PageKeepsWalk
<1>4. CASE UNCHANGED walkVars
  BY <1>4, StepGrowsTables, ClientKeepsWalk DEF walkVars
<1>. QED
  BY <1>1, <1>2, <1>3, <1>4 DEF WalkNext

LEMMA WalkSteps == [WalkNext]_walkVars => [Next]_vars
BY DEF WalkNext, StartWalk, NextPage, walkVars

LEMMA WalkImplementsClient == WalkSpec => Spec
BY WalkSteps, PTL DEF WalkSpec, WalkInit, Spec

(* What a walk has collected is all that was owed of the places it has      *)
(* passed, at every moment: inductive, given what the client's own          *)
(* invariants say of the tables.                                            *)
THEOREM WalkInvariant == WalkSpec => [](TypeOK /\ BooksInv /\ TableOK /\ WalkInv)
<1>1. WalkSpec => [](TypeOK /\ BooksInv /\ LogInv)
  BY WalkImplementsClient, TypeCorrect, ClientInvariant, LogInvariant, PTL
<1>2. WalkInit => WalkInv
  BY DEF WalkInit, WalkInv
<1>. QED
  BY <1>1, <1>2, TablesWellFormed, NextKeepsWalk, PTL DEF WalkSpec

(* A walk that has come to its end has met every row that was in the table  *)
(* when it began, though rows were inserted in front of those already read: *)
(* no row ever moves to the front.                                          *)
THEOREM PagesMissNoRow == WalkSpec => []PagesMissNothing
<1>1. WalkInv => PagesMissNothing
  <2>. SUFFICES ASSUME WalkInv, walk # None, walk.next = None
                PROVE  walk.owed \subseteq Collected
    BY DEF PagesMissNothing, Walking
  <2>. QED
    BY DEF WalkInv, WalkAt, Among, Collected
<1>. QED
  BY <1>1, WalkInvariant, PTL

(* Of a table that only grows at its end, the pages are one reading.        *)
THEOREM PagesAreOneReading == WalkSpec => []GrowingTablesReadOnce
<1>1. TableOK /\ WalkInv => GrowingTablesReadOnce
  <2>. SUFFICES ASSUME TableOK, WalkInv, walk # None, AppendOnly(walk)
                PROVE  walk.items = SubSeq(_resource_rows(walk.resource, walk.job_id),
                                           1, Len(walk.items))
    BY DEF GrowingTablesReadOnce
  <2>1. PICK resource \in BULK_RESOURCES, j \in Jobs \cup {None} :
           walk.resource = resource /\ walk.job_id = j /\ WalkAt(resource, j)
    BY DEF WalkInv
  <2>. DEFINE rows == _resource_rows(resource, j)
              S == RowSet(RowsAt(resource, j))
              items == walk.items
              part == SubSeq(rows, 1, Len(items))
  <2>2. /\ items \in Seq(S) /\ Len(items) <= Len(rows)
        /\ \A n \in 1 .. Len(items) : items[n] = rows[n]
    BY <2>1 DEF AppendOnly, GrowsAtEnd, WalkAt
  <2>3. rows \in Seq(S) /\ Len(rows) \in Nat
    BY RowsFacts
  <2>4. /\ items \in [1 .. Len(items) -> S] /\ Len(items) \in Nat
        /\ \A n \in 1 .. Len(rows) : rows[n] \in S
    BY <2>2, <2>3, LenProperties
  <2>. HIDE DEF rows, S, items
  <2>5. part \in Seq(S) /\ Len(part) = Len(items)
    BY <2>2, <2>3, <2>4, SubSeqProperties
  <2>6. \A n \in 1 .. Len(items) : part[n] = rows[n]
    BY <2>2, <2>3, <2>4, SubSeqProperties
  <2>7. items = part
    BY <2>2, <2>4, <2>5, <2>6, LenProperties, SeqEqual
  <2>. QED
    BY <2>1, <2>7 DEF rows, items
<1>. QED
  BY <1>1, WalkInvariant, PTL

(* Every page but the last one moves on, with any limit.                    *)
THEOREM PagesAlwaysMoveOn == WalkSpec => PagesMoveOn
<1>1. TableOK /\ WalkInv /\ [WalkNext]_walkVars
        => [Walking /\ walk' # walk => Len(walk'.items) > Len(walk.items)]_walkVars
  BY PageKeepsWalk DEF WalkNext, StartWalk, Walking
<1>. QED
  BY <1>1, WalkInvariant, PTL DEF WalkSpec, PagesMoveOn
=============================================================================
