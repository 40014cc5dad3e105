------------------------ MODULE GatewayService_proofs -------------------------
(***************************************************************************)
(* Theorems about Routing and GatewayService, for every number of calls,   *)
(* every request and every configuration of executors.                     *)
(***************************************************************************)
EXTENDS GatewayService, FiniteSetTheorems, WellFoundedInduction, TLAPS

-----------------------------------------------------------------------------
(* The order of the candidates *)

(* Every component of the key is an integer, and the last one is the position *)
(* in the configuration.                                                     *)
LEMMA KeyIntegers ==
    ASSUME NEW r, r.preference \in Preferences, NEW e \in Executors
    PROVE  /\ \A n \in 1 .. 4 : Key(r, e)[n] \in Int
           /\ Key(r, e)[4] = e
BY ConfigAssumption, ExecutorsAssumption DEF Key, Preferences

(* Nothing comes before itself, nor two executors before each other. *)
LEMMA BeforeAsymmetric ==
    ASSUME NEW r, r.preference \in Preferences,
           NEW e \in Executors, NEW f \in Executors,
           Before(r, e, f)
    PROVE  ~Before(r, f, e)
<1>. DEFINE x == Key(r, e)
            y == Key(r, f)
<1>1. \A n \in 1 .. 4 : x[n] \in Int /\ y[n] \in Int
  BY KeyIntegers
<1>. HIDE DEF x, y
<1>2. PICK n \in 1 .. 4 : x[n] < y[n] /\ \A m \in 1 .. n - 1 : x[m] = y[m]
  BY DEF Before, x, y
<1>. SUFFICES ASSUME NEW k \in 1 .. 4,
                     y[k] < x[k] /\ \A m \in 1 .. k - 1 : y[m] = x[m]
              PROVE  FALSE
  BY DEF Before, x, y
<1>3. CASE n < k
  BY <1>1, <1>2, <1>3
<1>4. CASE k < n
  BY <1>1, <1>2, <1>4
<1>5. CASE k = n
  BY <1>1, <1>2, <1>5
<1>. QED
  BY <1>3, <1>4, <1>5

LEMMA BeforeTransitive ==
    ASSUME NEW r, r.preference \in Preferences,
           NEW e \in Executors, NEW f \in Executors, NEW g \in Executors,
           Before(r, e, f), Before(r, f, g)
    PROVE  Before(r, e, g)
<1>. DEFINE x == Key(r, e)
            y == Key(r, f)
            z == Key(r, g)
<1>1. \A n \in 1 .. 4 : x[n] \in Int /\ y[n] \in Int /\ z[n] \in Int
  BY KeyIntegers
<1>. HIDE DEF x, y, z
<1>2. PICK n \in 1 .. 4 : x[n] < y[n] /\ \A m \in 1 .. n - 1 : x[m] = y[m]
  BY DEF Before, x, y
<1>3. PICK k \in 1 .. 4 : y[k] < z[k] /\ \A m \in 1 .. k - 1 : y[m] = z[m]
  BY DEF Before, y, z
<1>4. \E l \in 1 .. 4 : x[l] < z[l] /\ \A m \in 1 .. l - 1 : x[m] = z[m]
  <2>1. CASE n <= k
    <3>1. x[n] < z[n]
      BY <1>1, <1>2, <1>3, <2>1
    <3>2. \A m \in 1 .. n - 1 : x[m] = z[m]
      BY <1>1, <1>2, <1>3, <2>1
    <3>. QED
      BY <3>1, <3>2
  <2>2. CASE k < n
    <3>1. x[k] < z[k]
      BY <1>1, <1>2, <1>3, <2>2
    <3>2. \A m \in 1 .. k - 1 : x[m] = z[m]
      BY <1>1, <1>2, <1>3, <2>2
    <3>. QED
      BY <3>1, <3>2
  <2>. QED
    BY <2>1, <2>2
<1>. QED
  BY <1>4 DEF Before, x, z

(* Of two executors one comes first. *)
LEMMA BeforeTotal ==
    ASSUME NEW r, r.preference \in Preferences,
           NEW e \in Executors, NEW f \in Executors, e # f
    PROVE  Before(r, e, f) \/ Before(r, f, e)
<1>. DEFINE x == Key(r, e)
            y == Key(r, f)
<1>1. /\ \A n \in 1 .. 4 : x[n] \in Int /\ y[n] \in Int
      /\ x[4] # y[4]
  BY KeyIntegers
<1>. HIDE DEF x, y
<1>2. \E n \in 1 .. 4 : x[n] # y[n] /\ \A m \in 1 .. n - 1 : x[m] = y[m]
  <2>1. CASE x[1] # y[1]
    BY <2>1
  <2>2. CASE x[1] = y[1] /\ x[2] # y[2]
    <3>1. \A m \in 1 .. 2 - 1 : x[m] = y[m]
      BY <2>2
    <3>. QED
      BY <2>2, <3>1
  <2>3. CASE x[1] = y[1] /\ x[2] = y[2] /\ x[3] # y[3]
    <3>1. \A m \in 1 .. 3 - 1 : x[m] = y[m]
      BY <2>3
    <3>. QED
      BY <2>3, <3>1
  <2>4. CASE x[1] = y[1] /\ x[2] = y[2] /\ x[3] = y[3]
    <3>1. \A m \in 1 .. 4 - 1 : x[m] = y[m]
      BY <2>4
    <3>. QED
      BY <1>1, <3>1
  <2>. QED
    BY <2>1, <2>2, <2>3, <2>4
<1>3. PICK n \in 1 .. 4 : x[n] # y[n] /\ \A m \in 1 .. n - 1 : x[m] = y[m]
  BY <1>2
<1>4. x[n] < y[n] \/ y[n] < x[n]
  BY <1>1, <1>3
<1>5. \A m \in 1 .. n - 1 : y[m] = x[m]
  BY <1>3
<1>. QED
  BY <1>3, <1>4, <1>5 DEF Before, x, y

(* A set of natural numbers has a least one. *)
LEMMA LeastNatural ==
    ASSUME NEW T, T \subseteq Nat, T # {}
    PROVE  \E x \in T : \A y \in T : ~(y < x)
<1>. DEFINE R == {ss \in Nat \X Nat : ss[1] < ss[2]}
<1>1. IsWellFoundedOn(R, Nat)
  BY NatLessThanWellFounded DEF OpToRel
<1>2. \A x, y \in Nat : y < x => <<y, x>> \in R
  OBVIOUS
<1>. HIDE DEF R
<1>3. \E x \in T : \A y \in T : ~(<<y, x>> \in R)
  BY <1>1, WFMin, Zenon
<1>. QED
  BY <1>2, <1>3

(* Of any executors one comes first: the one the fewest others come before.  *)
LEMMA FirstExists ==
    ASSUME NEW r, r.preference \in Preferences,
           NEW S \in SUBSET Executors, S # {}
    PROVE  \E e \in S : \A f \in S \ {e} : Before(r, e, f)
<1>. DEFINE Ahead(e) == {f \in S : Before(r, f, e)}
            Rank(e) == Cardinality(Ahead(e))
            Ranks == {Rank(e) : e \in S}
<1>1. \A e \in S : IsFiniteSet(Ahead(e)) /\ Rank(e) \in Nat
  <2>1. ASSUME NEW e \in S
        PROVE  IsFiniteSet(Ahead(e))
    <3>1. Ahead(e) \in SUBSET Executors
      OBVIOUS
    <3>. HIDE DEF Ahead
    <3>. QED
      BY <3>1, FS_Subset, ExecutorsAssumption
  <2>. QED
    BY <2>1, FS_CardinalityType
<1>2. PICK e \in S : \A f \in S : ~(Rank(f) < Rank(e))
  <2>. HIDE DEF Rank
  <2>1. Ranks \subseteq Nat /\ Ranks # {}
    BY <1>1
  <2>2. PICK n \in Ranks : \A m \in Ranks : ~(m < n)
    BY <2>1, LeastNatural
  <2>. QED
    BY <2>2
<1>3. ASSUME NEW f \in S \ {e}, ~Before(r, e, f)
      PROVE  FALSE
  <2>1. Before(r, f, e)
    BY <1>3, BeforeTotal
  <2>2. Ahead(f) \in SUBSET Ahead(e)
    BY <1>3, <2>1, BeforeTransitive
  <2>3. f \in Ahead(e) /\ f \notin Ahead(f)
    BY <1>3, <2>1, BeforeAsymmetric
  <2>. HIDE DEF Ahead
  <2>4. /\ Rank(f) <= Rank(e)
        /\ Rank(f) # Rank(e)
    BY <1>1, <2>2, <2>3, FS_Subset
  <2>5. Rank(f) \in Nat /\ Rank(e) \in Nat
    BY <1>1, <1>3
  <2>. HIDE DEF Rank
  <2>6. Rank(f) < Rank(e)
    BY <2>4, <2>5
  <2>. QED
    BY <1>2, <1>3, <2>6
<1>. QED
  BY <1>3

-----------------------------------------------------------------------------
(* Who takes a request *)

LEMMA CandidatesBuilt ==
    ASSUME NEW r, NEW done
    PROVE  /\ Reachable(r, done) \subseteq Candidates(r) \ done
           /\ Candidates(r) \subseteq Executors
BY DEF Reachable, Candidates, Built

(* The executor that takes a request is a candidate nobody has turned to yet, *)
(* and does not refuse it.                                                   *)
LEMMA TakerAccepts ==
    ASSUME NEW r, r.preference \in Preferences, NEW done, NEW missing_cwd,
           NEW e \in Taker(r, done, missing_cwd)
    PROVE  /\ e \in Reachable(r, done)
           /\ ~Refuses(e, r, missing_cwd)
<1>1. /\ e \in Reachable(r, done)
      /\ e \notin PassedOver(r, done, missing_cwd)
      /\ \A f \in (Reachable(r, done) \ PassedOver(r, done, missing_cwd)) \ {e} :
            Before(r, e, f)
  BY DEF Taker
<1>2. ASSUME Refuses(e, r, missing_cwd)
      PROVE  FALSE
  <2>1. PICK f \in Reachable(r, done) :
           Before(r, f, e) /\ ~Refuses(f, r, missing_cwd)
    BY <1>1, <1>2 DEF PassedOver
  <2>2. f \notin PassedOver(r, done, missing_cwd)
    BY <2>1 DEF PassedOver
  <2>3. e # f
    BY <1>2, <2>1
  <2>4. Before(r, e, f)
    BY <1>1, <2>2, <2>3
  <2>. QED
    BY <1>1, <2>1, <2>4, CandidatesBuilt, BeforeAsymmetric
<1>. QED
  BY <1>1, <1>2

(* What is left comes after all that was passed over. *)
LEMMA PassedOverFirst ==
    ASSUME NEW r, r.preference \in Preferences, NEW done, NEW missing_cwd,
           NEW e \in PassedOver(r, done, missing_cwd),
           NEW f \in Reachable(r, done) \ PassedOver(r, done, missing_cwd)
    PROVE  ~Before(r, f, e)
<1>. SUFFICES ASSUME Before(r, f, e) PROVE FALSE
  OBVIOUS
<1>1. /\ e \in Executors /\ f \in Executors
      /\ Reachable(r, done) \subseteq Executors
  BY CandidatesBuilt DEF PassedOver
<1>2. \A g \in Reachable(r, done) : Before(r, g, e) => Refuses(g, r, missing_cwd)
  BY DEF PassedOver
<1>3. ASSUME NEW g \in Reachable(r, done), Before(r, g, f)
      PROVE  Refuses(g, r, missing_cwd)
  BY <1>1, <1>2, <1>3, BeforeTransitive
<1>. QED
  BY <1>2, <1>3 DEF PassedOver

(* When nobody takes a request, everybody it could still have gone to has     *)
(* refused it.                                                               *)
LEMMA NoTaker ==
    ASSUME NEW r, r.preference \in Preferences, NEW done, NEW missing_cwd,
           Taker(r, done, missing_cwd) = {}
    PROVE  PassedOver(r, done, missing_cwd) = Reachable(r, done)
<1>. DEFINE rest == Reachable(r, done) \ PassedOver(r, done, missing_cwd)
<1>1. rest \in SUBSET Executors
  BY CandidatesBuilt
<1>2. rest # {} => Taker(r, done, missing_cwd) # {}
  BY <1>1, FirstExists DEF Taker
<1>. QED
  BY <1>2 DEF PassedOver

(* Whoever comes first of all candidates can be reached with and without     *)
(* fallback.                                                                 *)
LEMMA SomeReachable ==
    ASSUME NEW r, r.preference \in Preferences, Candidates(r) # {}
    PROVE  Reachable(r, {}) # {}
<1>1. PICK e \in Candidates(r) : \A f \in Candidates(r) \ {e} : Before(r, e, f)
  BY CandidatesBuilt, FirstExists
<1>. QED
  BY <1>1 DEF Reachable

-----------------------------------------------------------------------------
(* What the loop of submit has turned to *)

(* e comes before every other candidate. *)
First(r, e) == \A f \in Candidates(r) \ {e} : Before(r, e, f)

(* done is a beginning of the candidates in the order of their keys, and just *)
(* the first of them if there is no fallback.                                *)
Beginning(r, done) ==
    /\ done \subseteq Candidates(r)
    /\ \A e \in done, f \in Candidates(r) \ done : ~Before(r, f, e)
    /\ ~r.allow_fallback => \A e \in done : First(r, e)

(* Once executors were passed over and nobody took the request, the loop has  *)
(* still turned to a beginning of the candidates.                            *)
LEMMA PassedOverBeginning ==
    ASSUME NEW r, r.preference \in Preferences, r.allow_fallback \in BOOLEAN,
           NEW done, Beginning(r, done), NEW missing_cwd
    PROVE  Beginning(r, done \cup PassedOver(r, done, missing_cwd))
<1>. DEFINE passed == PassedOver(r, done, missing_cwd)
<1>1. /\ passed \subseteq Reachable(r, done)
      /\ Reachable(r, done) \subseteq Candidates(r)
      /\ Candidates(r) \subseteq Executors
  BY CandidatesBuilt DEF PassedOver
<1>2. ~r.allow_fallback => \A e \in Reachable(r, done) : First(r, e)
  BY DEF Reachable, First
<1>3. ASSUME NEW e \in passed, NEW f \in Candidates(r) \ (done \cup passed)
      PROVE  ~Before(r, f, e)
  <2>1. CASE f \in Reachable(r, done)
    BY <1>3, <2>1, PassedOverFirst
  <2>2. CASE f \notin Reachable(r, done)
    <3>1. First(r, e)
      BY <1>1, <1>2, <1>3, <2>2 DEF Reachable
    <3>2. Before(r, e, f)
      BY <1>3, <3>1 DEF First
    <3>. QED
      BY <1>1, <1>3, <3>2, BeforeAsymmetric
  <2>. QED
    BY <2>1, <2>2
<1>. QED
  BY <1>1, <1>2, <1>3 DEF Beginning

(* The same with the one that took the request, and the order has no one      *)
(* before whom it should have come.                                          *)
LEMMA TakerBeginning ==
    ASSUME NEW r, r.preference \in Preferences, r.allow_fallback \in BOOLEAN,
           NEW done, Beginning(r, done), NEW missing_cwd,
           NEW t \in Taker(r, done, missing_cwd)
    PROVE  /\ Beginning(r, done \cup PassedOver(r, done, missing_cwd) \cup {t})
           /\ \A f \in done \cup PassedOver(r, done, missing_cwd) \cup {t} :
                 ~Before(r, t, f)
<1>. DEFINE passed == PassedOver(r, done, missing_cwd)
            turned == done \cup passed
<1>1. /\ passed \subseteq Reachable(r, done)
      /\ Reachable(r, done) \subseteq Candidates(r) \ done
      /\ Candidates(r) \subseteq Executors
      /\ t \in Reachable(r, done) \ passed
      /\ \A f \in (Reachable(r, done) \ passed) \ {t} : Before(r, t, f)
  BY CandidatesBuilt DEF PassedOver, Taker
<1>2. ~r.allow_fallback => \A e \in Reachable(r, done) : First(r, e)
  BY DEF Reachable, First
<1>3. Beginning(r, turned)
  BY PassedOverBeginning
<1>. HIDE DEF passed
<1>4. ASSUME NEW f \in Candidates(r) \ (turned \cup {t})
      PROVE  ~Before(r, f, t)
  <2>1. CASE f \in Reachable(r, done)
    BY <1>1, <1>4, <2>1, BeforeAsymmetric
  <2>2. CASE f \notin Reachable(r, done)
    <3>1. First(r, t)
      BY <1>1, <1>2, <1>4, <2>2 DEF Reachable
    <3>2. Before(r, t, f)
      BY <1>4, <3>1 DEF First
    <3>. QED
      BY <1>1, <1>4, <3>2, BeforeAsymmetric
  <2>. QED
    BY <2>1, <2>2
<1>5. Beginning(r, turned \cup {t})
  BY <1>1, <1>2, <1>3, <1>4 DEF Beginning
<1>6. ASSUME NEW f \in turned
      PROVE  ~Before(r, t, f)
  BY <1>1, <1>3, <1>6 DEF Beginning
<1>7. ~Before(r, t, t)
  BY <1>1, BeforeAsymmetric
<1>. QED
  BY <1>5, <1>6, <1>7 DEF passed

-----------------------------------------------------------------------------
(* Lemmas about the answers *)

LEMMA RequestTyped ==
    ASSUME NEW r \in Requests
    PROVE  /\ r.id \in Ids
           /\ r.preference \in Preferences
           /\ r # None
BY RequestsAssumption DEF Ids

(* submit's answers are of the kinds Results lists. *)
LEMMA RejectionTyped ==
    ASSUME NEW r \in Requests, NEW why \in {"policy", "no_executor"}
    PROVE  Result(r, "rejected", None, None, why) \in Results
BY RequestTyped DEF Result, Results, ResultsWith

LEMMA UnavailableTyped ==
    ASSUME NEW r \in Requests
    PROVE  Result(r, "failed", None, None, "unavailable") \in Results
BY RequestTyped DEF Result, Results, ResultsWith

LEMMA EchoTyped ==
    ASSUME NEW r \in Requests, NEW e \in Executors
    PROVE  Result(r, "succeeded", e, 0, None) \in Results
BY RequestTyped, ExecutorsAssumption DEF Result, Results, ResultsWith, Names

LEMMA TimeoutTyped ==
    ASSUME NEW r \in Requests, NEW e \in Executors
    PROVE  Result(r, "failed", e, None, "timeout") \in Results
BY RequestTyped, ExecutorsAssumption DEF Result, Results, ResultsWith, Names

LEMMA OutcomeTyped ==
    ASSUME NEW r \in Requests, NEW e \in Executors, NEW code \in ExitCodes
    PROVE  Outcome(r, e, code) \in Results
<1>1. CASE code = 0
  BY <1>1, EchoTyped DEF Outcome
<1>2. CASE code # 0
  <2>1. Result(r, "failed", e, code, "exit_code") \in
          ResultsWith({"failed"}, Names, ExitCodes \ {0}, {"exit_code"})
    BY <1>2, RequestTyped, ExecutorsAssumption DEF Result, ResultsWith, Names
  <2>. QED
    BY <1>2, <2>1 DEF Outcome, Results
<1>. QED
  BY <1>1, <1>2

(* What Answer does to the call that is answered and to the table. *)
LEMMA AnswerEffect ==
    ASSUME TypeOK, NEW c \in Calls, NEW r \in Requests, NEW a \in Results,
           Answer(c, r, a)
    PROVE  /\ results' \in [Ids -> Results \cup {None}]
           /\ answer' \in [Calls -> Results \cup {None}]
           /\ pc' = [pc EXCEPT ![c] = "returned"]
           /\ pc'[c] = "returned" /\ answer'[c] = a /\ results'[r.id] = a
BY RequestTyped DEF Answer, TypeOK

(* One round of the loop turns to executors of the configuration; either it   *)
(* ends the call or an executor is being spawned.                            *)
LEMMA RoundTyped ==
    ASSUME TypeOK, NEW c \in Calls, NEW r \in Requests,
           NEW done \in SUBSET Executors, TryNext(c, r, done)
    PROVE  /\ results' \in [Ids -> Results \cup {None}]
           /\ answer' \in [Calls -> Results \cup {None}]
           /\ tried' \in [Calls -> SUBSET Executors]
           /\ executor' \in [Calls -> Executors \cup {None}]
           /\ worked' \in [Calls -> SUBSET Executors]
           /\ UNCHANGED child
           /\ \/ pc' = [pc EXCEPT ![c] = "returned"]
              \/ pc' = [pc EXCEPT ![c] = "spawning"] /\ executor'[c] \in Executors
<1>1. PICK missing_cwd \in SUBSET {e \in Executors : Config[e].cwd} :
         \/ AllUnavailable(c, r, done, missing_cwd)
         \/ \E e \in Taker(r, done, missing_cwd) :
               \/ Echo(c, r, done, missing_cwd, e)
               \/ Launch(c, r, done, missing_cwd, e)
  BY DEF TryNext
<1>2. /\ PassedOver(r, done, missing_cwd) \subseteq Executors
      /\ Taker(r, done, missing_cwd) \subseteq Executors
  BY CandidatesBuilt DEF PassedOver, Taker
<1>3. CASE AllUnavailable(c, r, done, missing_cwd)
  BY <1>2, <1>3, UnavailableTyped, AnswerEffect DEF AllUnavailable, TypeOK
<1>4. ASSUME NEW e \in Taker(r, done, missing_cwd),
             Echo(c, r, done, missing_cwd, e)
      PROVE  /\ results' \in [Ids -> Results \cup {None}]
             /\ answer' \in [Calls -> Results \cup {None}]
             /\ tried' \in [Calls -> SUBSET Executors]
             /\ executor' \in [Calls -> Executors \cup {None}]
             /\ worked' \in [Calls -> SUBSET Executors]
             /\ UNCHANGED child
             /\ pc' = [pc EXCEPT ![c] = "returned"]
  <2>1. e \in Executors
    BY <1>2, <1>4
  <2>. QED
    BY <1>2, <1>4, <2>1, EchoTyped, AnswerEffect DEF Echo, TypeOK
<1>5. ASSUME NEW e \in Taker(r, done, missing_cwd),
             Launch(c, r, done, missing_cwd, e)
      PROVE  /\ results' \in [Ids -> Results \cup {None}]
             /\ answer' \in [Calls -> Results \cup {None}]
             /\ tried' \in [Calls -> SUBSET Executors]
             /\ executor' \in [Calls -> Executors \cup {None}]
             /\ worked' \in [Calls -> SUBSET Executors]
             /\ UNCHANGED child
             /\ pc' = [pc EXCEPT ![c] = "spawning"]
             /\ executor'[c] \in Executors
  BY <1>2, <1>5 DEF Launch, TypeOK
<1>. QED
  BY <1>1, <1>3, <1>4, <1>5

(* The loop of one call is no business of the others. *)
LEMMA RoundElsewhere ==
    ASSUME TypeOK, NEW c \in Calls, NEW r, NEW done, TryNext(c, r, done),
           NEW d \in Calls, d # c
    PROVE  /\ pc'[d] = pc[d] /\ tried'[d] = tried[d]
           /\ executor'[d] = executor[d] /\ child'[d] = child[d]
           /\ answer'[d] = answer[d] /\ worked'[d] = worked[d]
<1>. DEFINE Kept == /\ pc'[d] = pc[d] /\ tried'[d] = tried[d]
                    /\ executor'[d] = executor[d] /\ child'[d] = child[d]
                    /\ answer'[d] = answer[d] /\ worked'[d] = worked[d]
<1>1. ASSUME NEW missing_cwd, AllUnavailable(c, r, done, missing_cwd)
      PROVE  Kept
  BY <1>1 DEF AllUnavailable, Answer, TypeOK
<1>2. ASSUME NEW missing_cwd, NEW e, Echo(c, r, done, missing_cwd, e)
      PROVE  Kept
  BY <1>2 DEF Echo, Answer, TypeOK
<1>3. ASSUME NEW missing_cwd, NEW e, Launch(c, r, done, missing_cwd, e)
      PROVE  Kept
  BY <1>3 DEF Launch, TypeOK
<1>. HIDE DEF Kept
<1>4. Kept
  BY <1>1, <1>2, <1>3 DEF TryNext
<1>. QED
  BY <1>4 DEF Kept

-----------------------------------------------------------------------------
(* Type correctness *)

LEMMA InitTyped == Init => TypeOK
BY DEF Init, TypeOK

(* An answered call keeps the other variables' types. *)
LEMMA AnsweredTyped ==
    ASSUME TypeOK, NEW c \in Calls, NEW r \in Requests, NEW a \in Results,
           Answer(c, r, a),
           \/ UNCHANGED request
           \/ request' = [request EXCEPT ![c] = r],
           request'[c] \in Requests,
           UNCHANGED <<tried, executor, child, worked>>
    PROVE  TypeOK'
<1>1. /\ results' \in [Ids -> Results \cup {None}]
      /\ answer' \in [Calls -> Results \cup {None}]
      /\ pc' = [pc EXCEPT ![c] = "returned"]
  BY AnswerEffect
<1>2. /\ pc' \in [Calls -> {"idle", "spawning", "running", "reaping"} \cup Ended]
      /\ request' \in [Calls -> Requests \cup {None}]
  BY <1>1 DEF TypeOK, Ended
<1>3. ASSUME NEW d \in Calls
      PROVE  /\ pc'[d] # "idle" => request'[d] \in Requests
             /\ pc'[d] \in {"spawning", "running", "reaping"} =>
                   executor'[d] \in Executors
             /\ pc'[d] \in {"running", "reaping"} => child'[d] \in Children
  BY <1>1 DEF TypeOK
<1>. QED
  BY <1>1, <1>2, <1>3 DEF TypeOK

(* So does a round of the loop. *)
LEMMA RoundKeepsTypes ==
    ASSUME TypeOK, NEW c \in Calls, NEW r \in Requests,
           NEW done \in SUBSET Executors, TryNext(c, r, done),
           \/ UNCHANGED request
           \/ request' = [request EXCEPT ![c] = r],
           request'[c] \in Requests
    PROVE  TypeOK'
<1>1. /\ results' \in [Ids -> Results \cup {None}]
      /\ answer' \in [Calls -> Results \cup {None}]
      /\ tried' \in [Calls -> SUBSET Executors]
      /\ executor' \in [Calls -> Executors \cup {None}]
      /\ worked' \in [Calls -> SUBSET Executors]
      /\ UNCHANGED child
      /\ \/ pc' = [pc EXCEPT ![c] = "returned"]
         \/ pc' = [pc EXCEPT ![c] = "spawning"] /\ executor'[c] \in Executors
  BY RoundTyped
<1>2. /\ pc' \in [Calls -> {"idle", "spawning", "running", "reaping"} \cup Ended]
      /\ request' \in [Calls -> Requests \cup {None}]
      /\ child' \in [Calls -> Children \cup {None}]
  BY <1>1 DEF TypeOK, Ended
<1>3. ASSUME NEW d \in Calls
      PROVE  /\ pc'[d] # "idle" => request'[d] \in Requests
             /\ pc'[d] \in {"spawning", "running", "reaping"} =>
                   executor'[d] \in Executors
             /\ pc'[d] \in {"running", "reaping"} => child'[d] \in Children
  <2>1. CASE d = c
    BY <1>1, <2>1 DEF TypeOK
  <2>2. CASE d # c
    BY <2>2, RoundElsewhere DEF TypeOK
  <2>. QED
    BY <2>1, <2>2
<1>. QED
  BY <1>1, <1>2, <1>3 DEF TypeOK

LEMMA StepTyped ==
    ASSUME TypeOK, NEW c \in Calls,
           \/ Submit(c)
           \/ SpawnFails(c) \/ SpawnRaises(c) \/ SpawnStarts(c)
           \/ Subprocess(c)
           \/ Communicated(c) \/ Deadline(c) \/ WaitReturns(c)
    PROVE  TypeOK'
<1>1. ASSUME NEW r \in Requests, SubmitRejected(c, r)
      PROVE  TypeOK'
  <2>1. request' = [request EXCEPT ![c] = r] /\ request'[c] \in Requests
    BY <1>1 DEF SubmitRejected, TypeOK
  <2>2. PICK why \in {"policy", "no_executor"} : RejectedBecause(c, r, why)
    BY <1>1 DEF SubmitRejected
  <2>. QED
    BY <2>1, <2>2, RejectionTyped, AnsweredTyped DEF RejectedBecause
<1>2. ASSUME NEW r \in Requests, SubmitRouted(c, r)
      PROVE  TypeOK'
  <2>1. request' = [request EXCEPT ![c] = r] /\ TryNext(c, r, {})
    BY <1>2 DEF SubmitRouted
  <2>2. request'[c] \in Requests
    BY <2>1 DEF TypeOK
  <2>. QED
    BY <2>1, <2>2, RoundKeepsTypes
<1>3. CASE SpawnFails(c)
  <2>1. /\ UNCHANGED request
        /\ TryNext(c, request[c], tried[c])
        /\ request[c] \in Requests /\ tried[c] \in SUBSET Executors
    BY <1>3 DEF SpawnFails, TypeOK
  <2>. QED
    BY <2>1, RoundKeepsTypes
<1>4. CASE SpawnRaises(c)
  BY <1>4 DEF SpawnRaises, Raise, TypeOK, Ended
<1>5. CASE SpawnStarts(c)
  <2>1. /\ pc' = [pc EXCEPT ![c] = "running"]
        /\ child' = [child EXCEPT ![c] = Child(None, TRUE, FALSE)]
        /\ worked' = [worked EXCEPT ![c] = @ \cup {executor[c]}]
        /\ UNCHANGED <<results, request, tried, executor, answer>>
        /\ request[c] \in Requests /\ executor[c] \in Executors
    BY <1>5 DEF SpawnStarts, TypeOK
  <2>2. Child(None, TRUE, FALSE) \in Children
    BY DEF Child, Children
  <2>. QED
    BY <2>1, <2>2 DEF TypeOK
<1>6. CASE Subprocess(c)
  <2>1. child[c] \in Children
    BY <1>6 DEF Subprocess, Exits, PipesClose, Forgotten, TypeOK
  <2>2. UNCHANGED SubprocessVars
          /\ \E new \in Children : child' = [child EXCEPT ![c] = new]
    <3>1. ASSUME NEW code \in ExitCodes, Exits(c, code)
          PROVE  child' = [child EXCEPT ![c] = [child[c] EXCEPT !.exit = code]]
                   /\ [child[c] EXCEPT !.exit = code] \in Children
      BY <2>1, <3>1 DEF Exits, Children
    <3>2. ASSUME PipesClose(c)
          PROVE  child' = [child EXCEPT ![c] = [child[c] EXCEPT !.held = FALSE]]
                   /\ [child[c] EXCEPT !.held = FALSE] \in Children
      BY <2>1, <3>2 DEF PipesClose, Children
    <3>3. ASSUME Forgotten(c)
          PROVE  child' = [child EXCEPT ![c] = [child[c] EXCEPT !.gone = TRUE]]
                   /\ [child[c] EXCEPT !.gone = TRUE] \in Children
      BY <2>1, <3>3 DEF Forgotten, Children
    <3>4. UNCHANGED SubprocessVars
      BY <1>6 DEF Subprocess, Exits, PipesClose, Forgotten
    <3>. QED
      BY <1>6, <3>1, <3>2, <3>3, <3>4 DEF Subprocess
  <2>. QED
    BY <2>2 DEF SubprocessVars, TypeOK
<1>7. CASE Communicated(c)
  <2>1. /\ request[c] \in Requests /\ executor[c] \in Executors
        /\ child[c].exit \in ExitCodes
    BY <1>7 DEF Communicated, Reaped, TypeOK, Children
  <2>. QED
    BY <1>7, <2>1, OutcomeTyped, AnsweredTyped DEF Communicated
<1>8. CASE DeadlineKills(c)
  BY <1>8 DEF DeadlineKills, TypeOK
<1>9. CASE DeadlineAfterExit(c) \/ WaitReturns(c)
  <2>1. TimedOut(c) /\ request[c] \in Requests /\ executor[c] \in Executors
    BY <1>9 DEF DeadlineAfterExit, WaitReturns, TypeOK
  <2>. QED
    BY <2>1, TimeoutTyped, AnsweredTyped DEF TimedOut
<1>10. CASE DeadlineTooLate(c)
  BY <1>10 DEF DeadlineTooLate, Raise, TypeOK, Ended
<1>. QED
  BY <1>1, <1>2, <1>3, <1>4, <1>5, <1>6, <1>7, <1>8, <1>9, <1>10
  DEF Submit, Deadline

LEMMA NextTyped == TypeOK /\ [Next]_vars => TypeOK'
<1>1. TypeOK /\ Next => TypeOK'
  BY StepTyped DEF Next
<1>2. TypeOK /\ UNCHANGED vars => TypeOK'
  BY DEF vars, TypeOK
<1>. QED
  BY <1>1, <1>2

(* The service's table, its coroutines and their subprocesses are well typed  *)
(* in every reachable state.                                                 *)
THEOREM TypeCorrect == Spec => []TypeOK
<1>. QED
  BY InitTyped, NextTyped, PTL DEF Spec

-----------------------------------------------------------------------------
(* One call *)

Step(c) ==
    \/ Submit(c)
    \/ SpawnFails(c) \/ SpawnRaises(c) \/ SpawnStarts(c)
    \/ Subprocess(c)
    \/ Communicated(c) \/ Deadline(c) \/ WaitReturns(c)

(* What the model knows of call c; executor c is the one it awaits.          *)
Kept(c) ==
    /\ pc'[c] = pc[c] /\ request'[c] = request[c] /\ tried'[c] = tried[c]
    /\ executor'[c] = executor[c] /\ child'[c] = child[c]
    /\ answer'[c] = answer[c] /\ worked'[c] = worked[c]

(* A step of one call leaves the others as they were. *)
LEMMA StepElsewhere ==
    ASSUME TypeOK, NEW c \in Calls, Step(c), NEW d \in Calls, d # c
    PROVE  Kept(d)
<1>1. ASSUME NEW r \in Requests, SubmitRejected(c, r)
      PROVE  Kept(d)
  BY <1>1 DEF SubmitRejected, RejectedBecause, Answer, Kept, TypeOK
<1>2. ASSUME NEW r \in Requests, SubmitRouted(c, r)
      PROVE  Kept(d)
  <2>1. TryNext(c, r, {}) /\ request'[d] = request[d]
    BY <1>2 DEF SubmitRouted, TypeOK
  <2>. QED
    BY <2>1, RoundElsewhere DEF Kept
<1>3. CASE SpawnFails(c)
  <2>1. TryNext(c, request[c], tried[c]) /\ request'[d] = request[d]
    BY <1>3 DEF SpawnFails
  <2>. QED
    BY <2>1, RoundElsewhere DEF Kept
<1>4. CASE SpawnRaises(c) \/ SpawnStarts(c)
  BY <1>4 DEF SpawnRaises, SpawnStarts, Raise, Kept, TypeOK
<1>5. CASE Subprocess(c)
  BY <1>5 DEF Subprocess, Exits, PipesClose, Forgotten, SubprocessVars, Kept,
              TypeOK
<1>6. CASE Communicated(c)
  BY <1>6 DEF Communicated, Answer, Kept, TypeOK
<1>7. CASE DeadlineKills(c)
  BY <1>7 DEF DeadlineKills, Kept, TypeOK
<1>8. CASE DeadlineAfterExit(c) \/ WaitReturns(c)
  BY <1>8 DEF DeadlineAfterExit, WaitReturns, TimedOut, Answer, Kept, TypeOK
<1>9. CASE DeadlineTooLate(c)
  BY <1>9 DEF DeadlineTooLate, Raise, Kept, TypeOK
<1>. QED
  BY <1>1, <1>2, <1>3, <1>4, <1>5, <1>6, <1>7, <1>8, <1>9
  DEF Step, Submit, Deadline

(* The answer to a call whose executor was awaited names that executor.      *)
LEMMA NamesExecutor ==
    ASSUME NEW r, NEW st, NEW e \in Executors, NEW code, NEW error
    PROVE  Result(r, st, e, code, error).executor = Config[e].name
BY ExecutorsAssumption DEF Result

LEMMA OutcomeNamesExecutor ==
    ASSUME NEW r, NEW e \in Executors, NEW code
    PROVE  Outcome(r, e, code).executor = Config[e].name
<1>1. CASE code = 0
  <2>1. Outcome(r, e, code) = Result(r, "succeeded", e, code, None)
    BY <1>1 DEF Outcome
  <2>. QED
    BY <2>1, NamesExecutor
<1>2. CASE code # 0
  <2>1. Outcome(r, e, code) = Result(r, "failed", e, code, "exit_code")
    BY <1>2 DEF Outcome
  <2>. QED
    BY <2>1, NamesExecutor
<1>. QED
  BY <1>1, <1>2

LEMMA AwaitedNamed ==
    ASSUME TypeOK, NEW c \in Calls, executor[c] \in Executors,
           \/ TimedOut(c)
           \/ \E code : Answer(c, request[c],
                               Outcome(request[c], executor[c], code))
    PROVE  answer'[c].executor = Config[executor[c]].name
<1>1. ASSUME NEW a, Answer(c, request[c], a)
      PROVE  answer'[c] = a
  BY <1>1 DEF Answer, TypeOK
<1>2. CASE TimedOut(c)
  <2>1. answer'[c] = Result(request[c], "failed", executor[c], None, "timeout")
    BY <1>1, <1>2 DEF TimedOut
  <2>. QED
    BY <2>1, NamesExecutor
<1>3. ASSUME NEW code,
             Answer(c, request[c], Outcome(request[c], executor[c], code))
      PROVE  answer'[c].executor = Config[executor[c]].name
  BY <1>1, <1>3, OutcomeNamesExecutor
<1>. QED
  BY <1>2, <1>3

-----------------------------------------------------------------------------
(* Work and subprocesses *)

(* How far a call has come says what has worked for it and what subprocess it *)
(* has.                                                                      *)
Unworked(c) == worked[c] = {} /\ child[c] = None

WorkOf(c) ==
    /\ pc[c] \in {"idle", "spawning"} => Unworked(c)
    /\ pc[c] \in {"running", "reaping"} => worked[c] = {executor[c]}
    /\ pc[c] \in Ended =>
          /\ worked[c] \subseteq {executor[c]}
          /\ child[c] # None => child[c].exit # None
    /\ pc[c] = "returned" =>
          \A e \in worked[c] : answer[c].executor = Config[e].name

WorkInv == \A c \in Calls : WorkOf(c)

(* A round of the loop ends without work, with the echo's, or at a spawn.    *)
LEMMA RoundWork ==
    ASSUME TypeOK, NEW c \in Calls, NEW r, NEW done, TryNext(c, r, done),
           Unworked(c)
    PROVE  WorkOf(c)'
<1>1. ASSUME NEW missing_cwd, AllUnavailable(c, r, done, missing_cwd)
      PROVE  WorkOf(c)'
  BY <1>1 DEF AllUnavailable, Answer, Unworked, WorkOf, TypeOK, Ended
<1>2. ASSUME NEW missing_cwd, NEW e \in Taker(r, done, missing_cwd),
             Echo(c, r, done, missing_cwd, e)
      PROVE  WorkOf(c)'
  <2>1. e \in Executors
    BY CandidatesBuilt DEF Taker
  <2>2. /\ pc'[c] = "returned" /\ worked'[c] = {e} /\ executor'[c] = e
        /\ child'[c] = None
        /\ answer'[c] = Result(r, "succeeded", e, 0, None)
    BY <1>2 DEF Echo, Answer, Unworked, TypeOK
  <2>3. answer'[c].executor = Config[e].name
    BY <2>1, <2>2, ExecutorsAssumption DEF Result
  <2>. QED
    BY <2>2, <2>3 DEF WorkOf
<1>3. ASSUME NEW missing_cwd, NEW e, Launch(c, r, done, missing_cwd, e)
      PROVE  WorkOf(c)'
  BY <1>3 DEF Launch, Unworked, WorkOf, TypeOK, Ended
<1>. QED
  BY <1>1, <1>2, <1>3 DEF TryNext

LEMMA StepWork ==
    ASSUME TypeOK, NEW c \in Calls, Step(c), WorkOf(c)
    PROVE  WorkOf(c)'
<1>1. ASSUME NEW r \in Requests, SubmitRejected(c, r)
      PROVE  WorkOf(c)'
  BY <1>1 DEF SubmitRejected, RejectedBecause, Answer, Unworked, WorkOf,
              TypeOK, Ended
<1>2. ASSUME NEW r \in Requests, SubmitRouted(c, r)
      PROVE  WorkOf(c)'
  BY <1>2, RoundWork DEF SubmitRouted, WorkOf
<1>3. CASE SpawnFails(c)
  BY <1>3, RoundWork DEF SpawnFails, WorkOf
<1>4. CASE SpawnRaises(c)
  BY <1>4 DEF SpawnRaises, Raise, Unworked, WorkOf, TypeOK, Ended
<1>5. CASE SpawnStarts(c)
  BY <1>5 DEF SpawnStarts, Unworked, WorkOf, TypeOK, Ended
<1>6. CASE Subprocess(c)
  <2>1. child[c] # None /\ UNCHANGED <<pc, worked, executor, answer>>
    BY <1>6 DEF Subprocess, Exits, PipesClose, Forgotten, SubprocessVars
  <2>2. child[c] \in Children
    BY <2>1 DEF TypeOK
  <2>3. child[c].exit # None => child'[c].exit = child[c].exit
    BY <1>6, <2>2 DEF Subprocess, Exits, PipesClose, Forgotten, TypeOK, Children
  <2>4. pc[c] \notin {"idle", "spawning"}
    BY <2>1 DEF WorkOf, Unworked
  <2>. QED
    BY <2>1, <2>3, <2>4 DEF WorkOf
<1>7. CASE Communicated(c)
  <2>1. /\ worked[c] = {executor[c]} /\ executor[c] \in Executors
        /\ child[c].exit # None
    BY <1>7 DEF Communicated, Reaped, WorkOf, TypeOK
  <2>2. answer'[c].executor = Config[executor[c]].name
    BY <1>7, <2>1, AwaitedNamed DEF Communicated
  <2>3. pc'[c] = "returned"
          /\ UNCHANGED <<executor, child, worked>>
    BY <1>7 DEF Communicated, Answer, TypeOK
  <2>. QED
    BY <2>1, <2>2, <2>3 DEF WorkOf
<1>8. CASE DeadlineKills(c)
  BY <1>8 DEF DeadlineKills, WorkOf, TypeOK, Ended
<1>9. CASE DeadlineAfterExit(c) \/ WaitReturns(c)
  <2>1. /\ worked[c] = {executor[c]} /\ executor[c] \in Executors
        /\ child[c].exit # None
        /\ TimedOut(c)
    BY <1>9 DEF DeadlineAfterExit, WaitReturns, Reaped, WorkOf, TypeOK
  <2>2. answer'[c].executor = Config[executor[c]].name
    BY <2>1, AwaitedNamed
  <2>3. pc'[c] = "returned"
          /\ UNCHANGED <<executor, child, worked>>
    BY <2>1 DEF TimedOut, Answer, TypeOK
  <2>. QED
    BY <2>1, <2>2, <2>3 DEF WorkOf
<1>10. CASE DeadlineTooLate(c)
  BY <1>10 DEF DeadlineTooLate, Reaped, Raise, WorkOf, TypeOK, Ended
<1>. QED
  BY <1>1, <1>2, <1>3, <1>4, <1>5, <1>6, <1>7, <1>8, <1>9, <1>10
  DEF Step, Submit, Deadline

(* The stage of every call tells its work and its subprocess, in every        *)
(* reachable state: the inductive invariant behind the two theorems below.   *)
THEOREM WorkInvariant == Spec => []WorkInv
<1>1. Init => WorkInv
  BY DEF Init, WorkInv, WorkOf, Unworked, Ended
<1>2. TypeOK /\ WorkInv /\ [Next]_vars => WorkInv'
  <2>1. ASSUME TypeOK, WorkInv, NEW c \in Calls, Step(c), NEW d \in Calls
        PROVE  WorkOf(d)'
    <3>1. CASE d = c
      BY <2>1, <3>1, StepWork DEF WorkInv
    <3>2. CASE d # c
      <4>1. Kept(d) /\ WorkOf(d)
        BY <2>1, <3>2, StepElsewhere DEF WorkInv
      <4>. QED
        BY <4>1 DEF Kept, WorkOf, Unworked
    <3>. QED
      BY <3>1, <3>2
  <2>2. WorkInv /\ UNCHANGED vars => WorkInv'
    BY DEF vars, WorkInv, WorkOf, Unworked
  <2>. QED
    BY <2>1, <2>2 DEF Next, Step, WorkInv
<1>. QED
  BY <1>1, <1>2, TypeCorrect, PTL DEF Spec

(* For one call at most one executor begins to work, and the answer names it: *)
(* what failed, timed out or was unavailable is never done over by another.  *)
THEOREM WorkOnce == Spec => []WorkStartsOnce
<1>1. TypeOK /\ WorkInv => WorkStartsOnce
  BY DEF TypeOK, WorkInv, WorkOf, Unworked, WorkStartsOnce, Ended
<1>. QED
  BY <1>1, WorkInvariant, TypeCorrect, PTL

(* No call ends while its subprocess runs. *)
THEOREM NoneRunning == Spec => []NoneLeftRunning
<1>1. WorkInv => NoneLeftRunning
  BY DEF WorkInv, WorkOf, NoneLeftRunning
<1>. QED
  BY <1>1, WorkInvariant, PTL

-----------------------------------------------------------------------------
(* Routing and policy *)

(* Executor e may begin request r, having been turned to in its turn. *)
Allowed(r, e) ==
    /\ PolicyAdmits(r)
    /\ e \in Candidates(r)
    /\ Config[e].type = "structured_process" =>
          /\ r.action.command \in Config[e].allowed_commands
          /\ r.action.env \subseteq Config[e].allowed_env

Chosen(r, turned, e) ==
    /\ e \in turned
    /\ Allowed(r, e)
    /\ \A f \in turned : ~Before(r, e, f)

Awaited(c) == IF pc[c] \in {"spawning", "running", "reaping"} THEN {executor[c]}
                                                            ELSE {}

(* The loop has turned to a beginning of the candidates, and what works or is *)
(* awaited was chosen.                                                       *)
RouteOf(c) ==
    /\ pc[c] = "idle" => tried[c] = {}
    /\ pc[c] = "spawning" => PolicyAdmits(request[c])
    /\ request[c] # None => Beginning(request[c], tried[c])
    /\ \A e \in worked[c] \cup Awaited(c) : Chosen(request[c], tried[c], e)

RouteInv == \A c \in Calls : RouteOf(c)

(* The policy of an executor's own is what Refuses checks. *)
LEMMA NotRefused ==
    ASSUME NEW r, PolicyAdmits(r), NEW e \in Candidates(r), NEW missing_cwd,
           ~Refuses(e, r, missing_cwd)
    PROVE  Allowed(r, e)
<1>1. CASE Config[e].type # "structured_process"
  BY <1>1 DEF Allowed
<1>2. CASE Config[e].type = "structured_process"
  <2>1. ~(IF r.action = None THEN TRUE
          ELSE \/ r.action.command \notin Config[e].allowed_commands
               \/ ~(r.action.env \subseteq Config[e].allowed_env))
    BY <1>2 DEF Refuses
  <2>. QED
    BY <2>1 DEF Allowed
<1>. QED
  BY <1>1, <1>2

LEMMA EmptyBeginning ==
    ASSUME NEW r
    PROVE  Beginning(r, {})
BY DEF Beginning

LEMMA RoundRoute ==
    ASSUME TypeOK, NEW c \in Calls, NEW r \in Requests, PolicyAdmits(r),
           NEW done, Beginning(r, done), TryNext(c, r, done), worked[c] = {}
    PROVE  /\ Beginning(r, tried'[c])
           /\ \A e \in worked'[c] \cup Awaited(c)' : Chosen(r, tried'[c], e)
<1>. DEFINE Goal == /\ Beginning(r, tried'[c])
                    /\ \A e \in worked'[c] \cup Awaited(c)' :
                          Chosen(r, tried'[c], e)
<1>1. r.preference \in Preferences /\ r.allow_fallback \in BOOLEAN
  BY RequestsAssumption
<1>2. ASSUME NEW missing_cwd, AllUnavailable(c, r, done, missing_cwd)
      PROVE  Goal
  <2>1. /\ tried'[c] = done \cup PassedOver(r, done, missing_cwd)
        /\ worked'[c] = {} /\ pc'[c] = "returned"
    BY <1>2 DEF AllUnavailable, Answer, TypeOK
  <2>. QED
    BY <1>1, <2>1, PassedOverBeginning DEF Awaited
<1>3. ASSUME NEW missing_cwd, NEW e \in Taker(r, done, missing_cwd)
      PROVE  LET turned == done \cup PassedOver(r, done, missing_cwd) \cup {e}
             IN  Beginning(r, turned) /\ Chosen(r, turned, e)
  <2>1. e \in Candidates(r) /\ ~Refuses(e, r, missing_cwd)
    BY <1>1, <1>3, TakerAccepts, CandidatesBuilt
  <2>2. Allowed(r, e)
    BY <2>1, NotRefused
  <2>. QED
    BY <1>1, <1>3, <2>2, TakerBeginning DEF Chosen
<1>4. ASSUME NEW missing_cwd, NEW e \in Taker(r, done, missing_cwd),
             Echo(c, r, done, missing_cwd, e)
      PROVE  Goal
  <2>1. /\ tried'[c] = done \cup PassedOver(r, done, missing_cwd) \cup {e}
        /\ worked'[c] = {e} /\ pc'[c] = "returned"
    BY <1>4 DEF Echo, Answer, TypeOK
  <2>. QED
    BY <1>3, <1>4, <2>1 DEF Awaited
<1>5. ASSUME NEW missing_cwd, NEW e \in Taker(r, done, missing_cwd),
             Launch(c, r, done, missing_cwd, e)
      PROVE  Goal
  <2>1. /\ tried'[c] = done \cup PassedOver(r, done, missing_cwd) \cup {e}
        /\ worked'[c] = {} /\ executor'[c] = e /\ pc'[c] = "spawning"
    BY <1>5 DEF Launch, TypeOK
  <2>. QED
    BY <1>3, <1>5, <2>1 DEF Awaited
<1>. HIDE DEF Goal
<1>6. Goal
  BY <1>2, <1>4, <1>5 DEF TryNext
<1>. QED
  BY <1>6 DEF Goal

LEMMA StepRoute ==
    ASSUME TypeOK, NEW c \in Calls, Step(c), WorkOf(c), RouteOf(c)
    PROVE  RouteOf(c)'
<1>1. ASSUME NEW r \in Requests, SubmitRejected(c, r)
      PROVE  RouteOf(c)'
  <2>1. /\ pc'[c] = "returned" /\ request'[c] = r
        /\ tried'[c] = {} /\ worked'[c] = {}
    BY <1>1 DEF SubmitRejected, RejectedBecause, Answer, RouteOf, WorkOf,
                Unworked, TypeOK
  <2>. QED
    BY <2>1, EmptyBeginning DEF RouteOf, Awaited
<1>2. ASSUME NEW r \in Requests, SubmitRouted(c, r)
      PROVE  RouteOf(c)'
  <2>1. /\ request'[c] = r /\ PolicyAdmits(r) /\ TryNext(c, r, {})
        /\ worked[c] = {}
    BY <1>2 DEF SubmitRouted, WorkOf, Unworked, TypeOK
  <2>2. /\ Beginning(r, tried'[c])
        /\ \A e \in worked'[c] \cup Awaited(c)' : Chosen(r, tried'[c], e)
    BY <2>1, EmptyBeginning, RoundRoute
  <2>3. pc'[c] # "idle"
    BY <2>1, RoundTyped DEF TypeOK
  <2>. QED
    BY <2>1, <2>2, <2>3 DEF RouteOf
<1>3. CASE SpawnFails(c)
  <2>1. /\ request[c] \in Requests /\ request'[c] = request[c]
        /\ PolicyAdmits(request[c])
        /\ Beginning(request[c], tried[c])
        /\ TryNext(c, request[c], tried[c])
        /\ worked[c] = {} /\ tried[c] \in SUBSET Executors
    BY <1>3, RequestTyped DEF SpawnFails, RouteOf, WorkOf, Unworked, TypeOK
  <2>2. /\ Beginning(request[c], tried'[c])
        /\ \A e \in worked'[c] \cup Awaited(c)' :
              Chosen(request[c], tried'[c], e)
    BY <2>1, RoundRoute
  <2>3. pc'[c] # "idle"
    BY <2>1, RoundTyped DEF TypeOK
  <2>. QED
    BY <2>1, <2>2, <2>3 DEF RouteOf
<1>4. ASSUME pc'[c] \notin {"idle", "spawning"},
             UNCHANGED <<request, tried, executor>>,
             worked'[c] \cup Awaited(c)' \subseteq worked[c] \cup Awaited(c)
      PROVE  RouteOf(c)'
  BY <1>4 DEF RouteOf
<1>5. CASE SpawnRaises(c)
  BY <1>4, <1>5 DEF SpawnRaises, Raise, Awaited, TypeOK
<1>6. CASE SpawnStarts(c)
  BY <1>4, <1>6 DEF SpawnStarts, Awaited, TypeOK
<1>7. CASE Subprocess(c)
  <2>1. UNCHANGED SubprocessVars
    BY <1>7 DEF Subprocess, Exits, PipesClose, Forgotten
  <2>. QED
    BY <2>1 DEF SubprocessVars, RouteOf, Awaited
<1>8. CASE Communicated(c)
  BY <1>4, <1>8 DEF Communicated, Answer, Awaited, TypeOK
<1>9. CASE DeadlineKills(c)
  BY <1>4, <1>9 DEF DeadlineKills, Awaited, TypeOK
<1>10. CASE DeadlineAfterExit(c) \/ WaitReturns(c)
  BY <1>4, <1>10 DEF DeadlineAfterExit, WaitReturns, TimedOut, Answer, Awaited,
                     TypeOK
<1>11. CASE DeadlineTooLate(c)
  BY <1>4, <1>11 DEF DeadlineTooLate, Raise, Awaited, TypeOK
<1>. QED
  BY <1>1, <1>2, <1>3, <1>5, <1>6, <1>7, <1>8, <1>9, <1>10, <1>11
  DEF Step, Submit, Deadline

(* The loop of submit keeps to the order of the sort key and to the owner's   *)
(* policy, through every failed spawn.                                       *)
THEOREM RouteInvariant == Spec => []RouteInv
<1>1. Init => RouteInv
  BY EmptyBeginning DEF Init, RouteInv, RouteOf, Awaited
<1>2. TypeOK /\ WorkInv /\ RouteInv /\ [Next]_vars => RouteInv'
  <2>1. ASSUME TypeOK, WorkInv, RouteInv, NEW c \in Calls, Step(c),
               NEW d \in Calls
        PROVE  RouteOf(d)'
    <3>1. CASE d = c
      BY <2>1, <3>1, StepRoute DEF RouteInv, WorkInv
    <3>2. CASE d # c
      <4>1. Kept(d) /\ RouteOf(d)
        BY <2>1, <3>2, StepElsewhere DEF RouteInv
      <4>. QED
        BY <4>1 DEF Kept, RouteOf, Awaited
    <3>. QED
      BY <3>1, <3>2
  <2>2. RouteInv /\ UNCHANGED vars => RouteInv'
    BY DEF vars, RouteInv, RouteOf, Awaited
  <2>. QED
    BY <2>1, <2>2 DEF Next, Step, RouteInv
<1>. QED
  BY <1>1, <1>2, WorkInvariant, TypeCorrect, PTL DEF Spec

(* Work begins only within the machine owner's policy and on an executor that *)
(* the request asked for and that takes the action.                          *)
THEOREM OnlyAllowed == Spec => []OnlyWhatIsAllowed
<1>1. TypeOK /\ WorkInv /\ RouteInv => OnlyWhatIsAllowed
  <2>. SUFFICES ASSUME TypeOK, WorkInv, RouteInv,
                       NEW c \in Calls, NEW e \in worked[c]
                PROVE  LET r == request[c]
                           x == Config[e]
                       IN  /\ r.risk \in {"read"}
                                \cup (IF AllowWrite THEN {"write"} ELSE {})
                                \cup (IF AllowPrivileged THEN {"privileged"} ELSE {})
                           /\ x.enabled
                           /\ r.capabilities \subseteq x.capabilities
                           /\ r.executor \in {None, x.name}
                           /\ x.type = "structured_process" =>
                                 /\ r.action.command \in x.allowed_commands
                                 /\ r.action.env \subseteq x.allowed_env
    BY DEF OnlyWhatIsAllowed
  <2>1. request[c] \in Requests
    BY DEF TypeOK, WorkInv, WorkOf, Unworked
  <2>2. Allowed(request[c], e)
    BY DEF RouteInv, RouteOf, Chosen
  <2>3. request[c].risk \in Risks
    BY <2>1, RequestsAssumption
  <2>. QED
    BY <2>2, <2>3 DEF Allowed, PolicyAdmits, Candidates, supports, Risks
<1>. QED
  BY <1>1, RouteInvariant, WorkInvariant, TypeCorrect, PTL

(* The preferences of the documentation are orders the sort key refines.     *)
LEMMA PreferredBefore ==
    ASSUME NEW r, r.preference \in Preferences,
           NEW e \in Executors, NEW f \in Executors, Preferred(r, e, f)
    PROVE  Before(r, e, f)
<1>. DEFINE x == Config[e]
            y == Config[f]
<1>1. {x.cost_tier, x.quality_tier, x.priority,
       y.cost_tier, y.quality_tier, y.priority} \subseteq Int
  BY ConfigAssumption
<1>2. CASE r.preference = "lowest_cost"
  <2>1. /\ Key(r, e)[1] = x.cost_tier /\ Key(r, e)[2] = -x.quality_tier
        /\ Key(r, f)[1] = y.cost_tier /\ Key(r, f)[2] = -y.quality_tier
    BY <1>2 DEF Key
  <2>2. \/ x.cost_tier < y.cost_tier
        \/ x.cost_tier = y.cost_tier /\ x.quality_tier > y.quality_tier
    BY <1>2 DEF Preferred
  <2>3. CASE Key(r, e)[1] < Key(r, f)[1]
    BY <2>3 DEF Before
  <2>4. CASE Key(r, e)[1] = Key(r, f)[1] /\ Key(r, e)[2] < Key(r, f)[2]
    BY <2>4 DEF Before
  <2>. HIDE DEF x, y
  <2>. QED
    BY <1>1, <2>1, <2>2, <2>3, <2>4
<1>3. CASE r.preference = "quality_first"
  <2>1. /\ Key(r, e)[1] = -x.quality_tier /\ Key(r, e)[2] = x.cost_tier
        /\ Key(r, f)[1] = -y.quality_tier /\ Key(r, f)[2] = y.cost_tier
    BY <1>3 DEF Key
  <2>2. \/ x.quality_tier > y.quality_tier
        \/ x.quality_tier = y.quality_tier /\ x.cost_tier < y.cost_tier
    BY <1>3 DEF Preferred
  <2>3. CASE Key(r, e)[1] < Key(r, f)[1]
    BY <2>3 DEF Before
  <2>4. CASE Key(r, e)[1] = Key(r, f)[1] /\ Key(r, e)[2] < Key(r, f)[2]
    BY <2>4 DEF Before
  <2>. HIDE DEF x, y
  <2>. QED
    BY <1>1, <2>1, <2>2, <2>3, <2>4
<1>4. CASE r.preference = "specific"
  <2>1. Key(r, e)[1] = x.priority /\ Key(r, f)[1] = y.priority
    BY <1>4 DEF Key
  <2>2. x.priority < y.priority
    BY <1>4 DEF Preferred
  <2>. QED
    BY <2>1, <2>2 DEF Before
<1>5. CASE r.preference = "local_first"
  <2>1. /\ Key(r, e)[1] = x.priority /\ Key(r, e)[2] = x.cost_tier
        /\ Key(r, e)[3] = -x.quality_tier
        /\ Key(r, f)[1] = y.priority /\ Key(r, f)[2] = y.cost_tier
        /\ Key(r, f)[3] = -y.quality_tier
    BY <1>5 DEF Key
  <2>2. \/ x.priority < y.priority
        \/ x.priority = y.priority /\ x.cost_tier < y.cost_tier
        \/ /\ x.priority = y.priority /\ x.cost_tier = y.cost_tier
           /\ x.quality_tier > y.quality_tier
    BY <1>5 DEF Preferred
  <2>3. CASE Key(r, e)[1] < Key(r, f)[1]
    BY <2>3 DEF Before
  <2>4. CASE Key(r, e)[1] = Key(r, f)[1] /\ Key(r, e)[2] < Key(r, f)[2]
    BY <2>4 DEF Before
  <2>5. CASE /\ Key(r, e)[1] = Key(r, f)[1] /\ Key(r, e)[2] = Key(r, f)[2]
             /\ Key(r, e)[3] < Key(r, f)[3]
    <3>1. \A m \in 1 .. 2 : Key(r, e)[m] = Key(r, f)[m]
      BY <2>5
    <3>. QED
      BY <2>5, <3>1 DEF Before
  <2>. HIDE DEF x, y
  <2>. QED
    BY <1>1, <2>1, <2>2, <2>3, <2>4, <2>5
<1>. QED
  BY <1>2, <1>3, <1>4, <1>5 DEF Preferences

(* For every configuration and every request, executors are turned to best    *)
(* first, and, without fallback, at most one is.                             *)
THEOREM InOrder == Spec => []BestFirst
<1>1. TypeOK /\ RouteInv => BestFirst
  <2>. SUFFICES ASSUME TypeOK, RouteInv, NEW c \in Calls, request[c] # None
                PROVE  /\ \A e \in tried[c],
                             f \in Candidates(request[c]) \ tried[c] :
                             ~Preferred(request[c], f, e)
                       /\ \A e \in worked[c], f \in tried[c] :
                             ~Preferred(request[c], e, f)
                       /\ ~request[c].allow_fallback =>
                             \A e, f \in tried[c] : e = f
    BY DEF BestFirst
  <2>. DEFINE r == request[c]
  <2>1. r.preference \in Preferences
    BY RequestTyped DEF TypeOK
  <2>2. /\ Beginning(r, tried[c])
        /\ \A e \in worked[c] : Chosen(r, tried[c], e)
    BY DEF RouteInv, RouteOf
  <2>. HIDE DEF r
  <2>3. tried[c] \subseteq Candidates(r) /\ Candidates(r) \subseteq Executors
    BY <2>2, CandidatesBuilt DEF Beginning
  <2>4. ASSUME NEW e \in tried[c], NEW f \in Candidates(r) \ tried[c]
        PROVE  ~Preferred(r, f, e)
    BY <2>1, <2>2, <2>3, <2>4, PreferredBefore DEF Beginning
  <2>5. ASSUME NEW e \in worked[c], NEW f \in tried[c]
        PROVE  ~Preferred(r, e, f)
    <3>1. e \in tried[c] /\ ~Before(r, e, f)
      BY <2>2, <2>5 DEF Chosen
    <3>. QED
      BY <2>1, <2>3, <2>5, <3>1, PreferredBefore
  <2>6. ASSUME ~r.allow_fallback, NEW e \in tried[c], NEW f \in tried[c], e # f
        PROVE  FALSE
    <3>1. First(r, e) /\ First(r, f)
      BY <2>2, <2>6 DEF Beginning
    <3>2. Before(r, e, f) /\ Before(r, f, e)
      BY <2>3, <2>6, <3>1 DEF First
    <3>. QED
      BY <2>1, <2>3, <2>6, <3>2, BeforeAsymmetric
  <2>. QED
    BY <2>4, <2>5, <2>6 DEF r
<1>. QED
  BY <1>1, RouteInvariant, TypeCorrect, PTL

-----------------------------------------------------------------------------
(* Answers and what happened *)

(* The five ways to an answer: rejected; nobody took it; an echo; a process   *)
(* that was heard to its end; a process that was not.                        *)
IsRejected(c) ==
    /\ answer[c].state = "rejected" /\ answer[c].exit_code = None
    /\ answer[c].error \in {"policy", "no_executor"}
    /\ tried[c] = {} /\ worked[c] = {}

NobodyTookIt(c) ==
    /\ answer[c].state = "failed" /\ answer[c].exit_code = None
    /\ answer[c].error = "unavailable"
    /\ tried[c] # {} /\ worked[c] = {}
    /\ request[c].allow_fallback => tried[c] = Candidates(request[c])

WasEchoed(c) ==
    /\ answer[c].state = "succeeded" /\ answer[c].exit_code = 0
    /\ answer[c].error = None
    /\ \E e \in worked[c] : Config[e].type = "echo"

WasHeard(c) ==
    /\ answer[c].state = IF child[c].exit = 0 THEN "succeeded" ELSE "failed"
    /\ answer[c].exit_code = child[c].exit
    /\ answer[c].error = IF child[c].exit = 0 THEN None ELSE "exit_code"
    /\ Reaped(c) /\ worked[c] # {}

TimedItOut(c) ==
    /\ answer[c].state = "failed" /\ answer[c].exit_code = None
    /\ answer[c].error = "timeout"
    /\ Reaped(c)

AccountOf(c) ==
    pc[c] = "returned" => \/ IsRejected(c) \/ NobodyTookIt(c) \/ WasEchoed(c)
                          \/ WasHeard(c) \/ TimedItOut(c)

AccountInv == \A c \in Calls : AccountOf(c)

LEMMA ResultFields ==
    ASSUME NEW r, NEW st, NEW exec, NEW code, NEW error
    PROVE  /\ Result(r, st, exec, code, error).state = st
           /\ Result(r, st, exec, code, error).exit_code = code
           /\ Result(r, st, exec, code, error).error = error
BY DEF Result

(* A round of the loop that answers has gone to everybody it could. *)
LEMMA RoundAccount ==
    ASSUME TypeOK, NEW c \in Calls, NEW r \in Requests, Candidates(r) # {},
           NEW done, Beginning(r, done), TryNext(c, r, done), worked[c] = {},
           request'[c] = r
    PROVE  AccountOf(c)'
<1>1. ASSUME NEW missing_cwd, AllUnavailable(c, r, done, missing_cwd)
      PROVE  NobodyTookIt(c)'
  <2>. DEFINE passed == PassedOver(r, done, missing_cwd)
  <2>1. /\ tried'[c] = done \cup passed /\ worked'[c] = {}
        /\ answer'[c] = Result(r, "failed", None, None, "unavailable")
        /\ Taker(r, done, missing_cwd) = {}
    BY <1>1 DEF AllUnavailable, Answer, TypeOK
  <2>2. r.preference \in Preferences
    BY RequestTyped
  <2>3. passed = Reachable(r, done)
    BY <2>1, <2>2, NoTaker
  <2>. HIDE DEF passed
  <2>4. done \cup passed # {}
    BY <2>2, <2>3, SomeReachable
  <2>5. r.allow_fallback => done \cup passed = Candidates(r)
    BY <2>3 DEF Reachable, Beginning
  <2>. QED
    BY <2>1, <2>4, <2>5, ResultFields DEF NobodyTookIt
<1>2. ASSUME NEW missing_cwd, NEW e, Echo(c, r, done, missing_cwd, e)
      PROVE  WasEchoed(c)'
  <2>1. /\ Config[e].type = "echo" /\ e \in worked'[c]
        /\ answer'[c] = Result(r, "succeeded", e, 0, None)
    BY <1>2 DEF Echo, Answer, TypeOK
  <2>. QED
    BY <2>1, ResultFields DEF WasEchoed
<1>3. ASSUME NEW missing_cwd, NEW e, Launch(c, r, done, missing_cwd, e)
      PROVE  pc'[c] # "returned"
  BY <1>3 DEF Launch, TypeOK
<1>. QED
  BY <1>1, <1>2, <1>3 DEF TryNext, AccountOf

LEMMA StepAccount ==
    ASSUME TypeOK, NEW c \in Calls, Step(c), WorkOf(c), RouteOf(c), AccountOf(c)
    PROVE  AccountOf(c)'
<1>1. ASSUME NEW r \in Requests, SubmitRejected(c, r)
      PROVE  AccountOf(c)'
  <2>1. PICK why \in {"policy", "no_executor"} : RejectedBecause(c, r, why)
    BY <1>1 DEF SubmitRejected
  <2>2. /\ answer'[c] = Result(r, "rejected", None, None, why)
        /\ tried'[c] = {} /\ worked'[c] = {}
    BY <1>1, <2>1 DEF SubmitRejected, RejectedBecause, Answer, RouteOf, WorkOf,
                      Unworked, TypeOK
  <2>3. /\ answer'[c].state = "rejected" /\ answer'[c].exit_code = None
        /\ answer'[c].error = why
    BY <2>2, ResultFields
  <2>4. IsRejected(c)'
    BY <2>1, <2>2, <2>3 DEF IsRejected
  <2>. QED
    BY <2>4 DEF AccountOf
<1>2. ASSUME NEW r \in Requests, SubmitRouted(c, r)
      PROVE  AccountOf(c)'
  <2>1. /\ Candidates(r) # {} /\ TryNext(c, r, {}) /\ worked[c] = {}
        /\ request'[c] = r
    BY <1>2 DEF SubmitRouted, WorkOf, Unworked, TypeOK
  <2>. QED
    BY <2>1, EmptyBeginning, RoundAccount
<1>3. CASE SpawnFails(c)
  <2>1. /\ request[c] \in Requests /\ request'[c] = request[c]
        /\ TryNext(c, request[c], tried[c]) /\ worked[c] = {}
        /\ executor[c] \in Awaited(c)
    BY <1>3 DEF SpawnFails, Awaited, WorkOf, Unworked, TypeOK
  <2>2. Beginning(request[c], tried[c]) /\ executor[c] \in tried[c]
    BY <2>1, RequestTyped DEF RouteOf, Chosen
  <2>3. Candidates(request[c]) # {}
    BY <2>2 DEF Beginning
  <2>. QED
    BY <2>1, <2>2, <2>3, RoundAccount
<1>4. CASE SpawnRaises(c) \/ SpawnStarts(c) \/ DeadlineKills(c)
             \/ DeadlineTooLate(c)
  BY <1>4 DEF SpawnRaises, SpawnStarts, DeadlineKills, DeadlineTooLate, Raise,
              AccountOf, TypeOK
<1>5. CASE Subprocess(c)
  <2>1. child[c] # None /\ UNCHANGED SubprocessVars
    BY <1>5 DEF Subprocess, Exits, PipesClose, Forgotten
  <2>2. child[c] \in Children
    BY <2>1 DEF TypeOK
  <2>3. child'[c] \in Children
          /\ (child[c].exit # None => child'[c].exit = child[c].exit)
    <3>1. ASSUME NEW code \in ExitCodes, Exits(c, code)
          PROVE  /\ child'[c] = [child[c] EXCEPT !.exit = code]
                 /\ child[c].exit = None
      BY <3>1 DEF Exits, TypeOK
    <3>2. ASSUME PipesClose(c)
          PROVE  child'[c] = [child[c] EXCEPT !.held = FALSE]
      BY <3>2 DEF PipesClose, TypeOK
    <3>3. ASSUME Forgotten(c)
          PROVE  child'[c] = [child[c] EXCEPT !.gone = TRUE]
      BY <3>3 DEF Forgotten, TypeOK
    <3>4. ASSUME NEW code \in ExitCodes
          PROVE  [child[c] EXCEPT !.exit = code] \in Children
      BY <2>2 DEF Children
    <3>5. /\ [child[c] EXCEPT !.held = FALSE] \in Children
          /\ [child[c] EXCEPT !.gone = TRUE] \in Children
          /\ [child[c] EXCEPT !.held = FALSE].exit = child[c].exit
          /\ [child[c] EXCEPT !.gone = TRUE].exit = child[c].exit
      BY <2>2 DEF Children
    <3>. QED
      BY <1>5, <3>1, <3>2, <3>3, <3>4, <3>5 DEF Subprocess
  <2>4. pc[c] = "returned" => Reaped(c)
    BY <2>1 DEF WorkOf, Ended, Reaped
  <2>5. Reaped(c) => Reaped(c)' /\ child'[c].exit = child[c].exit
    BY <2>3, NoneAssumption DEF Reaped
  <2>6. UNCHANGED <<pc, answer, tried, worked, request>>
    BY <2>1 DEF SubprocessVars
  <2>7. CASE pc[c] = "returned"
    <3>1. Reaped(c)' /\ child'[c].exit = child[c].exit
      BY <2>4, <2>5, <2>7
    <3>2. \/ IsRejected(c) \/ NobodyTookIt(c) \/ WasEchoed(c)
          \/ WasHeard(c) \/ TimedItOut(c)
      BY <2>7 DEF AccountOf
    <3>3. IsRejected(c) \/ NobodyTookIt(c) \/ WasEchoed(c) => AccountOf(c)'
      BY <2>6 DEF AccountOf, IsRejected, NobodyTookIt, WasEchoed
    <3>4. WasHeard(c) => WasHeard(c)'
      BY <2>6, <3>1 DEF WasHeard
    <3>5. TimedItOut(c) => TimedItOut(c)'
      BY <2>6, <3>1 DEF TimedItOut
    <3>. QED
      BY <3>2, <3>3, <3>4, <3>5 DEF AccountOf
  <2>8. CASE pc[c] # "returned"
    BY <2>6, <2>8 DEF AccountOf
  <2>. QED
    BY <2>7, <2>8
<1>6. CASE Communicated(c)
  <2>1. /\ Reaped(c) /\ worked[c] = {executor[c]}
        /\ answer'[c] = Outcome(request[c], executor[c], child[c].exit)
        /\ UNCHANGED <<child, worked>>
    BY <1>6 DEF Communicated, Answer, WorkOf, TypeOK
  <2>2. CASE child[c].exit = 0
    <3>1. answer'[c] = Result(request[c], "succeeded", executor[c], child[c].exit,
                              None)
      BY <2>1, <2>2 DEF Outcome
    <3>2. /\ answer'[c].state = "succeeded" /\ answer'[c].exit_code = child[c].exit
          /\ answer'[c].error = None
      BY <3>1, ResultFields
    <3>3. WasHeard(c)'
      BY <2>1, <2>2, <3>2 DEF WasHeard, Reaped
    <3>. QED
      BY <3>3 DEF AccountOf
  <2>3. CASE child[c].exit # 0
    <3>1. answer'[c] = Result(request[c], "failed", executor[c], child[c].exit,
                              "exit_code")
      BY <2>1, <2>3 DEF Outcome
    <3>2. /\ answer'[c].state = "failed" /\ answer'[c].exit_code = child[c].exit
          /\ answer'[c].error = "exit_code"
      BY <3>1 DEF Result
    <3>3. WasHeard(c)'
      BY <2>1, <2>3, <3>2 DEF WasHeard, Reaped
    <3>. QED
      BY <3>3 DEF AccountOf
  <2>. QED
    BY <2>2, <2>3
<1>7. CASE DeadlineAfterExit(c) \/ WaitReturns(c)
  <2>1. Reaped(c) /\ TimedOut(c) /\ UNCHANGED child
    BY <1>7 DEF DeadlineAfterExit, WaitReturns, TimedOut
  <2>2. answer'[c] = Result(request[c], "failed", executor[c], None, "timeout")
    BY <2>1 DEF TimedOut, Answer, TypeOK
  <2>3. TimedItOut(c)'
    BY <2>1, <2>2, ResultFields DEF TimedItOut, Reaped
  <2>. QED
    BY <2>3 DEF AccountOf
<1>. QED
  BY <1>1, <1>2, <1>3, <1>4, <1>5, <1>6, <1>7 DEF Step, Submit, Deadline

LEMMA AccountTrue ==
    ASSUME TypeOK, AccountInv
    PROVE  AnswersAreTrue
<1>. SUFFICES ASSUME NEW c \in Calls, pc[c] = "returned"
              PROVE  LET a == answer[c]
                     IN  /\ a.state = "succeeded" <=> a.exit_code = 0
                         /\ a.exit_code # None <=>
                               \E e \in worked[c] :
                                  \/ Config[e].type = "echo" /\ a.exit_code = 0
                                  \/ Reaped(c) /\ a.exit_code = child[c].exit
                                     /\ a.error # "timeout"
                         /\ a.error = "timeout" => Reaped(c)
                         /\ a.error = "unavailable" =>
                               /\ worked[c] = {}
                               /\ tried[c] # {}
                               /\ request[c].allow_fallback =>
                                     tried[c] = Candidates(request[c])
                         /\ a.state = "rejected" =>
                               tried[c] = {} /\ worked[c] = {}
  BY DEF AnswersAreTrue
<1>1. /\ None # 0
      /\ None \notin {"timeout", "unavailable"}
  BY ExitCodesAssumption, NoneAssumption DEF Errors
<1>2. CASE IsRejected(c)
  BY <1>1, <1>2 DEF IsRejected
<1>3. CASE NobodyTookIt(c)
  BY <1>1, <1>3 DEF NobodyTookIt
<1>4. CASE WasEchoed(c)
  BY <1>1, <1>4 DEF WasEchoed
<1>5. CASE WasHeard(c)
  BY <1>1, <1>5 DEF WasHeard, Reaped
<1>6. CASE TimedItOut(c)
  BY <1>1, <1>6 DEF TimedItOut
<1>. QED
  BY <1>2, <1>3, <1>4, <1>5, <1>6 DEF AccountInv, AccountOf

(* Every answer tells what happened: success and exit codes are the process's *)
(* own, a timeout is reported only of a process that is gone, and nothing is  *)
(* called unavailable before every executor that may be asked was.           *)
THEOREM AnswersTrue == Spec => []AnswersAreTrue
<1>1. Init => AccountInv
  BY DEF Init, AccountInv, AccountOf
<1>2. TypeOK /\ WorkInv /\ RouteInv /\ AccountInv /\ [Next]_vars => AccountInv'
  <2>1. ASSUME TypeOK, WorkInv, RouteInv, AccountInv, NEW c \in Calls, Step(c),
               NEW d \in Calls
        PROVE  AccountOf(d)'
    <3>1. CASE d = c
      BY <2>1, <3>1, StepAccount DEF RouteInv, WorkInv, AccountInv
    <3>2. CASE d # c
      <4>1. Kept(d) /\ AccountOf(d)
        BY <2>1, <3>2, StepElsewhere DEF AccountInv
      <4>. QED
        BY <4>1 DEF Kept, AccountOf, IsRejected, NobodyTookIt, WasEchoed, WasHeard,
                    TimedItOut, Reaped
    <3>. QED
      BY <3>1, <3>2
  <2>2. AccountInv /\ UNCHANGED vars => AccountInv'
    BY DEF vars, AccountInv, AccountOf, IsRejected, NobodyTookIt, WasEchoed,
           WasHeard, TimedItOut, Reaped
  <2>. QED
    BY <2>1, <2>2 DEF Next, Step, AccountInv
<1>. QED
  BY <1>1, <1>2, AccountTrue, RouteInvariant, WorkInvariant, TypeCorrect, PTL
  DEF Spec

-----------------------------------------------------------------------------
(* Reading an answer back *)

(* What is under an id was put there by a call that brought it. *)
Written(i) ==
    \E d \in Calls : /\ pc[d] = "returned"
                     /\ request[d].id = i
                     /\ answer[d] = results[i]

TableInv ==
    /\ \A i \in Ids : results[i] = None \/ Written(i)
    /\ \A c \in Calls : pc[c] = "returned" => Written(request[c].id)
    /\ \A c \in Calls : pc[c] # "returned" => answer[c] = None

(* The call is answered, goes on without an answer, or stays where it was.    *)
IsAnswered(c) ==
    \E r \in Requests : request'[c] = r /\ \E a : Answer(c, r, a)
GoesOn(c) == UNCHANGED <<results, answer>> /\ pc'[c] # "returned"
StaysPut == UNCHANGED <<results, answer, request, pc>>
Advances(c) ==
    /\ pc[c] \in Ended => StaysPut
    /\ IsAnswered(c) \/ GoesOn(c) \/ StaysPut

(* Every step answers its call, or changes no answer and no row of the table. *)
LEMMA StepAdvances ==
    ASSUME TypeOK, NEW c \in Calls, Step(c)
    PROVE  Advances(c)
<1>1. ASSUME NEW r \in Requests, NEW done, TryNext(c, r, done)
      PROVE  \/ \E a : Answer(c, r, a)
             \/ GoesOn(c)
  <2>1. ASSUME NEW missing_cwd, AllUnavailable(c, r, done, missing_cwd)
        PROVE  \E a : Answer(c, r, a)
    BY <2>1 DEF AllUnavailable
  <2>2. ASSUME NEW missing_cwd, NEW e, Echo(c, r, done, missing_cwd, e)
        PROVE  \E a : Answer(c, r, a)
    BY <2>2 DEF Echo
  <2>3. ASSUME NEW missing_cwd, NEW e, Launch(c, r, done, missing_cwd, e)
        PROVE  GoesOn(c)
    BY <2>3 DEF Launch, GoesOn, TypeOK
  <2>. QED
    BY <1>1, <2>1, <2>2, <2>3 DEF TryNext
<1>2. ASSUME NEW r \in Requests, SubmitRejected(c, r)
      PROVE  Advances(c)
  BY <1>2 DEF SubmitRejected, RejectedBecause, Advances,
              IsAnswered, TypeOK, Ended
<1>3. ASSUME NEW r \in Requests, SubmitRouted(c, r)
      PROVE  Advances(c)
  <2>1. pc[c] = "idle" /\ request'[c] = r /\ TryNext(c, r, {})
    BY <1>3 DEF SubmitRouted, TypeOK
  <2>2. IsAnswered(c) \/ GoesOn(c)
    BY <1>1, <2>1 DEF IsAnswered
  <2>. QED
    BY <2>1, <2>2 DEF Advances, IsAnswered, Ended
<1>4. CASE SpawnFails(c)
  <2>1. /\ pc[c] = "spawning" /\ request'[c] = request[c]
        /\ request[c] \in Requests /\ TryNext(c, request[c], tried[c])
    BY <1>4 DEF SpawnFails, TypeOK
  <2>2. IsAnswered(c) \/ GoesOn(c)
    BY <1>1, <2>1 DEF IsAnswered
  <2>. QED
    BY <2>1, <2>2 DEF Advances, IsAnswered, Ended
<1>5. CASE SpawnRaises(c) \/ SpawnStarts(c) \/ DeadlineKills(c)
             \/ DeadlineTooLate(c)
  BY <1>5 DEF SpawnRaises, SpawnStarts, DeadlineKills, DeadlineTooLate, Raise,
              Advances, GoesOn, TypeOK, Ended
<1>6. CASE Subprocess(c)
  BY <1>6 DEF Subprocess, Exits, PipesClose, Forgotten, SubprocessVars,
              Advances, StaysPut
<1>7. CASE Communicated(c)
  <2>1. pc[c] = "running" /\ request'[c] = request[c] /\ request[c] \in Requests
    BY <1>7 DEF Communicated, TypeOK
  <2>2. \E a : Answer(c, request[c], a)
    BY <1>7 DEF Communicated
  <2>. QED
    BY <2>1, <2>2 DEF Advances, IsAnswered, Ended
<1>8. CASE DeadlineAfterExit(c) \/ WaitReturns(c)
  <2>1. /\ pc[c] \in {"running", "reaping"} /\ request'[c] = request[c]
        /\ request[c] \in Requests /\ TimedOut(c)
    BY <1>8 DEF DeadlineAfterExit, WaitReturns, TimedOut, TypeOK
  <2>2. \E a : Answer(c, request[c], a)
    BY <2>1 DEF TimedOut
  <2>. QED
    BY <2>1, <2>2 DEF Advances, IsAnswered, Ended
<1>. QED
  BY <1>2, <1>3, <1>4, <1>5, <1>6, <1>7, <1>8 DEF Step, Submit, Deadline

LEMMA StepTable ==
    ASSUME TypeOK, TableInv, NEW c \in Calls, Step(c)
    PROVE  TableInv'
<1>1. \A d \in Calls \ {c} : Kept(d)
  BY StepElsewhere
<1>2. ASSUME pc[c] \notin Ended, NEW r \in Requests, NEW a, Answer(c, r, a),
             request'[c] = r
      PROVE  TableInv'
  <2>1. /\ results' = [results EXCEPT ![r.id] = a]
        /\ answer'[c] = a /\ pc'[c] = "returned"
        /\ results'[r.id] = a
    BY <1>2, RequestTyped DEF Answer, TypeOK
  <2>2. Written(r.id)'
    BY <1>2, <2>1 DEF Written
  <2>3. ASSUME NEW i \in Ids, i # r.id, Written(i)
        PROVE  Written(i)'
    <3>1. PICK d \in Calls : /\ pc[d] = "returned" /\ request[d].id = i
                             /\ answer[d] = results[i]
      BY <2>3 DEF Written
    <3>2. d # c /\ results'[i] = results[i]
      BY <1>2, <2>1, <2>3, <3>1 DEF Ended, TypeOK
    <3>. QED
      BY <1>1, <3>1, <3>2 DEF Kept, Written
  <2>4. \A i \in Ids : results'[i] = None \/ Written(i)'
    BY <2>1, <2>2, <2>3 DEF TableInv, TypeOK
  <2>5. ASSUME NEW d \in Calls, pc'[d] = "returned"
        PROVE  Written(request[d].id)'
    <3>1. CASE d = c
      BY <1>2, <2>2, <3>1
    <3>2. CASE d # c
      <4>1. pc[d] = "returned" /\ request'[d] = request[d]
              /\ request[d] \in Requests
        BY <1>1, <2>5, <3>2 DEF Kept, TypeOK
      <4>. QED
        BY <2>2, <2>3, <4>1, RequestTyped DEF TableInv
    <3>. QED
      BY <3>1, <3>2
  <2>6. \A d \in Calls : pc'[d] # "returned" => answer'[d] = None
    BY <1>1, <2>1 DEF Kept, TableInv
  <2>. QED
    BY <2>4, <2>5, <2>6 DEF TableInv, Written
<1>3. ASSUME pc[c] \notin Ended, UNCHANGED <<results, answer>>,
             pc'[c] # "returned"
      PROVE  TableInv'
  <2>1. ASSUME NEW i, Written(i)
        PROVE  Written(i)'
    BY <1>1, <1>3, <2>1 DEF Written, Kept, Ended
  <2>2. \A i \in Ids : results'[i] = None \/ Written(i)'
    BY <1>3, <2>1 DEF TableInv
  <2>3. ASSUME NEW d \in Calls, pc'[d] = "returned"
        PROVE  Written(request[d].id)'
    BY <1>1, <1>3, <2>1, <2>3 DEF Kept, TableInv
  <2>4. \A d \in Calls : pc'[d] # "returned" => answer'[d] = None
    BY <1>1, <1>3 DEF Kept, TableInv, Ended
  <2>. QED
    BY <2>2, <2>3, <2>4 DEF TableInv, Written
<1>4. CASE UNCHANGED <<results, answer, request, pc>>
  BY <1>4 DEF TableInv, Written
<1>. QED
  BY <1>2, <1>3, <1>4, StepAdvances
  DEF Advances, IsAnswered, GoesOn, StaysPut

(* A caller that has an id to itself reads, under any interleaving with other *)
(* calls, exactly the answer it got, and nothing before it got one.          *)
THEOREM ReadsBack == Spec => []OwnIdReadsBack
<1>1. Init => TableInv
  BY DEF Init, TableInv
<1>2. TypeOK /\ TableInv /\ [Next]_vars => TableInv'
  <2>1. TableInv /\ UNCHANGED vars => TableInv'
    BY DEF vars, TableInv, Written
  <2>. QED
    BY <2>1, StepTable DEF Next, Step
<1>3. TypeOK /\ TableInv => OwnIdReadsBack
  <2>. SUFFICES ASSUME TypeOK, TableInv, NEW c \in Calls, request[c] # None,
                       \A d \in Calls \ {c} :
                          request[d] # None => request[d].id # request[c].id
                PROVE  results[request[c].id] = answer[c]
    BY DEF OwnIdReadsBack, get
  <2>1. request[c] \in Requests /\ request[c].id \in Ids
    BY RequestTyped DEF TypeOK
  <2>2. ASSUME Written(request[c].id)
        PROVE  pc[c] = "returned" /\ results[request[c].id] = answer[c]
    <3>1. PICK d \in Calls : /\ pc[d] = "returned"
                             /\ request[d].id = request[c].id
                             /\ answer[d] = results[request[c].id]
      BY <2>2 DEF Written
    <3>2. request[d] # None
      BY <3>1, RequestTyped DEF TypeOK
    <3>3. d = c
      BY <3>1, <3>2
    <3>. QED
      BY <3>1, <3>3
  <2>. QED
    BY <2>1, <2>2 DEF TableInv
<1>. QED
  BY <1>1, <1>2, <1>3, TypeCorrect, PTL DEF Spec

-----------------------------------------------------------------------------
(* The service implements DelegationTable *)

phase == [c \in Calls |-> Phase(pc[c])]
asked == [c \in Calls |-> IdOf(request[c])]

LEMMA Phases ==
    /\ Phase("idle") = "idle"
    /\ Phase("returned") = "answered"
    /\ Phase("raised") = "failed"
    /\ \A p \in {"spawning", "running", "reaping"} : Phase(p) = "pending"
BY DEF Phase

(* A step of one call moves its own phase and id only. *)
LEMMA OwnPhase ==
    ASSUME TypeOK, NEW c \in Calls, Step(c)
    PROVE  /\ phase' = [phase EXCEPT ![c] = Phase(pc'[c])]
           /\ asked' = [asked EXCEPT ![c] = IdOf(request'[c])]
<1>1. \A d \in Calls \ {c} : pc'[d] = pc[d] /\ request'[d] = request[d]
  BY StepElsewhere DEF Kept
<1>. QED
  BY <1>1 DEF phase, asked

(* A call that answers is replied to under its id. *)
LEMMA AnswerReplies ==
    ASSUME TypeOK, NEW c \in Calls, Step(c), NEW r \in Requests,
           NEW a \in Results, Answer(c, r, a),
           a.delegation_id = r.id,
           request'[c] = r,
           \/ pc[c] = "idle"
           \/ pc[c] \in {"spawning", "running", "reaping"} /\ request[c] = r
    PROVE  Table!Next
<1>1. /\ phase' = [phase EXCEPT ![c] = "answered"]
      /\ asked' = [asked EXCEPT ![c] = r.id]
  BY OwnPhase, AnswerEffect, Phases, RequestTyped DEF IdOf
<1>2. \/ phase[c] = "idle"
      \/ phase[c] = "pending" /\ asked[c] = r.id
  BY Phases, RequestTyped DEF phase, asked, IdOf
<1>3. a.state \in {"succeeded", "failed", "rejected"}
  BY DEF Results, ResultsWith
<1>4. /\ answer' = [answer EXCEPT ![c] = a]
      /\ results' = [results EXCEPT ![r.id] = a]
  BY DEF Answer
<1>5. Table!Reply(c, r.id, a)
  BY <1>1, <1>2, <1>3, <1>4 DEF Table!Reply, Table!For, phase, asked
<1>. QED
  BY <1>5, RequestTyped DEF Table!Next

(* A call that fails does so without a trace. *)
LEMMA RaiseFails ==
    ASSUME TypeOK, NEW c \in Calls, Step(c), Raise(c), UNCHANGED request,
           pc[c] \in {"spawning", "running", "reaping"}
    PROVE  Table!Next
<1>1. phase' = [phase EXCEPT ![c] = "failed"] /\ phase[c] = "pending"
  <2>1. pc'[c] = "raised"
    BY DEF Raise, TypeOK
  <2>. QED
    BY <2>1, OwnPhase, Phases DEF phase
<1>2. UNCHANGED <<asked, answer, results>>
  BY DEF Raise, asked
<1>3. Table!Fail(c)
  BY <1>1, <1>2 DEF Table!Fail, phase, asked
<1>. QED
  BY <1>3 DEF Table!Next

(* What moves a pending call on is a stutter. *)
LEMMA PendingStutters ==
    ASSUME TypeOK, NEW c \in Calls, Step(c), UNCHANGED <<request, answer, results>>,
           Phase(pc'[c]) = Phase(pc[c])
    PROVE  UNCHANGED Table!vars
<1>1. UNCHANGED phase
  BY OwnPhase DEF phase
<1>2. UNCHANGED asked
  BY DEF asked
<1>. QED
  BY <1>1, <1>2 DEF Table!vars, phase, asked

(* A round of the loop replies to the call, accepts it or leaves it pending. *)
LEMMA RoundRefines ==
    ASSUME TypeOK, NEW c \in Calls, Step(c), NEW r \in Requests, NEW done,
           TryNext(c, r, done), request'[c] = r,
           \/ pc[c] = "idle"
           \/ pc[c] = "spawning" /\ request[c] = r
    PROVE  [Table!Next]_(Table!vars)
<1>1. ASSUME NEW missing_cwd, AllUnavailable(c, r, done, missing_cwd)
      PROVE  Table!Next
  <2>. DEFINE a == Result(r, "failed", None, None, "unavailable")
  <2>1. Answer(c, r, a) /\ a \in Results /\ a.delegation_id = r.id
    BY <1>1, UnavailableTyped DEF AllUnavailable, Result
  <2>. QED
    BY <2>1, AnswerReplies
<1>2. ASSUME NEW missing_cwd, NEW e \in Taker(r, done, missing_cwd),
             Echo(c, r, done, missing_cwd, e)
      PROVE  Table!Next
  <2>. DEFINE a == Result(r, "succeeded", e, 0, None)
  <2>1. e \in Executors
    BY CandidatesBuilt DEF Taker
  <2>2. Answer(c, r, a) /\ a \in Results /\ a.delegation_id = r.id
    BY <1>2, <2>1, EchoTyped DEF Echo, Result
  <2>. QED
    BY <2>2, AnswerReplies
<1>3. ASSUME NEW missing_cwd, NEW e, Launch(c, r, done, missing_cwd, e)
      PROVE  [Table!Next]_(Table!vars)
  <2>1. pc'[c] = "spawning" /\ UNCHANGED <<answer, results>>
    BY <1>3 DEF Launch, TypeOK
  <2>2. /\ phase' = [phase EXCEPT ![c] = "pending"]
        /\ asked' = [asked EXCEPT ![c] = r.id]
    BY <2>1, OwnPhase, Phases, RequestTyped DEF IdOf
  <2>3. CASE pc[c] = "idle"
    <3>1. phase[c] = "idle"
      BY <2>3, Phases DEF phase
    <3>2. Table!Accept(c, r.id)
      BY <2>1, <2>2, <3>1 DEF Table!Accept, Table!For, phase, asked
    <3>. QED
      BY <3>2, RequestTyped DEF Table!Next
  <2>4. CASE pc[c] = "spawning" /\ request[c] = r
    <3>1. phase[c] = "pending" /\ asked[c] = r.id
      BY <2>4, Phases, RequestTyped DEF phase, asked, IdOf
    <3>2. UNCHANGED <<phase, asked>>
      BY <2>2, <3>1 DEF phase, asked
    <3>. QED
      BY <2>1, <3>2 DEF Table!vars, phase, asked
  <2>. QED
    BY <2>3, <2>4
<1>. QED
  BY <1>1, <1>2, <1>3 DEF TryNext

LEMMA StepRefines ==
    ASSUME TypeOK, NEW c \in Calls, Step(c)
    PROVE  [Table!Next]_(Table!vars)
<1>1. ASSUME NEW r \in Requests, SubmitRejected(c, r)
      PROVE  Table!Next
  <2>1. PICK why \in {"policy", "no_executor"} : RejectedBecause(c, r, why)
    BY <1>1 DEF SubmitRejected
  <2>. DEFINE a == Result(r, "rejected", None, None, why)
  <2>2. Answer(c, r, a) /\ a \in Results /\ a.delegation_id = r.id
    BY <2>1, RejectionTyped DEF RejectedBecause, Result
  <2>3. pc[c] = "idle" /\ request'[c] = r
    BY <1>1 DEF SubmitRejected, TypeOK
  <2>. QED
    BY <2>2, <2>3, AnswerReplies
<1>2. ASSUME NEW r \in Requests, SubmitRouted(c, r)
      PROVE  [Table!Next]_(Table!vars)
  <2>1. pc[c] = "idle" /\ request'[c] = r /\ TryNext(c, r, {})
    BY <1>2 DEF SubmitRouted, TypeOK
  <2>. QED
    BY <2>1, RoundRefines
<1>3. CASE SpawnFails(c)
  <2>1. /\ pc[c] = "spawning" /\ request'[c] = request[c]
        /\ request[c] \in Requests
        /\ TryNext(c, request[c], tried[c])
    BY <1>3 DEF SpawnFails, TypeOK
  <2>. QED
    BY <2>1, RoundRefines
<1>4. CASE SpawnRaises(c) \/ DeadlineTooLate(c)
  <2>1. Raise(c) /\ UNCHANGED request /\ pc[c] \in {"spawning", "running"}
    BY <1>4 DEF SpawnRaises, DeadlineTooLate
  <2>. QED
    BY <2>1, RaiseFails
<1>5. CASE SpawnStarts(c) \/ DeadlineKills(c)
  <2>1. /\ UNCHANGED <<request, answer, results>>
        /\ pc[c] \in {"spawning", "running"} /\ pc'[c] \in {"running", "reaping"}
    BY <1>5 DEF SpawnStarts, DeadlineKills, TypeOK
  <2>. QED
    BY <2>1, Phases, PendingStutters
<1>6. CASE Subprocess(c)
  <2>1. UNCHANGED <<pc, request, answer, results>>
    BY <1>6 DEF Subprocess, Exits, PipesClose, Forgotten, SubprocessVars
  <2>. QED
    BY <2>1, PendingStutters
<1>7. CASE Communicated(c)
  <2>1. /\ pc[c] = "running" /\ request'[c] = request[c]
        /\ request[c] \in Requests /\ executor[c] \in Executors
        /\ child[c].exit \in ExitCodes
    BY <1>7 DEF Communicated, Reaped, TypeOK, Children
  <2>. DEFINE a == Outcome(request[c], executor[c], child[c].exit)
  <2>2. Answer(c, request[c], a) /\ a \in Results
    BY <1>7, <2>1, OutcomeTyped DEF Communicated
  <2>3. a.delegation_id = request[c].id
    BY DEF Outcome, Result
  <2>. QED
    BY <2>1, <2>2, <2>3, AnswerReplies
<1>8. CASE DeadlineAfterExit(c) \/ WaitReturns(c)
  <2>1. /\ pc[c] \in {"running", "reaping"} /\ request'[c] = request[c]
        /\ request[c] \in Requests /\ executor[c] \in Executors
        /\ TimedOut(c)
    BY <1>8 DEF DeadlineAfterExit, WaitReturns, TimedOut, TypeOK
  <2>. DEFINE a == Result(request[c], "failed", executor[c], None, "timeout")
  <2>2. Answer(c, request[c], a) /\ a \in Results
          /\ a.delegation_id = request[c].id
    BY <2>1, TimeoutTyped DEF TimedOut, Result
  <2>. QED
    BY <2>1, <2>2, AnswerReplies
<1>. QED
  BY <1>1, <1>2, <1>3, <1>4, <1>5, <1>6, <1>7, <1>8 DEF Step, Submit, Deadline

(* Policy, routing, fallback, subprocesses and deadlines only delay a reply   *)
(* or let a call fail: for any calls and any executors the service is the    *)
(* abstract table.                                                           *)
THEOREM Implementation == Spec => ImplementsTable
<1>1. Init => Table!Init
  <2>1. Init => phase = [c \in Calls |-> "idle"] /\ asked = [c \in Calls |-> None]
    BY Phases DEF Init, phase, asked, IdOf
  <2>. QED
    BY <2>1 DEF Init, Table!Init, phase, asked
<1>2. TypeOK /\ [Next]_vars => [Table!Next]_(Table!vars)
  <2>1. UNCHANGED vars => UNCHANGED Table!vars
    BY DEF vars, Table!vars
  <2>. QED
    BY <2>1, StepRefines DEF Next, Step
<1>. QED
  BY <1>1, <1>2, TypeCorrect, PTL DEF Spec, ImplementsTable, Table!Spec
=============================================================================
