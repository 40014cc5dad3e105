------------------------- MODULE AttachCourier_proofs -------------------------
(***************************************************************************)
(* The gateway accepts exactly the receipts it is owed (AttachCourier), for *)
(* every value of the constants: any jobs, plans, issuers, handles,        *)
(* policies and constraints, any one mistake of the deployment's and any   *)
(* one alteration on the way.                                              *)
(***************************************************************************)
EXTENDS AttachCourier, TLAPS, SequenceTheorems
-----------------------------------------------------------------------------
(* Receipts *)

(* A plan written is normalized step by step. *)
Normal(p) == [i \in DOMAIN p |-> NormalStep[p[i]]]

LEMMA PlanNormalized ==
    ASSUME NEW d, NEW p, NEW v
    PROVE  NormalizedPlan(Manifest(d, p, v)) = Normal(p)
BY DEF NormalizedPlan, Manifest, Normal

LEMMA ListLength ==
    ASSUME NEW n \in Nat, NEW f, f = [i \in 1 .. n |-> f[i]]
    PROVE  Len(f) = n
<1>. DEFINE S == {f[i] : i \in 1 .. n}
<1>1. f \in [1 .. n -> S]
  OBVIOUS
<1>2. f \in Seq(S)
  BY <1>1, SeqDef
<1>3. DOMAIN f = 1 .. Len(f) /\ Len(f) \in Nat
  BY <1>2, LenProperties
<1>. QED
  BY <1>1, <1>3

(* What the deployment states, with its mistakes: the fields of issue, of   *)
(* which the staging reference, the plan's hash, the steps and the replay   *)
(* domain may disagree with the others.                                     *)
Says(issuer, j, d, ref, handle, hash, q, from, to, domain) ==
    [issuer |-> issuer, job_id |-> j, generation |-> 1,
     artifact_digest |-> d, staged_ref |-> ref, mount_handle |-> handle,
     verifier |-> "verifier", plan_hash |-> hash,
     steps |-> VerifiedSteps(Normal(q)), issued_at |-> from,
     expires_at |-> to, replay_domain |-> domain]

LEMMA StatedSays ==
    ASSUME NEW st \in Stated
    PROVE  \E issuer \in DOMAIN Keys, j \in Jobs, d \in Digests,
              handle \in Handles, q \in Plans, from \in 0 .. 1, to \in 0 .. 3 :
              \E ref, hash, domain :
                 st = Says(issuer, j, d, ref, handle, hash, q, from, to, domain)
<1>1. ASSUME NEW base \in Statements
      PROVE  \E issuer \in DOMAIN Keys, j \in Jobs, d \in Digests, p \in Plans,
                handle \in Handles, from \in 0 .. 1, to \in 0 .. 3 :
                base = Says(issuer, j, d, "cas:1", handle,
                            plan_hash_for_plan(Normal(p)), p, from, to,
                            attachment_replay_domain(j, 1, d))
  BY PlanNormalized DEF Statements, IssuedStatement, issue, Says
<1>2. CASE st \in Statements
  BY <1>1, <1>2
<1>3. ASSUME NEW base \in Statements, st \in Mistakes(base)
      PROVE  \E issuer \in DOMAIN Keys, j \in Jobs, d \in Digests,
                handle \in Handles, q \in Plans, from \in 0 .. 1, to \in 0 .. 3 :
                \E ref, hash, domain :
                   st = Says(issuer, j, d, ref, handle, hash, q, from, to, domain)
  <2>1. PICK issuer \in DOMAIN Keys, j \in Jobs, d \in Digests, p \in Plans,
             handle \in Handles, from \in 0 .. 1, to \in 0 .. 3 :
           base = Says(issuer, j, d, "cas:1", handle,
                       plan_hash_for_plan(Normal(p)), p, from, to,
                       attachment_replay_domain(j, 1, d))
    BY <1>1
  <2>2. \/ st = [base EXCEPT !.staged_ref = "cas:2"]
        \/ \E q \in Plans : st = [base EXCEPT !.plan_hash = plan_hash_for_plan(Normal(q))]
        \/ \E q \in Plans : st = [base EXCEPT !.steps = VerifiedSteps(Normal(q))]
        \/ \E i, e : st = [base EXCEPT !.replay_domain = attachment_replay_domain(i, 1, e)]
    BY <1>3, PlanNormalized DEF Mistakes
  <2>3. CASE st = [base EXCEPT !.staged_ref = "cas:2"]
    <3>1. st = Says(issuer, j, d, "cas:2", handle,
                    plan_hash_for_plan(Normal(p)), p, from, to,
                    attachment_replay_domain(j, 1, d))
      BY <2>1, <2>3 DEF Says
    <3>. QED
      BY <3>1
  <2>4. ASSUME NEW q \in Plans,
               st = [base EXCEPT !.plan_hash = plan_hash_for_plan(Normal(q))]
        PROVE  st = Says(issuer, j, d, "cas:1", handle,
                         plan_hash_for_plan(Normal(q)), p, from, to,
                         attachment_replay_domain(j, 1, d))
    BY <2>1, <2>4 DEF Says
  <2>5. ASSUME NEW q \in Plans,
               st = [base EXCEPT !.steps = VerifiedSteps(Normal(q))]
        PROVE  st = Says(issuer, j, d, "cas:1", handle,
                         plan_hash_for_plan(Normal(p)), q, from, to,
                         attachment_replay_domain(j, 1, d))
    BY <2>1, <2>5 DEF Says
  <2>6. ASSUME NEW i, NEW e,
               st = [base EXCEPT !.replay_domain = attachment_replay_domain(i, 1, e)]
        PROVE  st = Says(issuer, j, d, "cas:1", handle,
                         plan_hash_for_plan(Normal(p)), p, from, to,
                         attachment_replay_domain(i, 1, e))
    BY <2>1, <2>6 DEF Says
  <2>. QED
    BY <2>2, <2>3, <2>4, <2>5, <2>6
<1>. QED
  BY <1>2, <1>3 DEF Stated

(* The receipt the deployment issues for a statement. *)
Issued(st) ==
    IF kind = "hmac" THEN issue_statement(st.issuer, Keys[st.issuer], st)
    ELSE [f \in StatementFields \cup {"mac", "receipt_ref"} |->
            CASE f = "mac" -> None
              [] f = "receipt_ref" -> Ref
              [] OTHER -> st[f]]

(* A statement has its fields and no other. *)
LEMMA StatementShape ==
    ASSUME NEW st \in Stated
    PROVE  [f \in StatementFields |-> st[f]] = st
<1>1. PICK issuer, j, d, ref, handle, hash, q, from, to, domain :
         st = Says(issuer, j, d, ref, handle, hash, q, from, to, domain)
  BY StatedSays
<1>2. DOMAIN st = StatementFields
  BY <1>1 DEF Says, StatementFields
<1>3. st = [f \in DOMAIN st |-> st[f]]
  BY <1>1 DEF Says
<1>. QED
  BY <1>2, <1>3

LEMMA IssuedFacts ==
    ASSUME NEW st \in Stated
    PROVE  /\ DOMAIN Issued(st) = StatementFields \cup {"mac", "receipt_ref"}
           /\ \A f \in StatementFields : Issued(st)[f] = st[f]
           /\ receipt_statement_from_receipt(Issued(st)) = st
           /\ Issued(st).mac = IF kind = "hmac"
                                 THEN _receipt_mac(Keys[st.issuer], st) ELSE None
           /\ Issued(st).receipt_ref = IF kind = "hmac" THEN None ELSE Ref
<1>1. [f \in StatementFields |-> st[f]] = st
  BY StatementShape
<1>2. "mac" \notin StatementFields /\ "receipt_ref" \notin StatementFields
  BY DEF StatementFields
<1>3. [f \in StatementFields |-> IF f = "issuer" THEN st.issuer ELSE st[f]] = st
  <2>1. [f \in StatementFields |-> IF f = "issuer" THEN st.issuer ELSE st[f]]
          = [f \in StatementFields |-> st[f]]
    OBVIOUS
  <2>. QED
    BY <1>1, <2>1
<1>4. /\ DOMAIN Issued(st) = StatementFields \cup {"mac", "receipt_ref"}
      /\ \A f \in StatementFields : Issued(st)[f] = st[f]
      /\ Issued(st).mac = IF kind = "hmac"
                            THEN _receipt_mac(Keys[st.issuer], st) ELSE None
      /\ Issued(st).receipt_ref = IF kind = "hmac" THEN None ELSE Ref
  BY <1>2, <1>3 DEF Issued, issue_statement
<1>5. receipt_statement_from_receipt(Issued(st)) = [f \in StatementFields |-> st[f]]
  BY <1>4 DEF receipt_statement_from_receipt
<1>. QED
  BY <1>1, <1>4, <1>5

(* A stated plan has a step, and one step less is another plan. *)
LEMMA StepsStated ==
    ASSUME NEW st \in Statements
    PROVE  Tail(st.steps) # st.steps
<1>1. PICK issuer \in DOMAIN Keys, j \in Jobs, d \in Digests, p \in Plans,
           handle \in Handles, from \in 0 .. 1, to \in 0 .. 3 :
         st = IssuedStatement(issuer, j, d, "cas:1", handle, p, from, to)
  BY DEF Statements
<1>. DEFINE plan == NormalizedPlan(Manifest(d, p, None))
            steps == VerifiedSteps(plan)
            S == {steps[i] : i \in DOMAIN p}
<1>2. st.steps = steps
  BY <1>1 DEF IssuedStatement, issue
<1>3. p \in Seq(DOMAIN NormalStep) /\ p # <<>>
  BY PlansAssumption
<1>4. DOMAIN p = 1 .. Len(p) /\ Len(p) \in Nat /\ Len(p) # 0
  BY <1>3, LenProperties, EmptySeq
<1>5. DOMAIN steps = DOMAIN p
  BY DEF VerifiedSteps, NormalizedPlan, Manifest
<1>6. steps \in [1 .. Len(p) -> S]
  <2>1. steps = [i \in DOMAIN steps |-> steps[i]]
    BY DEF VerifiedSteps
  <2>. HIDE DEF steps
  <2>. QED
    BY <1>4, <1>5, <2>1
<1>. HIDE DEF steps, S
<1>7. steps \in Seq(S)
  BY <1>4, <1>6, SeqDef
<1>8. Len(steps) = Len(p)
  BY <1>4, <1>5, <1>7, LenProperties
<1>9. steps # <<>>
  BY <1>4, <1>8, EmptySeq
<1>10. Len(Tail(steps)) = Len(steps) - 1
  BY <1>7, <1>9, HeadTailProperties
<1>. QED
  BY <1>2, <1>4, <1>8, <1>10

LEMMA StatementsStated == Statements \subseteq Stated
BY DEF Stated

(* What alters a receipt makes it say something else, or spoils what         *)
(* authenticates it.                                                        *)
LEMMA AlteredReceipt ==
    ASSUME kind \in {"hmac", "opaque"}, NEW st \in Statements,
           NEW r \in Alterations(Issued(st))
    PROVE  \/ /\ receipt_statement_from_receipt(r) # st
              /\ r.mac = Issued(st).mac /\ r.receipt_ref = Issued(st).receipt_ref
           \/ /\ receipt_statement_from_receipt(r) = st
              /\ kind = "hmac" /\ r.mac = Wrong
           \/ kind = "opaque" /\ r.receipt_ref = Wrong
<1>. DEFINE receipt == Issued(st)
<1>1. /\ DOMAIN receipt = StatementFields \cup {"mac", "receipt_ref"}
      /\ \A f \in StatementFields : receipt[f] = st[f]
      /\ receipt.mac = IF kind = "hmac"
                         THEN _receipt_mac(Keys[st.issuer], st) ELSE None
  BY IssuedFacts, StatementsStated
<1>2. ASSUME NEW f \in StatementFields, NEW v, v # st[f],
             r = [receipt EXCEPT ![f] = v]
      PROVE  /\ receipt_statement_from_receipt(r) # st
             /\ r.mac = receipt.mac /\ r.receipt_ref = receipt.receipt_ref
  <2>1. f # "mac" /\ f # "receipt_ref"
    BY DEF StatementFields
  <2>2. r[f] = v
    BY <1>1, <1>2
  <2>3. receipt_statement_from_receipt(r)[f] = v
    BY <2>2 DEF receipt_statement_from_receipt
  <2>. HIDE DEF receipt
  <2>. QED
    BY <1>2, <2>1, <2>3
<1>3. CASE \E f \in {"issuer", "job_id", "generation", "artifact_digest",
                     "staged_ref", "mount_handle", "verifier", "plan_hash",
                     "replay_domain"} : r = [receipt EXCEPT ![f] = Wrong]
  <2>1. PICK f \in StatementFields : r = [receipt EXCEPT ![f] = Wrong]
    BY <1>3 DEF StatementFields
  <2>2. Wrong # st[f]
    BY WrongAssumption, StatementsStated
  <2>. QED
    BY <1>2, <2>1, <2>2
<1>4. CASE \/ r = [receipt EXCEPT !.expires_at = @ + 1]
           \/ r = [receipt EXCEPT !.issued_at = @ + 1]
           \/ r = [receipt EXCEPT !.steps = Tail(@)]
  <2>1. PICK issuer \in DOMAIN Keys, j \in Jobs, d \in Digests, p \in Plans,
             handle \in Handles, from \in 0 .. 1, to \in 0 .. 3 :
           st = IssuedStatement(issuer, j, d, "cas:1", handle, p, from, to)
    BY DEF Statements
  <2>2. st.issued_at = from /\ st.expires_at = to
    BY <2>1 DEF IssuedStatement, issue
  <2>3. st.issued_at + 1 # st.issued_at /\ st.expires_at + 1 # st.expires_at
    BY <2>2
  <2>4. "expires_at" \in StatementFields /\ "issued_at" \in StatementFields
        /\ "steps" \in StatementFields
    BY DEF StatementFields
  <2>5. \E f \in StatementFields : \E v :
           v # st[f] /\ r = [receipt EXCEPT ![f] = v]
    BY <1>1, <1>4, <2>3, <2>4, StepsStated
  <2>. QED
    BY <1>2, <2>5
<1>5. CASE receipt.mac # None /\ r = [receipt EXCEPT !.mac = Wrong]
  <2>1. r.mac = Wrong
    BY <1>1, <1>5
  <2>2. kind = "hmac"
    BY <1>1, <1>5
  <2>3. \A f \in StatementFields : r[f] = receipt[f]
    <3>1. "mac" \notin StatementFields
      BY DEF StatementFields
    <3>. HIDE DEF receipt
    <3>. QED
      BY <1>1, <1>5, <3>1
  <2>4. receipt_statement_from_receipt(r) = receipt_statement_from_receipt(receipt)
    BY <2>3 DEF receipt_statement_from_receipt
  <2>. QED
    BY <2>1, <2>2, <2>4, IssuedFacts, StatementsStated
<1>6. CASE receipt.mac = None /\ r = [receipt EXCEPT !.receipt_ref = Wrong]
  <2>1. r.receipt_ref = Wrong
    BY <1>1, <1>6
  <2>2. kind = "opaque"
    BY <1>1, <1>6, WrongAssumption, StatementsStated
  <2>. QED
    BY <2>1, <2>2
<1>. QED
  BY <1>3, <1>4, <1>5, <1>6 DEF Alterations
-----------------------------------------------------------------------------
(* The request on its way *)

(* What the deployment stated was issued and sent as it was, unless altered. *)
Carries(st) ==
    /\ mistaken \/ st \in Statements
    /\ altered => ~mistaken
    /\ step = "stated" => request.receipt = st
    /\ (step # "stated" /\ ~altered) => request.receipt = Issued(st)
    /\ altered => step \in {"sent", "judged"}
                    /\ request.receipt \in Alterations(Issued(st))
    /\ (step # "stated" /\ kind = "opaque") => directory = [x \in {Ref} |-> st]

(* The client asks for a payload it staged, with a plan of the deployment's. *)
AsksFor(d, p, v) ==
    /\ request.manifest = Manifest(d, p, v)
    /\ request.staged = [ref |-> "cas:1", digest |-> d, size |-> 1]

(* What is in the gateway's hands comes from one statement, and the verdict  *)
(* is the one on it.                                                        *)
CourierInv ==
    /\ TypeOK
    /\ DOMAIN request =
         {"manifest", "staged", "receipt", "constraints", "expected_generation"}
    /\ \E st \in Stated : Carries(st)
    /\ \E d \in Digests, p \in Plans, v \in FieldValues : AsksFor(d, p, v)
    /\ step = "judged" =>
         verdict = AttachVerdict(request, Authentic, Commit, job_policy)

(* Issuing and altering depend on the gateway's kind alone, which stays. *)
LEMMA AlterationsStay ==
    ASSUME UNCHANGED kind, NEW st
    PROVE  /\ Issued(st)' = Issued(st)
           /\ Alterations(Issued(st))' = Alterations(Issued(st))
<1>1. Issued(st)' = Issued(st)
  BY DEF Issued
<1>2. Alterations(Issued(st))' = Alterations(Issued(st))
  BY <1>1 DEF Alterations
<1>. QED
  BY <1>1, <1>2

LEMMA InitCourier == Init => CourierInv
<1>. SUFFICES ASSUME Init PROVE CourierInv
  OBVIOUS
<1>1. PICK st \in Statements, d \in Digests, p \in Plans, v \in FieldValues,
           c \in Constraints :
         request = [manifest |-> Manifest(d, p, v),
                    staged |-> [ref |-> "cas:1", digest |-> d, size |-> 1],
                    receipt |-> st,
                    constraints |-> c, expected_generation |-> 1]
  BY DEF Init
<1>2. Carries(st) /\ AsksFor(d, p, v)
  BY <1>1 DEF Init, Carries, AsksFor
<1>3. TypeOK
  <2>1. now \in 0 .. MaxNow
    BY MaxNowAssumption DEF Init
  <2>2. altered \in BOOLEAN /\ mistaken \in BOOLEAN
    BY DEF Init
  <2>. QED
    BY <2>1, <2>2 DEF Init, TypeOK
<1>4. DOMAIN request =
        {"manifest", "staged", "receipt", "constraints", "expected_generation"}
  BY <1>1
<1>. QED
  BY <1>2, <1>3, <1>4, StatementsStated DEF CourierInv, Init

LEMMA NextKeepsCourier == CourierInv /\ [Next]_vars => CourierInv'
<1>. SUFFICES ASSUME CourierInv, [Next]_vars PROVE CourierInv'
  OBVIOUS
<1>1. /\ TypeOK
      /\ DOMAIN request =
           {"manifest", "staged", "receipt", "constraints", "expected_generation"}
  BY DEF CourierInv
<1>2. PICK st \in Stated : Carries(st)
  BY DEF CourierInv
<1>3. PICK d \in Digests, p \in Plans, v \in FieldValues : AsksFor(d, p, v)
  BY DEF CourierInv
<1>7. CASE Mistake
  <2>1. /\ step = "stated" /\ ~mistaken /\ mistaken' /\ ~altered
        /\ UNCHANGED <<kind, step, altered, directory>>
        /\ request.receipt = st /\ st \in Statements
    BY <1>2, <1>7 DEF Mistake, Carries
  <2>2. PICK su \in Mistakes(st) : request' = [request EXCEPT !.receipt = su]
    BY <1>7, <2>1 DEF Mistake
  <2>3. su \in Stated
    BY <2>1 DEF Stated
  <2>4. Carries(su)'
    BY <1>1, <2>1, <2>2 DEF Carries
  <2>5. AsksFor(d, p, v)'
    BY <1>1, <1>3, <2>2 DEF AsksFor
  <2>6. TypeOK'
    BY <1>1, <1>7 DEF TypeOK, Mistake
  <2>. QED
    BY <1>1, <2>1, <2>2, <2>3, <2>4, <2>5, <2>6 DEF CourierInv
<1>4. CASE Issue
  <2>1. /\ step = "stated" /\ step' = "issued"
        /\ UNCHANGED <<kind, mistaken, altered>>
        /\ request.receipt = st /\ ~altered
    BY <1>2, <1>4 DEF Issue, Carries
  <2>2. /\ request' = [request EXCEPT !.receipt = Issued(st)]
        /\ kind = "opaque" => directory' = [x \in {Ref} |-> st]
    BY <1>4, <2>1 DEF Issue, Issued
  <2>3. Carries(st)'
    BY <1>1, <1>2, <2>1, <2>2 DEF Carries, Issued
  <2>4. AsksFor(d, p, v)'
    BY <1>1, <1>3, <2>2 DEF AsksFor
  <2>5. TypeOK'
    BY <1>1, <1>4 DEF TypeOK, Issue
  <2>. QED
    BY <1>1, <2>1, <2>2, <2>3, <2>4, <2>5 DEF CourierInv
<1>5. CASE Alter
  <2>1. /\ step = "issued" /\ step' = "sent" /\ altered' /\ ~mistaken
        /\ UNCHANGED <<kind, mistaken, directory>>
        /\ request.receipt = Issued(st)
    BY <1>2, <1>5 DEF Alter, Carries
  <2>2. PICK r \in Alterations(Issued(st)) : request' = [request EXCEPT !.receipt = r]
    BY <1>5, <2>1 DEF Alter
  <2>3. Carries(st)'
    <3>1. request'.receipt \in Alterations(Issued(st))'
      BY <1>1, <2>1, <2>2, AlterationsStay
    <3>. QED
      BY <1>2, <2>1, <3>1 DEF Carries
  <2>4. AsksFor(d, p, v)'
    BY <1>1, <1>3, <2>2 DEF AsksFor
  <2>5. TypeOK'
    BY <1>1, <1>5 DEF TypeOK, Alter
  <2>. QED
    BY <1>1, <2>1, <2>2, <2>3, <2>4, <2>5 DEF CourierInv
<1>6. CASE Forward \/ Tick \/ Judge \/ UNCHANGED vars
  <2>1. /\ UNCHANGED <<kind, request, directory, mistaken, altered, job,
                        job_policy>>
        /\ \/ step = "issued" /\ step' = "sent"
           \/ step = "sent" /\ step' = "sent"
           \/ step = "sent" /\ step' = "judged"
           \/ UNCHANGED <<step, now, verdict>>
    BY <1>6 DEF Forward, Tick, Judge, vars
  <2>2. Carries(st)'
    BY <1>2, <2>1, AlterationsStay DEF Carries
  <2>3. AsksFor(d, p, v)'
    BY <1>3, <2>1 DEF AsksFor
  <2>4. TypeOK'
    <3>1. now' = now \/ (now < MaxNow /\ now' = now + 1)
      BY <1>6 DEF Forward, Tick, Judge, vars
    <3>2. now' \in 0 .. MaxNow
      BY <1>1, <3>1, MaxNowAssumption DEF TypeOK
    <3>3. verdict' = verdict
            \/ verdict' = AttachVerdict(request, Authentic, Commit, job_policy)
      BY <1>6 DEF Forward, Tick, Judge, vars
    <3>4. verdict' \in {None, "ok", "artifact_invalid", "artifact_verification",
                        "receipt_untrusted"}
      BY <1>1, <3>3 DEF TypeOK, AttachVerdict
    <3>. QED
      BY <1>1, <2>1, <3>2, <3>4 DEF TypeOK
  <2>5. step' = "judged" =>
          verdict' = AttachVerdict(request, Authentic, Commit, job_policy)'
    <3>1. step' = "judged" =>
            /\ verdict' = AttachVerdict(request, Authentic, Commit, job_policy)
            /\ now' = now
      BY <1>6 DEF Forward, Tick, Judge, vars, CourierInv
    <3>2. now' = now => Authentic' = Authentic
      BY <2>1 DEF Authentic
    <3>. QED
      BY <2>1, <3>1, <3>2 DEF AttachVerdict
  <2>. QED
    BY <1>1, <2>1, <2>2, <2>3, <2>4, <2>5 DEF CourierInv
<1>. QED
  BY <1>4, <1>5, <1>6, <1>7 DEF Next
-----------------------------------------------------------------------------
(* The verdict *)

(* An altered receipt is not authentic. *)
LEMMA AlteredFails ==
    ASSUME TypeOK, NEW st \in Stated, Carries(st), altered
    PROVE  ~Authentic
<1>. DEFINE r == request.receipt
            said == receipt_statement_from_receipt(r)
<1>1. /\ step # "stated" /\ r \in Alterations(Issued(st))
      /\ kind \in {"hmac", "opaque"} /\ st \in Statements
  BY DEF Carries, TypeOK
<1>2. \/ said # st /\ r.mac = Issued(st).mac /\ r.receipt_ref = Issued(st).receipt_ref
      \/ said = st /\ kind = "hmac" /\ r.mac = Wrong
      \/ kind = "opaque" /\ r.receipt_ref = Wrong
  BY <1>1, AlteredReceipt
<1>3. CASE kind = "hmac"
  <2>1. SUFFICES ASSUME Authentic PROVE FALSE
    OBVIOUS
  <2>2. r.mac = _receipt_mac(Keys[said.issuer], said)
    <3>1. said.issuer = r.issuer
      BY DEF receipt_statement_from_receipt, StatementFields
    <3>2. r.issuer \in Trusted /\ r.mac = _receipt_mac(Keys[r.issuer], said)
      BY <1>3, <2>1 DEF Authentic, HmacVerifies
    <3>. QED
      BY <3>1, <3>2
  <2>3. CASE r.mac = Wrong
    <3>1. said = st
      BY <1>2, <1>3, <2>3, IssuedFacts, WrongAssumption
    <3>. QED
      BY <2>2, <2>3, <3>1, WrongAssumption
  <2>4. CASE r.mac # Wrong
    <3>1. r.mac = [key |-> Keys[st.issuer], over |-> st] /\ said # st
      BY <1>2, <1>3, <2>4, IssuedFacts DEF _receipt_mac
    <3>2. r.mac.over = said
      BY <2>2 DEF _receipt_mac
    <3>. QED
      BY <3>1, <3>2
  <2>. QED
    BY <2>3, <2>4
<1>4. CASE kind = "opaque"
  <2>1. directory = [x \in {Ref} |-> st]
    BY <1>1, <1>4 DEF Carries
  <2>2. r.receipt_ref = Ref => said # st
    BY <1>2, <1>4, WrongAssumption
  <2>. QED
    BY <1>4, <2>1, <2>2 DEF Authentic, OpaqueVerifies
<1>. QED
  BY <1>1, <1>3, <1>4

(* The manifest the client asks with is valid, and its payload staged. *)
LEMMA ManifestValid ==
    ASSUME NEW d \in Digests, NEW p \in Plans, NEW v, AsksFor(d, p, v)
    PROVE  /\ validate_manifest(request.manifest)
           /\ StagedMatches(request.staged, request.manifest)
           /\ request.manifest.payload_digest = d
           /\ request.manifest.verify_commands = p
           /\ request.manifest.source_commit = Commit
           /\ request.staged.ref = "cas:1"
<1>1. p # <<>> /\ \A i \in DOMAIN p : p[i] \in DOMAIN NormalStep
  <2>1. p \in Seq(DOMAIN NormalStep) /\ p # <<>>
    BY PlansAssumption
  <2>. QED
    BY <2>1, LenProperties
<1>. QED
  BY <1>1 DEF AsksFor, Manifest, validate_manifest, StagedMatches

(* The gateway's policy check asks what PolicyMet says. *)
LEMMA PolicyChecked ==
    ASSUME request.manifest.source_commit = Commit
    PROVE  check_matches_policy(request.manifest, Commit, job_policy,
                                request.constraints) <=> PolicyMet
BY DEF check_matches_policy, PolicyMet, Asked

(* The receipt as it was issued is authentic if its issuer is trusted, in    *)
(* its time and for the job and payload it was issued for.                  *)
LEMMA IssuedIsAuthentic ==
    ASSUME kind \in {"hmac", "opaque"}, NEW st \in Stated,
           request.receipt = Issued(st),
           kind = "opaque" => directory = [x \in {Ref} |-> st],
           NEW d, request.manifest.payload_digest = d
    PROVE  Authentic <=>
             /\ st.issuer \in IF kind = "hmac" THEN Trusted ELSE DOMAIN Keys
             /\ _check_receipt_window(st, now)
             /\ _check_receipt_binding(st, job, 1, d)
<1>. DEFINE r == request.receipt
<1>1. /\ receipt_statement_from_receipt(r) = st
      /\ r.issuer = st.issuer
      /\ r.mac = IF kind = "hmac" THEN _receipt_mac(Keys[st.issuer], st) ELSE None
      /\ r.receipt_ref = IF kind = "hmac" THEN None ELSE Ref
  BY IssuedFacts DEF StatementFields
<1>2. st.issuer \in DOMAIN Keys
  BY StatedSays DEF Says
<1>3. Ref # None /\ _receipt_mac(Keys[st.issuer], st) # None
  BY WrongAssumption
<1>4. CASE kind = "hmac"
  <2>. DEFINE store == [i \in Trusted |-> Keys[i]]
  <2>1. Authentic <=> HmacVerifies(r, store, job, 1, d, now)
    BY <1>4 DEF Authentic
  <2>2. st.issuer \in Trusted => r.mac = _receipt_mac(store[r.issuer], st)
    BY <1>1, <1>4
  <2>. QED
    BY <1>1, <1>3, <1>4, <2>1, <2>2 DEF HmacVerifies
<1>5. CASE kind = "opaque"
  <2>1. Authentic <=> OpaqueVerifies(r, directory, job, 1, d, now)
    BY <1>5 DEF Authentic
  <2>2. Ref \in DOMAIN directory /\ directory[Ref] = st
    BY <1>5
  <2>. QED
    BY <1>1, <1>2, <1>3, <1>5, <2>1, <2>2 DEF OpaqueVerifies
<1>. QED
  BY <1>4, <1>5

(* The steps of a verified plan cover it. *)
LEMMA VerifiedCovers ==
    ASSUME NEW p \in Plans
    PROVE  StepsCoverPlan(VerifiedSteps(Normal(p)), Normal(p))
<1>. DEFINE plan == Normal(p)
            steps == VerifiedSteps(plan)
<1>1. DOMAIN p = 1 .. Len(p) /\ Len(p) \in Nat
  BY PlansAssumption, LenProperties
<1>2. plan = [i \in 1 .. Len(p) |-> plan[i]] /\ DOMAIN plan = 1 .. Len(p)
  BY <1>1 DEF Normal
<1>3. steps = [i \in 1 .. Len(p) |-> steps[i]]
  BY <1>2 DEF VerifiedSteps
<1>4. Len(plan) = Len(p)
  <2>. HIDE DEF plan
  <2>. QED
    BY <1>1, <1>2, ListLength
<1>5. Len(steps) = Len(p)
  <2>. HIDE DEF steps
  <2>. QED
    BY <1>1, <1>3, ListLength
<1>6. \A i \in DOMAIN plan : /\ steps[i].index = i - 1 /\ steps[i].step = plan[i]
                             /\ steps[i].evidence_digest
                                  = step_commitment(i - 1, plan[i])
  BY DEF VerifiedSteps
<1>. HIDE DEF plan, steps
<1>7. StepsCoverPlan(steps, plan)
  BY <1>4, <1>5, <1>6 DEF StepsCoverPlan
<1>. QED
  BY <1>7 DEF plan, steps

IssuerKnown(st) == st.issuer \in IF kind = "hmac" THEN Trusted ELSE DOMAIN Keys

(* What is owed is what passes the checks. *)
LEMMA OwedPasses ==
    ASSUME TypeOK, NEW d \in Digests, NEW p \in Plans, NEW v, AsksFor(d, p, v),
           NEW st \in Owed, st.expires_at - st.issued_at <= MaxReceiptTTL
    PROVE  /\ IssuerKnown(st) /\ _check_receipt_window(st, now)
           /\ _check_receipt_binding(st, job, 1, d)
           /\ StatementBinds(st, request.staged, request.manifest)
<1>1. /\ request.manifest = Manifest(d, p, v) /\ request.staged.ref = "cas:1"
      /\ request.manifest.payload_digest = d /\ request.manifest.verify_commands = p
  BY ManifestValid DEF AsksFor
<1>2. PICK i \in (IF kind = "hmac" THEN Trusted ELSE DOMAIN Keys),
           h \in Handles \ CasHandles, from \in 0 .. now, to \in now + 1 .. 3 :
         st = IssuedStatement(i, job, d, "cas:1", h, p, from, to)
  BY <1>1 DEF Owed
<1>3. /\ st.issuer = i /\ st.job_id = job /\ st.generation = 1
      /\ st.artifact_digest = d /\ st.staged_ref = "cas:1"
      /\ st.mount_handle = h /\ st.issued_at = from /\ st.expires_at = to
      /\ st.plan_hash = [verify_commands |-> Normal(p)]
      /\ st.steps = VerifiedSteps(Normal(p))
      /\ st.replay_domain = attachment_replay_domain(job, 1, d)
  BY <1>2, PlanNormalized DEF IssuedStatement, issue, plan_hash_for_plan
<1>4. now \in Nat /\ from \in Nat /\ to \in Nat /\ MaxReceiptTTL \in Nat
  BY MaxNowAssumption, MaxReceiptTTLAssumption DEF TypeOK
<1>5. _check_receipt_window(st, now)
  <2>1. from < to /\ from <= now /\ now < to
    BY <1>4
  <2>2. to <= from + MaxReceiptTTL
    BY <1>3, <1>4
  <2>. QED
    BY <1>3, <2>1, <2>2 DEF _check_receipt_window
<1>6. StatementBinds(st, request.staged, request.manifest)
  BY <1>1, <1>3, PlanNormalized, VerifiedCovers
  DEF StatementBinds, plan_hash_for_plan
<1>. QED
  BY <1>2, <1>3, <1>5, <1>6 DEF IssuerKnown, _check_receipt_binding

(* Steps that cover a plan are those of verifying it, whatever plan they     *)
(* were taken from.                                                         *)
LEMMA CoveringIsVerified ==
    ASSUME NEW p \in Plans, NEW q \in Plans,
           StepsCoverPlan(VerifiedSteps(Normal(q)), Normal(p))
    PROVE  VerifiedSteps(Normal(q)) = VerifiedSteps(Normal(p))
<1>. DEFINE plan == Normal(p)
            other == Normal(q)
            steps == VerifiedSteps(other)
<1>1. /\ DOMAIN p = 1 .. Len(p) /\ Len(p) \in Nat
      /\ DOMAIN q = 1 .. Len(q) /\ Len(q) \in Nat
  BY PlansAssumption, LenProperties
<1>2. /\ plan = [i \in 1 .. Len(p) |-> plan[i]] /\ DOMAIN plan = 1 .. Len(p)
      /\ other = [i \in 1 .. Len(q) |-> other[i]] /\ DOMAIN other = 1 .. Len(q)
  BY <1>1 DEF Normal
<1>3. steps = [i \in 1 .. Len(q) |-> steps[i]]
  BY <1>2 DEF VerifiedSteps
<1>4. Len(plan) = Len(p)
  <2>. HIDE DEF plan
  <2>. QED
    BY <1>1, <1>2, ListLength
<1>5. Len(steps) = Len(q)
  <2>. HIDE DEF steps
  <2>. QED
    BY <1>1, <1>3, ListLength
<1>6. /\ Len(steps) = Len(plan)
      /\ \A i \in DOMAIN plan : steps[i].step = plan[i]
  BY DEF StepsCoverPlan
<1>7. \A i \in 1 .. Len(q) : steps[i].step = other[i]
  BY <1>2 DEF VerifiedSteps
<1>. HIDE DEF plan, other, steps
<1>8. Len(p) = Len(q)
  BY <1>4, <1>5, <1>6
<1>9. \A i \in 1 .. Len(p) : plan[i] = other[i]
  BY <1>2, <1>6, <1>7, <1>8
<1>10. plan = other
  BY <1>2, <1>8, <1>9
<1>. QED
  BY <1>10 DEF plan, other

(* What passes the checks is owed, a deployment's mistakes included. *)
LEMMA PassingIsOwed ==
    ASSUME TypeOK, NEW d \in Digests, NEW p \in Plans, NEW v, AsksFor(d, p, v),
           NEW st \in Stated,
           IssuerKnown(st), _check_receipt_window(st, now),
           _check_receipt_binding(st, job, 1, d),
           StatementBinds(st, request.staged, request.manifest)
    PROVE  st \in Owed /\ st.expires_at - st.issued_at <= MaxReceiptTTL
<1>1. /\ request.manifest = Manifest(d, p, v) /\ request.staged.ref = "cas:1"
      /\ request.manifest.payload_digest = d /\ request.manifest.verify_commands = p
  BY ManifestValid DEF AsksFor
<1>2. PICK i \in DOMAIN Keys, j \in Jobs, e \in Digests,
           h \in Handles, q \in Plans, from \in 0 .. 1, to \in 0 .. 3 :
         \E ref, hash, domain : st = Says(i, j, e, ref, h, hash, q, from, to, domain)
  BY StatedSays
<1>3. PICK ref, hash, domain : st = Says(i, j, e, ref, h, hash, q, from, to, domain)
  BY <1>2
<1>4. /\ st.issuer = i /\ st.job_id = j /\ st.artifact_digest = e
      /\ st.staged_ref = ref /\ st.mount_handle = h /\ st.plan_hash = hash
      /\ st.steps = VerifiedSteps(Normal(q)) /\ st.issued_at = from
      /\ st.expires_at = to /\ st.replay_domain = domain
  BY <1>3 DEF Says
<1>5. now \in Nat /\ from \in Nat /\ to \in Nat /\ MaxReceiptTTL \in Nat
  BY MaxNowAssumption, MaxReceiptTTLAssumption DEF TypeOK
<1>6. j = job /\ e = d /\ domain = attachment_replay_domain(job, 1, d)
  BY <1>4 DEF _check_receipt_binding
<1>7. from <= now /\ now < to /\ to <= from + MaxReceiptTTL
  BY <1>4 DEF _check_receipt_window
<1>8. from \in 0 .. now /\ to \in now + 1 .. 3
  BY <1>5, <1>7
<1>9. to - from <= MaxReceiptTTL
  BY <1>5, <1>7
<1>10. /\ ref = "cas:1" /\ h \notin CasHandles
       /\ hash = plan_hash_for_plan(Normal(p))
       /\ StepsCoverPlan(VerifiedSteps(Normal(q)), Normal(p))
  BY <1>1, <1>4, PlanNormalized DEF StatementBinds
<1>11. VerifiedSteps(Normal(q)) = VerifiedSteps(Normal(p))
  BY <1>10, CoveringIsVerified
<1>12. st = IssuedStatement(i, job, d, "cas:1", h, p, from, to)
  BY <1>3, <1>6, <1>10, <1>11, PlanNormalized DEF Says, IssuedStatement, issue
<1>13. i \in IF kind = "hmac" THEN Trusted ELSE DOMAIN Keys
  BY <1>4 DEF IssuerKnown
<1>14. st \in Owed
  BY <1>1, <1>8, <1>10, <1>12, <1>13 DEF Owed
<1>. QED
  BY <1>4, <1>9, <1>14

(* The verdict on a receipt that was not altered. *)
LEMMA VerdictOnIssued ==
    ASSUME TypeOK, NEW st \in Stated, Carries(st), ~altered,
           step = "judged",
           NEW d \in Digests, NEW p \in Plans, NEW v, AsksFor(d, p, v)
    PROVE  AttachVerdict(request, Authentic, Commit, job_policy) = "ok"
             <=> /\ receipt_statement_from_receipt(request.receipt) \in Owed
                 /\ request.receipt.expires_at - request.receipt.issued_at
                      <= MaxReceiptTTL
                 /\ PolicyMet
<1>1. /\ request.receipt = Issued(st)
      /\ kind = "opaque" => directory = [x \in {Ref} |-> st]
      /\ kind \in {"hmac", "opaque"}
  BY DEF Carries, TypeOK
<1>2. /\ receipt_statement_from_receipt(request.receipt) = st
      /\ request.receipt.expires_at = st.expires_at
      /\ request.receipt.issued_at = st.issued_at
  BY <1>1, IssuedFacts DEF StatementFields
<1>3. /\ validate_manifest(request.manifest)
      /\ StagedMatches(request.staged, request.manifest)
      /\ request.manifest.payload_digest = d
      /\ request.manifest.source_commit = Commit
  BY ManifestValid
<1>4. Authentic <=> /\ IssuerKnown(st) /\ _check_receipt_window(st, now)
                    /\ _check_receipt_binding(st, job, 1, d)
  BY <1>1, <1>3, IssuedIsAuthentic DEF IssuerKnown
<1>5. AttachVerdict(request, Authentic, Commit, job_policy) = "ok"
        <=> /\ Authentic
            /\ StatementBinds(st, request.staged, request.manifest)
            /\ PolicyMet
  BY <1>2, <1>3, PolicyChecked DEF AttachVerdict
<1>6. (st \in Owed /\ st.expires_at - st.issued_at <= MaxReceiptTTL)
        <=> Authentic /\ StatementBinds(st, request.staged, request.manifest)
  BY <1>4, OwedPasses, PassingIsOwed
<1>. QED
  BY <1>2, <1>5, <1>6

(* CourierInv says what the request in the gateway's hands may be.  That it  *)
(* is inductive needs no more than that every step is taken once.           *)
THEOREM CourierInvariant == Spec => []CourierInv
BY InitCourier, NextKeepsCourier, PTL DEF Spec

(* The state keeps its types; the verdict is one of those the check names.  *)
THEOREM TypeCorrect == Spec => []TypeOK
<1>1. CourierInv => TypeOK
  BY DEF CourierInv
<1>. QED
  BY <1>1, CourierInvariant, PTL

(* The gateway accepts a request exactly if the receipt reached it as it was *)
(* issued, states what the deployment owes for this job, payload and plan,  *)
(* is in its time and lives no longer than allowed, and the policy is met.  *)
THEOREM OwedIsAccepted == Spec => []AcceptsExactlyTheOwed
<1>1. CourierInv => AcceptsExactlyTheOwed
  <2>. SUFFICES ASSUME CourierInv, step = "judged"
                PROVE  verdict = "ok" <=>
                         /\ ~altered
                         /\ receipt_statement_from_receipt(request.receipt) \in Owed
                         /\ request.receipt.expires_at - request.receipt.issued_at
                              <= MaxReceiptTTL
                         /\ PolicyMet
    BY DEF AcceptsExactlyTheOwed
  <2>1. TypeOK /\ verdict = AttachVerdict(request, Authentic, Commit, job_policy)
    BY DEF CourierInv
  <2>2. PICK st \in Stated : Carries(st)
    BY DEF CourierInv
  <2>3. PICK d \in Digests, p \in Plans, v \in FieldValues : AsksFor(d, p, v)
    BY DEF CourierInv
  <2>4. CASE altered
    <3>1. ~Authentic
      BY <2>1, <2>2, <2>4, AlteredFails
    <3>. QED
      BY <2>1, <2>4, <3>1 DEF AttachVerdict
  <2>5. CASE ~altered
    BY <2>1, <2>2, <2>3, <2>5, VerdictOnIssued
  <2>. QED
    BY <2>4, <2>5
<1>. QED
  BY <1>1, CourierInvariant, PTL
=============================================================================
