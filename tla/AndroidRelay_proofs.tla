------------------------- MODULE AndroidRelay_proofs -------------------------
(***************************************************************************)
(* Theorems about AndroidRelay, for every set of texts and every bound.    *)
(***************************************************************************)
EXTENDS AndroidRelay, SequenceTheorems, TLAPS

-----------------------------------------------------------------------------
(* Lemmas about texts *)

(* What the user or another app shows is a text without the mark. *)
LEMMA GivenTexts ==
    ASSUME NEW text \in Spoken \cup Typed \cup Elsewhere
    PROVE  /\ text \in Texts
           /\ Mark \notin WordsOf(text)
BY TextsAssumption DEF WordsOf

(* A screen of texts stays one when a text appears. *)
LEMMA AppearsTyped ==
    ASSUME shown \subseteq Texts, NEW text \in Texts, Appears(text)
    PROVE  shown' \subseteq Texts
BY DEF Appears

(* What appears was on the screen or is the new text. *)
LEMMA AppearsNothingElse ==
    ASSUME NEW text, Appears(text)
    PROVE  shown' \subseteq shown \cup {text}
BY DEF Appears

(* A message field that is not empty is a text. *)
LEMMA NonEmptyIsText ==
    ASSUME NEW s \in Seq(Words), s # <<>>
    PROVE  s \in Texts
BY DEF Texts

(* The candidates of a dump are texts. *)
LEMMA CandidatesTyped ==
    ASSUME shown \subseteq Texts, composer \in Seq(Words)
    PROVE  Candidates \subseteq Texts
BY TextsAssumption DEF Candidates, Texts

(* Typing appends a beginning of the answer, at least its first word.        *)
LEMMA TypedText ==
    ASSUME composer \in Seq(Words), rendered \in Texts,
           NEW text \in AfterTyping
    PROVE  /\ text \in Seq(Words)
           /\ text # <<>>
           /\ text[1] = IF composer = <<>> THEN rendered[1] ELSE composer[1]
<1>1. PICK n \in 1 .. Len(rendered) : text = composer \o SubSeq(rendered, 1, n)
  BY DEF AfterTyping
<1>2. rendered \in Seq(Words) /\ rendered # <<>>
  BY DEF Texts
<1>3. Len(rendered) \in Nat
  BY <1>2, LenProperties
<1>. DEFINE piece == SubSeq(rendered, 1, n)
<1>4. piece \in Seq(Words) /\ Len(piece) = n /\ piece[1] = rendered[1]
  BY <1>2, <1>3, <1>1
<1>. HIDE DEF piece
<1>5. /\ text \in Seq(Words)
      /\ Len(text) = Len(composer) + n
      /\ text[1] = IF 1 <= Len(composer) THEN composer[1] ELSE piece[1 - Len(composer)]
  BY <1>1, <1>3, <1>4 DEF piece
<1>6. Len(composer) \in Nat /\ (composer = <<>> <=> Len(composer) = 0)
  BY LenProperties, EmptySeq
<1>. QED
  BY <1>3, <1>4, <1>5, <1>6

(* An answer as it is typed begins with the mark. *)
LEMMA FormattedText ==
    ASSUME NEW text \in Texts, NEW output \in Outputs(text)
    PROVE  /\ format_result(output) \in Texts
           /\ format_result(output)[1] = Mark
<1>1. output \in Seq(Words)
  <2>1. CASE output = text
    BY <2>1 DEF Texts
  <2>2. CASE output \in {<<word>> : word \in PlainWords}
    <3>1. PICK word \in PlainWords : output = <<word>>
      BY <2>2
    <3>. QED
      BY <3>1 DEF Words
  <2>. QED
    BY <2>1, <2>2 DEF Outputs
<1>2. <<Mark>> \in Seq(Words)
  BY DEF Words
<1>. QED
  BY <1>1, <1>2 DEF format_result, Texts

-----------------------------------------------------------------------------
(* Type correctness *)

LEMMA InitTyped == Init => TypeOK
BY DEF Init, TypeOK, Texts

LEMMA UserTyped == TypeOK /\ User => TypeOK'
<1>. SUFFICES ASSUME TypeOK, User PROVE TypeOK'
  OBVIOUS
<1>1. CASE Speaks
  BY <1>1, GivenTexts, AppearsTyped DEF Speaks, TypeOK, relay, life
<1>2. CASE UserTypes
  <2>1. composer' \in Seq(Words)
    BY <1>2, GivenTexts, ConcatProperties DEF UserTypes, TypeOK, Texts
  <2>. QED
    BY <1>2, <2>1 DEF UserTypes, TypeOK, relay, life
<1>3. CASE UserSends
  <2>1. shown' \subseteq Texts
    BY <1>3, NonEmptyIsText, AppearsTyped DEF UserSends, TypeOK
  <2>. QED
    BY <1>3, <2>1, EmptySeq DEF UserSends, TypeOK, relay, life
<1>4. CASE UserSwitches
  BY <1>4 DEF UserSwitches, TypeOK, relay, life
<1>. QED
  BY <1>1, <1>2, <1>3, <1>4 DEF User

LEMMA RelayTyped == TypeOK /\ Relay => TypeOK'
<1>. SUFFICES ASSUME TypeOK, Relay PROVE TypeOK'
  OBVIOUS
<1>1. CASE Check
  BY <1>1 DEF Check, TypeOK, phone, life
<1>2. CASE Dump
  BY <1>2, CandidatesTyped DEF Dump, TypeOK, phone, life
<1>3. CASE DumpFails
  BY <1>3 DEF DumpFails, Abandon, TypeOK, phone, life
<1>4. CASE PassOver
  BY <1>4 DEF PassOver, TypeOK, phone, life
<1>5. CASE Submit
  <2>1. PICK text \in batch :
           /\ batch' = batch \ {text}
           /\ MarkSeen(text)
           /\ task' = text
           /\ submitted' = submitted \cup {text}
           /\ repeated' = repeated \cup (submitted \cap {text})
    BY <1>5 DEF Submit
  <2>2. text \in Texts
    BY <2>1 DEF TypeOK
  <2>. QED
    BY <1>5, <2>1, <2>2 DEF Submit, MarkSeen, TypeOK, phone, Texts
<1>6. CASE ScanEnds
  BY <1>6 DEF ScanEnds, TypeOK, phone, life
<1>7. CASE SubmitAnswered
  <2>1. task \in Texts
    BY <1>7 DEF SubmitAnswered, TypeOK
  <2>2. rendered' \in Texts
    BY <1>7, <2>1, FormattedText DEF SubmitAnswered
  <2>. QED
    BY <1>7, <2>2, EmptySeq DEF SubmitAnswered, TypeOK, phone, life, Texts
<1>8. CASE SubmitFails
  BY <1>8, EmptySeq DEF SubmitFails, Abandon, TypeOK, phone, life
<1>9. CASE InjectFails
  BY <1>9, EmptySeq DEF InjectFails, TypeOK, phone, life
<1>10. CASE FindEditor
  BY <1>10 DEF FindEditor, TypeOK, phone, life
<1>11. CASE Type
  <2>1. composer' \in Seq(Words)
    BY <1>11, TypedText DEF Type, TypeOK
  <2>. QED
    BY <1>11, <2>1, EmptySeq DEF Type, TypeOK, life
<1>12. CASE Press
  <2>1. shown' \subseteq Texts
    BY <1>12, NonEmptyIsText, AppearsTyped DEF Press, TypeOK
  <2>. QED
    BY <1>12, <2>1, EmptySeq DEF Press, TypeOK, life
<1>. QED
  BY <1>1, <1>2, <1>3, <1>4, <1>5, <1>6, <1>7, <1>8, <1>9, <1>10, <1>11,
     <1>12 DEF Relay

LEMMA NextTyped == TypeOK /\ [Next]_vars => TypeOK'
<1>. SUFFICES ASSUME TypeOK, [Next]_vars PROVE TypeOK'
  OBVIOUS
<1>1. CASE Dies
  BY <1>1, EmptySeq DEF Dies, TypeOK, phone, life
<1>2. CASE Restart
  BY <1>2 DEF Restart, TypeOK, phone
<1>3. CASE UNCHANGED vars
  BY <1>3 DEF vars, phone, relay, life, TypeOK
<1>. QED
  BY <1>1, <1>2, <1>3, UserTyped, RelayTyped DEF Next

(* Every reachable state of the relay and the phone is well typed, whatever   *)
(* texts there are and however long they grow.                               *)
THEOREM TypeCorrect == Spec => []TypeOK
<1>. QED
  BY InitTyped, NextTyped, PTL DEF Spec

-----------------------------------------------------------------------------
(* What the relay submits *)

(* A step of the phone's user, the screen's part of a step, and a step that   *)
(* only moves the relay leave what was seen and submitted alone.             *)
LEMMA OnlyScanSubmits ==
    ASSUME [Next]_vars
    PROVE  \/ UNCHANGED <<seen, armed, submitted, repeated>>
           \/ PassOver
           \/ Submit
           \/ Restart
<1>1. User => UNCHANGED <<seen, armed, submitted, repeated>>
  BY DEF User, Speaks, UserTypes, UserSends, UserSwitches, relay, life
<1>2. Relay => \/ UNCHANGED <<seen, armed, submitted, repeated>>
               \/ PassOver
               \/ Submit
  BY DEF Relay, Check, Dump, DumpFails, ScanEnds, SubmitAnswered, SubmitFails,
         InjectFails, FindEditor, Type, Press, Abandon, life
<1>3. Dies => UNCHANGED <<seen, armed, submitted, repeated>>
  BY DEF Dies, life
<1>. QED
  BY <1>1, <1>2, <1>3 DEF Next, vars, relay, life

(* seen and submitted move together, so the book of what was seen tells what  *)
(* was submitted.                                                            *)
LEMMA DealtWithStep == SeenIsDealtWith /\ [Next]_vars => SeenIsDealtWith'
<1>. SUFFICES ASSUME SeenIsDealtWith, [Next]_vars PROVE SeenIsDealtWith'
  OBVIOUS
<1>1. CASE UNCHANGED <<seen, armed, submitted, repeated>>
  BY <1>1 DEF SeenIsDealtWith
<1>2. CASE PassOver
  <2>1. PICK text \in batch :
           /\ ~ToSubmit(text)
           /\ seen' = IF New(text) THEN seen \cup {text} ELSE seen
    BY <1>2 DEF PassOver
  <2>2. UNCHANGED <<armed, submitted>>
    BY <1>2 DEF PassOver, life
  <2>3. CASE New(text)
    BY <2>1, <2>2, <2>3 DEF SeenIsDealtWith, ToSubmit
  <2>4. CASE ~New(text)
    BY <2>1, <2>2, <2>4 DEF SeenIsDealtWith
  <2>. QED
    BY <2>3, <2>4
<1>3. CASE Submit
  <2>1. PICK text \in batch :
           /\ ToSubmit(text)
           /\ MarkSeen(text)
           /\ submitted' = submitted \cup {text}
    BY <1>3 DEF Submit
  <2>2. armed' = armed
    BY <1>3 DEF Submit
  <2>. QED
    BY <2>1, <2>2 DEF SeenIsDealtWith, ToSubmit, MarkSeen
<1>4. CASE Restart
  BY <1>4 DEF Restart, SeenIsDealtWith
<1>. QED
  BY <1>1, <1>2, <1>3, <1>4, OnlyScanSubmits

(* What the relay has seen and asks for work is exactly what it has submitted *)
(* in this life: no failure of the scan, of a submission or of an injection   *)
(* makes it forget a request it has marked.                                  *)
THEOREM SeenDealtWith == Spec => []SeenIsDealtWith
<1>1. Init => SeenIsDealtWith
  BY DEF Init, SeenIsDealtWith
<1>. QED
  BY <1>1, DealtWithStep, PTL DEF Spec

(* A text is submitted at most once in a life of the relay: it is marked      *)
(* before it is submitted, and what is marked is not looked at again.        *)
THEOREM OncePerLife == Spec => []SubmittedOncePerLife
<1>1. Init => SubmittedOncePerLife
  BY DEF Init, SubmittedOncePerLife
<1>2. SeenIsDealtWith /\ SubmittedOncePerLife /\ [Next]_vars
        => SubmittedOncePerLife'
  <2>. SUFFICES ASSUME SeenIsDealtWith, SubmittedOncePerLife, [Next]_vars
                PROVE  SubmittedOncePerLife'
    OBVIOUS
  <2>1. CASE UNCHANGED <<seen, armed, submitted, repeated>>
    BY <2>1 DEF SubmittedOncePerLife
  <2>2. CASE PassOver
    BY <2>2 DEF PassOver, life, SubmittedOncePerLife
  <2>3. CASE Submit
    BY <2>3 DEF Submit, ToSubmit, New, SeenIsDealtWith, SubmittedOncePerLife
  <2>4. CASE Restart
    BY <2>4 DEF Restart, SubmittedOncePerLife
  <2>. QED
    BY <2>1, <2>2, <2>3, <2>4, OnlyScanSubmits
<1>. QED
  BY <1>1, <1>2, SeenDealtWith, PTL DEF Spec

-----------------------------------------------------------------------------
(* The dry run *)

(* The words of two texts one after the other are the words of both. *)
LEMMA WordsOfBoth ==
    ASSUME NEW s \in Seq(Words), NEW t \in Seq(Words)
    PROVE  WordsOf(s \o t) \subseteq WordsOf(s) \cup WordsOf(t)
<1>. SUFFICES ASSUME NEW i \in DOMAIN (s \o t)
              PROVE  (s \o t)[i] \in WordsOf(s) \cup WordsOf(t)
  BY DEF WordsOf
<1>1. /\ Len(s) \in Nat /\ DOMAIN s = 1 .. Len(s)
      /\ Len(t) \in Nat /\ DOMAIN t = 1 .. Len(t)
  BY LenProperties
<1>2. /\ i \in 1 .. Len(s) + Len(t)
      /\ (s \o t)[i] = IF i <= Len(s) THEN s[i] ELSE t[i - Len(s)]
  <2>1. s \o t \in Seq(Words) /\ Len(s \o t) = Len(s) + Len(t)
    BY ConcatProperties
  <2>2. DOMAIN (s \o t) = 1 .. Len(s) + Len(t)
    BY <2>1, LenProperties
  <2>. QED
    BY <2>2, ConcatProperties
<1>3. CASE i <= Len(s)
  <2>1. i \in DOMAIN s
    BY <1>1, <1>2, <1>3
  <2>. QED
    BY <1>2, <1>3, <2>1 DEF WordsOf
<1>4. CASE ~(i <= Len(s))
  <2>1. i - Len(s) \in DOMAIN t
    BY <1>1, <1>2, <1>4
  <2>. QED
    BY <1>2, <1>4, <2>1 DEF WordsOf
<1>. QED
  BY <1>3, <1>4

(* Without --arm nothing is submitted, so nothing is typed or sent, and the   *)
(* only texts on the screen are those of people.                             *)
LEMMA DryRunStep ==
    TypeOK /\ DryRunOnlyWatches /\ [Next]_vars => DryRunOnlyWatches'
<1>. SUFFICES ASSUME TypeOK, DryRunOnlyWatches, [Next]_vars, ~armed'
              PROVE  DryRunOnlyWatches'
  BY DEF DryRunOnlyWatches
<1>1. ~armed
  BY DEF Next, User, Speaks, UserTypes, UserSends, UserSwitches, Relay, Check,
         Dump, DumpFails, PassOver, Submit, ScanEnds, SubmitAnswered,
         SubmitFails, InjectFails, FindEditor, Type, Press, Dies, Restart,
         vars, life
<1>2. /\ submitted = {}
      /\ pc \in {"check", "dump", "scan", "dead"}
      /\ \A text \in shown \cup {composer} : Mark \notin WordsOf(text)
  BY <1>1 DEF DryRunOnlyWatches
<1>. USE DEF DryRunOnlyWatches
<1>3. CASE Speaks
  <2>1. PICK text \in Spoken : Appears(text)
    BY <1>3 DEF Speaks
  <2>2. shown' \subseteq shown \cup {text} /\ Mark \notin WordsOf(text)
    BY <2>1, AppearsNothingElse, GivenTexts
  <2>. QED
    BY <1>2, <1>3, <2>2 DEF Speaks, relay, life
<1>4. CASE UserTypes
  <2>1. PICK text \in Typed : composer' = composer \o text
    BY <1>4 DEF UserTypes
  <2>2. composer \in Seq(Words) /\ text \in Seq(Words)
           /\ Mark \notin WordsOf(text)
    BY GivenTexts DEF TypeOK, Texts
  <2>3. Mark \notin WordsOf(composer')
    BY <1>2, <2>1, <2>2, WordsOfBoth
  <2>. QED
    BY <1>2, <1>4, <2>3 DEF UserTypes, relay, life
<1>5. CASE UserSends
  <2>1. shown' \subseteq shown \cup {composer}
    BY <1>5, AppearsNothingElse DEF UserSends
  <2>2. composer' = <<>> /\ Mark \notin WordsOf(<<>>)
    BY <1>5 DEF UserSends, WordsOf
  <2>. QED
    BY <1>2, <1>5, <2>1, <2>2 DEF UserSends, relay, life
<1>6. CASE UserSwitches
  BY <1>2, <1>6 DEF UserSwitches, relay, life
<1>7. CASE Relay
  <2>1. ~Submit
    BY <1>1 DEF Submit, ToSubmit
  <2>2. UNCHANGED <<shown, composer, submitted>>
           /\ pc' \in {"check", "dump", "scan", "dead"}
    BY <1>2, <1>7, <2>1 DEF Relay, Check, Dump, DumpFails, PassOver, ScanEnds,
       SubmitAnswered, SubmitFails, InjectFails, FindEditor, Type, Press,
       Abandon, phone, life
  <2>. QED
    BY <1>2, <2>2
<1>8. CASE Dies
  BY <1>2, <1>8 DEF Dies, phone, life
<1>9. CASE Restart
  BY <1>2, <1>9 DEF Restart, phone
<1>10. CASE UNCHANGED vars
  BY <1>2, <1>10 DEF vars, phone, relay, life
<1>. QED
  BY <1>3, <1>4, <1>5, <1>6, <1>7, <1>8, <1>9, <1>10 DEF Next, User

(* The dry run of the documentation only watches. *)
THEOREM DryRun == Spec => []DryRunOnlyWatches
<1>1. Init => DryRunOnlyWatches
  BY DEF Init, DryRunOnlyWatches, WordsOf
<1>. QED
  BY <1>1, DryRunStep, TypeCorrect, PTL DEF Spec

-----------------------------------------------------------------------------
(* The relay's own results *)

(* A text has the mark in front or nowhere. *)
MarkLeads(text) == text[1] = Mark \/ Mark \notin WordsOf(text)

(* While the user types nothing, the mark stands only in front: of the        *)
(* answers, of the message field that holds nothing but answers, and of what *)
(* is sent from there.                                                       *)
MarkInFront ==
    /\ \A text \in shown \cup batch : MarkLeads(text)
    /\ composer # <<>> => composer[1] = Mark
    /\ rendered # <<>> => rendered[1] = Mark
    /\ IgnoresItsResults

LEMMA GivenMarkLeads ==
    ASSUME NEW text \in Spoken \cup Elsewhere
    PROVE  MarkLeads(text)
BY GivenTexts DEF MarkLeads

LEMMA MarkStep ==
    ASSUME Typed = {}, TypeOK, MarkInFront, [Next]_vars
    PROVE  MarkInFront'
<1>. USE DEF MarkInFront, IgnoresItsResults
<1>1. CASE Speaks
  <2>1. PICK text \in Spoken : Appears(text)
    BY <1>1 DEF Speaks
  <2>2. shown' \subseteq shown \cup {text} /\ MarkLeads(text)
    BY <2>1, AppearsNothingElse, GivenMarkLeads
  <2>. QED
    BY <1>1, <2>2 DEF Speaks, relay, life
<1>2. CASE UserTypes
  BY <1>2 DEF UserTypes
<1>3. CASE UserSends
  <2>1. shown' \subseteq shown \cup {composer} /\ MarkLeads(composer)
    BY <1>3, AppearsNothingElse DEF UserSends, MarkLeads
  <2>. QED
    BY <1>3, <2>1 DEF UserSends, relay, life
<1>4. CASE UserSwitches
  BY <1>4 DEF UserSwitches, relay, life
<1>5. CASE Check \/ DumpFails \/ ScanEnds \/ FindEditor
  BY <1>5 DEF Check, DumpFails, ScanEnds, FindEditor, Abandon, phone, life
<1>6. CASE Dump
  <2>1. \A text \in Candidates : MarkLeads(text)
    BY GivenMarkLeads DEF Candidates, MarkLeads
  <2>. QED
    BY <1>6, <2>1 DEF Dump, phone, life
<1>7. CASE PassOver
  BY <1>7 DEF PassOver, phone, life
<1>8. CASE Submit
  <2>1. PICK text \in batch :
           /\ ToSubmit(text)
           /\ batch' = batch \ {text}
           /\ submitted' = submitted \cup {text}
    BY <1>8 DEF Submit
  <2>2. Mark \notin WordsOf(text)
    BY <2>1 DEF ToSubmit, New, IsResult, MarkLeads
  <2>. QED
    BY <1>8, <2>1, <2>2 DEF Submit, phone
<1>9. CASE SubmitAnswered
  <2>1. task \in Texts
    BY <1>9 DEF SubmitAnswered, TypeOK
  <2>2. rendered'[1] = Mark
    BY <1>9, <2>1, FormattedText DEF SubmitAnswered
  <2>. QED
    BY <1>9, <2>2 DEF SubmitAnswered, phone, life
<1>10. CASE SubmitFails
  BY <1>10 DEF SubmitFails, Abandon, phone, life
<1>11. CASE InjectFails
  BY <1>11 DEF InjectFails, phone, life
<1>12. CASE Type
  <2>1. rendered \in Texts /\ composer \in Seq(Words)
    BY <1>12 DEF Type, TypeOK
  <2>2. rendered[1] = Mark
    BY <2>1 DEF Texts
  <2>3. composer' # <<>> => composer'[1] = Mark
    BY <1>12, <2>1, <2>2, TypedText DEF Type
  <2>. QED
    BY <1>12, <2>3 DEF Type, life
<1>13. CASE Press
  <2>1. CASE inFront /\ composer # <<>>
    <3>1. shown' \subseteq shown \cup {composer} /\ MarkLeads(composer)
      BY <1>13, <2>1, AppearsNothingElse DEF Press, MarkLeads
    <3>. QED
      BY <1>13, <2>1, <3>1 DEF Press, life
  <2>2. CASE ~(inFront /\ composer # <<>>)
    BY <1>13, <2>2 DEF Press, life
  <2>. QED
    BY <2>1, <2>2
<1>14. CASE Dies
  BY <1>14 DEF Dies, phone, life
<1>15. CASE Restart
  BY <1>15 DEF Restart, phone
<1>16. CASE UNCHANGED vars
  BY <1>16 DEF vars, phone, relay, life
<1>. QED
  BY <1>1, <1>2, <1>3, <1>4, <1>5, <1>6, <1>7, <1>8, <1>9, <1>10, <1>11,
     <1>12, <1>13, <1>14, <1>15, <1>16 DEF Next, User, Relay

(* The relay never submits its own results as long as the user types nothing  *)
(* into the message field: whatever adb cuts off, however often the app is   *)
(* switched and the relay restarted, the mark stays in front.  What is typed *)
(* there before an answer arrives is what the exception takes.               *)
THEOREM OwnResultsIgnored ==
    ASSUME Typed = {}
    PROVE  Spec => []IgnoresItsResults
<1>1. Init => MarkInFront
  BY DEF Init, MarkInFront, IgnoresItsResults
<1>2. MarkInFront /\ TypeOK /\ [Next]_vars => MarkInFront'
  BY MarkStep
<1>3. MarkInFront => IgnoresItsResults
  BY DEF MarkInFront
<1>. QED
  BY <1>1, <1>2, <1>3, TypeCorrect, PTL DEF Spec
=============================================================================
