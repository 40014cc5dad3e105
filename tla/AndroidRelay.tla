----------------------------- MODULE AndroidRelay -----------------------------
(***************************************************************************)
(* The Android relay (android_relay.py run_relay) and the bridge it drives  *)
(* (android_adb.py, chatgpt_android.py): poll the phone's screen over adb,  *)
(* submit what asks for local work, type the answer into the conversation. *)
(*                                                                         *)
(* The relay is one thread, but between any two adb commands, and while    *)
(* the gateway works, the phone is its user's: messages come and go, the   *)
(* user types and changes the app.  Every adb command may fail (AdbError), *)
(* one that acts on the phone also after it has acted.                     *)
(*                                                                         *)
(* A text is the sequence of its words as far as they matter: the mark in  *)
(* front of results, words that ask for local work, and others.            *)
(* Coordinates, resource ids and the order of nodes are left out; a screen *)
(* has one message field.                                                  *)
(***************************************************************************)
EXTENDS Integers, Sequences, FiniteSets

CONSTANTS
    Mark,         \* RESULT_PREFIX
    AskWords,     \* words looks_like_delegation finds
    PlainWords,   \* words it does not find
    Spoken,       \* texts that appear in the conversation, from either side
    Typed,        \* texts the user types into the message field
    Elsewhere,    \* texts another app shows when it is in front
    MaxTexts,     \* bound of the texts on one screen, for TLC
    MaxOutput,    \* bound of the length of an answer's output, for TLC
    MaxComposed,  \* bound of the length of the message field, for TLC
    MaxLives      \* bound of the relay's starts, for TLC

Words == {Mark} \cup AskWords \cup PlainWords
Texts == Seq(Words) \ {<<>>}

ASSUME WordsAssumption == Mark \notin AskWords \cup PlainWords
ASSUME TextsAssumption ==
    /\ Spoken \cup Typed \cup Elsewhere \subseteq Texts
    /\ \A text \in Spoken \cup Typed \cup Elsewhere :
          \A i \in DOMAIN text : text[i] # Mark
ASSUME BoundsAssumption == {MaxTexts, MaxOutput, MaxComposed, MaxLives} \subseteq Nat

VARIABLES
    shown,      \* the texts of the conversation on ChatGPT's screen
    composer,   \* what stands in its message field
    inFront,    \* ChatGPT is the foreground package
    pc,         \* where the relay is
    seen,       \* seen
    batch,      \* candidates of the last dump not looked at yet
    task,       \* the text being submitted, or nothing
    rendered,   \* the answer to be typed, or nothing
    armed,      \* --arm
    submitted,  \* history: texts submitted since the relay was started
    repeated,   \* history: texts submitted once more in the same life
    lives       \* how often the relay was started

phone == <<shown, composer, inFront>>
relay == <<pc, seen, batch, task, rendered>>
life == <<armed, submitted, repeated, lives>>
vars == <<phone, relay, life>>

Init ==
    /\ shown = {} /\ composer = <<>> /\ inFront = TRUE
    /\ pc = "check" /\ seen = {} /\ batch = {} /\ task = <<>> /\ rendered = <<>>
    /\ armed \in BOOLEAN /\ submitted = {} /\ repeated = {} /\ lives = 1

WordsOf(text) == {text[i] : i \in DOMAIN text}

looks_like_delegation(text) == WordsOf(text) \cap AskWords # {}

IsResult(text) == text[1] = Mark

-----------------------------------------------------------------------------
(* The phone and its user *)

(* text is shown, and older texts may leave the screen. *)
Appears(text) ==
    \E left \in SUBSET shown :
       /\ Cardinality(left \cup {text}) <= MaxTexts
       /\ shown' = left \cup {text}

Speaks ==
    /\ \E text \in Spoken : Appears(text)
    /\ UNCHANGED <<composer, inFront, relay, life>>

UserTypes ==
    /\ inFront
    /\ \E text \in Typed :
          /\ Len(composer \o text) <= MaxComposed
          /\ composer' = composer \o text
    /\ UNCHANGED <<shown, inFront, relay, life>>

UserSends ==
    /\ inFront
    /\ composer # <<>>
    /\ Appears(composer)
    /\ composer' = <<>>
    /\ UNCHANGED <<inFront, relay, life>>

UserSwitches ==
    /\ inFront' = ~inFront
    /\ UNCHANGED <<shown, composer, relay, life>>

(* Mutant: empty nodes are candidates. *)
Candidates_EvenEmpty == IF inFront THEN shown \cup {composer} ELSE Elsewhere

(* extract_text_candidates of a dump: the message field is a node like any    *)
(* other, and the dump is of whatever is in front.                           *)
Candidates ==
    IF inFront THEN shown \cup ({composer} \ {<<>>}) ELSE Elsewhere

-----------------------------------------------------------------------------
(* One poll *)

(* current_package.  Otherwise, or if adb fails, the loop sleeps and is where *)
(* it was.                                                                   *)
Check ==
    /\ pc = "check"
    /\ inFront
    /\ pc' = "dump"
    /\ UNCHANGED <<phone, seen, batch, task, rendered, life>>

Dump ==
    /\ pc = "dump"
    /\ batch' = Candidates
    /\ pc' = "scan"
    /\ UNCHANGED <<phone, seen, task, rendered, life>>

(* RuntimeError or AdbError at the level of the loop: what the dump still had *)
(* is dropped.  (Mutant: it counts as seen.)                                 *)
Abandon_SeesTheRest ==
    /\ seen' = seen \cup batch
    /\ batch' = {}
    /\ pc' = "check"

Abandon ==
    /\ batch' = {}
    /\ pc' = "check"
    /\ UNCHANGED seen

DumpFails ==
    /\ pc = "dump"
    /\ Abandon
    /\ UNCHANGED <<phone, task, rendered, life>>

New(text) == text \in batch \ seen /\ ~IsResult(text)

(* Mutant: --arm is not looked at. *)
ToSubmit_Unarmed(text) == New(text) /\ looks_like_delegation(text)
ToSubmit(text) == New(text) /\ looks_like_delegation(text) /\ armed

(* A candidate that needs no submission. *)
PassOver ==
    /\ pc = "scan"
    /\ \E text \in batch :
          /\ ~ToSubmit(text)
          /\ batch' = batch \ {text}
          /\ seen' = IF New(text) THEN seen \cup {text} ELSE seen
    /\ UNCHANGED <<phone, pc, task, rendered, life>>

(* Mutants: the text is marked once it was submitted without an error.       *)
MarkSeen_Later(text) == UNCHANGED seen
MarkSeen(text) == seen' = seen \cup {text}

(* seen.add, then submit_gateway: the request is out. *)
Submit ==
    /\ pc = "scan"
    /\ \E text \in batch :
          /\ ToSubmit(text)
          /\ batch' = batch \ {text}
          /\ MarkSeen(text)
          /\ task' = text
          /\ submitted' = submitted \cup {text}
          /\ repeated' = repeated \cup (submitted \cap {text})
    /\ pc' = "submit"
    /\ UNCHANGED <<phone, rendered, armed, lives>>

ScanEnds ==
    /\ pc = "scan"
    /\ batch = {}
    /\ pc' = "check"
    /\ UNCHANGED <<phone, seen, batch, task, rendered, life>>

(* What the gateway may have to say of the task: its executors may repeat it  *)
(* (echo does) or say something else.                                        *)
Outputs(text) ==
    {<<word>> : word \in PlainWords}
      \cup (IF Len(text) <= MaxOutput THEN {text} ELSE {})

format_result(output) == <<Mark>> \o output

SubmitAnswered ==
    /\ pc = "submit"
    /\ \E output \in Outputs(task) : rendered' = format_result(output)
    /\ task' = <<>>
    /\ pc' = "inject"
    /\ UNCHANGED <<phone, seen, batch, life>>

(* HTTPError becomes RuntimeError. *)
SubmitFails ==
    /\ pc = "submit"
    /\ Abandon
    /\ task' = <<>>
    /\ UNCHANGED <<phone, rendered, life>>

-----------------------------------------------------------------------------
(* inject_text_message; its AdbErrors are caught and the scan goes on *)

InjectFails ==
    /\ pc \in {"inject", "type", "press"}
    /\ pc' = "scan"
    /\ rendered' = <<>>
    /\ UNCHANGED <<phone, seen, batch, task, life>>

(* The dump shows an editor and the tap reaches it. *)
FindEditor ==
    /\ pc = "inject"
    /\ pc' = "type"
    /\ UNCHANGED <<phone, seen, batch, task, rendered, life>>

(* What the message field may hold once the relay has typed: the text stands  *)
(* behind what was there, cut short if the device's shell took a line break   *)
(* or a special character in it for the end of the command.                  *)
AfterTyping ==
    {composer \o SubSeq(rendered, 1, n) : n \in 1 .. Len(rendered)}

(* The text goes to the app in front; adb may report an error all the same.  *)
Type ==
    /\ pc = "type"
    /\ \E text \in AfterTyping :
          composer' = IF inFront /\ Len(text) <= MaxComposed THEN text
                      ELSE composer
    /\ pc' \in {"press", "scan"}
    /\ rendered' = <<>>
    /\ UNCHANGED <<shown, inFront, seen, batch, task, life>>

(* The second dump, and a tap on the send button or the enter key. *)
Press ==
    /\ pc = "press"
    /\ IF inFront /\ composer # <<>>
         THEN Appears(composer) /\ composer' = <<>>
         ELSE UNCHANGED <<shown, composer>>
    /\ pc' = "scan"
    /\ UNCHANGED <<inFront, seen, batch, task, rendered, life>>

-----------------------------------------------------------------------------
(* The relay's life *)

(* It is killed, or dies of an exception the loop does not catch: the gateway *)
(* cannot be reached or does not answer within 180 seconds, an answer is not *)
(* JSON, adb may not be executed.                                            *)
Dies ==
    /\ pc # "dead"
    /\ pc' = "dead"
    /\ batch' = {} /\ task' = <<>> /\ rendered' = <<>>
    /\ UNCHANGED <<phone, seen, life>>

(* The same command is run again. *)
Restart ==
    /\ pc = "dead"
    /\ lives < MaxLives
    /\ lives' = lives + 1
    /\ pc' = "check"
    /\ seen' = {}
    /\ submitted' = {}
    /\ UNCHANGED <<phone, batch, task, rendered, armed, repeated>>

User == Speaks \/ UserTypes \/ UserSends \/ UserSwitches

Relay ==
    \/ Check \/ Dump \/ DumpFails
    \/ PassOver \/ Submit \/ ScanEnds
    \/ SubmitAnswered \/ SubmitFails
    \/ InjectFails \/ FindEditor \/ Type \/ Press

Next == User \/ Relay \/ Dies \/ Restart

Spec == Init /\ [][Next]_vars

(* The relay is a loop that runs; a submission ends within its timeout; a    *)
(* dump that is tried again and again succeeds at some time.                 *)
RelayFair ==
    /\ WF_vars(Relay)
    /\ SF_vars(Dump)

FairSpec == Spec /\ RelayFair

-----------------------------------------------------------------------------
(* Types *)

(* Every variable has its type, and the message field and answers stay       *)
(* within their bounds.                                                      *)
TypeOK ==
    /\ shown \subseteq Texts
    /\ composer \in Seq(Words)
    /\ inFront \in BOOLEAN
    /\ pc \in {"check", "dump", "scan", "submit", "inject", "type", "press",
               "dead"}
    /\ seen \subseteq Texts
    /\ batch \subseteq Texts
    /\ task \in Seq(Words)
    /\ rendered \in Seq(Words)
    /\ submitted \subseteq Texts
    /\ repeated \subseteq Texts
    /\ armed \in BOOLEAN
    /\ lives \in Nat
    /\ pc = "submit" => task \in Texts
    /\ pc \in {"inject", "type"} => rendered \in Texts

-----------------------------------------------------------------------------
(* Safety *)

(* While the relay lives it submits a text at most once, whatever fails and   *)
(* however often the text is shown again.                                    *)
SubmittedOncePerLife == repeated = {}

(* What the relay has seen, it has dealt with: the texts that ask for work    *)
(* and are never looked at again are exactly those that were submitted, even *)
(* if an earlier candidate's failure cut the scan short; in a dry run, none. *)
SeenIsDealtWith ==
    submitted = {text \in seen : armed /\ looks_like_delegation(text)}

(* docs/ANDROID_BRIDGE.md: "The relay ignores its own `[local delegation      *)
(* result]` messages to reduce feedback-loop risk."                          *)
IgnoresItsResults == \A text \in submitted : Mark \notin WordsOf(text)

(* docs/ANDROID_BRIDGE.md: without --arm nothing is submitted, and so nothing *)
(* is typed or sent on the user's phone.                                     *)
DryRunOnlyWatches ==
    ~armed => /\ submitted = {}
            /\ pc \in {"check", "dump", "scan", "dead"}
            /\ \A text \in shown \cup {composer} : Mark \notin WordsOf(text)

-----------------------------------------------------------------------------
(* Liveness *)

(* A request that stays on the screen, with ChatGPT in front and the relay    *)
(* alive, is submitted in the end: failed dumps, failed submissions of other *)
(* texts and failed injections only delay it.                                *)
RequestsAreHeard ==
    \A text \in Spoken :
        (/\ armed /\ looks_like_delegation(text)
         /\ <>[](text \in shown /\ inFront /\ pc # "dead"))
           => <>(text \in submitted)
=============================================================================
