--------------------------- MODULE DelegationTable ---------------------------
(***************************************************************************)
(* What the delegation service promises its callers: a call is accepted    *)
(* under the id it brings, is replied to at most once, with a final answer *)
(* for that id, and the answer can be read under the id from that moment   *)
(* until a call with the same id is replied to.  A call that fails leaves  *)
(* no trace.                                                               *)
(***************************************************************************)
CONSTANTS None, Calls, Ids, Answers

VARIABLES
    phase,  \* of each call
    asked,  \* the id it brought
    told,   \* what it was replied
    table   \* what a reader finds under each id

vars == <<phase, asked, told, table>>

TypeOK ==
    /\ phase \in [Calls -> {"idle", "pending", "answered", "failed"}]
    /\ asked \in [Calls -> Ids \cup {None}]
    /\ told \in [Calls -> Answers \cup {None}]
    /\ table \in [Ids -> Answers \cup {None}]

Init ==
    /\ phase = [c \in Calls |-> "idle"]
    /\ asked = [c \in Calls |-> None]
    /\ told = [c \in Calls |-> None]
    /\ table = [i \in Ids |-> None]

(* The call of c is, or becomes, one for id i. *)
For(c, i) ==
    /\ \/ phase[c] = "idle"
       \/ phase[c] = "pending" /\ asked[c] = i
    /\ asked' = [asked EXCEPT ![c] = i]

Accept(c, i) ==
    /\ phase[c] = "idle"
    /\ For(c, i)
    /\ phase' = [phase EXCEPT ![c] = "pending"]
    /\ UNCHANGED <<told, table>>

Reply(c, i, a) ==
    /\ For(c, i)
    /\ a.delegation_id = i
    /\ a.state \in {"succeeded", "failed", "rejected"}
    /\ phase' = [phase EXCEPT ![c] = "answered"]
    /\ told' = [told EXCEPT ![c] = a]
    /\ table' = [table EXCEPT ![i] = a]

Fail(c) ==
    /\ phase[c] = "pending"
    /\ phase' = [phase EXCEPT ![c] = "failed"]
    /\ UNCHANGED <<asked, told, table>>

Next ==
    \E c \in Calls :
       \/ \E i \in Ids : Accept(c, i) \/ \E a \in Answers : Reply(c, i, a)
       \/ Fail(c)

Spec == Init /\ [][Next]_vars
=============================================================================
