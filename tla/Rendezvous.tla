----------------------------- MODULE Rendezvous -----------------------------
(***************************************************************************)
(* What a pending store promises: the abstract specification of both       *)
(* PendingStores (async approvals and async executions), every operation   *)
(* of a store in one atomic step.                                          *)
(*                                                                         *)
(* An attempt is one run of Client.Approve or HTTP.Execute in async mode.  *)
(* It opens a slot under its correlation id, is answered at most once by a *)
(* callback that names that id, and cancels the id when it leaves.         *)
(* PendingStore implements this module step by step; ToolCall composes     *)
(* with it.                                                                *)
(***************************************************************************)

CONSTANTS
    Attempts,   \* the attempts to get an asynchronous answer
    Ids,        \* correlation ids
    Verdicts,   \* what a callback can answer
    None,       \* the absence of an attempt, a verdict or an id
    IdOf        \* [Attempts -> Ids], the id an attempt uses

VARIABLES
    table,      \* the slot of each id: the attempt that opened it, or None
    answer,     \* the callback verdict an attempt's slot was resolved with
    revoked,    \* attempts whose slot was cancelled without a verdict
    phase,      \* where each attempt is: idle, open, left (deferred Cancel due), gone
    outcome     \* how each attempt ended: [kind, verdict]

vars == <<table, answer, revoked, phase, outcome>>

NoOutcome == [kind |-> "none", verdict |-> None]

\* The outcomes of an attempt, by kind: an answer in the HTTP response itself
\* ("immediate"), a callback ("received"), or one of the ways to get none.
Outcomes ==
    [kind : {"immediate", "received"}, verdict : Verdicts]
      \cup [kind : {"none", "refused", "failed", "closed", "timeout"}, verdict : {None}]

\* The outcomes an attempt can reach on its own, whatever becomes of its slot.
OwnOutcomes == {o \in Outcomes : o.kind \in {"immediate", "failed", "timeout"}}

Init ==
    /\ table = [i \in Ids |-> None]
    /\ answer = [a \in Attempts |-> None]
    /\ revoked = {}
    /\ phase = [a \in Attempts |-> "idle"]
    /\ outcome = [a \in Attempts |-> NoOutcome]

\* Register allocates the slot of a's id.
Register(a) ==
    /\ phase[a] = "idle"
    /\ table[IdOf[a]] = None
    /\ table' = [table EXCEPT ![IdOf[a]] = a]
    /\ phase' = [phase EXCEPT ![a] = "open"]
    /\ UNCHANGED <<answer, revoked, outcome>>

\* Register finds the id taken: no slot, and no Cancel is deferred.
Refuse(a) ==
    /\ phase[a] = "idle"
    /\ table[IdOf[a]] # None
    /\ phase' = [phase EXCEPT ![a] = "gone"]
    /\ outcome' = [outcome EXCEPT ![a] = [kind |-> "refused", verdict |-> None]]
    /\ UNCHANGED <<table, answer, revoked>>

\* Resolve takes the slot of id i, whoever holds it, and answers its attempt.
Resolve(i, v) ==
    /\ table[i] # None
    /\ answer' = [answer EXCEPT ![table[i]] = v]
    /\ table' = [table EXCEPT ![i] = None]
    /\ UNCHANGED <<revoked, phase, outcome>>

EndAs(a, o) ==
    /\ phase[a] = "open"
    /\ phase' = [phase EXCEPT ![a] = "left"]
    /\ outcome' = [outcome EXCEPT ![a] = o]
    /\ UNCHANGED <<table, answer, revoked>>

\* The attempt takes the answer it was given.
Take(a) ==
    /\ answer[a] # None
    /\ EndAs(a, [kind |-> "received", verdict |-> answer[a]])

\* The attempt finds its slot cancelled.
FindRevoked(a) ==
    /\ a \in revoked
    /\ EndAs(a, [kind |-> "closed", verdict |-> None])

\* The attempt ends by itself: answered in the response, failed or timed out.
Leave(a) == \E o \in OwnOutcomes : EndAs(a, o)

\* The deferred Cancel: it takes the slot of a's id, whoever holds it.
Cancel(a) ==
    /\ phase[a] = "left"
    /\ phase' = [phase EXCEPT ![a] = "gone"]
    /\ table' = [table EXCEPT ![IdOf[a]] = None]
    /\ revoked' = revoked \cup ({table[IdOf[a]]} \ {None})
    /\ UNCHANGED <<answer, outcome>>

Next ==
    \/ \E a \in Attempts : Register(a) \/ Refuse(a) \/ Take(a) \/ FindRevoked(a)
                             \/ Leave(a) \/ Cancel(a)
    \/ \E i \in Ids, v \in Verdicts : Resolve(i, v)

Spec == Init /\ [][Next]_vars
=============================================================================
