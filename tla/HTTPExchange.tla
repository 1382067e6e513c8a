----------------------------- MODULE HTTPExchange -----------------------------
(***************************************************************************)
(* What an HTTP approver or executor says and what the gateway takes it    *)
(* for: Client.Approve and HTTP.Execute from the response on, their waits, *)
(* and the two webhook handlers, for one attempt.                          *)
(*                                                                         *)
(* A service has one answer for the request. It may give it in the         *)
(* response or promise it ("pending", 202) and send it to the webhook; it  *)
(* may also send things that say nothing. Words come in the spelling of    *)
(* the protocol or in another one (capitals, spaces), texts are missing,   *)
(* short, or beyond what the gateway reads of a response. And a response   *)
(* whose status has come may break off at any point of its body.           *)
(***************************************************************************)
EXTENDS Naturals, FiniteSets

CONSTANTS
    MaxCallbacks,   \* bound: callbacks that reach the webhook
    None

VARIABLES
    side,       \* "approver" or "executor"
    async,      \* the service may answer by callback
    answer,     \* environment: what the service has decided
    id,         \* the correlation id of the call
    phase,      \* "request", "await" or "done"
    slot,       \* the attempt's slot is in the pending store
    buffer,     \* the slot's channel: a delivered answer, or None
    callbacks,  \* callbacks so far
    ack,        \* HTTP status of the last callback, or None
    outcome,    \* [verdict, text]: what the attempt returns
    heard       \* history: [by, body] of the response or callback it is from;
                \* by "cut", of a response that was not read to its end

fixed == <<side, async, answer, id>>
vars == <<fixed, phase, slot, buffer, callbacks, ack, outcome, heard>>

Spellings == {"plain", "other"}
Texts == {"", "short", "long"}

\* What decides, by protocol, in a response or a callback.
Decisions == {"approve", "deny", "error"}
Statuses == {"success", "error"}
Decisive == IF side = "approver" THEN Decisions ELSE Statuses

Answers == [word : Decisive, spelling : Spellings, text : Texts]

ASSUME MaxCallbacksAssumption == MaxCallbacks \in Nat
ASSUME NoneAssumption ==
    /\ None \notin Decisions \cup Statuses \cup {"pending", "unknown", ""}
    /\ None \notin [word : Decisions \cup Statuses, spelling : Spellings, text : Texts]

\* A response is a status and a body; a body that is no JSON object has no word.
Garbled == [word |-> None, spelling |-> "plain", text |-> "short"]
Blank == [word |-> None, spelling |-> "plain", text |-> ""]
Say(w) == [word |-> w, spelling |-> "plain", text |-> ""]

Responses ==
    [status : {200}, body : {answer, Garbled, Blank, Say("pending"), Say("unknown"), Say("")}]
    \cup [status : {202}, body : {answer, Garbled, Blank, Say("pending")}]
    \cup [status : {500}, body : {Blank}]

\* An id that a client gives may have spaces around it, or be nothing else.
Ids == {"i", " i ", " "}

\* Callbacks echo the id of the request, or have another one.
Payloads == [id : {id, "j"}, body : {answer, Garbled, Say("pending"), Say("")}]

\* strings.TrimSpace, of an id.
Trim(i) == CASE i = " i " -> "i" [] i = " " -> "" [] OTHER -> i

\* strings.ToLower(strings.TrimSpace(word)).
Normal(b) == b.word

\* Variant with a plausible mistake: the webhook compares the word as it is.
LiteralWord(b) == IF b.spelling = "plain" THEN b.word ELSE "unknown"

\* The word as a webhook handler sees it.
CallbackWord(b) == Normal(b)

\* io.LimitReader: a long response is cut off, which leaves no JSON.
Limited(b) == IF b.text = "long" /\ b.word # None THEN Garbled ELSE b

\* io.ReadAll, its error ignored: all of that, or what came of the body before
\* the connection was lost or a timeout was over.
Reads(b) == {Limited(b), Garbled, Blank}

\* fallbackReason and its likes.
TextOr(b, fallback) == IF b.text = "" THEN fallback ELSE b.text

Outcome(v, text) == [verdict |-> v, text |-> text]
Await == Outcome("await", "")

-----------------------------------------------------------------------------
(* Responses, with as much of the body as has been read.                   *)

\* An async service takes the request and says nothing.
Acknowledged(r) == r.status = 202 /\ async /\ r.body = Blank

\* Variant with a plausible mistake: the approver's client does as the executor's
\* and takes a 2xx response without a decision for consent.
FailOpen(r) ==
    LET b == r.body IN
    IF r.status = 202 /\ async /\ (b = Blank \/ b.word = "pending") THEN Await
    ELSE IF r.status < 300 /\ b.word \notin {"deny", "error", "pending"}
    THEN Outcome("yes", TextOr(b, "approved")) ELSE Outcome("no", TextOr(b, "denied"))

\* What the body of a 2xx response decides, to an approver's client and to an
\* executor's; accepted is the executor's 202.
Decided(b) ==
    CASE b.word = None -> Outcome("error", "invalid")
      [] Normal(b) = "approve" -> Outcome("yes", TextOr(b, "approved"))
      [] Normal(b) = "deny" -> Outcome("no", TextOr(b, "denied"))
      [] Normal(b) = "error" -> Outcome("no", TextOr(b, "approver error"))
      [] Normal(b) = "pending" -> IF async THEN Await ELSE Outcome("no", "pending")
      [] OTHER -> Outcome("error", "unknown")

Executed(b, accepted) ==
    CASE Normal(b) = "success" -> Outcome("yes", TextOr(b, "ok"))
      [] Normal(b) = "error" -> Outcome("error", TextOr(b, "executor error"))
      [] Normal(b) = "pending" -> IF async THEN Await ELSE Outcome("error", "pending")
      [] Normal(b) \in {None, ""} -> IF accepted /\ async THEN Await ELSE Outcome("yes", "body")
      [] OTHER -> Outcome("error", "unknown")

\* Client.Approve. (202 outside of 2xx, line 153, cannot happen.)
Approve(r) ==
    IF r.status >= 300 THEN Outcome("no", "status")
    ELSE IF Acknowledged(r) THEN Await
    ELSE Decided(r.body)

\* HTTP.Execute.
Execute(r) ==
    IF r.status >= 300 THEN Outcome("error", "status")
    ELSE IF Acknowledged(r) THEN Await
    ELSE Executed(r.body, r.status = 202)

Taken(r) == IF side = "approver" THEN Approve(r) ELSE Execute(r)

-----------------------------------------------------------------------------
(* Callbacks.                                                              *)

\* The webhook handlers up to Resolve: 400 for what cannot be a decision, 404
\* for one that nobody waits for. The id is trimmed here, and only here.
Status(p) ==
    IF Trim(p.id) = "" \/ CallbackWord(p.body) \notin Decisive THEN "bad_request"
    ELSE IF Trim(p.id) = id /\ slot THEN "ok" ELSE "not_found"

\* Variant with a plausible mistake: only success is given a default text.
NoErrorText(b) == IF b.word = "success" THEN TextOr(b, "ok") ELSE b.text

\* asyncResult of the executor's handler.
ResultText(b) == TextOr(b, IF Normal(b) = "success" THEN "ok" ELSE "executor error")

\* What awaitDecision and awaitResult make of a delivered answer.
Delivered(b) ==
    IF side = "approver"
    THEN CASE Normal(b) = "approve" -> Outcome("yes", b.text)
           [] Normal(b) = "deny" -> Outcome("no", TextOr(b, "denied"))
           [] OTHER -> Outcome("no", TextOr(b, "approver error"))
    ELSE Outcome(IF Normal(b) = "success" THEN "yes" ELSE "error", ResultText(b))

-----------------------------------------------------------------------------

Pending == Outcome("none", "")
Nothing == [by |-> "none", body |-> Blank]

TypeOK ==
    /\ side \in {"approver", "executor"}
    /\ {async, slot} \subseteq BOOLEAN
    /\ answer \in Answers /\ id \in Ids
    /\ phase \in {"request", "await", "done"}
    /\ buffer \in Answers \cup {None}
    /\ callbacks \in 0..MaxCallbacks
    /\ ack \in {None, "ok", "bad_request", "not_found"}
    /\ outcome.verdict \in {"none", "yes", "no", "error", "timeout"}
    /\ phase = "done" <=> outcome # Pending
    /\ slot => async /\ phase # "done"

\* The request is out; in async mode the slot is registered before.
Init ==
    /\ side \in {"approver", "executor"}
    /\ async \in BOOLEAN
    /\ answer \in Answers /\ id \in Ids
    /\ phase = "request"
    /\ slot = async
    /\ buffer = None /\ callbacks = 0 /\ ack = None
    /\ outcome = Pending /\ heard = Nothing

\* The attempt returns; its deferred Cancel takes the slot away.
End(o, h) ==
    /\ phase' = "done"
    /\ outcome' = o
    /\ heard' = h
    /\ slot' = FALSE
    /\ UNCHANGED <<fixed, buffer, callbacks, ack>>

Respond ==
    /\ phase = "request"
    /\ \E r \in Responses : \E read \in Reads(r.body) :
         LET o == Taken([r EXCEPT !.body = read]) IN
         IF o.verdict = "await"
         THEN /\ phase' = "await"
              /\ UNCHANGED <<fixed, slot, buffer, callbacks, ack, outcome, heard>>
         ELSE End(o, [by |-> IF read = r.body THEN "response" ELSE "cut", body |-> r.body])

\* No response: client.Do returns an error.
Fail == phase = "request" /\ End(Outcome("error", "failed"), Nothing)

Callback ==
    /\ async /\ callbacks < MaxCallbacks
    /\ callbacks' = callbacks + 1
    /\ \E p \in Payloads :
         /\ ack' = Status(p)
         /\ IF Status(p) = "ok"
            THEN slot' = FALSE /\ buffer' = p.body
            ELSE UNCHANGED <<slot, buffer>>
    /\ UNCHANGED <<fixed, phase, outcome, heard>>

Receive == phase = "await" /\ buffer # None /\ End(Delivered(buffer), [by |-> "callback", body |-> buffer])

Expire == phase = "await" /\ End(Outcome("timeout", "timeout"), Nothing)

Terminated == phase = "done" /\ UNCHANGED vars

Next == Respond \/ Fail \/ Callback \/ Receive \/ Expire \/ Terminated

Spec == Init /\ [][Next]_vars

-----------------------------------------------------------------------------
(* Correctness.                                                            *)

Fits == answer.text # "long"

\* A yes was meant as one. Nothing but the word "approve", read to its end, lets
\* a call through an HTTP approver: no 2xx without a body, no other JSON, no error
\* page, no acknowledgement, nothing that broke off. And an executor that says
\* "error" is not reported, or cached, as a success, in whatever status, spelling
\* and way it says so, if its response is read to the end. (One that breaks off,
\* or is too long, is no JSON any more, and then a 2xx status is a success.)
YesIsMeant ==
    outcome.verdict = "yes" =>
        IF side = "approver"
        THEN heard.body.word = "approve" /\ heard.by # "cut"
        ELSE heard.body.word # "error" \/ heard.by = "cut"

\* It makes no difference to the client of the tool in which way a service
\* answers: the same decision with the same text comes out of a callback as
\* would have out of the response, whatever its spelling. (The reason of an
\* approval goes to the audit log only, and differs.)
SameByCallback ==
    heard.by = "callback" /\ Fits =>
        LET o == Taken([status |-> 200, body |-> answer])
        IN /\ outcome.verdict = o.verdict
           /\ side # "approver" \/ o.verdict # "yes" => outcome.text = o.text

\* A service that was told to wait can still answer: while its slot is there,
\* its decision is taken, and what was refused before has not used the slot up.
\* (Of calls whose id has no spaces around it: only the webhook trims ids, so that
\* an id with spaces is never found.)
AnswerIsTaken ==
    phase = "await" /\ buffer = None /\ Trim(id) = id =>
        /\ slot
        /\ Status([id |-> id, body |-> answer]) = "ok"
=============================================================================
