---------------------------- MODULE PendingStore ----------------------------
(***************************************************************************)
(* internal/approver/http/async.go with the part of http.go that uses it   *)
(* (internal/runtime/executor has the same store and the same use of it).  *)
(*                                                                         *)
(* The goroutines that share a store are interleaved at the grain the code *)
(* gives them: the map is accessed under the mutex (one step), but         *)
(* Resolve and Cancel work on the popped entry after the unlock, so the    *)
(* send and the close on its channel are steps of their own, and so is the *)
(* deferred Cancel of an attempt that already has its outcome.             *)
(***************************************************************************)

CONSTANTS
    Attempts,   \* runs of Client.Approve in async mode
    Handlers,   \* runs of WebhookHandler.ServeHTTP: every callback, duplicates included
    Ids,        \* correlation ids
    Verdicts,   \* decisions a callback carries
    IdOf,       \* [Attempts -> Ids]: req.CorrelationID
    Timed,      \* the attempts whose context has a deadline
    None        \* no entry, no verdict

ASSUME IdAssumption == IdOf \in [Attempts -> Ids]
ASSUME TimedAssumption == Timed \subseteq Attempts
ASSUME NoneAssumption == None \notin Attempts /\ None \notin Verdicts

VARIABLES
    pending,    \* PendingStore.pending: the entry of each id; an entry is named
                \* after the attempt that registered it
    buf,        \* the one-element buffer of each entry's channel
    closed,     \* whether each entry's channel is closed
    pc,         \* where each attempt is
    result,     \* what each attempt's Approve returned
    held,       \* the entry an attempt's Cancel popped
    hpc,        \* where each handler is
    hmsg,       \* the decision a handler delivers
    hentry,     \* the entry a handler's Resolve popped
    reply,      \* the HTTP status a handler answered
    panicked    \* a send on, or a close of, a closed channel

storeVars == <<pending, buf, closed>>
attemptVars == <<pc, result, held>>
handlerVars == <<hpc, hmsg, hentry, reply>>
vars == <<storeVars, attemptVars, handlerVars, panicked>>

Entries == Attempts \cup {None}

\* How Approve ends; the kinds are those of Rendezvous.
Results ==
    [kind : {"immediate", "received"}, verdict : Verdicts]
      \cup [kind : {"none", "refused", "failed", "closed", "timeout"}, verdict : {None}]

Ended(k) == [kind |-> k, verdict |-> None]

TypeOK ==
    /\ pending \in [Ids -> Entries]
    /\ buf \in [Attempts -> Verdicts \cup {None}]
    /\ closed \in [Attempts -> BOOLEAN]
    /\ pc \in [Attempts -> {"start", "posting", "awaiting", "cancel", "closing", "done"}]
    /\ result \in [Attempts -> Results]
    /\ held \in [Attempts -> Entries]
    /\ hpc \in [Handlers -> {"idle", "send", "close", "done"}]
    /\ hmsg \in [Handlers -> Verdicts \cup {None}]
    /\ hentry \in [Handlers -> Entries]
    /\ reply \in [Handlers -> {"none", "ok", "not_found", "bad_request"}]
    /\ panicked \in BOOLEAN

Init ==
    /\ pending = [i \in Ids |-> None]
    /\ buf = [a \in Attempts |-> None]
    /\ closed = [a \in Attempts |-> FALSE]
    /\ pc = [a \in Attempts |-> "start"]
    /\ result = [a \in Attempts |-> Ended("none")]
    /\ held = [a \in Attempts |-> None]
    /\ hpc = [h \in Handlers |-> "idle"]
    /\ hmsg = [h \in Handlers |-> None]
    /\ hentry = [h \in Handlers |-> None]
    /\ reply = [h \in Handlers |-> "none"]
    /\ panicked = FALSE

-----------------------------------------------------------------------------
(* Variants of the actions below that contain a plausible mistake; the     *)
(* runs check that each property tells the code from one of them.          *)

\* Approve returns without deferring Cancel.
NoCancel(a) ==
    /\ pc[a] = "cancel"
    /\ pc' = [pc EXCEPT ![a] = "done"]
    /\ UNCHANGED <<storeVars, result, held, handlerVars, panicked>>

\* Resolve looks the entry up without deleting it.
ResolveLookup(h, i, v) ==
    /\ hpc[h] = "idle"
    /\ pending[i] # None
    /\ hmsg' = [hmsg EXCEPT ![h] = v]
    /\ hentry' = [hentry EXCEPT ![h] = pending[i]]
    /\ hpc' = [hpc EXCEPT ![h] = "send"]
    /\ UNCHANGED <<storeVars, attemptVars, reply, panicked>>

\* Register replaces what the id maps to instead of refusing it.
RegisterOver(a) ==
    /\ pc[a] = "start"
    /\ pending' = [pending EXCEPT ![IdOf[a]] = a]
    /\ pc' = [pc EXCEPT ![a] = "posting"]
    /\ UNCHANGED <<buf, closed, result, held, handlerVars, panicked>>

\* An unbuffered channel: the non-blocking send needs a receiver that waits.
UnbufferedSend(h) ==
    /\ hpc[h] = "send"
    /\ buf' = [buf EXCEPT ![hentry[h]] = IF pc[hentry[h]] = "awaiting" THEN hmsg[h] ELSE @]
    /\ hpc' = [hpc EXCEPT ![h] = "close"]
    /\ UNCHANGED <<pending, closed, attemptVars, hmsg, hentry, reply, panicked>>

\* Cancel deletes the entry but does not close its channel.
CancelWithoutClose(a) ==
    /\ pc[a] = "closing"
    /\ pc' = [pc EXCEPT ![a] = "done"]
    /\ UNCHANGED <<storeVars, result, held, handlerVars, panicked>>

\* A select without the ctx.Done() branch.
NoCtxDone(a) == FALSE /\ pc[a] = "awaiting" /\ UNCHANGED vars

-----------------------------------------------------------------------------
(* The attempt: Client.Approve from Register on.                           *)

\* Register allocates the slot and the buffered channel.
Register(a) ==
    /\ pc[a] = "start"
    /\ pending[IdOf[a]] = None
    /\ pending' = [pending EXCEPT ![IdOf[a]] = a]
    /\ pc' = [pc EXCEPT ![a] = "posting"]
    /\ UNCHANGED <<buf, closed, result, held, handlerVars, panicked>>

\* errAlreadyPending: Approve returns before Cancel is deferred.
RegisterRefused(a) ==
    /\ pc[a] = "start"
    /\ pending[IdOf[a]] # None
    /\ pc' = [pc EXCEPT ![a] = "done"]
    /\ result' = [result EXCEPT ![a] = Ended("refused")]
    /\ UNCHANGED <<storeVars, held, handlerVars, panicked>>

\* 202, or a "pending" body: go and wait for the callback.
PostAccepted(a) ==
    /\ pc[a] = "posting"
    /\ pc' = [pc EXCEPT ![a] = "awaiting"]
    /\ UNCHANGED <<storeVars, result, held, handlerVars, panicked>>

\* Approve has its outcome r; the deferred Cancel is still to run.
Return(a, r) ==
    /\ pc' = [pc EXCEPT ![a] = "cancel"]
    /\ result' = [result EXCEPT ![a] = r]
    /\ UNCHANGED <<held, handlerVars, panicked>>

\* The response itself decides, or the request failed (error, bad status, bad body).
PostDecided(a) ==
    /\ pc[a] = "posting"
    /\ \/ \E v \in Verdicts : Return(a, [kind |-> "immediate", verdict |-> v])
       \/ Return(a, Ended("failed"))
    /\ UNCHANGED storeVars

\* awaitDecision receives a decision: a closed channel still yields its buffer.
Receive(a) ==
    /\ pc[a] = "awaiting"
    /\ buf[a] # None
    /\ buf' = [buf EXCEPT ![a] = None]
    /\ Return(a, [kind |-> "received", verdict |-> buf[a]])
    /\ UNCHANGED <<pending, closed>>

\* awaitDecision: the channel is closed and empty ("approval webhook channel closed").
ReceiveClosed(a) ==
    /\ pc[a] = "awaiting"
    /\ closed[a] /\ buf[a] = None
    /\ Return(a, Ended("closed"))
    /\ UNCHANGED storeVars

\* awaitDecision: ctx.Done(). The select may take this branch although a
\* decision is there. A context without a deadline can still be cancelled.
CtxDone(a) ==
    /\ pc[a] = "awaiting"
    /\ Return(a, Ended("timeout"))
    /\ UNCHANGED storeVars

\* The deferred Cancel pops whatever the id maps to by now.
CancelPop(a) ==
    /\ pc[a] = "cancel"
    /\ LET e == pending[IdOf[a]] IN
         /\ pending' = [pending EXCEPT ![IdOf[a]] = None]
         /\ held' = [held EXCEPT ![a] = e]
         /\ pc' = [pc EXCEPT ![a] = IF e = None THEN "done" ELSE "closing"]
    /\ UNCHANGED <<buf, closed, result, handlerVars, panicked>>

CloseChannel(e) ==
    /\ panicked' = (panicked \/ closed[e])
    /\ closed' = [closed EXCEPT ![e] = TRUE]

CancelClose(a) ==
    /\ pc[a] = "closing"
    /\ CloseChannel(held[a])
    /\ pc' = [pc EXCEPT ![a] = "done"]
    /\ UNCHANGED <<pending, buf, result, held, handlerVars>>

-----------------------------------------------------------------------------
(* The handler: WebhookHandler.ServeHTTP and Resolve. A callback can name  *)
(* any id, come at any time and come twice: the service may be late, may   *)
(* retry, and may answer a request of a previous life of this process.     *)

\* Wrong method, undecodable body, empty id or unknown decision.
Reject(h) ==
    /\ hpc[h] = "idle"
    /\ hpc' = [hpc EXCEPT ![h] = "done"]
    /\ reply' = [reply EXCEPT ![h] = "bad_request"]
    /\ UNCHANGED <<storeVars, attemptVars, hmsg, hentry, panicked>>

\* Resolve pops the entry, whoever registered it.
ResolvePop(h, i, v) ==
    /\ hpc[h] = "idle"
    /\ pending[i] # None
    /\ pending' = [pending EXCEPT ![i] = None]
    /\ hmsg' = [hmsg EXCEPT ![h] = v]
    /\ hentry' = [hentry EXCEPT ![h] = pending[i]]
    /\ hpc' = [hpc EXCEPT ![h] = "send"]
    /\ UNCHANGED <<buf, closed, attemptVars, reply, panicked>>

NotFound(h, i) ==
    /\ hpc[h] = "idle"
    /\ pending[i] = None
    /\ hpc' = [hpc EXCEPT ![h] = "done"]
    /\ reply' = [reply EXCEPT ![h] = "not_found"]
    /\ UNCHANGED <<storeVars, attemptVars, hmsg, hentry, panicked>>

\* The non-blocking send: a full buffer drops the decision.
ResolveSend(h) ==
    /\ hpc[h] = "send"
    /\ LET e == hentry[h] IN
         /\ panicked' = (panicked \/ closed[e])
         /\ buf' = [buf EXCEPT ![e] = IF @ = None /\ ~closed[e] THEN hmsg[h] ELSE @]
    /\ hpc' = [hpc EXCEPT ![h] = "close"]
    /\ UNCHANGED <<pending, closed, attemptVars, hmsg, hentry, reply>>

ResolveClose(h) ==
    /\ hpc[h] = "close"
    /\ CloseChannel(hentry[h])
    /\ hpc' = [hpc EXCEPT ![h] = "done"]
    /\ reply' = [reply EXCEPT ![h] = "ok"]
    /\ UNCHANGED <<pending, buf, attemptVars, hmsg, hentry>>

-----------------------------------------------------------------------------

AttemptNext(a) ==
    \/ Register(a) \/ RegisterRefused(a)
    \/ PostAccepted(a) \/ PostDecided(a)
    \/ Receive(a) \/ ReceiveClosed(a) \/ CtxDone(a)
    \/ CancelPop(a) \/ CancelClose(a)

HandlerNext(h) ==
    \/ Reject(h)
    \/ \E i \in Ids : NotFound(h, i) \/ \E v \in Verdicts : ResolvePop(h, i, v)
    \/ ResolveSend(h) \/ ResolveClose(h)

\* Every attempt has returned: only callbacks can still come, and need not.
Terminated ==
    /\ \A a \in Attempts : pc[a] = "done"
    /\ UNCHANGED vars

Next ==
    \/ \E a \in Attempts : AttemptNext(a)
    \/ \E h \in Handlers : HandlerNext(h)
    \/ Terminated

(* A runnable goroutine runs. client.Do returns (http.Client.Timeout is     *)
(* set, except for an approver whose timeout is written as zero or less,   *)
(* which is left out here; see Timeouts), a deadline expires; nobody has   *)
(* to start an attempt, to send a callback, or to cancel a context that    *)
(* has no deadline.                                                        *)
Fairness ==
    /\ \A a \in Attempts :
         /\ WF_vars(PostAccepted(a) \/ PostDecided(a))
         /\ WF_vars(Receive(a) \/ ReceiveClosed(a))
         /\ WF_vars(CancelPop(a) \/ CancelClose(a))
    /\ \A a \in Timed : WF_vars(CtxDone(a))
    /\ \A h \in Handlers : WF_vars(ResolveSend(h) \/ ResolveClose(h))

Spec == Init /\ [][Next]_vars
FairSpec == Spec /\ Fairness

-----------------------------------------------------------------------------
(* Correctness.                                                            *)

\* No goroutine sends on or closes a closed channel (Resolve and Cancel work
\* on the popped entry outside the mutex, async.go:46-58 and 63-66).
NoPanic == ~panicked

Answered(a) == \E h \in Handlers : hentry[h] = a
Revoked(a) == \E b \in Attempts : held[b] = a

\* A registered slot ends at most once: one callback takes it, or one Cancel,
\* never two of them, however callbacks and retries of one id interleave.
SlotEndsOnce ==
    /\ \A g, h \in Handlers : hentry[g] = hentry[h] /\ hentry[g] # None => g = h
    /\ \A a, b \in Attempts : held[a] = held[b] /\ held[a] # None => a = b
    /\ \A a \in Attempts : ~(Answered(a) /\ Revoked(a))

\* What a callback's 200 means: the attempt whose slot it took never ends as if
\* it had been cancelled, and if it returns a callback's decision it is this one.
AcknowledgedIsDelivered ==
    \A h \in Handlers : hentry[h] # None =>
        LET r == result[hentry[h]] IN
          /\ r.kind \notin {"closed", "refused"}
          /\ r.kind = "received" => r.verdict = hmsg[h]

\* No decision from nowhere: a decision returned by awaitDecision was carried
\* by a callback that took this very attempt's slot.
ReceivedWasSent ==
    \A a \in Attempts : result[a].kind = "received" => Answered(a)

\* The table holds no slot of an attempt that has returned: a finished call
\* never blocks its id ("approval already pending") nor swallows a callback.
NoLeak ==
    \A i \in Ids : pending[i] # None =>
        pc[pending[i]] \in {"posting", "awaiting", "cancel"}

\* No lost wake-up: an attempt that waits has its slot in the table, or its
\* channel holds the news, or the goroutine that took the slot is bringing it.
NoLostWakeup ==
    \A a \in Attempts : pc[a] = "awaiting" =>
        \/ pending[IdOf[a]] = a
        \/ buf[a] # None \/ closed[a]
        \/ \E h \in Handlers : hentry[h] = a /\ hpc[h] \in {"send", "close"}
        \/ \E b \in Attempts : held[b] = a /\ pc[b] = "closing"

\* The state of Rendezvous that a state of the store stands for: an attempt is
\* answered when a handler pops its slot and revoked when a Cancel does, although
\* the channel is written and closed later.
AnswerGiven ==
    [a \in Attempts |->
       IF Answered(a) THEN hmsg[CHOOSE h \in Handlers : hentry[h] = a] ELSE None]

RevokedAttempts == {a \in Attempts : Revoked(a)}

Phase(p) ==
    CASE p = "start" -> "idle"
      [] p \in {"posting", "awaiting"} -> "open"
      [] p = "cancel" -> "left"
      [] OTHER -> "gone"

Phases == [a \in Attempts |-> Phase(pc[a])]

R == INSTANCE Rendezvous WITH
    table <- pending,
    answer <- AnswerGiven,
    revoked <- RevokedAttempts,
    phase <- Phases,
    outcome <- result

\* The store implements the atomic rendezvous.
ImplementsRendezvous == R!Spec

\* An attempt whose slot was taken, by a callback or by another attempt's
\* Cancel, returns: even one that has no deadline is not left waiting.
TakenReturns ==
    \A a \in Attempts : (Answered(a) \/ Revoked(a)) ~> (pc[a] = "done")

\* An attempt with a deadline returns, whether or not a callback ever comes.
TimedReturns ==
    \A a \in Timed : (pc[a] = "posting") ~> (pc[a] = "done")

\* Whose slot a Cancel takes: another attempt's only if the slot of the attempt
\* that cancels had been taken before, by a callback or by a Cancel of the same
\* kind. While its own slot is open, an attempt cancels nothing else.
ForeignCancelIsStale ==
    \A a, b \in Attempts : held[b] = a /\ a # b => Answered(b) \/ Revoked(b)
=============================================================================
