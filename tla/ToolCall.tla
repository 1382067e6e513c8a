------------------------------ MODULE ToolCall ------------------------------
(***************************************************************************)
(* The gateway: the tool handler of internal/runtime/build.go with the     *)
(* approver chain, the Timeout wrapper, the executors, the idempotency     *)
(* cache and the two pending stores. Calls run concurrently, approval and  *)
(* executor services answer late, twice or never, deadlines expire and     *)
(* clients go away.                                                        *)
(*                                                                         *)
(* The stores are taken at the level of Rendezvous, which PendingStore     *)
(* implements; the cache is a map that may forget a key at any time, which *)
(* is what IdempotencyCache shows of the real one. CallKeys has its keys.  *)
(***************************************************************************)
EXTENDS CallKeys, Naturals, Sequences, FiniteSets

CONSTANTS
    Calls,      \* tool calls, retries included
    Tools,      \* configured tools
    CorrIds,    \* correlation ids
    Chain,      \* [Tools -> sequence of [kind, timed]]: the approvers
    Executor,   \* [Tools -> {"sync", "async"}]
    Timed,      \* the tools that have a timeout
    Guarded,    \* the tools with requires_approval
    MaxTotal,   \* max_total of the limits approvers
    MaxDeliver  \* bound: how often one callback takes effect

VARIABLES
    pc,         \* where each call is
    step,       \* the approver, or the executor, a call is at
    verdict,    \* what that approver or executor returned, or None
    ctx,        \* the call's context: "live", "deadline" or "canceled"
    stepCtx,    \* the context the Timeout wrapper made: "live" or "deadline"
    allowed,    \* history: the approvers that approved, before any timeout of theirs
    reply,      \* the response: [kind, from], from the call whose work it is
    used,       \* limiterState.count, per tool and limits approver
    cache,      \* idempotency cache: the call whose response a key holds
    table, answer, revoked, phase, outcome,     \* the stores, see Rendezvous
    sent,       \* requests that reached an approver or an executor
    accepted,   \* attempts whose request was answered 202 or "pending"
    decided,    \* environment: what the service answers to a request
    delivered,  \* environment: callbacks that took effect, per request
    source,     \* history: the request whose callback answered an attempt
    forgotten   \* history: keys the cache evicted or let expire

callVars == <<pc, step, verdict, ctx, stepCtx, allowed, reply>>
storeVars == <<table, answer, revoked, phase, outcome>>
serviceVars == <<sent, accepted, decided, delivered, source>>
cacheVars == <<cache, forgotten>>
vars == <<callVars, used, cacheVars, storeVars, serviceVars>>

-----------------------------------------------------------------------------
(* Static structure.                                                       *)

ChainOf(c) == Chain[ToolOf[c]]
ExecStep(c) == Len(ChainOf(c)) + 1

\* An attempt: call c at step k, an approver of its chain or its executor.
Attempts == UNION {{<<c, k>> : k \in 1..ExecStep(c)} : c \in Calls}

\* Approvals and executions wait in one store: a mistake, for the runs.
OneStore == [a \in Attempts |-> <<"approval", IdOf[a[1]]>>]

\* Approvals and executions wait in different stores, under the call's id.
Slots == {"approval", "execution"} \X CorrIds
SlotOf == [a \in Attempts |->
    <<IF a[2] = ExecStep(a[1]) THEN "execution" ELSE "approval", IdOf[a[1]]>>]

Verdicts == {"yes", "no"}

ASSUME ConfigAssumption ==
    /\ ToolOf \in [Calls -> Tools]
    /\ IdOf \in [Calls -> CorrIds]
    /\ Chain \in [Tools -> Seq([kind : {"limits", "sync", "async"}, timed : BOOLEAN])]

ASSUME BoundsAssumption == MaxTotal \in Nat \ {0} /\ MaxDeliver \in Nat

ASSUME NoneAssumption == None \notin Calls \cup Attempts \cup {"yes", "no", "error"}

Store == INSTANCE Rendezvous WITH Ids <- Slots, IdOf <- SlotOf

Keys == {CacheKey(c) : c \in Calls} \ {None}

NeedsApproval(c) == ToolOf[c] \in Guarded \/ ChainOf(c) # <<>>

Here(c) == <<c, step[c]>>
Approving(c) == pc[c] = "approve" /\ verdict[c] = None
Executing(c) == pc[c] = "execute" /\ verdict[c] = None
KindIs(c, kind) == ChainOf(c)[step[c]].kind = kind
StepTimed(c) == pc[c] = "approve" /\ ChainOf(c)[step[c]].timed

\* The Timeout wrapper's context is done: its own time, or the tool's, has run out.
Late(c) == StepTimed(c) /\ "deadline" \in {ctx[c], stepCtx[c]}

IsApproval(a) == a[2] < ExecStep(a[1])

\* Whether the context the current approver or executor runs under is done.
Done(c) == ctx[c] # "live" \/ stepCtx[c] # "live"

\* A call waits at its store: in an async approver or an async executor.
Async(c) == \/ Approving(c) /\ KindIs(c, "async")
            \/ Executing(c) /\ Executor[ToolOf[c]] = "async"

Executed(c) == <<c, ExecStep(c)>> \in sent

NoReply == [kind |-> "none", from |-> None]
Reply(k, c) == [kind |-> k, from |-> c]

\* The limits approvers: each tool's chain has counters of its own.
Limits == UNION {{<<t, k>> : k \in {n \in DOMAIN Chain[t] : Chain[t][n].kind = "limits"}}
                   : t \in Tools}

TypeOK ==
    /\ pc \in [Calls -> {"idle", "approve", "execute", "running", "done"}]
    /\ step \in [Calls -> Nat] /\ \A c \in Calls : step[c] \in 1..ExecStep(c)
    /\ verdict \in [Calls -> {None, "yes", "no", "error"}]
    /\ ctx \in [Calls -> {"live", "deadline", "canceled"}]
    /\ stepCtx \in [Calls -> {"live", "deadline"}]
    /\ allowed \subseteq Attempts
    /\ reply \in [Calls -> [kind : {"none", "cached", "denied", "error", "timeout", "success"},
                            from : Calls \cup {None}]]
    /\ used \in [Limits -> 0..MaxTotal]
    /\ cache \in [Keys -> Calls \cup {None}]
    /\ forgotten \subseteq Keys
    /\ table \in [Slots -> Attempts \cup {None}]
    /\ answer \in [Attempts -> Verdicts \cup {None}]
    /\ revoked \subseteq Attempts
    /\ phase \in [Attempts -> {"idle", "open", "left", "gone"}]
    /\ outcome \in [Attempts -> Store!Outcomes]
    /\ sent \subseteq Attempts
    /\ accepted \subseteq sent
    /\ decided \in [Attempts -> Verdicts \cup {None}]
    /\ delivered \in [Attempts -> 0..MaxDeliver]
    /\ source \in [Attempts -> Attempts \cup {None}]

Init ==
    /\ pc = [c \in Calls |-> "idle"]
    /\ step = [c \in Calls |-> 1]
    /\ verdict = [c \in Calls |-> None]
    /\ ctx = [c \in Calls |-> "live"]
    /\ stepCtx = [c \in Calls |-> "live"]
    /\ allowed = {}
    /\ reply = [c \in Calls |-> NoReply]
    /\ used = [l \in Limits |-> 0]
    /\ cache = [k \in Keys |-> None]
    /\ forgotten = {}
    /\ Store!Init
    /\ sent = {}
    /\ accepted = {}
    /\ decided = [a \in Attempts |-> None]
    /\ delivered = [a \in Attempts |-> 0]
    /\ source = [a \in Attempts |-> None]

-----------------------------------------------------------------------------
(* Variants of the actions below that contain a plausible mistake; the     *)
(* runs check that each property tells the code from one of them.          *)

\* limits: the count is read but never incremented.
LimitsUncounted(c) ==
    /\ pc[c] = "approve" /\ verdict[c] = None /\ KindIs(c, "limits")
    /\ used[<<ToolOf[c], step[c]>>] < MaxTotal
    /\ verdict' = [verdict EXCEPT ![c] = "yes"]
    /\ UNCHANGED <<pc, step, ctx, stepCtx, allowed, reply, used, cacheVars, storeVars, serviceVars>>

\* An async approver or executor returns without having deferred Cancel.
ReturnWithoutCancel(c) ==
    /\ Async(c) /\ phase[Here(c)] = "left"
    /\ phase' = [phase EXCEPT ![Here(c)] = "gone"]
    /\ verdict' = [verdict EXCEPT ![c] =
         IF outcome[Here(c)].verdict = None THEN "error" ELSE outcome[Here(c)].verdict]
    /\ UNCHANGED <<pc, step, ctx, stepCtx, allowed, reply, used, cacheVars,
                   table, answer, revoked, outcome, serviceVars>>

\* The wait for a callback does not look at the context.
NoTimeout(c) == FALSE /\ Async(c) /\ UNCHANGED vars

\* The chain looks at an approver's error but not at decision.Allowed.
DenialIgnored(c) == IF verdict[c] = "error" THEN "error" ELSE "yes"

\* The response is cached before the executor's error is looked at.
CacheFailure(c) ==
    /\ pc[c] = "execute"
    /\ \/ verdict[c] = "error"
       \/ verdict[c] = "yes" /\ ctx[c] = "deadline"
    /\ pc' = [pc EXCEPT ![c] = "done"]
    /\ reply' = [reply EXCEPT ![c] = Reply(IF ctx[c] = "deadline" THEN "timeout" ELSE "error", c)]
    /\ cache' = [k \in Keys |-> IF k = CacheKey(c) THEN c ELSE cache[k]]
    /\ UNCHANGED <<step, verdict, ctx, stepCtx, allowed, used, forgotten, storeVars, serviceVars>>

\* The response is returned and not cached.
SuccessUncached(c) ==
    /\ pc[c] = "execute" /\ verdict[c] = "yes" /\ ctx[c] # "deadline"
    /\ pc' = [pc EXCEPT ![c] = "done"]
    /\ reply' = [reply EXCEPT ![c] = Reply("success", c)]
    /\ UNCHANGED <<step, verdict, ctx, stepCtx, allowed, used, cacheVars, storeVars, serviceVars>>

-----------------------------------------------------------------------------
(* The handler.                                                            *)

Finish(c, r) ==
    /\ pc' = [pc EXCEPT ![c] = "done"]
    /\ reply' = [reply EXCEPT ![c] = r]
    /\ UNCHANGED <<step, verdict, ctx, stepCtx, allowed>>

Hit(c) == CacheKey(c) # None /\ cache[CacheKey(c)] # None

\* A cache hit answers at once.
ReceiveCached(c) ==
    /\ pc[c] = "idle"
    /\ Hit(c)
    /\ Finish(c, Reply("cached", cache[CacheKey(c)]))
    /\ UNCHANGED <<used, cacheVars, storeVars, serviceVars>>

\* A miss starts the tool's timer and goes to the chain, or to the executor.
Receive(c) ==
    /\ pc[c] = "idle"
    /\ ~Hit(c)
    /\ IF NeedsApproval(c) /\ ChainOf(c) = <<>>
       THEN Finish(c, Reply("denied", c))
       ELSE /\ pc' = [pc EXCEPT ![c] = IF NeedsApproval(c) THEN "approve" ELSE "execute"]
            /\ UNCHANGED <<step, verdict, ctx, stepCtx, allowed, reply>>
    /\ UNCHANGED <<used, cacheVars, storeVars, serviceVars>>

InProgress(c) == pc[c] \notin {"idle", "done"}

\* context.WithTimeout of the handler.
ToolDeadline(c) ==
    /\ InProgress(c) /\ ToolOf[c] \in Timed /\ ctx[c] = "live"
    /\ ctx' = [ctx EXCEPT ![c] = "deadline"]
    /\ UNCHANGED <<pc, step, verdict, stepCtx, allowed, reply, used, cacheVars, storeVars, serviceVars>>

\* context.WithTimeout of the Timeout wrapper.
StepDeadline(c) ==
    /\ StepTimed(c) /\ ctx[c] = "live" /\ stepCtx[c] = "live"
    /\ stepCtx' = [stepCtx EXCEPT ![c] = "deadline"]
    /\ UNCHANGED <<pc, step, verdict, ctx, allowed, reply, used, cacheVars, storeVars, serviceVars>>

\* The client cancels the request or its connection ends.
ClientGone(c) ==
    /\ InProgress(c) /\ ctx[c] = "live"
    /\ ctx' = [ctx EXCEPT ![c] = "canceled"]
    /\ UNCHANGED <<pc, step, verdict, stepCtx, allowed, reply, used, cacheVars, storeVars, serviceVars>>

\* The approver or executor of c's current step returns v.
Return(c, v) ==
    /\ verdict' = [verdict EXCEPT ![c] = v]
    /\ allowed' = IF pc[c] = "approve" /\ v = "yes" /\ ~Late(c) THEN allowed \cup {Here(c)} ELSE allowed
    /\ UNCHANGED <<pc, step, ctx, stepCtx, reply>>

-----------------------------------------------------------------------------
(* Approvers and executors that answer without a callback.                 *)

\* Field policies and the rate limiter deny without counting.
LimitsDeny(c) ==
    /\ Approving(c) /\ KindIs(c, "limits")
    /\ Return(c, "no")
    /\ UNCHANGED <<used, cacheVars, storeVars, serviceVars>>

\* Below max_total: count the call. The context is not looked at.
LimitsApprove(c) ==
    LET l == <<ToolOf[c], step[c]>> IN
    /\ Approving(c) /\ KindIs(c, "limits")
    /\ used[l] < MaxTotal
    /\ used' = [used EXCEPT ![l] = @ + 1]
    /\ Return(c, "yes")
    /\ UNCHANGED <<cacheVars, storeVars, serviceVars>>

\* A shell approver or a synchronous HTTP approver. It may still approve when the
\* context is done: the command had exited, and its output was held (ShellCommand).
SyncDecide(c) ==
    /\ Approving(c) /\ KindIs(c, "sync")
    /\ \E v \in {"yes", "no", "error"} : Return(c, v)
    /\ UNCHANGED <<used, cacheVars, storeVars, serviceVars>>

\* A shell command starts, or a synchronous HTTP request goes out.
SyncStart(c) ==
    /\ Executing(c) /\ Executor[ToolOf[c]] = "sync" /\ ~Done(c)
    /\ pc' = [pc EXCEPT ![c] = "running"]
    /\ sent' = sent \cup {Here(c)}
    /\ UNCHANGED <<step, verdict, ctx, stepCtx, allowed, reply, used, cacheVars, storeVars,
                   accepted, decided, delivered, source>>

\* It cannot start: bad template, no such command, context already done.
SyncNoStart(c) ==
    /\ Executing(c) /\ Executor[ToolOf[c]] = "sync"
    /\ Return(c, "error")
    /\ UNCHANGED <<used, cacheVars, storeVars, serviceVars>>

\* It ends; once the context is done it is killed, or its request aborted. It may
\* be a success even then: a held output, or a 2xx response that breaks off.
SyncEnd(c) ==
    /\ pc[c] = "running"
    /\ \E v \in {"yes", "error"} : verdict' = [verdict EXCEPT ![c] = v]
    /\ pc' = [pc EXCEPT ![c] = "execute"]
    /\ UNCHANGED <<step, ctx, stepCtx, allowed, reply, used, cacheVars, storeVars, serviceVars>>

-----------------------------------------------------------------------------
(* Approvers and executors that are answered by callback.                  *)

\* The approver's arguments are invalid: denied before anything is registered.
AsyncInvalid(c) ==
    /\ Async(c) /\ pc[c] = "approve" /\ phase[Here(c)] = "idle"
    /\ Return(c, "no")
    /\ UNCHANGED <<used, cacheVars, storeVars, serviceVars>>

AsyncRegister(c) ==
    /\ Async(c)
    /\ Store!Register(Here(c))
    /\ UNCHANGED <<callVars, used, cacheVars, serviceVars>>

\* The id is taken, by another call or by a slot this call left behind.
AsyncRefused(c) ==
    /\ Async(c)
    /\ Store!Refuse(Here(c))
    /\ Return(c, "error")
    /\ UNCHANGED <<used, cacheVars, serviceVars>>

Posting(c) == Async(c) /\ phase[Here(c)] = "open" /\ Here(c) \notin accepted
Awaiting(c) == Async(c) /\ phase[Here(c)] = "open" /\ Here(c) \in accepted

\* The request reaches the service.
AsyncSend(c) ==
    /\ Posting(c) /\ Here(c) \notin sent /\ ~Done(c)
    /\ sent' = sent \cup {Here(c)}
    /\ UNCHANGED <<callVars, used, cacheVars, storeVars, accepted, decided, delivered, source>>

\* The service answers 202, or "pending": wait for its callback.
AsyncAccepted(c) ==
    /\ Posting(c) /\ Here(c) \in sent
    /\ accepted' = accepted \cup {Here(c)}
    /\ UNCHANGED <<callVars, used, cacheVars, storeVars, sent, decided, delivered, source>>

\* The service decides in its response, or the request fails. To an executor a
\* 2xx response that breaks off is a success, whatever it was going to say.
AsyncPosted(c) ==
    /\ Posting(c)
    /\ \E o \in Store!OwnOutcomes :
         /\ \/ o.kind = "immediate" /\ Here(c) \in sent /\ (Done(c) => pc[c] = "execute")
            \/ o.kind = "failed"
         /\ o.kind = "immediate" => decided[Here(c)] = None
         /\ Store!EndAs(Here(c), o)
    /\ UNCHANGED <<callVars, used, cacheVars, serviceVars>>

\* The wait ends with a callback's verdict, or with a closed channel. The
\* select may do this even when the context is done.
AsyncTake(c) ==
    /\ Awaiting(c)
    /\ Store!Take(Here(c)) \/ Store!FindRevoked(Here(c))
    /\ UNCHANGED <<callVars, used, cacheVars, serviceVars>>

\* The wait ends with the context.
AsyncTimeout(c) ==
    /\ Awaiting(c) /\ Done(c)
    /\ Store!EndAs(Here(c), [kind |-> "timeout", verdict |-> None])
    /\ UNCHANGED <<callVars, used, cacheVars, serviceVars>>

\* The deferred Cancel, and with it the return.
AsyncReturn(c) ==
    /\ Async(c)
    /\ Store!Cancel(Here(c))
    /\ LET o == outcome[Here(c)] IN
         Return(c, CASE o.verdict = None -> "error"
                     [] pc[c] = "execute" /\ o.verdict = "no" -> "error"
                     [] OTHER -> o.verdict)
    /\ UNCHANGED <<used, cacheVars, serviceVars>>

\* A service answers request a through the webhook, unless it did so in its
\* response (which an executor's need not have done when it broke off). It sticks
\* to its answer, but may send it again or late; a callback that finds no slot
\* gets 404 and changes nothing.
Callback(a, v) ==
    /\ a \in sent /\ (outcome[a].kind = "immediate" => ~IsApproval(a))
    /\ decided[a] \in {None, v}
    /\ delivered[a] < MaxDeliver
    /\ Store!Resolve(SlotOf[a], v)
    /\ decided' = [decided EXCEPT ![a] = v]
    /\ delivered' = [delivered EXCEPT ![a] = @ + 1]
    /\ source' = [source EXCEPT ![table[SlotOf[a]]] = a]
    /\ UNCHANGED <<callVars, used, cacheVars, sent, accepted>>

-----------------------------------------------------------------------------
(* After an approver or an executor has returned.                          *)

\* What the chain gets from the approver: the Timeout wrapper turns anything
\* into a denial once its own context, or the tool's, has run out.
Wrapped(c) ==
    IF Late(c) THEN "no" ELSE verdict[c]

\* applyTimeoutResponse: an expired tool deadline overrides kind.
OrTimeout(c, kind) == Reply(IF ctx[c] = "deadline" THEN "timeout" ELSE kind, c)

\* The chain goes on with the next approver; with none left, to the executor.
ChainNext(c) ==
    /\ pc[c] = "approve" /\ verdict[c] # None
    /\ Wrapped(c) = "yes"
    /\ step[c] = Len(ChainOf(c)) => ctx[c] # "deadline"
    /\ step' = [step EXCEPT ![c] = @ + 1]
    /\ pc' = [pc EXCEPT ![c] = IF step[c] = Len(ChainOf(c)) THEN "execute" ELSE "approve"]
    /\ verdict' = [verdict EXCEPT ![c] = None]
    /\ stepCtx' = [stepCtx EXCEPT ![c] = "live"]
    /\ UNCHANGED <<ctx, allowed, reply, used, cacheVars, storeVars, serviceVars>>

\* The chain stops, or has approved after the tool's deadline.
ChainStop(c) ==
    /\ pc[c] = "approve" /\ verdict[c] # None
    /\ \/ Wrapped(c) = "no" /\ Finish(c, OrTimeout(c, "denied"))
       \/ Wrapped(c) = "error" /\ Finish(c, OrTimeout(c, "error"))
       \/ /\ Wrapped(c) = "yes" /\ step[c] = Len(ChainOf(c)) /\ ctx[c] = "deadline"
          /\ Finish(c, OrTimeout(c, "denied"))
    /\ UNCHANGED <<used, cacheVars, storeVars, serviceVars>>

\* The executor failed, or ended after the tool's deadline: nothing is cached.
ExecFailed(c) ==
    /\ pc[c] = "execute"
    /\ \/ verdict[c] = "error"
       \/ verdict[c] = "yes" /\ ctx[c] = "deadline"
    /\ Finish(c, OrTimeout(c, "error"))
    /\ UNCHANGED <<used, cacheVars, storeVars, serviceVars>>

\* The executor succeeded in time: the response is cached and returned.
ExecOk(c) ==
    /\ pc[c] = "execute" /\ verdict[c] = "yes" /\ ctx[c] # "deadline"
    /\ Finish(c, Reply("success", c))
    /\ cache' = [k \in Keys |-> IF k = CacheKey(c) THEN c ELSE cache[k]]
    /\ UNCHANGED <<used, forgotten, storeVars, serviceVars>>

\* The cache drops a key: it expired, or it was the least recently used.
Forget(k) ==
    /\ cache[k] # None
    /\ cache' = [cache EXCEPT ![k] = None]
    /\ forgotten' = forgotten \cup {k}
    /\ UNCHANGED <<callVars, used, storeVars, serviceVars>>

-----------------------------------------------------------------------------

AsyncStep(c) ==
    \/ AsyncInvalid(c) \/ AsyncRegister(c) \/ AsyncRefused(c)
    \/ AsyncSend(c) \/ AsyncAccepted(c) \/ AsyncPosted(c)
    \/ AsyncTake(c) \/ AsyncTimeout(c) \/ AsyncReturn(c)

\* What the goroutine of a received call does by itself.
Prompt(c) ==
    \/ LimitsDeny(c) \/ LimitsApprove(c)
    \/ SyncStart(c) \/ SyncNoStart(c)
    \/ AsyncStep(c)
    \/ ChainNext(c) \/ ChainStop(c) \/ ExecFailed(c) \/ ExecOk(c)

\* What a command or a synchronous service decides the pace of.
Foreign(c) == SyncDecide(c) \/ SyncEnd(c)

Terminated ==
    /\ \A c \in Calls : pc[c] = "done"
    /\ UNCHANGED vars

Next ==
    \/ \E c \in Calls :
         \/ ReceiveCached(c) \/ Receive(c) \/ Prompt(c) \/ Foreign(c)
         \/ ToolDeadline(c) \/ StepDeadline(c) \/ ClientGone(c)
    \/ \E a \in Attempts, v \in Verdicts : Callback(a, v)
    \/ \E k \in Keys : Forget(k)
    \/ Terminated

(* Goroutines run, timers fire, http.Client.Timeout ends a request that    *)
(* gets no response (AsyncPosted; an approver without it, because its      *)
(* timeout is written as zero or less, is left out), and a command or a    *)
(* synchronous request is killed or aborted once its context is done.      *)
(* (Commands that leave a process behind escape this, see ShellCommand;    *)
(* they may end late here, too, but this excludes that they never do.)     *)
(* No callback, no client and no command is assumed to do anything.        *)
Fairness ==
    \A c \in Calls :
        /\ WF_vars(Prompt(c))
        /\ WF_vars(Done(c) /\ Foreign(c))
        /\ WF_vars(ToolDeadline(c))
        /\ WF_vars(StepDeadline(c))

Spec == Init /\ [][Next]_vars
FairSpec == Spec /\ Fairness

-----------------------------------------------------------------------------
(* Correctness.                                                            *)

AsyncApprovers(c) == {k \in DOMAIN ChainOf(c) : ChainOf(c)[k].kind = "async"}

\* The response tells what was done: a denied or cached call has not reached
\* the executor; a success has, once every approver of the chain had approved it
\* before its timeout, and every async one was told so by a service.
ReplyIsTrue ==
    \A c \in Calls :
        /\ reply[c].kind \in {"denied", "cached"} => ~Executed(c)
        /\ reply[c].kind = "success" => Executed(c)
        /\ Executed(c) => /\ \A k \in DOMAIN ChainOf(c) : <<c, k>> \in allowed
                          /\ \A k \in AsyncApprovers(c) : outcome[<<c, k>>].verdict = "yes"
        /\ reply[c].kind = "timeout" => ctx[c] = "deadline"

\* Between two approvers, and between the chain and the executor, the call's
\* id is free of its own slots: a chain with several async approvers under
\* one id never finds itself "already pending".
OwnSlotsReleased ==
    \A s \in Slots : table[s] # None =>
        LET c == table[s][1] IN
          /\ table[s] = Here(c)
          /\ verdict[c] = None
          /\ pc[c] \in {"approve", "execute"}

\* max_total holds across concurrent calls, retries and failures: no more
\* calls reach the executor than the limits approver may let through.
TotalRespected ==
    \A l \in Limits :
        Cardinality({c \in Calls : ToolOf[c] = l[1] /\ Executed(c)}) <= MaxTotal

\* What the cache holds for a key is the response of a call with that key that
\* was executed and answered with success: no denial, error or timeout.
CacheIsSound ==
    \A k \in Keys : cache[k] # None =>
        /\ CacheKey(cache[k]) = k
        /\ Executed(cache[k])
        /\ reply[cache[k]] = Reply("success", cache[k])

\* Idempotence, one call after another: a call that arrives after a call with
\* its key was answered with success is not executed, unless the cache has
\* lost the key.
RepeatIsNotExecuted ==
    [][\A c, d \in Calls :
         /\ pc[c] = "idle" /\ pc'[c] # "idle"
         /\ reply[d].kind = "success" /\ CacheKey(c) # None /\ CacheKey(d) = CacheKey(c)
         /\ CacheKey(c) \notin forgotten
         => reply'[c].kind = "cached"]_vars

\* A call of a tool with a timeout returns, whatever services and clients do.
TimedCallsReturn ==
    \A c \in Calls : ToolOf[c] \in Timed => (InProgress(c) ~> pc[c] = "done")

\* Where a decision that came by callback is from: a service of the same kind
\* that was asked under the same id gave it, in these words. It is another
\* request's only if that one's own wait did not end with it (the callback was
\* late), or if the service sent it again.
DecisionIsTraceable ==
    \A a \in Attempts : outcome[a].kind = "received" =>
        LET s == source[a] IN
          /\ s \in sent
          /\ IdOf[s[1]] = IdOf[a[1]] /\ (IsApproval(s) <=> IsApproval(a))
          /\ decided[s] = outcome[a].verdict
          /\ s = a \/ source[s] # s \/ delivered[s] > 1

\* Contradicted by the code under repeated callbacks: a call is executed only
\* if each async approver of its chain has itself answered yes to it.
EveryApproverDecided ==
    \A c \in Calls : Executed(c) =>
        \A k \in AsyncApprovers(c) :
            outcome[<<c, k>>].kind = "received" => decided[<<c, k>>] = "yes"
=============================================================================
