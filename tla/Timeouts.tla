------------------------------- MODULE Timeouts -------------------------------
(***************************************************************************)
(* One tool call against the clock: how the timeouts of the configuration  *)
(* become deadlines (internal/timeutil, internal/runtime/build.go), which  *)
(* of them bounds an approver, an executor or an HTTP request, what the    *)
(* services are told about them, and what the response says.               *)
(*                                                                         *)
(* Time is counted in ticks. Timers are exact and the gateway's own work   *)
(* takes no time: the clock does not pass a deadline that ends the current *)
(* wait. At the tick of a deadline the answer and the deadline race.       *)
(*                                                                         *)
(* One wait no deadline ends: cmd.Run returns when the output of the       *)
(* command is closed, and a process that the command left behind may hold  *)
(* it. The kill reaches the command alone (ShellCommand).                  *)
(***************************************************************************)
EXTENDS Integers, Sequences, FiniteSetsExt

CONSTANTS
    Configs,    \* tools: [tool, chain, executor], with the timeouts
                \* as written; an approver or executor is [kind, timeout]
    Absent,     \* a timeout that is not written
    Invalid,    \* a timeout that time.ParseDuration refuses
    Second,     \* ticks in a second
    MaxTime     \* bound: the clock

VARIABLES
    cfg,    \* the tool's configuration
    now,    \* the clock; the call arrives at 0
    step,   \* the approver, or the executor, the call is at
    at,     \* "next", "request", "await" (a callback) or "done"
    began,  \* when the current step began
    told,   \* timeout_sec in the request of the current step; 0: left out
    reply,  \* [kind, time]: the response
    held,   \* a process left behind holds the current command's output
    freed   \* history: when the last held command returned

vars == <<cfg, now, step, at, began, told, reply, held, freed>>

Kinds == {"limits", "shell", "http", "async"}
Written == Int \cup {Absent, Invalid}

ASSUME WrittenAssumption == Absent \notin Int /\ Invalid \notin Int
ASSUME SecondAssumption == Second \in Nat \ {0}
ASSUME MaxTimeAssumption == MaxTime \in Nat
ASSUME ConfigsAssumption ==
    Configs \subseteq [tool : Written,
                       chain : Seq([kind : Kinds, timeout : Written]),
                       executor : [kind : Kinds \ {"limits"}, timeout : Written]]

Replies == {"none", "success", "denied", "step_timeout", "error", "timeout"}

-----------------------------------------------------------------------------
(* Timeouts and deadlines. Never is a deadline that does not exist.        *)

Never == MaxTime + 1

ParseDurationOrDefault(v, def) == IF v \in {Absent, Invalid} THEN def ELSE v

\* context.WithTimeout, http.Client.Timeout: zero or less is no deadline.
After(start, timeout) == IF timeout > 0 THEN start + timeout ELSE Never

Approving == step <= Len(cfg.chain)
Item == IF Approving THEN cfg.chain[step] ELSE cfg.executor

\* Variant with a plausible mistake: the executor's timeout is not looked at.
ToolTimeoutOnly == ParseDurationOrDefault(cfg.tool, 0)

\* The call's own timeout; a zero one falls back to the executor's.
CallTimeout ==
    LET t == ParseDurationOrDefault(cfg.tool, 0)
    IN IF t = 0 THEN ParseDurationOrDefault(cfg.executor.timeout, 0) ELSE t

\* wrapTimeout: approvers only.
StepTimeout == IF Approving THEN ParseDurationOrDefault(Item.timeout, 0) ELSE 0

\* http.Client.Timeout: the executor does not accept a zero one.
ClientTimeout ==
    LET t == ParseDurationOrDefault(Item.timeout, 10 * Second)
    IN IF ~Approving /\ t <= 0 THEN 10 * Second ELSE t

CallDeadline == After(0, CallTimeout)
CtxDeadline == Min({CallDeadline, After(began, StepTimeout)})
ClientDeadline ==
    IF at = "request" /\ Item.kind \in {"http", "async"}
    THEN After(began, ClientTimeout) ELSE Never

\* Variant with a plausible mistake: the seconds are rounded up.
ToldRoundedUp ==
    IF ~Approving /\ Item.kind \in {"http", "async"} /\ CallTimeout > 0 /\ CallDeadline > now
    THEN (CallDeadline - now + Second - 1) \div Second
    ELSE 0

\* timeout_sec: an async approver is told its own timeout, 10 s if it has
\* none; an HTTP executor what is left of the call's, at least 1 s.
Told ==
    CASE Approving /\ Item.kind = "async" /\ ClientTimeout > 0 -> ClientTimeout \div Second
      [] /\ ~Approving /\ Item.kind \in {"http", "async"}
         /\ CallTimeout > 0 /\ CallDeadline > now -> Max({1, (CallDeadline - now) \div Second})
      [] OTHER -> 0

-----------------------------------------------------------------------------

TypeOK ==
    /\ cfg \in Configs
    /\ now \in 0..MaxTime
    /\ step \in 1..Len(cfg.chain) + 1
    /\ at \in {"next", "request", "await", "done"}
    /\ began \in 0..now
    /\ told \in Nat
    /\ reply \in [kind : Replies, time : 0..now]
    /\ at = "done" <=> reply.kind # "none"
    /\ held \in BOOLEAN /\ freed \in 0..now
    /\ held => at = "request" /\ Item.kind = "shell"

Init ==
    /\ cfg \in Configs
    /\ now = 0 /\ step = 1 /\ at = "next" /\ began = 0 /\ told = 0
    /\ reply = [kind |-> "none", time |-> 0]
    /\ held = FALSE /\ freed = 0

\* The next approver, or the executor, builds its request.
Begin ==
    /\ at = "next"
    /\ at' = "request"
    /\ began' = now
    /\ told' = Told
    /\ UNCHANGED <<cfg, now, step, reply, held, freed>>

\* The Timeout wrapper: an expired context is a denial, whatever v is.
Wrapped(v) == IF StepTimeout > 0 /\ now >= CtxDeadline THEN "step_timeout" ELSE v

\* Variant with a plausible mistake: the error is asked, not the context; an
\* expired http.Client.Timeout is a context.DeadlineExceeded, too.
ErrorIsTimeout(kind) ==
    IF kind = "error" /\ now >= Min({CtxDeadline, ClientDeadline}) THEN "timeout" ELSE kind

\* applyTimeoutResponse.
OrTimeout(kind) == IF now >= CallDeadline THEN "timeout" ELSE kind

Finish(kind) ==
    /\ at' = "done"
    /\ reply' = [kind |-> OrTimeout(kind), time |-> now]
    /\ UNCHANGED step

\* The current approver or executor returns v: the chain or the handler goes on.
Return(v) ==
    /\ IF Wrapped(v) = "yes" /\ Approving /\ (step < Len(cfg.chain) \/ now < CallDeadline)
       THEN step' = step + 1 /\ at' = "next" /\ UNCHANGED reply
       ELSE Finish(CASE Wrapped(v) = "yes" -> IF Approving THEN "denied" ELSE "success"
                     [] Wrapped(v) = "no" -> IF Approving THEN "denied" ELSE "error"
                     [] OTHER -> Wrapped(v))
    /\ held' = FALSE
    /\ freed' = IF held THEN now ELSE freed
    /\ UNCHANGED <<cfg, now, began, told>>

\* The command started a process that outlives it and keeps its output open.
Hold ==
    /\ at = "request" /\ Item.kind = "shell" /\ began < CtxDeadline /\ ~held
    /\ held' = TRUE
    /\ UNCHANGED <<cfg, now, step, at, began, told, reply, freed>>

\* An approver or a request that is not answered later returns: a held command
\* when its output is closed, a response at a deadline with what came of its
\* body. With its context done, only limits starts at all.
Answer(v) ==
    /\ at = "request"
    /\ Item.kind # "limits" => began < CtxDeadline
    /\ Return(v)

\* The service answers 202 or "pending".
Accept ==
    /\ at = "request" /\ Item.kind = "async" /\ began < CtxDeadline
    /\ at' = "await"
    /\ UNCHANGED <<cfg, now, step, began, told, reply, held, freed>>

Callback(v) == at = "await" /\ Return(v)

\* http.Client.Timeout, for a request that got no response.
ClientGivesUp ==
    /\ now >= ClientDeadline
    /\ Return("error")

\* The context is done: the command is killed, the request aborted, the wait
\* for the callback over. A killed shell approver denies. The kill of a held
\* command is noticed only when its output is closed, at any later time.
ContextDone ==
    /\ at \in {"request", "await"} /\ Item.kind # "limits"
    /\ now >= CtxDeadline
    /\ Return(IF Approving /\ Item.kind = "shell" THEN "no" ELSE "error")

\* When the current wait ends at the latest.
Due ==
    CASE held -> Never
      [] at = "next" -> now
      [] at = "request" /\ Item.kind = "limits" -> now
      [] OTHER -> Min({CtxDeadline, ClientDeadline})

Tick ==
    /\ at # "done" /\ now < Min({Due, MaxTime})
    /\ now' = now + 1
    /\ UNCHANGED <<cfg, step, at, began, told, reply, held, freed>>

Terminated == at = "done" /\ UNCHANGED vars

Next ==
    \/ Begin \/ Hold \/ Accept \/ ClientGivesUp \/ ContextDone \/ Tick \/ Terminated
    \/ \E v \in {"yes", "no"} : Answer(v) \/ Callback(v)

Spec == Init /\ [][Next]_vars

-----------------------------------------------------------------------------
(* Correctness, in terms of what is written in the configuration.          *)

Positive(v) == v \notin {Absent, Invalid} /\ v > 0
Missing(v) == v \in {Absent, Invalid} \/ v = 0
Waiting == at \in {"request", "await"}

\* Every wait ends by the timeout that is written for it, but the wait for a
\* command whose output is held. A call is over by its tool's timeout, or its
\* executor's if the tool has none, however the time is spread over approvers
\* and executor, or else as soon as a held command returns: no approver, request
\* or command after it is waited for. An approver with a timeout is not waited
\* for any longer, in whatever way it answers and whenever the chain reaches it.
\* And no HTTP request stays without a response for ever: unless an approver's
\* timeout is written as zero or less, a client gives up by its timeout or after
\* 10 s.
CallEnds ==
    at # "done" /\ ~held =>
        /\ Positive(cfg.tool) => now <= Max({cfg.tool, freed})
        /\ Missing(cfg.tool) /\ Positive(cfg.executor.timeout) =>
               now <= Max({cfg.executor.timeout, freed})

ApproverEnds ==
    Waiting /\ Approving /\ ~held /\ Positive(Item.timeout) => now <= began + Item.timeout

RequestEnds ==
    /\ at = "request" /\ Item.kind \in {"http", "async"}
    /\ Approving => Item.timeout \in {Absent, Invalid} \/ Positive(Item.timeout)
    => now <= began + (IF Positive(Item.timeout) THEN Item.timeout ELSE 10 * Second)

EndsInTime == CallEnds /\ ApproverEnds /\ RequestEnds

\* The response is a timeout exactly when the call's time was over when it was
\* made: no success, denial or error after the deadline, and no timeout before
\* it because some request or some approver ran out of time.
TimeoutIffExpired ==
    at = "done" =>
        (reply.kind = "timeout" <=>
            LET t == IF Missing(cfg.tool) THEN cfg.executor.timeout ELSE cfg.tool
            IN Positive(t) /\ reply.time >= t)

\* A service is given the time that it was told: an executor with at least a
\* second left is not timed out before, and no more is an async approver by the
\* approver's own timeout.
ToldIsKept ==
    /\ at = "done" /\ reply.kind = "timeout" /\ ~Approving /\ told > 1 =>
           reply.time >= began + told * Second
    /\ at = "done" /\ reply.kind = "step_timeout" /\ Item.kind = "async" =>
           reply.time >= began + told * Second
=============================================================================
