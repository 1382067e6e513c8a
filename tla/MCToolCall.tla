----------------------------- MODULE MCToolCall -----------------------------
(* Instances of ToolCall for TLC. *)
EXTENDS ToolCall, TLC

CONSTANTS c1, c2, t1, t2, id1, args

Approver(k, t) == [kind |-> k, timed |-> t]

\* Two tools called under one correlation id: t1 has two async approvers, t2 a
\* synchronous and an async one and an async executor.
MCTwoTools == (c1 :> t1) @@ (c2 :> t2)
MCAsyncChain ==
    (t1 :> <<Approver("async", TRUE), Approver("async", FALSE)>>) @@
    (t2 :> <<Approver("sync", TRUE), Approver("async", FALSE)>>)
MCExecutors == (t1 :> "sync") @@ (t2 :> "async")

\* One tool, called again and again with the same id and arguments.
MCOneTool == [c \in Calls |-> t1]
MCSameId == [c \in Calls |-> id1]
MCSameArgs == [c \in Calls |-> args]

MCLimitsChain == (t1 :> <<Approver("sync", TRUE), Approver("limits", FALSE)>>)
MCTwoAsync == (t1 :> <<Approver("async", FALSE), Approver("async", FALSE)>>)
MCAsyncExec == (t1 :> "async")
MCSyncExec == (t1 :> "sync")
=============================================================================
