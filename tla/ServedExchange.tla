--------------------------- MODULE ServedExchange ---------------------------
(***************************************************************************)
(* The process together with one exchange of a call that it serves: the    *)
(* call is one of the requests in flight, callbacks come in on the route   *)
(* of their store, and nothing goes on once the process has ended. The     *)
(* process may be told to stop at any point of the exchange.               *)
(***************************************************************************)
EXTENDS Server, HTTPExchange

CONSTANTS
    Asking,     \* the configurations of which an exchange is looked at
    NoExchange  \* <<side, async, answer, id>> where none is

allVars == <<serverVars, vars>>

ServedInit ==
    /\ ServerInit
    /\ Init
    /\ cfg \in Asking \/ fixed = NoExchange

\* The webhook has a route to the store of that kind.
Routed ==
    \E p \in DOMAIN routes :
        routes[p] = IF side = "approver" THEN "approvals" ELSE "executions"

\* The handler of the call runs: it asks, waits, and takes what it gets.
CallStep ==
    /\ cfg \in Asking /\ stage # "exited" /\ inflight > 0
    /\ Respond \/ Fail \/ Receive \/ Expire
    /\ UNCHANGED serverVars

\* A callback is accepted while the listener is open, and may be handled later.
CallbackStep ==
    /\ cfg \in Asking /\ stage # "exited" /\ Routed
    /\ inflight > 0 \/ phase = "done"
    /\ Callback
    /\ UNCHANGED serverVars

\* A call that waits stays in flight.
ProcessStep ==
    /\ ServerNext
    /\ phase = "await" => inflight' > 0
    /\ UNCHANGED vars

ServedNext == CallStep \/ CallbackStep \/ ProcessStep

\* The process is scheduled as in Server; services need not answer.
ServedSpec == ServedInit /\ [][ServedNext]_allVars /\ ServerFairness
=============================================================================
