------------------------------- MODULE Server -------------------------------
(***************************************************************************)
(* The process: cmd/yaml-mcp-server/main.go with config validation         *)
(* (internal/dsl), the wiring of stores and webhook routes, startup hooks  *)
(* (internal/startup), the HTTP server and its shutdown (internal/app) and *)
(* readiness (internal/http/health).                                       *)
(*                                                                         *)
(* A configuration is reduced to what decides whether and how the process  *)
(* serves: transport, webhook URLs, and each tool's executor and approver. *)
(* A type name is [name, form]: written exactly, in other case, or with    *)
(* spaces around it, because the code does not compare it the same way     *)
(* everywhere. A URL is [host, path].                                      *)
(***************************************************************************)
EXTENDS Naturals, Sequences, FiniteSets, SequencesExt

CONSTANTS
    Configs,        \* configurations the process may be started with
    Hooks,          \* number of startup hooks
    MaxRequests,    \* bound: requests served at a time
    NoURL           \* a URL that is not configured

ASSUME HooksAssumption == Hooks \in Nat
ASSUME MaxRequestsAssumption == MaxRequests \in Nat

MCPPath == "/mcp"
HealthPaths == {"/healthz", "/readyz"}

VARIABLES
    cfg,        \* the rendered configuration
    stage,      \* where main is
    hook,       \* startup hooks completed
    running,    \* the next hook's command runs
    signaled,   \* a termination signal has been delivered
    baseDone,   \* baseCtx is cancelled
    routes,     \* webhook routes: [path -> store kind]
    listener,   \* the goroutine of Run and its listener
    closing,    \* http.Server.inShutdown
    ready,      \* health.Handler.ready
    inflight,   \* requests being served
    drain,      \* the shutdown timeout: "off", "running", "elapsed"
    exit        \* exit status, or "none"

mainVars == <<cfg, stage, hook, running, exit>>
signalVars == <<signaled, baseDone>>
appVars == <<routes, listener, closing, ready, inflight, drain>>
serverVars == <<mainVars, signalVars, appVars>>

-----------------------------------------------------------------------------
(* The configuration.                                                      *)

Tools == {cfg.tools[i] : i \in DOMAIN cfg.tools}

\* strings.EqualFold(t, "http"): case is folded, spaces are not.
FoldsToHTTP(t) == t.name = "http" /\ t.form # "spaces"

\* strings.ToLower(strings.TrimSpace(t)) == "http".
TrimsToHTTP(t) == t.name = "http"

AsyncApprovers(t) == {a \in ToSet(t.approvers) : FoldsToHTTP(a.type) /\ a.async}

\* The URL an async approver or executor is told to answer to.
CallbackURL(override, server) == IF override # NoURL THEN override ELSE server

\* Validate, as far as transport and webhooks go.
Valid ==
    \A t \in Tools :
        /\ TrimsToHTTP(t.executor.type) /\ t.executor.async =>
             /\ CallbackURL(t.executor.webhook, cfg.executorURL) # NoURL
             /\ cfg.transport # "stdio"
        /\ \A a \in AsyncApprovers(t) :
             /\ CallbackURL(a.webhook, cfg.approvalURL) # NoURL
             /\ cfg.transport # "stdio"

\* buildApprovers takes the type name literally; buildExecutor trims and folds.
Buildable == \A t \in Tools : \A a \in ToSet(t.approvers) : a.type.form = "exact"

\* Whether the pending stores are created.
HasApprovals == cfg.approvalURL # NoURL \/ \E t \in Tools : AsyncApprovers(t) # {}
HasExecutions ==
    \/ cfg.executorURL # NoURL
    \/ \E t \in Tools : FoldsToHTTP(t.executor.type) /\ t.executor.async

\* Variant with a plausible mistake: tools' own executor URLs are forgotten.
ServerURLOnly == {cfg.executorURL} \ {NoURL}

ExecutorURLs ==
    ({cfg.executorURL} \cup
     {CallbackURL(t.executor.webhook, cfg.executorURL) :
        t \in {u \in Tools : FoldsToHTTP(u.executor.type) /\ u.executor.async}}) \ {NoURL}

\* addRoute refuses a second route with the same path.
RoutesClash ==
    \/ \E u, v \in ExecutorURLs : u # v /\ u.path = v.path
    \/ cfg.approvalURL # NoURL /\ \E u \in ExecutorURLs : u.path = cfg.approvalURL.path

\* The routes of the webhooks, by path.
Routes ==
    [p \in {u.path : u \in ExecutorURLs \cup ({cfg.approvalURL} \ {NoURL})} |->
        IF \E u \in ExecutorURLs : u.path = p THEN "executions" ELSE "approvals"]

\* http.ServeMux panics when a pattern is registered twice.
MuxPanics == (DOMAIN Routes) \cap ({MCPPath} \cup HealthPaths) # {}

-----------------------------------------------------------------------------

ServerTypeOK ==
    /\ cfg \in Configs
    /\ stage \in {"load", "build", "hooks", "serve", "stdio", "run", "shutdown", "exited"}
    /\ hook \in 0..Hooks
    /\ {running, signaled, baseDone, closing, ready} \subseteq BOOLEAN
    /\ \A p \in DOMAIN routes : routes[p] \in {"approvals", "executions"}
    /\ listener \in {"off", "started", "marked", "open", "closed", "failed"}
    /\ inflight \in 0..MaxRequests
    /\ drain \in {"off", "running", "elapsed"}
    /\ exit \in {"none", "ok", "error", "killed"}
    /\ stage = "exited" <=> exit # "none"

ServerInit ==
    /\ cfg \in Configs
    /\ stage = "load" /\ hook = 0 /\ running = FALSE
    /\ signaled = FALSE /\ baseDone = FALSE
    /\ routes = [p \in {} |-> NoURL]
    /\ listener = "off" /\ closing = FALSE /\ ready = FALSE /\ inflight = 0
    /\ drain = "off" /\ exit = "none"

Exit(status) ==
    /\ stage' = "exited"
    /\ exit' = status

-----------------------------------------------------------------------------
(* Variants that contain a plausible mistake; the runs check that each     *)
(* property tells the code from one of them.                               *)

\* Hooks do not run under baseCtx, so a signal does not end them.
HookOutlivesSignal ==
    /\ running /\ ~baseDone
    /\ Exit("error")
    /\ UNCHANGED <<cfg, hook, running, signalVars, appVars>>

-----------------------------------------------------------------------------
(* main.                                                                   *)

\* The configuration is loaded, or refused: what else it takes to be accepted, from
\* the environment to the names of tools, is in Config.
Load ==
    /\ stage = "load"
    /\ \/ Valid /\ stage' = "build" /\ UNCHANGED exit
       \/ Exit("error")
    /\ UNCHANGED <<cfg, hook, running, signalVars, appVars>>

Build ==
    /\ stage = "build"
    /\ IF Buildable THEN stage' = "hooks" /\ UNCHANGED exit ELSE Exit("error")
    /\ UNCHANGED <<cfg, hook, running, signalVars, appVars>>

\* The next hook starts, unless baseCtx is done.
HookStart ==
    /\ stage = "hooks" /\ hook < Hooks /\ ~running
    /\ IF baseDone THEN Exit("error") /\ UNCHANGED running
                   ELSE running' = TRUE /\ UNCHANGED <<stage, exit>>
    /\ UNCHANGED <<cfg, hook, signalVars, appVars>>

HookOk ==
    /\ running /\ stage = "hooks"
    /\ hook' = hook + 1
    /\ running' = FALSE
    /\ UNCHANGED <<cfg, stage, exit, signalVars, appVars>>

\* A hook that fails, times out, or is killed with baseCtx ends the process.
HookFailed ==
    /\ running /\ stage = "hooks"
    /\ Exit("error")
    /\ UNCHANGED <<cfg, hook, running, signalVars, appVars>>

HooksDone ==
    /\ stage = "hooks" /\ hook = Hooks
    /\ stage' = IF cfg.transport = "stdio" THEN "stdio" ELSE "serve"
    /\ UNCHANGED <<cfg, hook, running, exit, signalVars, appVars>>

\* runStdio ends with its input, or with an error once baseCtx is done.
StdioEnds ==
    /\ stage = "stdio"
    /\ \/ Exit("ok")
       \/ baseDone /\ Exit("error")
    /\ UNCHANGED <<cfg, hook, running, signalVars, appVars>>

\* runHTTP registers the routes and starts Run's goroutine, or gives up.
Serve ==
    /\ stage = "serve"
    /\ IF RoutesClash \/ MuxPanics
       THEN Exit("error") /\ UNCHANGED <<routes, listener>>
       ELSE /\ routes' = Routes
            /\ listener' = "started"
            /\ stage' = "run"
            /\ UNCHANGED exit
    /\ UNCHANGED <<cfg, hook, running, signalVars, closing, ready, inflight, drain>>

\* The first signal, before main listens for signals: the default action.
SignalKills ==
    /\ stage \in {"load", "build"} /\ ~signaled
    /\ signaled' = TRUE
    /\ Exit("killed")
    /\ UNCHANGED <<cfg, hook, running, baseDone, appVars>>

\* The first signal later on; the ones after it change nothing.
Signal ==
    /\ stage \in {"hooks", "serve", "stdio", "run"} /\ ~signaled
    /\ signaled' = TRUE
    /\ UNCHANGED <<mainVars, baseDone, appVars>>

\* The signal goroutine cancels baseCtx.
CancelBase ==
    /\ signaled /\ ~baseDone /\ stage # "exited"
    /\ baseDone' = TRUE
    /\ UNCHANGED <<mainVars, signaled, appVars>>

-----------------------------------------------------------------------------
(* App.Run, its goroutine, and shutdown.                                   *)

\* The goroutine marks the server ready before it listens.
SetReady ==
    /\ listener = "started" /\ stage # "exited"
    /\ listener' = "marked"
    /\ ready' = TRUE
    /\ UNCHANGED <<mainVars, signalVars, routes, closing, inflight, drain>>

\* ListenAndServe opens the listener, or fails; after Shutdown it does neither.
Listen ==
    /\ listener = "marked" /\ stage # "exited"
    /\ listener' \in IF closing THEN {"closed"} ELSE {"open", "failed"}
    /\ UNCHANGED <<mainVars, signalVars, routes, closing, ready, inflight, drain>>

\* ListenAndServe returns an error while it serves.
ListenerFails ==
    /\ listener = "open" /\ stage # "exited"
    /\ listener' = "failed"
    /\ UNCHANGED <<mainVars, signalVars, routes, closing, ready, inflight, drain>>

Accept ==
    /\ listener = "open" /\ stage # "exited" /\ inflight < MaxRequests
    /\ inflight' = inflight + 1
    /\ UNCHANGED <<mainVars, signalVars, routes, listener, closing, ready, drain>>

Complete ==
    /\ inflight > 0 /\ stage # "exited"
    /\ inflight' = inflight - 1
    /\ UNCHANGED <<mainVars, signalVars, routes, listener, closing, ready, drain>>

\* Run receives ListenAndServe's error.
RunFails ==
    /\ stage = "run" /\ listener = "failed"
    /\ Exit("error")
    /\ UNCHANGED <<cfg, hook, running, signalVars, appVars>>

\* Run: ctx.Done(). shutdown marks the server not ready, and derives the
\* context of Shutdown from baseCtx, with the shutdown timeout.
RunStops ==
    /\ stage = "run" /\ baseDone
    /\ stage' = "shutdown"
    /\ ready' = FALSE
    /\ drain' = "running"
    /\ UNCHANGED <<cfg, hook, running, exit, signalVars, routes, listener, closing, inflight>>

\* Shutdown first closes the listener: nothing new is accepted.
CloseListener ==
    /\ stage = "shutdown" /\ ~closing
    /\ closing' = TRUE
    /\ listener' = IF listener = "open" THEN "closed" ELSE listener
    /\ UNCHANGED <<mainVars, signalVars, routes, ready, inflight, drain>>

DrainTimeout ==
    /\ stage = "shutdown" /\ drain = "running"
    /\ drain' = "elapsed"
    /\ UNCHANGED <<mainVars, signalVars, routes, listener, closing, ready, inflight>>

\* Shutdown finds nothing in flight.
ShutdownClean ==
    /\ stage = "shutdown" /\ closing /\ inflight = 0
    /\ Exit("ok")
    /\ UNCHANGED <<cfg, hook, running, signalVars, appVars>>

\* Shutdown gives up when its context is done: by the timeout, or because
\* baseCtx, its parent, is.
ShutdownGivesUp ==
    /\ stage = "shutdown" /\ closing /\ inflight > 0
    /\ baseDone \/ drain = "elapsed"
    /\ Exit("error")
    /\ UNCHANGED <<cfg, hook, running, signalVars, appVars>>

-----------------------------------------------------------------------------

MainStep ==
    \/ Load \/ Build \/ HookStart \/ HooksDone \/ Serve
    \/ RunFails \/ RunStops \/ CloseListener \/ ShutdownClean \/ ShutdownGivesUp

Exited == stage = "exited" /\ UNCHANGED serverVars

ServerNext ==
    \/ MainStep \/ HookOk \/ HookFailed \/ StdioEnds
    \/ Signal \/ SignalKills \/ CancelBase
    \/ SetReady \/ Listen \/ ListenerFails \/ Accept \/ Complete \/ DrainTimeout
    \/ Exited

(* Goroutines run, and what runs under baseCtx ends when it is cancelled:  *)
(* a hook's command is killed (and leaves nothing behind that holds its    *)
(* output, see ShellCommand), and the stdio server returns. Otherwise      *)
(* hooks, requests and the client of stdio need not end by themselves.     *)
ServerFairness ==
    /\ WF_serverVars(MainStep)
    /\ WF_serverVars(CancelBase)
    /\ WF_serverVars(baseDone /\ (HookFailed \/ StdioEnds))

ServerSpec == ServerInit /\ [][ServerNext]_serverVars
FairServerSpec == ServerSpec /\ ServerFairness

-----------------------------------------------------------------------------
(* Correctness.                                                            *)

Serving == stage = "run" /\ listener = "open"

\* A server that serves has done its startup: the readiness probe succeeds (the
\* mark comes before the listener, and is taken back only when Run has seen the
\* end); all hooks have succeeded; the callbacks of every async executor whose type is written without spaces, and
\* of every async approver that answers to the server's URL, are routed, to their
\* own store and not to the other one; and no route leads to a store that main
\* never made. (An approver's own URL is never routed, main.go:172.)
ServingIsWired ==
    Serving =>
        /\ ready
        /\ hook = Hooks
        /\ \A t \in Tools : FoldsToHTTP(t.executor.type) /\ t.executor.async =>
             LET path == CallbackURL(t.executor.webhook, cfg.executorURL).path
             IN path \in DOMAIN routes /\ routes[path] = "executions"
        /\ \A t \in Tools : \A a \in AsyncApprovers(t) : a.webhook = NoURL =>
             /\ cfg.approvalURL.path \in DOMAIN routes
             /\ routes[cfg.approvalURL.path] = "approvals"
        /\ \A p \in DOMAIN routes :
             IF routes[p] = "executions" THEN HasExecutions ELSE HasApprovals

\* After a signal the process ends, even if a hook or a request hangs.
SignalEnds == signaled ~> exit # "none"
=============================================================================
