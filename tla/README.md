# A verification development of yaml-mcp-server

yaml-mcp-server turns a YAML file into an MCP server: every tool has an ordered
chain of approvers and an executor. A call is looked up in an idempotency cache,
approved, executed and answered, within timeouts; approvers and executors may be
external services that answer later, through a webhook.

This directory holds TLA+ modules that model that program, TLC configurations
that check them on small instances, and theorems about them that TLAPS checks.
`PROJECT.json` lists runs, mutants, findings, hazards, theorems, and the source
lines of every definition.

## 1. The system

| component | state | operations | module |
|---|---|---|---|
| async approval store, `internal/approver/http` | map id -> channel, under a mutex | Register, Resolve, Cancel; webhook handler; `Client.Approve` | `PendingStore` (implements `Rendezvous`) |
| async execution store, `internal/runtime/executor` | the same, of its own | the same; `HTTP.Execute` | `Rendezvous`, in `ToolCall` |
| the HTTP protocol of both, `internal/protocol` | none | responses, callbacks | `HTTPExchange` |
| timeouts, `internal/timeutil`, `build.go`, the clients | deadlines | parse, wrap, expire | `Timeouts` |
| tool handler, `internal/runtime/build.go` | per call: context, correlation id, cache key | one call | `ToolCall` |
| chain and timeout wrapper, `internal/runtime/approver` | the wrapper's context | Approve | `ToolCall` |
| idempotency cache, `internal/idempotency` | map and LRU list, under a mutex | Get, Set, trim | `IdempotencyCache` (implements `ForgetfulMap`) |
| cache key, `internal/runtime/cache_key.go` | none | buildCacheKey | `CacheKey`, `CallKeys` |
| limits approver, `internal/approver/limits` | per tool: counter, rate limiter | Approve | `Limits` |
| commands, `internal/executil` | processes, output pipe | RunCommand | `ShellCommand` |
| configuration, `internal/config`, `render`, `dsl` | the rendered and the loaded document | render, load, normalise, validate | `Config` |
| process, `cmd/yaml-mcp-server`, `internal/app`, `startup`, `health` | stage, routes, stores made, ready flag, base context | start, serve, shut down | `Server` |

How they interact. A tool call runs on a goroutine of its own (MCP SDK over
net/http or stdio). It calls the chain, the chain its approvers, the handler the
executor. An async approver or executor registers a slot under the call's
correlation id, posts to its service, and waits on the slot's channel or its
context. The service's callback arrives at the webhook handler on another
goroutine, which resolves the slot. All calls share the two stores, the cache and
the counters. `main` decides from the configuration which stores exist and which
webhook paths lead to them.

What is hard: popped slots are written and closed after the unlock; an id may be
shared by a retry, by another tool's call and by several approvers of one chain;
callbacks come late, twice, or never; two deadlines and the client end a wait;
the cache is read and written with the whole call in between; shutdown races all
of it; a killed command may leave descendants; four timeouts fall back to each other,
and services are told about them; a service may answer in many forms; settings
pass through templates, defaults and checks in several places.

What makes each component correct:

- stores: no panic; a slot ends once; an acknowledged decision is not turned into
  a cancellation; nobody who can be woken is left waiting; a finished attempt
  leaves no slot behind;
- handler: the response tells what happened; nothing is executed that was
  denied; only successes are cached; a repeat is answered from the cache; a call
  with a timeout returns;
- cache: list and map agree, entries are fresh, the recently used survive;
- limits: the total is exact, the rate is bounded and no denial is unjustified;
- protocol: only an explicit approval is one; a response and a callback with the
  same content have the same effect; a service told to wait can still answer;
- timeouts: a call, an approver and a request end by the timeout written for them,
  and a timeout is reported exactly when the call's time is over;
- cache key: a hit is the response to the same call, and a repetition hits;
- commands: the output is complete;
- configuration: what serves was rendered completely, given settings are used, and
  what is async can be called back;
- process: what serves is ready and wired, and a signal ends the process.

## 2. Modules

### Rendezvous and PendingStore

`Rendezvous` is what a store promises, with every operation atomic: an attempt
(one run of `Client.Approve` or `HTTP.Execute` in async mode) opens a slot, is
answered or revoked, ends with an outcome, and cancels its id when it leaves. It
keeps what the code does and one would not wish for: `Cancel` takes the slot of
the id, whoever holds it.

`PendingStore` is the code. `pending` is the map; an entry is named after the
attempt that registered it, `buf` and `closed` are its one-element channel. One
step is what happens under the mutex or between two points at which another
goroutine can be seen: `ResolvePop`, `ResolveSend`, `ResolveClose`; `CancelPop`,
`CancelClose`; the two ways out of the select are both enabled when both are
ready. Handlers are callbacks; each may name any id at any time, so that
duplicates, late callbacks and callbacks of a previous life of the process are
included. `PostDecided` and `PostAccepted` are the outcomes of the HTTP request.
A send or close on a closed channel sets `panicked`.

Refinement: `table` is `pending`; an attempt is answered as soon as a handler has
popped its slot, revoked as soon as a `Cancel` has; `phase` follows `pc`. The send
and the close that follow are stutters, which is the point: although they happen
after the unlock, no attempt can tell.

### ToolCall

One variable per piece of a call's state (`pc`, `step` in the chain, `verdict`
just returned, `ctx`, `stepCtx`, `reply`), plus the counters, the cache, the two
stores (`INSTANCE Rendezvous` with the slots of both kinds) and the services.
The actions are the handler's branches in order: `ReceiveCached` / `Receive`;
per approver the `Limits*`, `Sync*` and `Async*` actions; `ChainNext`,
`ChainStop`; the executor; `ExecOk`, `ExecFailed`. `Wrapped` is the timeout
wrapper, `OrTimeout` is `applyTimeoutResponse`. `ToolDeadline`, `StepDeadline`
and `ClientGone` may come at any moment of a call. A service that received a
request answers it consistently, but up to `MaxDeliver` times and any time later
(`Callback`). A synchronous approver may approve after its deadline; what `Wrapped` makes
of that is a denial, and the history variable `allowed` has the approvers that approved in
time. The cache is a map that forgets at any time (`Forget`), as
`IdempotencyCache` shows. Which calls share a key is `CacheKey` in the module `CallKeys`.

Abstractions: a response is its kind and the call whose work it reports;
arguments are one value, which section 5 shows to be exact for the cache's keys as long
as ids are not blank; SHA-256 is injective; an invalid request to an async approver is a nondeterministic denial.

### IdempotencyCache and ForgetfulMap

`items` and `order` are the map and the list; `Get` and `Set` are split by their
branches; every operation runs under the mutex and is one step. `Without` removes
one element, as `list.Remove` does: that a key has only one is proved, not assumed.
`now` is the clock. The history variables record the last operation, the last `Set` of each
key, and which other keys were used since a key's last use. The refinement maps
expired entries to absent ones, so `Tick` may forget.

### Limits

One tool's counter and rate limiter. `golang.org/x/time/rate` is external: a
bucket with a burst of R, refilled at R a minute. A token is `Minute` units and a
tick adds R units, which keeps the arithmetic exact. A policy sees strings and
numbers; all other JSON values pass, as in the code. `approved` is the number of
calls approved up to each tick, from which `GrantedIn` has those of any span. (The code's interval between
tokens is a minute divided by R in whole nanoseconds; the remainder is ignored.)

### Server

`stage` is where `main` is. A configuration is reduced to transport, webhook URLs
and, per tool, executor and approver types with their spelling, since validation
trims and folds the executor's type, `main` only folds it, and the builder takes
approver types literally. `Load` may refuse a configuration that is `Valid`, for the reasons
that `Config` has. `Valid`, `Buildable`, `HasApprovals`, `HasExecutions`,
`ExecutorURLs`, `RoutesClash`, `MuxPanics` are the functions of those names or
the conditions at their lines. The goroutine of `App.Run` (`listener`) runs beside
`main`. `Shutdown` gives up when its context is done, and that context is a child
of `baseCtx`.

### ServedExchange

The process and an exchange of one call that it serves, together: the call is one of the
requests in flight, a callback needs a route to the store of its kind, the process may be
told to stop at any point, and when it has ended nothing goes on. A call that waits stays
in flight. Exchanges are looked at in the configurations `Asking`.

### ShellCommand

`RunCommand` with the process it starts, that process's descendants as far as
they hold the output, the kill at the deadline and the copy of the output.

### Timeouts

One call against a clock. `CallTimeout`, `StepTimeout` and `ClientTimeout` are the
three readings of the configuration (addTool, wrapTimeout, the HTTP clients) with
their defaults; a timeout may be absent, refused by the parser, zero or negative.
From them come the deadlines of the call's context, the wrapper's context and the
HTTP client, and `Told`, the timeout_sec of a request. `Begin` builds a request;
`Answer`, `Accept`, `Callback` are the service; `ClientGivesUp` and `ContextDone`
the timers. `Hold` is a shell command that leaves a descendant with its output (see
ShellCommand): `RunCommand` then returns at any time from its deadline on, and `freed` is
when it did. `Wrapped` and `OrTimeout` decide from the context, as the code does,
never from the error. At the tick of a deadline the answer and the deadline race;
otherwise timers are exact, which `Due` says, and does not say of a held command. The module complements ToolCall,
whose deadlines may come at any moment: here they have values.

### HTTPExchange

One attempt with one service, for approvers and executors. A service has one
answer; it may say it in the response or by callback, in the protocol's spelling
or another, and may say things that decide nothing. `Approve` and `Execute` are
the two clients: the status, an acknowledgement without a body (`Acknowledged`),
and what a body decides (`Decided`, `Executed`); `Status` has the checks of the webhook
handlers, `Delivered` what the waits make of a callback. `Limited` is the limit of
1 MiB: what is longer no longer parses. `Reads` has what else may be read of a response:
both clients drop the error of `io.ReadAll`, so a body that breaks off (a lost connection,
a timeout) is taken for what came of it. `Fail` is only the error of `client.Do`. Ids may have spaces around them, since
only the handlers trim.

### CacheKey

`buildCacheKey` for calls in sequence: the id (`GivenId`), the strategies (`ById`),
and `canonicalJSON`, a recursive function on typed values. It gives each value a
writer, which appends the value's tokens to a buffer; arrays and objects run the
writers of their components in turn (`InTurn`), with commas between. The constants say
which values there are and how deep they are nested (`Depth`), as the code recurses
on values that end. Go visits the keys of a map in any order: each call has one of
its own, which `KeyOrder`, the sorting, makes irrelevant. A key is the
sequence of its tokens, so that two arguments share a key only if their encodings
agree. Entries also keep the `response_format` they were formatted with.

### Config

`main` up to serving, without the processes: the environment, rendering of a file
or of an embedded template, loading, normalisation, every check of `Validate`, and
what the cache and the app make of the settings. A template gives each setting an
expression; `Value` evaluates it, `RenderFails` has the errors. The two variables
named err are kept apart: `RenderEmbedded` leaves main's alone. A YAML value is a
function from the paths in it to the Go types there, because `json.Marshal` refuses
`map[any]any` wherever it is. `Texts` and `Paths` name the texts and paths that occur; a template
is a `File` of expressions, a document one of texts, a configuration one of texts and numbers.

### Proof modules

`PendingStoreProofs`, `ToolCallProofs`, `IdempotencyCacheProofs`, `LimitsProofs`,
`HTTPExchangeProofs`, `TimeoutsProofs`, `CacheKeyProofs` and `ConfigProofs` extend the
modules they are named after. `HTTPExchangeProofs` extends `ServedExchange`, and with it `Server`, the process that
serves the webhooks (the names of its specification carry a prefix: `ServerInit`,
`ServerSpec`), and has an instance of `ShellCommand`, whose commands the hooks are. See
section 5.

## 3. Runs

| run | instance | shows |
|---|---|---|
| pending | 2 attempts at one id, one with a deadline, 3 callbacks, 2 verdicts; 181,000 states | NoPanic, SlotEndsOnce, AcknowledgedIsDelivered, NoLeak, NoLostWakeup, ForeignCancelIsStale; implements Rendezvous; TakenReturns, TimedReturns |
| gateway_async | 2 calls of 2 tools under one id; one tool with two async approvers, one of them wrapped, the other with a wrapped synchronous and an async one and an async executor; each callback twice; 618,000 states | ReplyIsTrue, OwnSlotsReleased, DecisionIsTraceable |
| gateway_repeat | a call and its retry: wrapped synchronous approver, limits, async executor | TotalRespected, CacheIsSound, RepeatIsNotExecuted, TimedCallsReturn |
| gateway_approvers | 1 call, 2 async approvers, a repeated callback | violation: one approver's callback decides for the next |
| cache | 3 keys, 2 entries, 2 values, ttl 1, clock to 3 | Coherent, RecentSurvives, HitIsFresh; implements ForgetfulMap |
| limits | R = 2, a minute of 3 ticks, total 5, 3 minutes | TotalExact, RateBound, RateDenialIsRecent |
| server | 16 configurations, 2 hooks, a request at a time; in one configuration an exchange: both sides, sync and async, every answer, broken off or not, 3 ids, 2 callbacks; 720,000 states | ServingIsWired, YesIsMeant, SameByCallback, AnswerIsTaken, SignalEnds |
| shell_timeout | 1 descendant | violation: a timeout does not bound RunCommand |
| timeouts | up to 2 approvers of 4 kinds, 3 kinds of executors, 5 tool timeouts, shell items held or not, 2 ticks a second; 1,192,000 states | EndsInTime, TimeoutIffExpired, ToldIsKept |
| cache_key | 19 arguments, 2 map orders, every strategy | TypeOK, HitIsSameCall, RepetitionHits, ResponseFits |
| config | 13 settings with every expression and text, tools, schemas; 6 values of a variable, or none | TypeOK, ServesWhatItRead, GivenIsKept, SchemasEncodable, AsyncIsServed |
| config_shutdown | the same templates, the variable for the shutdown timeout unset, 0s or 10s | violation: the file's `shutdown_timeout` does not override |

A module whose type invariant is a theorem (section 5) does not check it again in
its run, but for `Config`, whose also says that a port is valid, and `CacheKey`, whose
also says that a key has one entry.

Why the bounds are enough. The store: everything happens on one id, ids do not
interact; two attempts give every overlap of an attempt with its successor, and
three callbacks give each of them one and a duplicate; the theorems of section 5
cover the safety part for any number. The gateway: two calls give every pair of
interleaved calls, two async approvers the hand-over of one id between steps, and
two deliveries a duplicate; a late or refused approval occurs of synchronous and of async
approvers. The cache: two entries and three keys give eviction,
renewal and reordering; time passes the ttl twice. Limits: the clock runs three
minutes, the total is reached in the second. `MaxCount`, `MaxTime`, `MaxDeliver`,
`MaxRequests`, `MaxCallbacks`, `MaxCalls` and `Children` bound what is unbounded in
the code; each is declared as a bound in its module. Timeouts: two ticks a second
let the truncation to seconds show; executor timeouts lie below and above the
approvers', and the tool's above both, so that each deadline is the first one in
some call. HTTPExchange: two callbacks are one that is refused and one that is
taken, or a repetition. The process: requests do not interact, so that one in flight is
enough, and the exchanges are looked at in a configuration with approvers and executors
of both ways. CacheKey: arguments come in pairs that a careless encoding
confuses. Config: checks look at one setting, or at a setting and the tools, so
templates that differ from a good one in one place, with and without async tools,
reach each of them.

Every property of a passing run has a mutant in `PROJECT.json`: the definition of
an action replaced by a variant with a plausible mistake, with which the run
fails. The variants stand in the modules, before the actions.

Fairness, and why the code justifies it. Goroutines that can run do run; an HTTP
request ends (`http.Client.Timeout` is 10 s by default; it is off only for an
approver whose timeout is written as zero or less, which EndsInTime leaves out and
no instance with fairness has); contexts with a deadline expire; `os/exec` kills a command when
its context is done and a synchronous HTTP request is aborted then. No callback,
no client, no command, hook or request is assumed to end on its own, and nobody is
assumed to start a call. Two places need one more assumption: `TimedCallsReturn`
and `SignalEnds` take it that a killed command leaves no descendant that holds its
output; shell_timeout shows what happens otherwise. `Timeouts`, whose bounds on time are
invariants over a clock, does not take it: `EndsInTime` says what is left of the bounds when a
command is held (nothing while it is; the call ends as it is freed). `HTTPExchange`,
`CacheKey` and `Config` state no fairness.

Deadlock is checked in all runs; a finished system stutters in `Terminated`.

## 4. Findings

Three runs end in a counterexample that contradicts a comment or the README of the
repository; `PROJECT.json` quotes the lines:

- gateway_approvers: a repeated callback of one async approver is taken for the
  decision of the next one, since both wait under the call's id (async.go:45).
  DecisionIsTraceable says how far this goes: the decision always comes from a
  service that was asked under the same id in the same store, and it is another's
  only if that one was late or repeated itself.
- shell_timeout: a timeout does not end a command that leaves a descendant which
  holds its output (executil.go:87).
- config_shutdown: the file's `shutdown_timeout` does not override anything. `app.New`
  reads it if the environment's value is zero (app.go:62), and that value is 10 s when
  nobody sets the variable (config.go:18); types.go:21 says that it "overrides graceful
  shutdown duration". GivenIsKept has the cases in which the two do not disagree.

The models also contain what follows. Each item is where a property had to stop:
it states what the code keeps, and leaves this case out.

| code | what it does | what is shown instead |
|---|---|---|
| async.go:62 | `Cancel` removes whatever the id maps to, also a later attempt's slot | ForeignCancelIsStale, TakenReturns |
| build.go:133 | a repeat that arrives during the first call is executed too | RepeatIsNotExecuted |
| app.go:107 | the context of `Shutdown` is a child of the cancelled one: requests in flight get no time | SignalEnds (that it ends, not that it drains) |
| app.go:79 | the server may be marked ready after shutdown has marked it not ready | ServingIsWired (of what serves) |
| main.go:172 | an approver's own `webhook_url` is sent out and never routed | ServingIsWired (of the server's URL) |
| main.go:217 | an executor's type with spaces is async, and its own URL is not routed | ServingIsWired |
| build.go:96 | `executor.timeout` bounds shell and async executors only if the tool has no timeout | EndsInTime |
| http.go:73 | an async approver without a timeout is told 10 s and awaited for the whole call | EndsInTime |
| executor/http.go:103 | an executor is told the call's time, and given up after its client's | ToldIsKept |
| app.go:38 | a timeout response may come after the server's write timeout | EndsInTime |
| executor/http.go:121, 163 | a `status: error` response that breaks off, or is beyond 1 MiB, is a success, and is cached: the error of reading it is dropped | YesIsMeant |
| executil.go:87 | a held shell command outlives the timeouts of its call and of its approver | EndsInTime |
| async.go:91 | ids are trimmed in callbacks only | AnswerIsTaken |
| main.go:52 | the error of rendering an embedded template is lost; only the check of `server.name` stops the process | ServesWhatItRead |
| cache.go:29 | a ttl of zero becomes an hour | GivenIsKept |
| normalize.go:6 | a `spec` with an object in it cannot be sent | SchemasEncodable |
| limits.go:99 | the burst lets 2R-1 calls through in a minute | RateBound |

## 5. Proofs

For any number of attempts, handlers, ids and verdicts, `PendingStoreProofs` proves
everything about the store that the run *pending* checks on a small instance, except
the two liveness properties: `TypeCorrect`, `NeverPanics`, `EndsOnce`, `NoSlotLeaks`,
`AcknowledgedDelivered`, `ReceivedIsSent`, `NoWakeupIsLost`,
`ForeignCancelsAreStale` and the refinement `StoreIsRendezvous`.

They assume that `IdOf` maps attempts to ids, and that `None` is neither an
attempt nor a verdict.

The argument has three layers, each an invariant on top of the one before.

*Who has an entry.* None of the safety properties is inductive: that a channel is
not closed twice follows from who may close it. `Ownership` says where an entry
can be: in the table under its own id, popped by exactly one handler, or popped by
exactly one Cancel (`TableOwns`, `SlotEndsOnce`); an attempt that has not started
has no entry (`StartIsFresh`); and an entry that somebody popped and has yet to
close is open (`PoppedIsOpen`). `OwnerIsAlone` draws the consequence that no one
else holds it.

*What a channel carries.* `Delivery` adds the history that the channel alone does
not show: a buffered decision is the one of the handler that has the entry
(`BufferedWasSent`) and stays until it is received (`SentIsKept`); a channel is
closed exactly when whoever popped its entry is done (`PoppedIsClosed`); what an
attempt returned agrees with what became of its slot (`ResultIsTrue`); and the
slot of an attempt that has not returned is in the table or was popped
(`SlotIsSomewhere`), which still holds when its Cancel begins (`LeavingSlot`): so what
a Cancel finds there of another attempt was registered after its own was taken.

*Refinement.* Every action is mapped to the action of `Rendezvous` it is, or to a
stutter (`AttemptStepRefines`, `HandlerStepRefines`). Two steps need the layers
below: `Receive` is `Take` because what is in the buffer is the answer given at
the pop, and `ReceiveClosed` is `FindRevoked` because a channel that is closed and
empty, with nothing received, was closed by a Cancel.

`ToolCallProofs` proves every safety property of the gateway that holds, for any
calls, tools, ids, chains, executors, key strategies and limits: `CallTypeCorrect`,
`RepliesTellTheTruth` (nothing is executed that some approver of the chain, of whatever
kind, did not allow in time), `SlotsAreReleased`, `DecisionsAreTraceable`,
`TotalIsRespected`, `CacheHoldsSuccesses`, and the action property `RepeatsAreCached`. None is
inductive. The invariant says where a call is in its chain (`Position`); that a
slot, or an owed Cancel, belongs to the approver or executor its call is at
(`SlotsAreHere`), which is what frees the id between steps; that a verdict comes
from a service that was asked, that passed async approvers have said yes, that every
passed approver approved before its timeout, and that
only a call that passed them all is executed (`OutcomesWereAsked`, `AllEarned`, `AllAllowed`);
that responses and the cache agree with that (`Answers`); that an answer has a
source, and two answers from one source were delivered twice (`Traced`); and that a tool's counter
is the number of its calls that passed its limits approver (`CountIsExact`), of
which those that reached the executor are a part. Each part is preserved given
those before it, so the proof goes part by part, with a step per action. It assumes
that the configuration gives each call a tool and each tool a chain, that max_total
is positive where there is a limit, and that `None` is no call, attempt or verdict
(`ConfigAssumption`, `BoundsAssumption`, `NoneAssumption`). `CallsUseRendezvous` closes
the gap to the stores: the gateway's behaviours, seen through the variables of its
stores, are behaviours of Rendezvous, which `StoreIsRendezvous` shows the code's store
to implement. `CallsUseForgetfulMap` does the same for the cache. What a call looks up or
stores is no variable of the gateway, so a history variable records it (`OperatedSpec`),
read off what a call does: that it arrives, whether it is answered with a cached response and
with whose, that it is answered with success. Every step has such an operation
(`EveryStepOperates`), so the history variable excludes no behaviour. With it the
gateway's cache is a behaviour of `ForgetfulMap`, which `CacheIsMap` shows the code's cache
to implement.

`LimitsProofs`: `LimitsTypeCorrect`, `TotalHolds`, `TotalIsExact`, `SpansAreBounded`,
`RateIsBounded`, `RateDenialIsJustified`, for every total, rate and length of a minute. The
counter is what was approved up to now. For the rate the invariant is about every span up
to now: the tokens that were used in it and those still there are no more than a full
bucket and what was refilled in it. RateBound is this for a span shorter than a minute,
in which fewer than R tokens are refilled. A denial needs that the bucket is full or
explained by some approval: what was refilled since is no more than what is in it.

`IdempotencyCacheProofs`: `TypeCorrect`, `MapAndListAgree`, `HitsAreFresh`,
`RecentlyUsedSurvive`, `CacheIsMap`, for any keys, values, capacity and ttl. An entry
holds the value of the last Set and expires by its time (`EntryIsLastSet`). The list is
an injective sequence of exactly the keys in the map (`ListOK`); the lemmas say what removing an
element, moving it to the front and trimming do to such a sequence. That the recently
used survive needs the order of the list: the keys before a key in it have been used
since (`UseOK`), so that a key at position n has at least n-1 others, and trimming cuts
only those with maxEntries.

`ConfigProofs`: `TypesOfConfig`, `RenderingSucceeded`, `GivenSettingsAreUsed`,
`SchemasAreEncodable`, `AsyncToolsAreServed`, for any set of templates of the right shape,
any texts and any values of the variables. The lemmas follow a document through
unmarshalling, normalisation and defaults; the invariant says, for each stage of main,
what has been made of the template by then (`AsRendered`, `AsLoaded`, `AsTakenOver`). The
assumptions say what the sets are: templates are files of expressions, the texts that the
code itself uses are texts, and `None` is neither a text nor a configuration.
`LoadImplementsServer` joins the two modules about the process: a configuration that
`Config` has loaded, reduced to what `Server` keeps of it (`Reduced`), is one that `Server`
accepts, and rendering and loading are its `Load` or stutters. So what is proved of a
process that serves, in `Server`, holds of the configurations that come out of `Config`. Types
of executors and approvers occur in one spelling only in `Config`, and URLs are told apart
as texts, which is all that the map needs of them.

`HTTPExchangeProofs`: `ExchangeTypeCorrect`, `YesWasMeant`, `CallbackIsResponse` and
`WaitingIsAnswered`, for any number of callbacks. The invariant relates what an attempt
returned to the response, as far as it was read, or the callback it heard (`Source`); only the service's one
answer gets into the channel, and a waiting attempt has its slot or that answer (`Slot`). It assumes that `None` is no word and no answer.

At the end of the module are the process and its commands. `ServedIsBoth` says that process and
exchange together are a behaviour of each, fairness included, so that the theorems about
either hold of calls that are served, signalled and shut down. `ServerTypeCorrect` and
`ServedIsWired` hold for every set of configurations and any number of hooks and
requests. The invariant says what `main` has done by each stage:
validation lies before the hooks, the routes are those of the configuration, and
nothing is served before Run. `OutputIsComplete` is about ShellCommand: whatever a
command forks, `RunCommand` returns when nobody writes to its output any more, and its
error is nil only if the command ended with status zero.

`TimeoutsProofs`: `TimeoutsTypeCorrect`, `WaitsEndInTime`, `TimeoutSaysExpired` and
`ToldSecondsAreKept`, for every set of configurations, chains of any length and any
length of a second. The invariant is that the clock has not passed a deadline of the
current wait unless a command is held (`DeadlinesHold`), and that the response, and what an executor was told,
agree with the call's deadline (`DeadlineIsTold`). It is about deadlines, the
theorems about what is written: that a written timeout is the deadline it says is a
lemma (`WrittenIsDeadline`, `CallTimeoutIs`). It assumes that a configuration is made
of timeouts that are numbers, absent or invalid (`ConfigsAssumption`,
`WrittenAssumption`).

`CacheKeyProofs`: `KeysTypeCorrect`, `HitsAreSameCalls`, `ResponsesFit` and the action
property `RepetitionsHit`, for any tools, arguments, strategies and number of calls. The
invariant says of each cache entry which parts of its request made the key (`KeyFits`),
and that a generated id is one of the past, so that no later call finds it. That a key
from arguments is found by the same arguments only is `CanonicalIsInjective`: no two
values are written alike, whatever they contain and however deep they are nested. The
library's induction theorems cannot be instantiated here, so the proof goes by a
counterexample of least depth, from the fact that < on the naturals is well-founded
(`Least`, `Shallowest`); so does `Recursion`, that the recursive definitions of
`canonicalJSON` and `InTurn` have the functions they describe. The argument reads a text
from its end: the last token tells the kind of a value (`EndingTells`), and
`InTurnIsInjective` takes off one component after the other, since none ends in the
bracket that opens the list (`NeverEndsIn`) and a comma tells whether there is one
before. The assumptions on the constants say that the values are JSON values nested as
deep as `Depth` says, that scalars differ in their text from each other and from
punctuation, and that all keys of objects are in `FieldOrder`.
`KeysAreAsTheGatewaySays` compares this with the gateway, for any two calls, each with its own
number and its own order of keys, and ids that are not blank: `buildCacheKey` gives them one key
just if `CallKeys!CacheKey` does, with the whole arguments in place of their hash. An id that is
blank makes no key in the code; the gateway has no such ids.

Only model-checked: liveness, which is out of the prover's reach.

## 6. Not modelled

Message templates, audit and logging (no component reads them), the wording of
responses beyond which text it is, the fields of requests that only describe,
template functions that only reshape text, the parsing of URLs and of YAML as
such, SHA-256 and the bytes of JSON (keys joined with a colon are not told apart
from names that contain one), resources and tool metadata (constants handed to the
SDK), packaging.
The process keeps nothing on disk, so a restart is `Init`; what survives is the
outside world, whose late callbacks `PendingStore` admits.

## 7. Plan

Order of the work: the store and its abstraction, the gateway on top of it, the
cache, the limits, the process, commands; then timeouts, the protocol, the cache key
and the configuration; with proofs of all of them. What is left:

- the arithmetic of `x/time/rate` in nanoseconds, whose remainder Limits ignores;
- that one attempt of `HTTPExchange` and one call's deadlines in `Timeouts` are what
  `ToolCall` takes them for: the three are checked and proved apart.
