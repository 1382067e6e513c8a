------------------------------- MODULE Limits -------------------------------
(***************************************************************************)
(* internal/approver/limits/limits.go: the limits approver of one tool,    *)
(* its total counter, its rate limiter and its field policies. Approve     *)
(* runs under the mutex and never waits, so each call is one step.         *)
(*                                                                         *)
(* The rate limiter is golang.org/x/time/rate with a burst of R tokens and *)
(* R tokens a minute. A minute is Minute ticks and a token is Minute       *)
(* units, so that every tick adds R units and all arithmetic is exact.     *)
(***************************************************************************)
EXTENDS Integers, FiniteSetsExt

CONSTANTS
    MaxTotal,       \* max_total; 0 is no limit
    RatePerMinute,  \* rate_per_minute; 0 is no limit
    Minute,         \* ticks in a minute
    Fields,         \* fields that have a policy
    Policy,         \* [Fields -> [min, max, minLength, maxLength, regex]]
    Arguments,      \* the argument records that calls bring, see Value
    MaxTime,        \* bound: the clock stops there
    MaxCount,       \* bound: calls approved in a run
    None            \* an absent bound

ASSUME NumberAssumption ==
    {MaxTotal, RatePerMinute, MaxTime, MaxCount} \subseteq Nat /\ Minute \in Nat \ {0}

VARIABLES
    count,      \* limiterState.count
    tokens,     \* the units in the bucket
    now,        \* the clock, in ticks
    approved,   \* history: calls approved up to and at each tick
    denied      \* history: why the last call at this tick was denied

vars == <<count, tokens, now, approved, denied>>

Burst == RatePerMinute * Minute

TypeOK ==
    /\ count \in 0..MaxCount
    /\ tokens \in 0..Burst
    /\ now \in 0..MaxTime
    /\ approved \in [0..MaxTime -> 0..MaxCount]
    /\ denied \in {"none", "fields", "total", "rate"}

Init ==
    /\ count = 0
    /\ tokens = Burst
    /\ now = 0
    /\ approved = [t \in 0..MaxTime |-> 0]
    /\ denied = "none"

-----------------------------------------------------------------------------
(* Field policies. A value is [type, size, matches]: a string with its     *)
(* length, a number with its value, or anything else.                      *)

\* checkMinMax: bounds are inclusive and each may be absent.
InBounds(n, min, max) ==
    /\ \A b \in {min} \ {None} : n >= b
    /\ \A b \in {max} \ {None} : n <= b

\* A policy looks at strings and numbers only; a regex at strings only.
FieldOk(policy, value) ==
    CASE value.type = "string" ->
            /\ InBounds(value.size, policy.minLength, policy.maxLength)
            /\ policy.regex => value.matches
      [] value.type = "number" -> InBounds(value.size, policy.min, policy.max)
      [] OTHER -> TRUE

\* checkFields: fields the call does not bring are not looked at.
FieldsOk(args) == \A f \in Fields \cap DOMAIN args : FieldOk(Policy[f], args[f])

-----------------------------------------------------------------------------
(* Variants that contain a plausible mistake; the runs check that each     *)
(* property tells the code from one of them.                               *)

\* The counter is compared with ">" instead of ">=".
TotalOffByOne(n) == MaxTotal = 0 \/ n <= MaxTotal

\* A fixed window: a full bucket at the start of every minute, no refill within.
FixedWindow == IF (now + 1) % Minute = 0 THEN Burst ELSE tokens

\* A denied call uses up what is in the bucket.
DenialEmptiesBucket(args) ==
    /\ FieldsOk(args) /\ RatePerMinute # 0 /\ tokens < Minute
    /\ MaxTotal = 0 \/ count < MaxTotal
    /\ denied' = "rate"
    /\ tokens' = 0
    /\ UNCHANGED <<count, now, approved>>

-----------------------------------------------------------------------------
(* Approve.                                                                *)

BelowTotal(n) == MaxTotal = 0 \/ n < MaxTotal

\* rate.Limiter.Allow: there is a whole token.
HasToken(n) == RatePerMinute = 0 \/ n >= Minute

DenyFields(args) ==
    /\ ~FieldsOk(args)
    /\ denied' = "fields"
    /\ UNCHANGED <<count, tokens, now, approved>>

\* The total is checked first, so a call denied for it takes no token.
DenyTotal(args) ==
    /\ FieldsOk(args) /\ ~BelowTotal(count)
    /\ denied' = "total"
    /\ UNCHANGED <<count, tokens, now, approved>>

DenyRate(args) ==
    /\ FieldsOk(args) /\ BelowTotal(count) /\ ~HasToken(tokens)
    /\ denied' = "rate"
    /\ UNCHANGED <<count, tokens, now, approved>>

Allow(args) ==
    /\ FieldsOk(args) /\ BelowTotal(count) /\ HasToken(tokens)
    /\ count < MaxCount
    /\ count' = count + 1
    /\ tokens' = IF RatePerMinute = 0 THEN tokens ELSE tokens - Minute
    /\ approved' = [t \in 0..MaxTime |-> IF t < now THEN approved[t] ELSE approved[t] + 1]
    /\ denied' = "none"
    /\ UNCHANGED now

\* What a tick leaves in the bucket.
Refilled == Min({Burst, tokens + RatePerMinute})

Tick ==
    /\ now < MaxTime
    /\ now' = now + 1
    /\ tokens' = Refilled
    /\ denied' = "none"
    /\ UNCHANGED <<count, approved>>

Approve(args) == DenyFields(args) \/ DenyTotal(args) \/ DenyRate(args) \/ Allow(args)

Next == Tick \/ \E args \in Arguments : Approve(args)

Spec == Init /\ [][Next]_vars

-----------------------------------------------------------------------------
(* Correctness.                                                            *)

Before(t) == IF t = 0 THEN 0 ELSE approved[t - 1]

\* The calls approved from one tick to another, both included.
GrantedIn(from, to) == approved[to] - Before(from)

\* max_total: no more calls than that are ever approved, and a call denied for
\* it proves that so many were: denied calls are not counted.
TotalExact ==
    /\ count = GrantedIn(0, MaxTime)
    /\ MaxTotal # 0 => count <= MaxTotal
    /\ denied = "total" => GrantedIn(0, MaxTime) = MaxTotal

\* rate_per_minute: within any minute at most a full bucket and what a minute
\* refills, less the token that is complete only when the minute is over.
RateBound ==
    RatePerMinute # 0 =>
        \A from, to \in 0..MaxTime :
            from <= to /\ to < from + Minute => GrantedIn(from, to) <= 2 * RatePerMinute - 1

\* No call is denied for the rate for longer than one token takes: a call was
\* approved less than a minute/rate_per_minute before.
RateDenialIsRecent ==
    denied = "rate" =>
        \E t \in 0..now : GrantedIn(t, t) > 0 /\ (now - t) * RatePerMinute < Minute
=============================================================================
