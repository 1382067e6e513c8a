------------------------------- MODULE CacheKey -------------------------------
(***************************************************************************)
(* Which calls share a cached response: buildCacheKey and its canonical    *)
(* JSON (internal/runtime/cache_key.go), with the correlation id and the   *)
(* response format of a call (internal/runtime/build.go), for calls that   *)
(* come one after another.                                                 *)
(*                                                                         *)
(* A JSON value is <<type, value>>, an object a function on its keys.      *)
(* Texts are atoms. Go visits the keys of a map in any order, so each call *)
(* comes with an order of its own. SHA-256 is injective, and no id looks   *)
(* like a digest.                                                          *)
(***************************************************************************)
EXTENDS Naturals, Sequences

CONSTANTS
    Strategies,     \* spellings of key_strategy that validation accepts
    Tools,          \* tool names
    ArgSets,        \* arguments of calls: functions from field names to values
    Values,         \* the values that occur in them, and they themselves
    Depth,          \* how deep each value is nested
    Texts,          \* the texts of values
    FieldOrder,     \* all keys of all objects, in byte order
    Orders,         \* orders in which Go may visit the keys of a map
    MaxCalls,       \* bound: calls
    None

VARIABLES
    strategy,   \* the configured key_strategy
    cache,      \* entries [key, request, format]
    last,       \* the last call and its response, or None
    calls       \* calls so far

vars == <<strategy, cache, last, calls>>

-----------------------------------------------------------------------------
(* The correlation id and the format.                                      *)

NoText == ""

Text(args, field) ==
    IF field \in DOMAIN args /\ args[field][1] = "string" THEN args[field][2] ELSE NoText

\* The id that a call gives, if it gives one that is a non-empty string.
GivenId(args) ==
    IF Text(args, "correlation_id") # NoText THEN Text(args, "correlation_id") ELSE Text(args, "request_id")

Given(id) == <<"given", id>>
Generated(call) == <<"generated", call>>
Digest(text) == <<"digest", text>>

\* newCorrelationID: the clock, taken to differ between calls.
CorrelationId(args) == IF GivenId(args) # NoText THEN Given(GivenId(args)) ELSE Generated(calls)

\* Variant with a plausible mistake: a format that is not known is passed on.
GivenFormat(args) == Text(args, "response_format")

\* applyResponseFormat knows one format that changes anything.
Format(args) == IF Text(args, "response_format") = "markdown" THEN "markdown" ELSE "json"

-----------------------------------------------------------------------------
(* canonicalJSON writes a value after what a buffer holds.                 *)

Punctuation == {"'", ",", ":", "[", "]", "{", "}"}
Tokens == Texts \cup Punctuation
Buffers == Seq(Tokens)
Writers == [Buffers -> Buffers]

\* Variant with a plausible mistake: the keys are not sorted.
VisitedOrder(order) == order

\* sort.Strings, of keys that are visited in this order.
KeyOrder(order) == FieldOrder

\* Variant with a plausible mistake: strings are written bare.
Bare(buf, s) == Append(buf, s)

\* strconv.Quote.
Quote(buf, s) == Append(Append(Append(buf, "'"), s), "'")

Comma(buf) == Append(buf, ",")

\* Writers with indices in 1..n, one after the other, with commas between.
InTurn(n, writers, buf) ==
    LET text[i \in 0..n] ==
            CASE i = 0 -> buf
              [] i \in DOMAIN writers ->
                   writers[i][IF \E j \in DOMAIN writers : j < i THEN Comma(text[i - 1]) ELSE text[i - 1]]
              [] OTHER -> text[i - 1]
    IN text[n]

Field(write, key, value) == [buf \in Buffers |-> write[value][Append(Quote(buf, key), ":")]]

Items(write, items) == [i \in 1..Len(items) |-> write[items[i]]]

Present(object, keys) == {i \in 1..Len(keys) : keys[i] \in DOMAIN object}

Fields(write, object, keys) ==
    [i \in Present(object, keys) |-> Field(write, keys[i], object[keys[i]])]

\* One value, its components with write.
Written(write, value, keys, buf) ==
    CASE value[1] = "string" -> Quote(buf, value[2])
      [] value[1] = "array" ->
           Append(InTurn(Len(value[2]), Items(write, value[2]), Append(buf, "[")), "]")
      [] value[1] = "object" ->
           Append(InTurn(Len(keys), Fields(write, value[2], keys), Append(buf, "{")), "}")
      [] OTHER -> Append(buf, value[2])

canonicalJSON(keys) ==
    LET write[value \in Values] == [buf \in Buffers |-> Written(write, value, keys, buf)]
    IN write

Without(args, fields) == [f \in DOMAIN args \ fields |-> args[f]]

\* hashArguments leaves the ids out.
Relevant(args) == Without(args, {"correlation_id", "request_id"})

\* Values are scalars, and arrays and objects of values that are nested less deep.
Below(value) == {v \in Values : Depth[v] < Depth[value]}

IsString(value) == value[1] = "string" /\ value[2] \in Texts

IsScalar(value) == value[1] \in {"number", "boolean", "null"} /\ value[2] \in Texts \ Punctuation

IsArray(value) == value[1] = "array" /\ value[2] \in Seq(Below(value))

IsObject(value) ==
    /\ value[1] = "object" /\ value[2] \in [DOMAIN value[2] -> Below(value)]
    /\ \A k \in DOMAIN value[2] : \E i \in DOMAIN FieldOrder : FieldOrder[i] = k

IsValue(value) ==
    /\ value = <<value[1], value[2]>>
    /\ IsString(value) \/ IsScalar(value) \/ IsArray(value) \/ IsObject(value)

ASSUME ValuesAssumption == Depth \in [Values -> Nat] /\ \A v \in Values : IsValue(v)

\* Numbers, booleans and null differ in their text.
ASSUME ScalarsAssumption ==
    \A v, w \in Values : IsScalar(v) /\ IsScalar(w) /\ v[2] = w[2] => v = w

ASSUME FieldOrderAssumption == FieldOrder \in Seq(Texts)

ASSUME ArgSetsAssumption == \A args \in ArgSets : <<"object", Relevant(args)>> \in Values

ASSUME MaxCallsAssumption == MaxCalls \in Nat

-----------------------------------------------------------------------------

\* Whether the strategy takes the key from the id of the call.
ById(args) ==
    \/ strategy = "correlation_id"
    \/ strategy \in {"auto", NoText} /\ GivenId(args) # NoText

\* buildCacheKey; None when the key would be blank.
buildCacheKey(tool, args, order) ==
    IF ById(args)
    THEN IF GivenId(args) = " " THEN None ELSE <<tool, CorrelationId(args)>>
    ELSE <<tool, Digest(canonicalJSON(KeyOrder(order))[<<"object", Relevant(args)>>][<<>>])>>

TypeOK ==
    /\ strategy \in Strategies
    /\ \A e \in cache : e.format \in {"json", "markdown"}
    /\ \A e, f \in cache : e.key = f.key => e = f
    /\ calls \in 0..MaxCalls

Init == strategy \in Strategies /\ cache = {} /\ last = None /\ calls = 0

Request(tool, args) == [tool |-> tool, args |-> args]

Entry(key, tool, args) == [key |-> key, request |-> Request(tool, args), format |-> Format(args)]

\* A call of tool with args has the response of request: id is what it says.
Answered(tool, args, id, request, format, hit) ==
    [tool |-> tool, args |-> args, id |-> id, request |-> request, format |-> format, hit |-> hit]

\* Variant with a plausible mistake: the cached response is returned as it is.
StaleHit(tool, args, e) ==
    last' = Answered(tool, args, CorrelationId(e.request.args), e.request, e.format, TRUE)

\* A hit is given the id of the call.
Hit(tool, args, e) ==
    last' = Answered(tool, args, CorrelationId(args), e.request, e.format, TRUE)

\* A miss is executed; its response is formatted, and cached if it is a success.
Miss(tool, args, key) ==
    /\ last' = Answered(tool, args, CorrelationId(args), Request(tool, args), Format(args), FALSE)
    /\ \/ UNCHANGED cache
       \/ key # None /\ cache' = cache \cup {Entry(key, tool, args)}

Call ==
    /\ calls < MaxCalls
    /\ calls' = calls + 1
    /\ \E tool \in Tools, args \in ArgSets, order \in Orders :
         LET key == buildCacheKey(tool, args, order)
             hits == {e \in cache : e.key = key}
         IN IF hits # {}
            THEN \E e \in hits : Hit(tool, args, e) /\ UNCHANGED cache
            ELSE Miss(tool, args, key)
    /\ UNCHANGED strategy

Terminated == calls = MaxCalls /\ UNCHANGED vars

Next == Call \/ Terminated

Spec == Init /\ [][Next]_vars

-----------------------------------------------------------------------------
(* Correctness.                                                            *)

\* Two calls are the same to the cache: of one tool, and with one id or with
\* the same arguments, as the strategy has it.
SameCall(r, s) ==
    /\ r.tool = s.tool
    /\ ById(r.args) <=> ById(s.args)
    /\ IF ById(r.args)
       THEN GivenId(r.args) = GivenId(s.args) /\ GivenId(r.args) \notin {NoText, " "}
       ELSE Relevant(r.args) = Relevant(s.args)

\* A cached response is the response to the same call: no key of another tool,
\* of other arguments or of another id ever matches, whatever the arguments
\* are nested like.
HitIsSameCall ==
    last # None => (last.hit => SameCall(last.request, Request(last.tool, last.args)))

\* A repetition of a call whose response is cached is answered from the cache,
\* in whatever order the fields of its objects are visited.
RepetitionHits ==
    [][\A e \in cache :
         last' # last /\ SameCall(e.request, Request(last'.tool, last'.args))
         => last'.hit]_vars

\* A response fits the call it answers, cached or not: it names this call and not
\* the one it was made for, and with keys from arguments only it is in the format
\* this call asked for. (Under an id's key the format is the first call's.)
ResponseFits ==
    last # None =>
        /\ GivenId(last.args) # NoText => last.id = Given(GivenId(last.args))
        /\ strategy = "arguments_hash" => last.format = Format(last.args)
=============================================================================
