---------------------------- MODULE MCCacheKey ----------------------------
(* Instance of CacheKey for TLC: arguments that differ in one respect each. *)
EXTENDS CacheKey, SequencesExt

Str(s) == <<"string", s>>
Num(n) == <<"number", n>>
Arr(s) == <<"array", s>>
Obj(f) == <<"object", f>>
Null == <<"null", "null">>

\* Contents that a careless encoding confuses.
Contents == {
    [x |-> Str("null")], [x |-> Null], [x |-> Str("1")], [x |-> Num("1")],
    [x |-> Arr(<<Str("a"), Str("b")>>)], [x |-> Arr(<<Arr(<<Str("a")>>), Str("b")>>)],
    [x |-> Str("a"), y |-> Str("b")], [x |-> Str("b"), y |-> Str("a")],
    [x |-> Obj([y |-> Str("a"), z |-> Str("b")])], [x |-> Obj([y |-> Str("a")]), z |-> Str("b")]}

\* One content with ids, blank and numeric ones included, and with formats.
Ids == {
    [x |-> Null, correlation_id |-> Str("i")], [x |-> Str("1"), correlation_id |-> Str("i")],
    [x |-> Null, request_id |-> Str("i")], [x |-> Null, correlation_id |-> Str("j"), request_id |-> Str("i")],
    [x |-> Null, correlation_id |-> Num("1")], [x |-> Null, correlation_id |-> Str(" ")],
    [x |-> Null, correlation_id |-> Str(""), request_id |-> Str("j")]}
Formats == {
    [x |-> Null, response_format |-> Str("markdown")],
    [x |-> Null, response_format |-> Str("json"), correlation_id |-> Str("i")]}

MCArgSets == Contents \cup Ids \cup Formats
MCFieldOrder == <<"correlation_id", "request_id", "response_format", "x", "y", "z">>
MCOrders == {MCFieldOrder, Reverse(MCFieldOrder)}

Components(value) ==
    IF value[1] \in {"array", "object"} THEN {value[2][i] : i \in DOMAIN value[2]} ELSE {}

RECURSIVE Parts(_)
Parts(value) == {value} \cup UNION {Parts(v) : v \in Components(value)}

RECURSIVE DepthOf(_)
DepthOf(value) == IF Components(value) = {} THEN 0 ELSE 1 + Max({DepthOf(v) : v \in Components(value)})

MCValues == UNION {Parts(Obj(Relevant(args))) : args \in MCArgSets}
MCDepth == [v \in MCValues |-> DepthOf(v)]
MCTexts == Range(MCFieldOrder) \cup {v[2] : v \in {w \in MCValues : w[1] \notin {"array", "object"}}}
===========================================================================
