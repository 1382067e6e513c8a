---------------------------- MODULE ForgetfulMap ----------------------------
(***************************************************************************)
(* What the idempotency cache promises to the tool handler: a map that     *)
(* holds, for a key, the value last put under it, or nothing. It may       *)
(* forget any keys at any time and never makes up or mixes values.         *)
(***************************************************************************)

CONSTANTS Keys, Values, None

VARIABLES
    map,    \* [Keys -> Values \cup {None}]
    op      \* the last operation and its answer: [kind, key, value]

vars == <<map, op>>

NoOp == [kind |-> "none", key |-> None, value |-> None]

Init ==
    /\ map = [k \in Keys |-> None]
    /\ op = NoOp

\* Put v under k; other keys may be forgotten to make room.
PutAndForget(k, v, lost) ==
    /\ map' = [x \in Keys |-> IF x = k THEN v ELSE IF x \in lost THEN None ELSE map[x]]
    /\ op' = [kind |-> "set", key |-> k, value |-> v]

Put(k, v) == PutAndForget(k, v, {})

\* Read what the map holds for k.
Get(k) ==
    /\ op' = [kind |-> "get", key |-> k, value |-> map[k]]
    /\ UNCHANGED map

Forget(lost) ==
    /\ map' = [x \in Keys |-> IF x \in lost THEN None ELSE map[x]]
    /\ op' = NoOp

Next ==
    \/ \E k \in Keys, v \in Values, lost \in SUBSET Keys : PutAndForget(k, v, lost)
    \/ \E k \in Keys : Get(k)
    \/ \E lost \in SUBSET Keys : Forget(lost)

Spec == Init /\ [][Next]_vars
=============================================================================
