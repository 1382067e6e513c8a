------------------------------ MODULE MCLimits ------------------------------
(* Instance of Limits for TLC. *)
EXTENDS Limits, TLC

Value(t, n, m) == [type |-> t, size |-> n, matches |-> m]

MCPolicy ==
    "name" :> [min |-> None, max |-> None, minLength |-> 1, maxLength |-> 2, regex |-> TRUE] @@
    "size" :> [min |-> None, max |-> 1, minLength |-> None, maxLength |-> None, regex |-> FALSE]

\* Calls without the fields, within the policy, and outside it in each way.
MCArguments == {
    [other |-> Value("other", 0, FALSE)],
    "name" :> Value("string", 2, TRUE),
    "name" :> Value("string", 3, TRUE),
    "name" :> Value("string", 1, FALSE),
    "size" :> Value("number", 2, FALSE)}
=============================================================================
