---------------------------- MODULE MCTimeouts ----------------------------
(* Instance of Timeouts for TLC: every combination of written, missing,    *)
(* invalid, zero and negative timeouts, two ticks a second.                *)
EXTENDS Timeouts

Item1(k, t) == [kind |-> k, timeout |-> t]
Items(ks, ts) == {Item1(k, t) : k \in ks, t \in ts}

Approvers == Items({"limits"}, {Absent}) \cup Items({"shell", "http", "async"}, {Absent, 3})
             \cup Items({"http"}, {Invalid, 0})
Executors == Items({"shell", "http", "async"}, {Absent, 0, 5}) \cup Items({"http"}, {Invalid, -1})
Chains == {<<>>} \cup {<<a>> : a \in Approvers}
          \cup {<<a, Item1("async", 3)>> : a \in Approvers}

MCConfigs == [tool : {Absent, Invalid, -1, 0, 7}, chain : Chains, executor : Executors]
===========================================================================
