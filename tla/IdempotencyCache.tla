-------------------------- MODULE IdempotencyCache --------------------------
(***************************************************************************)
(* internal/idempotency/cache.go: a map into a list ordered by last use,   *)
(* with a time to live per entry. Every operation runs under the mutex and *)
(* is one step; time passes between operations.                            *)
(***************************************************************************)
EXTENDS Naturals, Sequences, FiniteSets

CONSTANTS
    Keys, Values,
    TTL,            \* NewCache's ttl, in ticks of the clock
    MaxEntries,     \* NewCache's maxEntries
    MaxTime,        \* bound: the clock stops there
    None

ASSUME TTLAssumption == TTL \in Nat \ {0}
ASSUME MaxEntriesAssumption == MaxEntries \in Nat \ {0}
ASSUME MaxTimeAssumption == MaxTime \in Nat
ASSUME NoneAssumption ==
    /\ None \notin Values /\ None \notin Keys
    /\ None \notin [value : Values, expiresAt : Nat] \cup [value : Values, at : Nat]

VARIABLES
    items,      \* Cache.items with the entry behind it: [value, expiresAt], or None
    order,      \* Cache.order: keys, the most recently used first
    now,        \* the clock
    op,         \* history: the last operation at this time, [kind, key, value]
    lastSet,    \* history: the last Set of each key, [value, at], or None
    others      \* history: keys used since each key was last used

cacheVars == <<items, order>>
history == <<op, lastSet, others>>
vars == <<cacheVars, now, history>>

Cached == {k \in Keys : items[k] # None}
Elements == {order[i] : i \in DOMAIN order}

TypeOK ==
    /\ items \in [Keys -> {None} \cup [value : Values, expiresAt : 0..(MaxTime + TTL)]]
    /\ order \in Seq(Keys) /\ Len(order) <= MaxEntries
    /\ now \in 0..MaxTime
    /\ op \in [kind : {"none", "get", "set"}, key : Keys \cup {None}, value : Values \cup {None}]
    /\ lastSet \in [Keys -> {None} \cup [value : Values, at : 0..MaxTime]]
    /\ others \in [Keys -> SUBSET Keys]

NoOp == [kind |-> "none", key |-> None, value |-> None]
Did(kind, k, v) == op' = [kind |-> kind, key |-> k, value |-> v]

Init ==
    /\ items = [k \in Keys |-> None]
    /\ order = <<>>
    /\ now = 0
    /\ op = NoOp
    /\ lastSet = [k \in Keys |-> None]
    /\ others = [k \in Keys |-> {}]

\* list.Remove of k's element.
Without(seq, k) ==
    LET i == CHOOSE j \in DOMAIN seq : seq[j] = k
    IN SubSeq(seq, 1, i - 1) \o SubSeq(seq, i + 1, Len(seq))

\* list.MoveToFront of k's element.
ToFront(seq, k) == <<k>> \o Without(seq, k)

\* k has just been used.
Used(k) == others' = [x \in Keys |-> IF x = k THEN {} ELSE others[x] \cup {k}]

Expired(e) == now > e.expiresAt

-----------------------------------------------------------------------------
(* Variants of the operations below that contain a plausible mistake; the  *)
(* runs check that each property tells the code from one of them.          *)

\* Get does not look at the expiry.
ExpiredReturned(k) ==
    /\ items[k] # None /\ now > items[k].expiresAt
    /\ Did("get", k, items[k].value)
    /\ order' = ToFront(order, k)
    /\ Used(k)
    /\ UNCHANGED <<items, now, lastSet>>

\* Set of a known key renews it but does not move it to the front.
SetInPlace(k, v) ==
    /\ items[k] # None
    /\ items' = [items EXCEPT ![k] = [value |-> v, expiresAt |-> now + TTL]]
    /\ lastSet' = [lastSet EXCEPT ![k] = [value |-> v, at |-> now]]
    /\ Used(k)
    /\ Did("set", k, v)
    /\ UNCHANGED <<order, now>>

\* A hit renews the entry's time to live.
GetRenews(k) ==
    /\ items[k] # None /\ ~Expired(items[k])
    /\ Did("get", k, items[k].value)
    /\ items' = [items EXCEPT ![k].expiresAt = now + TTL]
    /\ order' = ToFront(order, k)
    /\ Used(k)
    /\ UNCHANGED <<now, lastSet>>

\* An expired entry leaves the map but not the list.
ExpiredLeftInList(k) ==
    /\ items[k] # None /\ Expired(items[k])
    /\ Did("get", k, None)
    /\ items' = [items EXCEPT ![k] = None]
    /\ UNCHANGED <<order, now, lastSet, others>>

-----------------------------------------------------------------------------
(* The operations.                                                         *)

\* trim: the least recently used elements beyond maxEntries go, from the list
\* and from the map.
Trim(seq) == IF Len(seq) <= MaxEntries THEN seq ELSE SubSeq(seq, 1, MaxEntries)
Trimmed(seq) == {seq[i] : i \in {j \in DOMAIN seq : j > MaxEntries}}

\* Get of a key that is not there.
GetMiss(k) ==
    /\ items[k] = None
    /\ Did("get", k, None)
    /\ UNCHANGED <<cacheVars, now, lastSet, others>>

\* Get of an expired entry removes it.
GetExpired(k) ==
    /\ items[k] # None /\ Expired(items[k])
    /\ Did("get", k, None)
    /\ items' = [items EXCEPT ![k] = None]
    /\ order' = Without(order, k)
    /\ UNCHANGED <<now, lastSet, others>>

\* Get of a live entry moves it to the front and leaves its expiry alone.
GetHit(k) ==
    /\ items[k] # None /\ ~Expired(items[k])
    /\ Did("get", k, items[k].value)
    /\ order' = ToFront(order, k)
    /\ Used(k)
    /\ UNCHANGED <<items, now, lastSet>>

\* Set of a known key, expired or not.
SetKnown(k, v) ==
    /\ items[k] # None
    /\ items' = [items EXCEPT ![k] = [value |-> v, expiresAt |-> now + TTL]]
    /\ order' = ToFront(order, k)
    /\ lastSet' = [lastSet EXCEPT ![k] = [value |-> v, at |-> now]]
    /\ Used(k)
    /\ Did("set", k, v)
    /\ UNCHANGED now

\* Set of a new key, which may push out the least recently used one.
SetNew(k, v) ==
    /\ items[k] = None
    /\ order' = Trim(<<k>> \o order)
    /\ items' = [x \in Keys |->
         IF x = k THEN [value |-> v, expiresAt |-> now + TTL]
         ELSE IF x \in Trimmed(<<k>> \o order) THEN None ELSE items[x]]
    /\ lastSet' = [lastSet EXCEPT ![k] = [value |-> v, at |-> now]]
    /\ Used(k)
    /\ Did("set", k, v)
    /\ UNCHANGED now

Tick ==
    /\ now < MaxTime
    /\ now' = now + 1
    /\ op' = NoOp
    /\ UNCHANGED <<cacheVars, lastSet, others>>

Get(k) == GetMiss(k) \/ GetExpired(k) \/ GetHit(k)
Set(k, v) == SetKnown(k, v) \/ SetNew(k, v)

Next ==
    \/ \E k \in Keys : Get(k) \/ \E v \in Values : Set(k, v)
    \/ Tick

Spec == Init /\ [][Next]_vars

-----------------------------------------------------------------------------
(* Correctness.                                                            *)

\* The map and the list hold the same keys, each once: an entry that only one
\* of them had could never be evicted, or would be evicted under a new value. No
\* more than maxEntries are kept, through renewals, expiry and eviction.
Coherent ==
    /\ Len(order) <= MaxEntries
    /\ Elements = Cached
    /\ Len(order) = Cardinality(Cached)

\* A Get returns nothing, or the value last Set for this very key no longer
\* than the ttl ago: reading an entry does not prolong it.
HitIsFresh ==
    op.kind = "get" /\ op.value # None =>
        LET s == lastSet[op.key] IN
          s # None /\ s.value = op.value /\ now <= s.at + TTL

\* What the cache keeps: a key Set within the ttl is there as long as fewer
\* than maxEntries other keys, live or expired, have been used since its own
\* last use.
RecentSurvives ==
    \A k \in Keys :
        /\ lastSet[k] # None /\ now <= lastSet[k].at + TTL
        /\ Cardinality(others[k]) < MaxEntries
        => items[k] # None /\ items[k].value = lastSet[k].value

\* The cache implements the forgetful map that ToolCall works with: expiry and
\* eviction only ever make it forget.
Map == INSTANCE ForgetfulMap WITH
    map <- [k \in Keys |-> IF items[k] # None /\ ~Expired(items[k])
                           THEN items[k].value ELSE None]

ImplementsMap == Map!Spec
=============================================================================
