----------------------- MODULE IdempotencyCacheProofs -----------------------
(***************************************************************************)
(* Proofs about the idempotency cache, for any keys, values, capacity and  *)
(* time to live. First what the list operations do; then the invariant, in *)
(* two parts: what an entry says of the last Set of its key, and what the  *)
(* list says of the map and of the order of use. From them a hit is fresh, *)
(* list and map agree, the recently used survive, and the cache implements *)
(* ForgetfulMap.                                                           *)
(***************************************************************************)
EXTENDS IdempotencyCache, SequenceTheorems, FiniteSetTheorems, TLAPS

-----------------------------------------------------------------------------
(* The list.                                                               *)

\* No key is listed twice.
Distinct(seq) == \A i, j \in 1..Len(seq) : seq[i] = seq[j] => i = j

\* Every key listed before another has been used since that one was.
ByUse(seq, since) == \A i, j \in 1..Len(seq) : i < j => seq[i] \in since[seq[j]]

LEMMA WithoutFacts ==
  ASSUME NEW seq \in Seq(Keys), Distinct(seq), NEW j \in 1..Len(seq)
  PROVE  /\ Without(seq, seq[j]) \in Seq(Keys)
         /\ Len(Without(seq, seq[j])) = Len(seq) - 1
         /\ \A i \in 1..(Len(seq) - 1) :
              Without(seq, seq[j])[i] = IF i < j THEN seq[i] ELSE seq[i + 1]
<1> DEFINE left == SubSeq(seq, 1, j - 1)
           right == SubSeq(seq, j + 1, Len(seq))
<1>1. Len(seq) \in Nat /\ DOMAIN seq = 1..Len(seq) /\ \A i \in 1..Len(seq) : seq[i] \in Keys
  BY LenProperties
<1>2. (CHOOSE i \in DOMAIN seq : seq[i] = seq[j]) = j
  BY <1>1 DEF Distinct
<1>3. Without(seq, seq[j]) = left \o right
  BY <1>2 DEF Without
<1>4. left \in Seq(Keys) /\ Len(left) = j - 1 /\ \A i \in 1..(j - 1) : left[i] = seq[i]
  <2>1. \A i \in 1..(j - 1) : seq[i] \in Keys
    BY <1>1
  <2>2. QED
    BY <1>1, <2>1, SubSeqProperties
<1>5. /\ right \in Seq(Keys) /\ Len(right) = Len(seq) - j
      /\ \A i \in 1..(Len(seq) - j) : right[i] = seq[j + i]
  <2>1. \A i \in (j + 1)..Len(seq) : seq[i] \in Keys
    BY <1>1
  <2>2. QED
    BY <1>1, <2>1, SubSeqProperties
<1> HIDE DEF left, right
<1>6. /\ left \o right \in Seq(Keys)
      /\ Len(left \o right) = Len(seq) - 1
      /\ \A i \in 1..(Len(seq) - 1) :
           (left \o right)[i] = IF i <= j - 1 THEN left[i] ELSE right[i - (j - 1)]
  <2>1. Len(left) + Len(right) = Len(seq) - 1
    BY <1>1, <1>4, <1>5
  <2>2. /\ left \o right \in Seq(Keys)
        /\ Len(left \o right) = Len(left) + Len(right)
        /\ \A i \in 1..(Len(left) + Len(right)) :
             (left \o right)[i] = IF i <= Len(left) THEN left[i] ELSE right[i - Len(left)]
    BY <1>4, <1>5, ConcatProperties
  <2>3. QED
    BY <1>4, <2>1, <2>2
<1>7. ASSUME NEW i \in 1..(Len(seq) - 1)
      PROVE  (left \o right)[i] = IF i < j THEN seq[i] ELSE seq[i + 1]
  <2>1. CASE i < j
    BY <2>1, <1>1, <1>4, <1>6
  <2>2. CASE ~(i < j)
    <3>1. i - (j - 1) \in 1..(Len(seq) - j) /\ j + (i - (j - 1)) = i + 1
      BY <2>2, <1>1
    <3>2. right[i - (j - 1)] = seq[i + 1]
      BY <3>1, <1>5
    <3>3. QED
      BY <2>2, <3>2, <1>1, <1>6
  <2>3. QED
    BY <2>1, <2>2
<1>8. QED
  BY <1>3, <1>6, <1>7

LEMMA PushFacts ==
  ASSUME NEW seq \in Seq(Keys), NEW k \in Keys
  PROVE  /\ <<k>> \o seq \in Seq(Keys)
         /\ Len(<<k>> \o seq) = Len(seq) + 1
         /\ (<<k>> \o seq)[1] = k
         /\ \A i \in 2..(Len(seq) + 1) : (<<k>> \o seq)[i] = seq[i - 1]
<1>1. <<k>> \in Seq(Keys) /\ Len(<<k>>) = 1 /\ <<k>>[1] = k
  OBVIOUS
<1>2. Len(seq) \in Nat
  BY LenProperties
<1>3. QED
  BY <1>1, <1>2, ConcatProperties

LEMMA ToFrontFacts ==
  ASSUME NEW seq \in Seq(Keys), Distinct(seq), NEW j \in 1..Len(seq)
  PROVE  /\ ToFront(seq, seq[j]) \in Seq(Keys)
         /\ Len(ToFront(seq, seq[j])) = Len(seq)
         /\ ToFront(seq, seq[j])[1] = seq[j]
         /\ \A i \in 2..Len(seq) :
              ToFront(seq, seq[j])[i] = IF i <= j THEN seq[i - 1] ELSE seq[i]
<1> DEFINE rest == Without(seq, seq[j])
<1>1. Len(seq) \in Nat /\ seq[j] \in Keys
  BY LenProperties
<1>2. /\ rest \in Seq(Keys) /\ Len(rest) = Len(seq) - 1
      /\ \A i \in 1..(Len(seq) - 1) : rest[i] = IF i < j THEN seq[i] ELSE seq[i + 1]
  BY WithoutFacts
<1> HIDE DEF rest
<1>3. ToFront(seq, seq[j]) = <<seq[j]>> \o rest
  BY DEF ToFront, rest
<1>4. /\ <<seq[j]>> \o rest \in Seq(Keys) /\ Len(<<seq[j]>> \o rest) = Len(seq)
      /\ (<<seq[j]>> \o rest)[1] = seq[j]
      /\ \A i \in 2..Len(seq) : (<<seq[j]>> \o rest)[i] = rest[i - 1]
  BY <1>1, <1>2, PushFacts
<1>5. ASSUME NEW i \in 2..Len(seq)
      PROVE  rest[i - 1] = IF i <= j THEN seq[i - 1] ELSE seq[i]
  BY <1>1, <1>2
<1>6. QED
  BY <1>3, <1>4, <1>5

LEMMA TrimFacts ==
  ASSUME NEW seq \in Seq(Keys)
  PROVE  /\ Trim(seq) \in Seq(Keys)
         /\ Len(Trim(seq)) = IF Len(seq) <= MaxEntries THEN Len(seq) ELSE MaxEntries
         /\ \A i \in 1..Len(Trim(seq)) : Trim(seq)[i] = seq[i]
<1>1. Len(seq) \in Nat /\ \A i \in 1..Len(seq) : seq[i] \in Keys
  BY LenProperties
<1>2. CASE Len(seq) <= MaxEntries
  BY <1>2 DEF Trim
<1>3. CASE ~(Len(seq) <= MaxEntries)
  <2>1. \A i \in 1..MaxEntries : seq[i] \in Keys
    BY <1>1, <1>3, MaxEntriesAssumption
  <2>2. QED
    BY <1>3, <2>1, SubSeqProperties, MaxEntriesAssumption DEF Trim
<1>4. QED
  BY <1>2, <1>3

\* A list without repetitions is as long as the set of its elements.
LEMMA DistinctCardinality ==
  ASSUME NEW S, NEW n \in Nat, NEW f \in [1..n -> S],
         \A i, j \in 1..n : f[i] = f[j] => i = j,
         \A x \in S : \E i \in 1..n : f[i] = x
  PROVE  IsFiniteSet(S) /\ Cardinality(S) = n
<1>1. f \in Bijection(1..n, S)
  BY DEF Bijection, Injection, Surjection, IsInjective
<1>2. ExistsBijection(1..n, S)
  BY <1>1 DEF ExistsBijection
<1>3. QED
  BY <1>2, FS_CountingElements, FS_NatBijection

-----------------------------------------------------------------------------
(* What an entry says of the last Set of its key.                          *)

\* The types of all but the list.
ItemsOK ==
    /\ items \in [Keys -> {None} \cup [value : Values, expiresAt : Nat]]
    /\ lastSet \in [Keys -> {None} \cup [value : Values, at : Nat]]
    /\ now \in Nat

\* An entry is what was last Set for its key, and expires by that Set's time.
EntryIsLastSet ==
    \A k \in Keys : items[k] # None =>
        /\ lastSet[k] # None
        /\ items[k].value = lastSet[k].value
        /\ items[k].expiresAt = lastSet[k].at + TTL

IInv == ItemsOK /\ EntryIsLastSet /\ op.key \in Keys \cup {None} /\ (op.kind = "get" => op.key \in Keys) /\ HitIsFresh

LEMMA InitIInv == Init => IInv
BY NoneAssumption DEF Init, IInv, ItemsOK, EntryIsLastSet, HitIsFresh, NoOp

LEMMA NextIInv == IInv /\ [Next]_vars => IInv'
<1> SUFFICES ASSUME IInv, [Next]_vars
             PROVE  IInv'
  OBVIOUS
<1> USE NoneAssumption, TTLAssumption DEF IInv, ItemsOK, EntryIsLastSet, HitIsFresh
<1>1. ASSUME NEW k \in Keys, GetMiss(k)
      PROVE  IInv'
  BY <1>1 DEF GetMiss, Did, cacheVars
<1>2. ASSUME NEW k \in Keys, GetExpired(k)
      PROVE  IInv'
  BY <1>2 DEF GetExpired, Did
<1>3. ASSUME NEW k \in Keys, GetHit(k)
      PROVE  IInv'
  BY <1>3 DEF GetHit, Did, Expired
<1>4. ASSUME NEW k \in Keys, NEW v \in Values, SetKnown(k, v)
      PROVE  IInv'
  BY <1>4 DEF SetKnown, Did
<1>5. ASSUME NEW k \in Keys, NEW v \in Values, SetNew(k, v)
      PROVE  IInv'
  <2> DEFINE stays(x) == x \notin Trimmed(<<k>> \o order)
  <2>1. items' = [x \in Keys |-> IF x = k THEN [value |-> v, expiresAt |-> now + TTL]
                                  ELSE IF stays(x) THEN items[x] ELSE None]
    BY <1>5 DEF SetNew
  <2>2. lastSet' = [lastSet EXCEPT ![k] = [value |-> v, at |-> now]] /\ now' = now
    BY <1>5 DEF SetNew
  <2>3. op' = [kind |-> "set", key |-> k, value |-> v]
    BY <1>5 DEF SetNew, Did
  <2> HIDE DEF stays
  <2>4. ItemsOK' /\ EntryIsLastSet'
    BY <2>1, <2>2
  <2>5. QED
    BY <2>3, <2>4
<1>6. CASE Tick
  BY <1>6 DEF Tick, NoOp, cacheVars
<1>7. CASE UNCHANGED vars
  BY <1>7 DEF vars, cacheVars, history
<1>8. QED
  BY <1>1, <1>2, <1>3, <1>4, <1>5, <1>6, <1>7 DEF Next, Get, Set

LEMMA Invariance == Spec => []IInv
BY InitIInv, NextIInv, PTL DEF Spec

\* A Get returns what was last Set for this key, no longer ago than the ttl
\* (cache.go:46-64).
THEOREM HitsAreFresh == Spec => []HitIsFresh
<1>1. IInv => HitIsFresh
  BY DEF IInv
<1>2. QED
  BY <1>1, Invariance, PTL

-----------------------------------------------------------------------------
(* What the list says of the map and of the order of use.                  *)

\* The list holds the keys of the map, each once, and no more than maxEntries.
ListOK ==
    /\ order \in Seq(Keys) /\ Len(order) <= MaxEntries /\ Distinct(order)
    /\ \A k \in Keys : items[k] # None <=> \E i \in 1..Len(order) : order[i] = k

\* It is ordered by use, and a key Set once and not in the map has expired or
\* was pushed out by maxEntries others.
UseOK ==
    /\ others \in [Keys -> SUBSET Keys]
    /\ \A k \in Keys : IsFiniteSet(others[k])
    /\ ByUse(order, others)
    /\ \A k \in Keys : lastSet[k] # None /\ items[k] = None =>
         now > lastSet[k].at + TTL \/ MaxEntries <= Cardinality(others[k])

LInv == IInv /\ ListOK /\ UseOK

LEMMA InitLInv == Init => LInv
<1> SUFFICES ASSUME Init
             PROVE  ListOK /\ UseOK
  BY InitIInv DEF LInv
<1>1. order = <<>> /\ order \in Seq(Keys) /\ Len(order) = 0
  BY DEF Init
<1>2. QED
  BY <1>1, FS_EmptySet, MaxEntriesAssumption DEF Init, ListOK, UseOK, Distinct, ByUse

\* Using a key adds it to what the others have seen used since.
LEMMA UsedFacts ==
  ASSUME UseOK, NEW k \in Keys, Used(k)
  PROVE  /\ others' \in [Keys -> SUBSET Keys]
         /\ \A x \in Keys : IsFiniteSet(others'[x])
         /\ \A x \in Keys \ {k} :
              /\ others'[x] = others[x] \cup {k}
              /\ Cardinality(others[x]) <= Cardinality(others'[x])
<1>1. others' \in [Keys -> SUBSET Keys]
  BY DEF UseOK, Used
<1>2. IsFiniteSet(others'[k])
  BY FS_EmptySet DEF Used
<1>3. ASSUME NEW x \in Keys \ {k}
      PROVE  /\ others'[x] = others[x] \cup {k} /\ IsFiniteSet(others'[x])
             /\ Cardinality(others[x]) <= Cardinality(others'[x])
  <2>1. others'[x] = others[x] \cup {k} /\ IsFiniteSet(others[x])
    BY DEF UseOK, Used
  <2>2. Cardinality(others[x]) \in Nat
    BY <2>1, FS_CardinalityType
  <2>3. QED
    <3>1. /\ IsFiniteSet(others[x] \cup {k})
          /\ Cardinality(others[x] \cup {k}) =
               IF k \in others[x] THEN Cardinality(others[x]) ELSE Cardinality(others[x]) + 1
      BY <2>1, FS_AddElement
    <3>2. QED
      BY <2>1, <2>2, <3>1
<1>4. QED
  BY <1>1, <1>2, <1>3

\* Moving a listed key to the front keeps the list's keys, each once, and the
\* order of use.
LEMMA MovedToFront ==
  ASSUME IInv, ListOK, UseOK, NEW k \in Keys, items[k] # None,
         order' = ToFront(order, k), Used(k)
  PROVE  /\ order' \in Seq(Keys) /\ Len(order') <= MaxEntries /\ Distinct(order')
         /\ \A x \in Keys : (\E i \in 1..Len(order') : order'[i] = x) <=> items[x] # None
         /\ ByUse(order', others')
<1>1. PICK j \in 1..Len(order) : order[j] = k
  BY DEF ListOK
<1>2. Len(order) \in Nat /\ \A i \in 1..Len(order) : order[i] \in Keys
  BY LenProperties DEF ListOK
<1>3. /\ order' \in Seq(Keys) /\ Len(order') = Len(order) /\ order'[1] = k
      /\ \A i \in 2..Len(order) : order'[i] = IF i <= j THEN order[i - 1] ELSE order[i]
  BY <1>1, ToFrontFacts DEF ListOK
<1> DEFINE from(i) == IF i = 1 THEN j ELSE IF i <= j THEN i - 1 ELSE i
<1>4. \A i \in 1..Len(order) : from(i) \in 1..Len(order) /\ order'[i] = order[from(i)]
  BY <1>1, <1>2, <1>3
<1>5. \A i, h \in 1..Len(order) : from(i) = from(h) => i = h
  BY <1>1, <1>2
<1>6. \A i, h \in 2..Len(order) : i < h => from(i) < from(h)
  BY <1>1, <1>2
<1>7. \A h \in 1..Len(order) : \E i \in 1..Len(order) : from(i) = h
  <2> TAKE h \in 1..Len(order)
  <2>1. CASE h = j
    <3>1. 1 \in 1..Len(order) /\ from(1) = h
      BY <2>1, <1>2
    <3>2. QED
      BY <3>1
  <2>2. CASE h < j
    <3>1. h + 1 \in 1..Len(order) /\ from(h + 1) = h
      BY <2>2, <1>1, <1>2
    <3>2. QED
      BY <3>1
  <2>3. CASE h > j
    <3>1. from(h) = h
      BY <2>3, <1>1, <1>2
    <3>2. QED
      BY <3>1
  <2>4. QED
    BY <2>1, <2>2, <2>3, <1>2
<1> HIDE DEF from
<1>8. Distinct(order')
  <2>1. SUFFICES ASSUME NEW i \in 1..Len(order), NEW h \in 1..Len(order), order'[i] = order'[h]
                 PROVE  i = h
    BY <1>3 DEF Distinct
  <2>2. order[from(i)] = order[from(h)] /\ from(i) \in 1..Len(order) /\ from(h) \in 1..Len(order)
    BY <2>1, <1>4
  <2>3. from(i) = from(h)
    BY <2>2 DEF ListOK, Distinct
  <2>4. QED
    BY <2>3, <1>5
<1>9. \A x \in Keys : (\E i \in 1..Len(order') : order'[i] = x) <=> items[x] # None
  <2> TAKE x \in Keys
  <2>1. ASSUME NEW i \in 1..Len(order), order'[i] = x
        PROVE  items[x] # None
    BY <2>1, <1>4 DEF ListOK
  <2>2. ASSUME items[x] # None
        PROVE  \E i \in 1..Len(order) : order'[i] = x
    <3>1. PICK h \in 1..Len(order) : order[h] = x
      BY <2>2 DEF ListOK
    <3>2. PICK i \in 1..Len(order) : from(i) = h
      BY <1>7
    <3>3. QED
      BY <3>1, <3>2, <1>4
  <2>3. QED
    BY <2>1, <2>2, <1>3
<1>10. ByUse(order', others')
  <2>1. SUFFICES ASSUME NEW i \in 1..Len(order), NEW h \in 1..Len(order), i < h
                 PROVE  order'[i] \in others'[order'[h]]
    BY <1>3 DEF ByUse
  <2>2. order'[h] \in Keys \ {k}
    <3>1. order'[h] # order'[1]
      BY <1>2, <1>3, <1>8, <2>1 DEF Distinct
    <3>2. QED
      BY <3>1, <1>2, <1>3, <1>4
  <2>3. others'[order'[h]] = others[order'[h]] \cup {k}
    BY <2>2, UsedFacts
  <2>4. CASE i = 1
    BY <2>3, <2>4, <1>3
  <2>5. CASE i # 1
    <3>1. from(i) < from(h) /\ from(i) \in 1..Len(order) /\ from(h) \in 1..Len(order)
      BY <2>1, <2>5, <1>2, <1>4, <1>6
    <3>2. order[from(i)] \in others[order[from(h)]]
      BY <3>1 DEF UseOK, ByUse
    <3>3. QED
      BY <3>2, <2>3, <1>4
  <2>6. QED
    BY <2>4, <2>5
<1>11. QED
  BY <1>3, <1>8, <1>9, <1>10 DEF ListOK

\* Set of a new key puts it first, and pushes out only a key that maxEntries
\* others have been used after.
LEMMA PushedAndTrimmed ==
  ASSUME LInv, NEW k \in Keys, NEW v \in Values, SetNew(k, v)
  PROVE  (ListOK /\ UseOK)'
<1> USE MaxEntriesAssumption
<1> DEFINE pushed == <<k>> \o order
           n == Len(order)
<1>1. n \in Nat /\ n <= MaxEntries /\ \A i \in 1..n : order[i] \in Keys
  BY LenProperties DEF LInv, ListOK
<1>2. items[k] = None /\ Used(k) /\ order' = Trim(pushed)
  BY DEF SetNew
<1>3. \A i \in 1..n : order[i] # k /\ items[order[i]] # None
  BY <1>1, <1>2 DEF LInv, ListOK
<1>4. /\ pushed \in Seq(Keys) /\ Len(pushed) = n + 1 /\ pushed[1] = k
      /\ \A i \in 2..(n + 1) : pushed[i] = order[i - 1]
  BY PushFacts DEF LInv, ListOK
<1> HIDE DEF pushed
<1>5. Distinct(pushed)
  <2>1. SUFFICES ASSUME NEW i \in 1..(n + 1), NEW h \in 1..(n + 1), pushed[i] = pushed[h]
                 PROVE  i = h
    BY <1>4 DEF Distinct
  <2>2. CASE i = 1 \/ h = 1
    BY <2>1, <2>2, <1>1, <1>3, <1>4
  <2>3. CASE i # 1 /\ h # 1
    <3>1. /\ i - 1 \in 1..n /\ h - 1 \in 1..n /\ order[i - 1] = order[h - 1]
      BY <2>1, <2>3, <1>1, <1>4
    <3>2. i - 1 = h - 1
      BY <3>1 DEF LInv, ListOK, Distinct
    <3>3. QED
      BY <3>2
  <2>4. QED
    BY <2>2, <2>3
<1>6. \A i \in 2..(n + 1) : pushed[i] \in Keys \ {k} /\ items[pushed[i]] # None
  BY <1>1, <1>3, <1>4
<1>7. ByUse(pushed, others')
  <2>1. SUFFICES ASSUME NEW i \in 1..(n + 1), NEW h \in 1..(n + 1), i < h
                 PROVE  pushed[i] \in others'[pushed[h]]
    BY <1>4 DEF ByUse
  <2>2. others'[pushed[h]] = others[pushed[h]] \cup {k}
    BY <2>1, <1>1, <1>2, <1>6, UsedFacts DEF LInv
  <2>3. CASE i = 1
    BY <2>2, <2>3, <1>4
  <2>4. CASE i # 1
    <3>1. i - 1 \in 1..n /\ h - 1 \in 1..n /\ i - 1 < h - 1
      BY <2>1, <2>4, <1>1
    <3>2. order[i - 1] \in others[order[h - 1]]
      BY <3>1 DEF LInv, UseOK, ByUse
    <3>3. QED
      BY <3>1, <3>2, <2>1, <2>2, <2>4, <1>1, <1>4
  <2>5. QED
    BY <2>3, <2>4
<1>8. /\ order' \in Seq(Keys) /\ Len(order') = IF n + 1 <= MaxEntries THEN n + 1 ELSE MaxEntries
      /\ \A i \in 1..Len(order') : order'[i] = pushed[i]
  BY <1>2, <1>4, TrimFacts
<1>9. Len(order') \in Nat /\ Len(order') <= MaxEntries /\ Len(order') <= n + 1
  BY <1>1, <1>8
<1>10. Distinct(order') /\ ByUse(order', others')
  BY <1>1, <1>4, <1>5, <1>7, <1>8, <1>9 DEF Distinct, ByUse
<1>11. \A x \in Keys : x \in Trimmed(pushed) <=> \E i \in 1..(n + 1) : i > MaxEntries /\ pushed[i] = x
  BY <1>4, LenProperties DEF Trimmed
<1>12. items' = [x \in Keys |->
           IF x = k THEN [value |-> v, expiresAt |-> now + TTL]
           ELSE IF x \in Trimmed(pushed) THEN None ELSE items[x]]
  BY DEF SetNew, pushed
<1>13. /\ [value |-> v, expiresAt |-> now + TTL] # None /\ now' = now
       /\ lastSet' = [lastSet EXCEPT ![k] = [value |-> v, at |-> now]]
  BY NoneAssumption, TTLAssumption DEF SetNew, LInv, IInv, ItemsOK
<1>14. ASSUME NEW x \in Keys
       PROVE  items'[x] # None <=> \E i \in 1..Len(order') : order'[i] = x
  <2>1. CASE x = k
    <3>1. 1 \in 1..Len(order') /\ order'[1] = k
      BY <1>1, <1>4, <1>8
    <3>2. QED
      BY <2>1, <3>1, <1>12, <1>13
  <2>2. CASE x # k /\ \E i \in 1..(n + 1) : pushed[i] = x
    <3>1. PICK i \in 1..(n + 1) : pushed[i] = x
      BY <2>2
    <3>2. i # 1 /\ items[x] # None
      BY <2>2, <3>1, <1>1, <1>4, <1>6
    <3>3. CASE i <= MaxEntries
      <4>1. i \in 1..Len(order') /\ order'[i] = x
        BY <3>1, <3>3, <1>1, <1>8
      <4>2. x \notin Trimmed(pushed)
        BY <3>1, <3>3, <1>1, <1>4, <1>5, <1>11 DEF Distinct
      <4>3. QED
        BY <2>2, <3>2, <4>1, <4>2, <1>12
    <3>4. CASE i > MaxEntries
      <4>1. items'[x] = None
        BY <2>2, <3>1, <3>4, <1>11, <1>12
      <4>2. ~\E h \in 1..Len(order') : order'[h] = x
        <5>1. ASSUME NEW h \in 1..Len(order'), order'[h] = x
              PROVE  FALSE
          <6>1. h \in 1..(n + 1) /\ h <= MaxEntries /\ pushed[h] = pushed[i]
            BY <3>1, <5>1, <1>1, <1>8, <1>9
          <6>2. h = i
            BY <6>1, <3>1, <1>4, <1>5 DEF Distinct
          <6>3. QED
            BY <6>1, <6>2, <3>4
        <5>2. QED
          BY <5>1
      <4>3. QED
        BY <4>1, <4>2
    <3>5. QED
      BY <3>3, <3>4
  <2>3. CASE x # k /\ ~\E i \in 1..(n + 1) : pushed[i] = x
    <3>1. items[x] = None
      <4>1. ASSUME items[x] # None
            PROVE  FALSE
        <5>1. PICK i \in 1..n : order[i] = x
          BY <4>1 DEF LInv, ListOK
        <5>2. i + 1 \in 1..(n + 1) /\ pushed[i + 1] = x
          BY <5>1, <1>1, <1>4
        <5>3. QED
          BY <5>2, <2>3
      <4>2. QED
        BY <4>1
    <3>2. items'[x] = None
      BY <2>3, <3>1, <1>12
    <3>3. ~\E h \in 1..Len(order') : order'[h] = x
      BY <2>3, <1>1, <1>8, <1>9
    <3>4. QED
      BY <3>2, <3>3
  <2>4. QED
    BY <2>1, <2>2, <2>3
<1>15. ASSUME NEW x \in Keys, lastSet'[x] # None, items'[x] = None
       PROVE  now' > lastSet'[x].at + TTL \/ MaxEntries <= Cardinality(others'[x])
  <2>1. x # k /\ lastSet'[x] = lastSet[x]
    BY <1>12, <1>13, <1>15 DEF LInv, IInv, ItemsOK
  <2>2. CASE items[x] = None
    <3>1. now > lastSet[x].at + TTL \/ MaxEntries <= Cardinality(others[x])
      BY <2>1, <2>2, <1>15 DEF LInv, UseOK
    <3>2. /\ Cardinality(others[x]) <= Cardinality(others'[x])
          /\ Cardinality(others[x]) \in Nat /\ Cardinality(others'[x]) \in Nat
      BY <2>1, <1>2, UsedFacts, FS_CardinalityType DEF LInv, UseOK
    <3>3. QED
      BY <2>1, <3>1, <3>2, <1>13
  <2>3. CASE items[x] # None
    <3>1. PICK i \in 1..(n + 1) : i > MaxEntries /\ pushed[i] = x
      BY <2>1, <2>3, <1>11, <1>12, <1>15
    <3> DEFINE S == {pushed[h] : h \in 1..MaxEntries}
               f == [h \in 1..MaxEntries |-> pushed[h]]
    <3>2. IsFiniteSet(S) /\ Cardinality(S) = MaxEntries
      <4>1. f \in [1..MaxEntries -> S] /\ \A y \in S : \E h \in 1..MaxEntries : f[h] = y
        OBVIOUS
      <4>2. \A g, h \in 1..MaxEntries : f[g] = f[h] => g = h
        BY <3>1, <1>1, <1>4, <1>5 DEF Distinct
      <4> HIDE DEF f, S
      <4>3. QED
        BY <4>1, <4>2, DistinctCardinality
    <3>3. S \subseteq others'[x]
      BY <3>1, <1>1, <1>4, <1>7 DEF ByUse
    <3> HIDE DEF S
    <3>4. Cardinality(S) <= Cardinality(others'[x])
      BY <3>3, <1>2, UsedFacts, FS_Subset DEF LInv
    <3>5. QED
      BY <3>2, <3>4
  <2>4. QED
    BY <2>2, <2>3
<1>16. ListOK'
  BY <1>8, <1>9, <1>10, <1>14 DEF ListOK
<1>17. UseOK'
  <2>1. others' \in [Keys -> SUBSET Keys] /\ \A x \in Keys : IsFiniteSet(others'[x])
    BY <1>2, UsedFacts DEF LInv
  <2>2. QED
    BY <2>1, <1>10, <1>15 DEF UseOK
<1>18. QED
  BY <1>16, <1>17

\* An expired key leaves the list where it left the map.
LEMMA TakenOut ==
  ASSUME IInv, ListOK, UseOK, NEW k \in Keys, items[k] # None,
         order' = Without(order, k), others' = others
  PROVE  /\ order' \in Seq(Keys) /\ Len(order') <= MaxEntries /\ Distinct(order')
         /\ \A x \in Keys : (\E i \in 1..Len(order') : order'[i] = x) <=> items[x] # None /\ x # k
         /\ ByUse(order', others')
<1> USE MaxEntriesAssumption
<1> DEFINE n == Len(order)
<1>1. PICK j \in 1..n : order[j] = k
  BY DEF ListOK
<1>2. n \in Nat /\ \A i \in 1..n : order[i] \in Keys
  BY LenProperties DEF ListOK
<1>3. /\ order' \in Seq(Keys) /\ Len(order') = n - 1
      /\ \A i \in 1..(n - 1) : order'[i] = IF i < j THEN order[i] ELSE order[i + 1]
  BY <1>1, WithoutFacts DEF ListOK
<1> DEFINE from(i) == IF i < j THEN i ELSE i + 1
<1>4. \A i \in 1..(n - 1) : from(i) \in 1..n /\ from(i) # j /\ order'[i] = order[from(i)]
  BY <1>1, <1>2, <1>3
<1>5. \A i, h \in 1..(n - 1) : i < h => from(i) < from(h)
  BY <1>1, <1>2
<1>6. \A i, h \in 1..(n - 1) : from(i) = from(h) => i = h
  BY <1>1, <1>2
<1>7. ASSUME NEW h \in 1..n, h # j
      PROVE  \E i \in 1..(n - 1) : from(i) = h
  <2>1. CASE h < j
    <3>1. h \in 1..(n - 1) /\ from(h) = h
      BY <2>1, <1>1, <1>2
    <3>2. QED
      BY <3>1
  <2>2. CASE h > j
    <3>1. h - 1 \in 1..(n - 1) /\ from(h - 1) = h
      BY <2>2, <1>1, <1>2
    <3>2. QED
      BY <3>1
  <2>3. QED
    BY <2>1, <2>2, <1>1, <1>2, <1>7
<1> HIDE DEF from
<1>8. Distinct(order')
  <2>1. SUFFICES ASSUME NEW i \in 1..(n - 1), NEW h \in 1..(n - 1), order'[i] = order'[h]
                 PROVE  i = h
    BY <1>3 DEF Distinct
  <2>2. order[from(i)] = order[from(h)] /\ from(i) \in 1..n /\ from(h) \in 1..n
    BY <2>1, <1>4
  <2>3. from(i) = from(h)
    BY <2>2 DEF ListOK, Distinct
  <2>4. QED
    BY <2>3, <1>6
<1>9. ASSUME NEW x \in Keys
      PROVE  (\E i \in 1..(n - 1) : order'[i] = x) <=> items[x] # None /\ x # k
  <2>1. ASSUME NEW i \in 1..(n - 1), order'[i] = x
        PROVE  items[x] # None /\ x # k
    <3>1. from(i) \in 1..n /\ from(i) # j /\ order[from(i)] = x
      BY <2>1, <1>4
    <3>2. QED
      BY <3>1, <1>1 DEF ListOK, Distinct
  <2>2. ASSUME items[x] # None, x # k
        PROVE  \E i \in 1..(n - 1) : order'[i] = x
    <3>1. PICK h \in 1..n : order[h] = x
      BY <2>2 DEF ListOK
    <3>2. PICK i \in 1..(n - 1) : from(i) = h
      BY <2>2, <3>1, <1>1, <1>7
    <3>3. QED
      BY <3>1, <3>2, <1>4
  <2>3. QED
    BY <2>1, <2>2
<1>10. ByUse(order', others')
  <2>1. SUFFICES ASSUME NEW i \in 1..(n - 1), NEW h \in 1..(n - 1), i < h
                 PROVE  order'[i] \in others[order'[h]]
    BY <1>3 DEF ByUse
  <2>2. from(i) \in 1..n /\ from(h) \in 1..n /\ from(i) < from(h)
    BY <2>1, <1>4, <1>5
  <2>3. order[from(i)] \in others[order[from(h)]]
    BY <2>2 DEF UseOK, ByUse
  <2>4. QED
    BY <2>3, <1>4
<1>11. Len(order') <= MaxEntries
  BY <1>2, <1>3 DEF ListOK
<1>12. QED
  BY <1>3, <1>8, <1>9, <1>10, <1>11

LEMMA NextLInv == LInv /\ [Next]_vars => LInv'
<1> SUFFICES ASSUME LInv, [Next]_vars
             PROVE  (ListOK /\ UseOK)'
  BY NextIInv DEF LInv
<1> USE NoneAssumption, TTLAssumption DEF LInv
<1>1. ASSUME UNCHANGED <<cacheVars, lastSet, others>>, now' \in Nat, now <= now'
      PROVE  (ListOK /\ UseOK)'
  <2>1. ListOK'
    BY <1>1 DEF ListOK, cacheVars
  <2>2. ASSUME NEW x \in Keys, lastSet[x] # None, items[x] = None
        PROVE  now' > lastSet[x].at + TTL \/ MaxEntries <= Cardinality(others[x])
    <3>1. lastSet[x].at \in Nat /\ now \in Nat
      BY <2>2 DEF IInv, ItemsOK
    <3>2. now > lastSet[x].at + TTL \/ MaxEntries <= Cardinality(others[x])
      BY <2>2 DEF UseOK
    <3>3. QED
      BY <3>1, <3>2, <1>1
  <2>3. UseOK'
    BY <1>1, <2>2 DEF UseOK, cacheVars
  <2>4. QED
    BY <2>1, <2>3
<1>2. now \in Nat
  BY DEF IInv, ItemsOK
<1>3. ASSUME NEW k \in Keys, GetMiss(k)
      PROVE  (ListOK /\ UseOK)'
  BY <1>1, <1>2, <1>3 DEF GetMiss
<1>4. ASSUME NEW k \in Keys, GetExpired(k)
      PROVE  (ListOK /\ UseOK)'
  <2>1. /\ items[k] # None /\ now > items[k].expiresAt /\ items' = [items EXCEPT ![k] = None]
        /\ order' = Without(order, k) /\ others' = others /\ lastSet' = lastSet /\ now' = now
    BY <1>4 DEF GetExpired, Expired
  <2>2. /\ order' \in Seq(Keys) /\ Len(order') <= MaxEntries /\ Distinct(order')
        /\ \A x \in Keys : (\E i \in 1..Len(order') : order'[i] = x) <=> items[x] # None /\ x # k
        /\ ByUse(order', others')
    BY <2>1, TakenOut
  <2>3. \A x \in Keys : items'[x] # None <=> items[x] # None /\ x # k
    BY <2>1 DEF IInv, ItemsOK
  <2>4. ListOK'
    BY <2>2, <2>3 DEF ListOK
  <2>5. ASSUME NEW x \in Keys, lastSet[x] # None, items'[x] = None
        PROVE  now > lastSet[x].at + TTL \/ MaxEntries <= Cardinality(others[x])
    <3>1. CASE x = k
      BY <3>1, <2>1 DEF IInv, EntryIsLastSet
    <3>2. CASE x # k
      BY <3>2, <2>3, <2>5 DEF UseOK
    <3>3. QED
      BY <3>1, <3>2
  <2>6. UseOK'
    BY <2>1, <2>2, <2>5 DEF UseOK
  <2>7. QED
    BY <2>4, <2>6
<1>5. ASSUME NEW k \in Keys, items[k] # None, order' = ToFront(order, k), Used(k), now' = now,
             \A x \in Keys : items'[x] = None <=> items[x] = None,
             \A x \in Keys \ {k} : lastSet'[x] = lastSet[x]
      PROVE  (ListOK /\ UseOK)'
  <2>1. /\ order' \in Seq(Keys) /\ Len(order') <= MaxEntries /\ Distinct(order')
        /\ \A x \in Keys : (\E i \in 1..Len(order') : order'[i] = x) <=> items[x] # None
        /\ ByUse(order', others')
    BY <1>5, MovedToFront
  <2>2. ListOK'
    BY <1>5, <2>1 DEF ListOK
  <2>3. /\ others' \in [Keys -> SUBSET Keys]
        /\ \A x \in Keys : IsFiniteSet(others'[x])
        /\ \A x \in Keys \ {k} : Cardinality(others[x]) <= Cardinality(others'[x])
    BY <1>5, UsedFacts
  <2>4. ASSUME NEW x \in Keys, lastSet'[x] # None, items'[x] = None
        PROVE  now > lastSet'[x].at + TTL \/ MaxEntries <= Cardinality(others'[x])
    <3>1. x \in Keys \ {k} /\ items[x] = None /\ lastSet[x] # None /\ lastSet'[x] = lastSet[x]
      BY <1>5, <2>4
    <3>2. now > lastSet[x].at + TTL \/ MaxEntries <= Cardinality(others[x])
      BY <3>1 DEF UseOK
    <3>3. Cardinality(others[x]) \in Nat /\ Cardinality(others'[x]) \in Nat
      BY <2>3, FS_CardinalityType DEF UseOK
    <3>4. QED
      BY <3>1, <3>2, <3>3, <2>3, MaxEntriesAssumption
  <2>5. UseOK'
    BY <1>5, <2>1, <2>3, <2>4 DEF UseOK
  <2>6. QED
    BY <2>2, <2>5
<1>6. ASSUME NEW k \in Keys, GetHit(k)
      PROVE  (ListOK /\ UseOK)'
  BY <1>5, <1>6 DEF GetHit
<1>7. ASSUME NEW k \in Keys, NEW v \in Values, SetKnown(k, v)
      PROVE  (ListOK /\ UseOK)'
  <2>1. \A x \in Keys : items'[x] = None <=> items[x] = None
    BY <1>7 DEF SetKnown, IInv, ItemsOK
  <2>2. \A x \in Keys \ {k} : lastSet'[x] = lastSet[x]
    BY <1>7 DEF SetKnown, IInv, ItemsOK
  <2>3. QED
    BY <1>5, <1>7, <2>1, <2>2 DEF SetKnown
<1>8. ASSUME NEW k \in Keys, NEW v \in Values, SetNew(k, v)
      PROVE  (ListOK /\ UseOK)'
  BY <1>8, PushedAndTrimmed
<1>9. CASE Tick
  BY <1>1, <1>2, <1>9 DEF Tick
<1>10. CASE UNCHANGED vars
  BY <1>1, <1>2, <1>10 DEF vars, history
<1>11. QED
  BY <1>3, <1>4, <1>6, <1>7, <1>8, <1>9, <1>10 DEF Next, Get, Set

LEMMA ListInvariance == Spec => []LInv
BY InitLInv, NextLInv, PTL DEF Spec

\* Every variable keeps its type, and no entry outlives the clock by more than
\* the ttl.
THEOREM TypeCorrect == Spec => []TypeOK
<1> USE NoneAssumption, TTLAssumption, MaxTimeAssumption, MaxEntriesAssumption DEF TypeOK
<1>1. Init => TypeOK
  BY InitLInv DEF Init, NoOp, LInv, ListOK
<1>2. TypeOK /\ LInv /\ LInv' /\ [Next]_vars => TypeOK'
  <2> SUFFICES ASSUME TypeOK, LInv, LInv', [Next]_vars
               PROVE  TypeOK'
    OBVIOUS
  <2>1. order' \in Seq(Keys) /\ Len(order') <= MaxEntries /\ others' \in [Keys -> SUBSET Keys]
    BY DEF LInv, ListOK, UseOK
  <2>2. ASSUME NEW k \in Keys, Get(k)
        PROVE  TypeOK'
    <3>1. op'.key = k /\ op' = [kind |-> "get", key |-> k, value |-> op'.value] /\ op'.value \in Values \cup {None}
      BY <2>2 DEF Get, GetMiss, GetExpired, GetHit, Did
    <3>2. items' \in [Keys -> {None} \cup [value : Values, expiresAt : 0..(MaxTime + TTL)]]
      BY <2>2 DEF Get, GetMiss, GetExpired, GetHit, cacheVars
    <3>3. now' = now /\ lastSet' = lastSet
      BY <2>2 DEF Get, GetMiss, GetExpired, GetHit
    <3>4. QED
      BY <2>1, <3>1, <3>2, <3>3
  <2>3. ASSUME NEW k \in Keys, NEW v \in Values, Set(k, v)
        PROVE  TypeOK'
    <3>1. op' = [kind |-> "set", key |-> k, value |-> v]
      BY <2>3 DEF Set, SetKnown, SetNew, Did
    <3>2. /\ now' = now /\ now + TTL \in 0..(MaxTime + TTL)
          /\ lastSet' \in [Keys -> {None} \cup [value : Values, at : 0..MaxTime]]
      BY <2>3 DEF Set, SetKnown, SetNew
    <3>3. items' \in [Keys -> {None} \cup [value : Values, expiresAt : 0..(MaxTime + TTL)]]
      BY <2>3, <3>2 DEF Set, SetKnown, SetNew
    <3>4. QED
      BY <2>1, <3>1, <3>2, <3>3
  <2>4. CASE Tick
    BY <2>1, <2>4 DEF Tick, NoOp, cacheVars
  <2>5. CASE UNCHANGED vars
    BY <2>5 DEF vars, cacheVars, history
  <2>6. QED
    BY <2>2, <2>3, <2>4, <2>5 DEF Next
<1>3. QED
  BY <1>1, <1>2, ListInvariance, PTL DEF Spec

\* Map and list hold the same keys, each once, and no more than maxEntries,
\* after any sequence of renewals, expiries and evictions (cache.go:52-104).
THEOREM MapAndListAgree == Spec => []Coherent
<1>1. LInv => Coherent
  <2> SUFFICES ASSUME LInv
               PROVE  Coherent
    OBVIOUS
  <2>1. /\ Len(order) \in Nat /\ DOMAIN order = 1..Len(order)
        /\ \A i \in 1..Len(order) : order[i] \in Keys
    BY LenProperties DEF LInv, ListOK
  <2>2. Elements = Cached
    BY <2>1 DEF LInv, ListOK, Elements, Cached
  <2>3. /\ order \in [1..Len(order) -> Cached]
        /\ \A x \in Cached : \E i \in 1..Len(order) : order[i] = x
    BY <2>1, <2>2, LenProperties DEF LInv, ListOK, Elements
  <2>4. Cardinality(Cached) = Len(order)
    <3>1. \A i, j \in 1..Len(order) : order[i] = order[j] => i = j
      BY DEF LInv, ListOK, Distinct
    <3> DEFINE n == Len(order)
    <3> HIDE DEF n
    <3>2. n \in Nat /\ n = Len(order)
      BY <2>1 DEF n
    <3>3. /\ order \in [1..n -> Cached] /\ \A i, j \in 1..n : order[i] = order[j] => i = j
          /\ \A x \in Cached : \E i \in 1..n : order[i] = x
      BY <2>3, <3>1, <3>2
    <3>4. Cardinality(Cached) = n
      BY <3>2, <3>3, DistinctCardinality, ZenonT(60)
    <3>5. QED
      BY <3>2, <3>4
  <2>5. QED
    BY <2>2, <2>4 DEF Coherent, LInv, ListOK
<1>2. QED
  BY <1>1, ListInvariance, PTL

\* A key Set within the ttl is still there, with the value last Set, as long as
\* fewer than maxEntries other keys were used since its own last use
\* (cache.go:46-104).
THEOREM RecentlyUsedSurvive == Spec => []RecentSurvives
<1>1. LInv => RecentSurvives
  <2> SUFFICES ASSUME LInv, NEW k \in Keys,
                      lastSet[k] # None, now <= lastSet[k].at + TTL,
                      Cardinality(others[k]) < MaxEntries
               PROVE  items[k] # None /\ items[k].value = lastSet[k].value
    BY DEF RecentSurvives
  <2>1. /\ now \in Nat /\ lastSet[k].at \in Nat
        /\ Cardinality(others[k]) \in Nat
    BY FS_CardinalityType DEF LInv, IInv, ItemsOK, UseOK
  <2>2. items[k] # None
    BY <2>1, TTLAssumption, MaxEntriesAssumption DEF LInv, UseOK
  <2>3. QED
    BY <2>2 DEF LInv, IInv, EntryIsLastSet
<1>2. QED
  BY <1>1, ListInvariance, PTL

-----------------------------------------------------------------------------
(* The abstract map.                                                       *)

\* What the abstract map holds for a key.
Live(k) == IF items[k] # None /\ ~Expired(items[k]) THEN items[k].value ELSE None

LEMMA MapsInit == Init => Map!Init
BY DEF Init, Map!Init, NoOp, Map!NoOp

LEMMA MapsNext == IInv /\ [Next]_vars => [Map!Next]_(Map!vars)
<1> SUFFICES ASSUME IInv, [Next]_vars
             PROVE  [Map!Next]_(Map!vars)
  OBVIOUS
<1> DEFINE map == [k \in Keys |-> Live(k)]
<1> USE NoneAssumption, TTLAssumption DEF IInv, ItemsOK, Live, Expired
<1>1. ASSUME NEW k \in Keys, GetMiss(k) \/ GetExpired(k) \/ GetHit(k)
      PROVE  Map!Get(k)
  <2>1. map' = map
    BY <1>1 DEF GetMiss, GetExpired, GetHit, cacheVars
  <2>2. op' = [kind |-> "get", key |-> k, value |-> Live(k)]
    BY <1>1 DEF GetMiss, GetExpired, GetHit, Did
  <2>3. QED
    BY <2>1, <2>2 DEF Map!Get
<1>2. ASSUME NEW k \in Keys, NEW v \in Values, SetKnown(k, v)
      PROVE  Map!PutAndForget(k, v, {})
  <2>1. map' = [x \in Keys |-> IF x = k THEN v ELSE Live(x)]
    BY <1>2 DEF SetKnown
  <2>2. QED
    BY <1>2, <2>1 DEF SetKnown, Did, Map!PutAndForget
<1>3. ASSUME NEW k \in Keys, NEW v \in Values, SetNew(k, v)
      PROVE  Map!Next
  <2> DEFINE stays(x) == x \notin Trimmed(<<k>> \o order)
             lost == {x \in Keys : ~stays(x)}
  <2>1. items' = [x \in Keys |-> IF x = k THEN [value |-> v, expiresAt |-> now + TTL]
                                  ELSE IF stays(x) THEN items[x] ELSE None]
    BY <1>3 DEF SetNew
  <2>2. now' = now /\ op' = [kind |-> "set", key |-> k, value |-> v]
    BY <1>3 DEF SetNew, Did
  <2>3. \A x \in Keys : x \in lost <=> ~stays(x)
    OBVIOUS
  <2>4. lost \in SUBSET Keys
    OBVIOUS
  <2> HIDE DEF stays, lost
  <2>5. map' = [x \in Keys |-> IF x = k THEN v ELSE IF x \in lost THEN None ELSE Live(x)]
    BY <2>1, <2>2, <2>3
  <2>6. map' = [x \in Keys |-> IF x = k THEN v ELSE IF x \in lost THEN None ELSE map[x]]
    BY <2>5
  <2> HIDE DEF map
  <2>7. QED
    BY <2>2, <2>4, <2>6 DEF Map!Next, Map!PutAndForget, map
<1>4. CASE Tick
  <2> DEFINE lost == {x \in Keys : items[x] # None /\ now + 1 > items[x].expiresAt}
  <2>1. map' = [x \in Keys |-> IF x \in lost THEN None ELSE map[x]]
    BY <1>4 DEF Tick, cacheVars
  <2>2. op' = Map!NoOp
    BY <1>4 DEF Tick, NoOp, Map!NoOp
  <2>3. lost \in SUBSET Keys
    OBVIOUS
  <2> HIDE DEF lost
  <2>4. QED
    BY <2>1, <2>2, <2>3 DEF Map!Next, Map!Forget
<1>5. CASE UNCHANGED vars
  BY <1>5 DEF vars, cacheVars, history, Map!vars
<1>6. QED
  BY <1>1, <1>2, <1>3, <1>4, <1>5 DEF Next, Get, Set, Map!Next

\* The list and the map together are a map that only forgets: no sequence of
\* Get, Set, expiry and eviction returns what was not last put (cache.go:46-104).
THEOREM CacheIsMap == Spec => ImplementsMap
BY Invariance, MapsInit, MapsNext, PTL DEF Spec, ImplementsMap, Map!Spec
=============================================================================
