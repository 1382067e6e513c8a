---------------------------- MODULE LimitsProofs ----------------------------
(***************************************************************************)
(* Proofs about the limits approver, for every total, rate and length of a *)
(* minute: its types, the total, how many calls any span of time may see   *)
(* approved, and that no call is denied for the rate without a recent      *)
(* approval. The invariant ties the bucket to the past: whatever span ends *)
(* now, the tokens its approvals took and those still in the bucket are no *)
(* more than a full bucket and what the span refilled.                     *)
(***************************************************************************)
EXTENDS Limits, TLAPS

\* The history goes up with time and ends at the counter.
HistoryOK ==
    /\ \A t \in 0..MaxTime : Before(t) <= approved[t] /\ approved[t] <= count
    /\ \A t \in now..MaxTime : approved[t] = count

\* What was approved from a tick on and what is left in the bucket.
BucketCovers ==
    RatePerMinute # 0 =>
        \A s \in 0..now :
            GrantedIn(s, now) * Minute + tokens <= Burst + (now - s) * RatePerMinute

\* The same for the spans that are over.
SpanCovered ==
    RatePerMinute # 0 =>
        \A s, u \in 0..now :
            s <= u => GrantedIn(s, u) * Minute <= Burst + (u - s) * RatePerMinute

\* The bucket is full, or some approval is so recent that what has been refilled
\* since explains what is in it.
BucketExplained ==
    RatePerMinute # 0 =>
        \/ tokens = Burst
        \/ \E t \in 0..now : GrantedIn(t, t) > 0 /\ (now - t) * RatePerMinute <= tokens

\* The last denial is the one that bucket and counter justify.
DenialMeansEmpty == denied = "rate" => RatePerMinute # 0 /\ tokens < Minute
DenialMeansTotal == denied = "total" => MaxTotal # 0 /\ count = MaxTotal

WithinTotal == MaxTotal # 0 => count <= MaxTotal

IInv ==
    /\ TypeOK /\ HistoryOK
    /\ BucketCovers /\ SpanCovered /\ BucketExplained
    /\ DenialMeansEmpty /\ DenialMeansTotal /\ WithinTotal

-----------------------------------------------------------------------------
(* Arithmetic.                                                             *)

LEMMA BurstIsNat == Burst \in Nat /\ (RatePerMinute # 0 => Minute <= Burst)
<1>1. ASSUME NEW r \in Nat, NEW m \in Nat
      PROVE  r * m \in Nat /\ (r # 0 => m <= r * m)
  OBVIOUS
<1>2. QED
  BY <1>1, NumberAssumption DEF Burst

\* One more factor is one more summand.
LEMMA OneMore == \A d, r \in Int : d * r \in Int /\ (d + 1) * r = d * r + r
<1>1. ASSUME NEW d \in Int, NEW r \in Int
      PROVE  d * r \in Int /\ (d + 1) * r = d * r + r
  OBVIOUS
<1>2. QED
  BY <1>1

LEMMA ProductOrder == \A d, e, r \in Nat : d <= e => d * r <= e * r
<1>1. ASSUME NEW d \in Nat, NEW f \in Nat, NEW r \in Nat
      PROVE  d * r <= (d + f) * r
  <2>1. (d + f) * r = d * r + f * r /\ d * r \in Nat /\ f * r \in Nat
    OBVIOUS
  <2>2. QED
    BY <2>1
<1>2. ASSUME NEW d \in Nat, NEW e \in Nat, NEW r \in Nat, d <= e
      PROVE  d * r <= e * r
  <2>1. e - d \in Nat /\ d + (e - d) = e
    BY <1>2
  <2>2. QED
    BY <2>1, <1>1
<1>3. QED
  BY <1>2

\* One tick more refills one tick's share more.
LEMMA OneTickMore ==
    \A n, t \in Nat : (n + 1 - t) * RatePerMinute = (n - t) * RatePerMinute + RatePerMinute
<1>1. \A n, t \in Nat : n - t \in Int /\ n + 1 - t = (n - t) + 1
  OBVIOUS
<1>2. QED
  BY <1>1, OneMore, NumberAssumption

\* The bucket never holds more than the burst, nor more than was there and refilled.
LEMMA RefilledIs ==
    ASSUME tokens \in Nat
    PROVE  Refilled = IF Burst <= tokens + RatePerMinute THEN Burst ELSE tokens + RatePerMinute
<1>1. Burst \in Nat /\ tokens + RatePerMinute \in Nat
  BY BurstIsNat, NumberAssumption
<1>2. ASSUME NEW a \in Nat, NEW b \in Nat
      PROVE  Min({a, b}) = IF a <= b THEN a ELSE b
  BY DEF Min
<1>3. QED
  BY <1>1, <1>2 DEF Refilled

\* What the history says of a span is a number.
LEMMA GrantedIsInt ==
    ASSUME TypeOK, NEW s \in 0..MaxTime, NEW u \in 0..MaxTime
    PROVE  Before(s) \in Nat /\ approved[u] \in Nat /\ GrantedIn(s, u) \in Int
BY NumberAssumption DEF TypeOK, Before, GrantedIn

-----------------------------------------------------------------------------
(* The invariant.                                                          *)

LEMMA InitIInv == Init => IInv
<1> SUFFICES ASSUME Init
             PROVE  IInv
  OBVIOUS
<1> USE NumberAssumption, BurstIsNat
<1>1. TypeOK /\ now = 0 /\ tokens = Burst /\ count = 0 /\ denied = "none"
  BY DEF Init, TypeOK
<1>2. \A t \in 0..MaxTime : approved[t] = 0 /\ Before(t) = 0
  BY DEF Init, Before
<1>3. GrantedIn(0, 0) = 0
  BY <1>2 DEF GrantedIn
<1>4. 0 * Minute = 0 /\ (0 - 0) * RatePerMinute = 0
  OBVIOUS
<1>5. BucketCovers /\ SpanCovered
  BY <1>1, <1>3, <1>4 DEF BucketCovers, SpanCovered
<1>6. HistoryOK /\ BucketExplained /\ DenialMeansEmpty /\ DenialMeansTotal /\ WithinTotal
  BY <1>1, <1>2 DEF HistoryOK, BucketExplained, DenialMeansEmpty, DenialMeansTotal, WithinTotal
<1>7. QED
  BY <1>1, <1>5, <1>6 DEF IInv

LEMMA TickIInv == IInv /\ Tick => IInv'
<1> SUFFICES ASSUME IInv, Tick
             PROVE  IInv'
  OBVIOUS
<1> USE NumberAssumption, BurstIsNat
<1>1. /\ count \in Nat /\ tokens \in Nat /\ now \in 0..MaxTime /\ TypeOK
      /\ now + 1 \in 0..MaxTime /\ now' = now + 1
      /\ count' = count /\ approved' = approved /\ denied' = "none"
  BY DEF IInv, TypeOK, Tick
<1>2. tokens' \in 0..Burst /\ tokens' <= tokens + RatePerMinute
  BY <1>1, RefilledIs DEF Tick
<1>3. TypeOK'
  BY <1>1, <1>2 DEF TypeOK, Burst
<1>4. \A s, u : Before(s)' = Before(s) /\ GrantedIn(s, u)' = GrantedIn(s, u)
  BY <1>1 DEF Before, GrantedIn
<1>5. HistoryOK'
  BY <1>1, <1>4 DEF IInv, HistoryOK
<1>6. approved[now + 1] = approved[now] /\ Before(now + 1) = approved[now] /\ approved[now] \in Nat
  BY <1>1, GrantedIsInt DEF IInv, HistoryOK, Before
<1>7. ASSUME RatePerMinute # 0, NEW s \in 0..(now + 1)
      PROVE  GrantedIn(s, now + 1) * Minute + tokens' <= Burst + (now + 1 - s) * RatePerMinute
  <2>1. CASE s = now + 1
    <3>1. GrantedIn(s, now + 1) = 0 /\ now + 1 - s = 0
      BY <2>1, <1>1, <1>6 DEF GrantedIn
    <3>2. 0 * Minute = 0 /\ 0 * RatePerMinute = 0
      OBVIOUS
    <3>3. QED
      BY <3>1, <3>2, <1>2
  <2>2. CASE s # now + 1
    <3>1. s \in 0..now
      BY <2>2, <1>1
    <3>2. GrantedIn(s, now) * Minute + tokens <= Burst + (now - s) * RatePerMinute
      BY <3>1, <1>7 DEF IInv, BucketCovers
    <3>3. GrantedIn(s, now + 1) = GrantedIn(s, now)
      BY <1>6 DEF GrantedIn
    <3>4. (now + 1 - s) * RatePerMinute = (now - s) * RatePerMinute + RatePerMinute
      BY <1>1, <3>1, OneTickMore
    <3>5. GrantedIn(s, now) * Minute \in Int /\ (now - s) * RatePerMinute \in Int
      BY <1>1, <3>1, GrantedIsInt, OneMore
    <3>6. QED
      BY <1>1, <1>2, <3>2, <3>3, <3>4, <3>5
  <2>3. QED
    BY <2>1, <2>2
<1>8. BucketCovers'
  BY <1>1, <1>4, <1>7 DEF BucketCovers, Burst
<1>9. ASSUME RatePerMinute # 0, NEW s \in 0..(now + 1), NEW u \in 0..(now + 1), s <= u
      PROVE  GrantedIn(s, u) * Minute <= Burst + (u - s) * RatePerMinute
  <2>1. CASE u = now + 1
    <3>1. GrantedIn(s, now + 1) * Minute \in Int /\ (now + 1 - s) * RatePerMinute \in Int
      BY <1>1, GrantedIsInt, OneMore
    <3>2. GrantedIn(s, now + 1) * Minute + tokens' <= Burst + (now + 1 - s) * RatePerMinute
      BY <1>7, <1>9
    <3>3. GrantedIn(s, now + 1) * Minute <= Burst + (now + 1 - s) * RatePerMinute
      BY <3>1, <3>2, <1>2
    <3>4. GrantedIn(s, u) = GrantedIn(s, now + 1) /\ u - s = now + 1 - s
      BY <2>1, <1>1 DEF GrantedIn
    <3>5. QED
      BY <3>3, <3>4
  <2>2. CASE u # now + 1
    <3>1. s \in 0..now /\ u \in 0..now
      BY <2>2, <1>1, <1>9
    <3>2. QED
      BY <3>1, <1>9 DEF IInv, SpanCovered
  <2>3. QED
    BY <2>1, <2>2
<1>10. SpanCovered'
  BY <1>1, <1>4, <1>9 DEF SpanCovered, Burst
<1>11. BucketExplained'
  <2> SUFFICES ASSUME RatePerMinute # 0, tokens' # Burst
               PROVE  \E t \in 0..now' : GrantedIn(t, t)' > 0 /\ (now' - t) * RatePerMinute <= tokens'
    BY DEF BucketExplained, Burst
  <2>1. tokens' = tokens + RatePerMinute /\ tokens # Burst
    BY <1>1, RefilledIs DEF Tick, IInv, TypeOK
  <2>2. PICK t \in 0..now : GrantedIn(t, t) > 0 /\ (now - t) * RatePerMinute <= tokens
    BY <2>1 DEF IInv, BucketExplained
  <2>3. (now + 1 - t) * RatePerMinute = (now - t) * RatePerMinute + RatePerMinute
    BY <1>1, OneTickMore
  <2>4. (now - t) * RatePerMinute \in Int
    BY <1>1, OneMore
  <2>5. (now' - t) * RatePerMinute <= tokens' /\ t \in 0..now'
    BY <1>1, <2>1, <2>2, <2>3, <2>4
  <2>6. QED
    BY <2>2, <2>5, <1>4
<1>12. (DenialMeansEmpty /\ DenialMeansTotal /\ WithinTotal)'
  BY <1>1 DEF IInv, DenialMeansEmpty, DenialMeansTotal, WithinTotal
<1>13. QED
  BY <1>3, <1>5, <1>8, <1>10, <1>11, <1>12 DEF IInv

LEMMA AllowIInv == ASSUME IInv, NEW args \in Arguments, Allow(args) PROVE IInv'
<1> USE NumberAssumption, BurstIsNat
<1>1. /\ count \in Nat /\ tokens \in Nat /\ now \in 0..MaxTime /\ TypeOK
      /\ now' = now /\ count' = count + 1 /\ denied' = "none"
      /\ count + 1 \in 0..MaxCount
      /\ approved' = [t \in 0..MaxTime |-> IF t < now THEN approved[t] ELSE approved[t] + 1]
  BY DEF IInv, TypeOK, Allow
<1>2. /\ RatePerMinute = 0 => tokens' = tokens
      /\ RatePerMinute # 0 => tokens' = tokens - Minute /\ Minute <= tokens
      /\ tokens' \in 0..Burst
  BY <1>1 DEF Allow, HasToken, TypeOK
<1>3. \A t \in 0..MaxTime :
        /\ approved[t] \in Nat /\ approved[t] <= count
        /\ Before(t) \in Nat /\ Before(t) <= approved[t]
        /\ t >= now => approved[t] = count
  <2> TAKE t \in 0..MaxTime
  <2>1. approved[t] \in Nat /\ Before(t) \in Nat
    BY <1>1, GrantedIsInt
  <2>2. approved[t] <= count /\ Before(t) <= approved[t]
    BY DEF IInv, HistoryOK
  <2>3. t >= now => t \in now..MaxTime
    BY <1>1
  <2>4. QED
    BY <2>1, <2>2, <2>3 DEF IInv, HistoryOK
<1>4. \A t \in 0..MaxTime :
        /\ approved'[t] = IF t < now THEN approved[t] ELSE count + 1
        /\ Before(t)' = IF t <= now THEN Before(t) ELSE count + 1
  <2>1. \A t \in 0..MaxTime : approved'[t] = IF t < now THEN approved[t] ELSE count + 1
    BY <1>1, <1>3
  <2>2. ASSUME NEW t \in 0..MaxTime
        PROVE  Before(t)' = IF t <= now THEN Before(t) ELSE count + 1
    <3>1. CASE t = 0
      BY <3>1, <1>1 DEF Before
    <3>2. CASE t # 0
      <4>1. t - 1 \in 0..MaxTime /\ (t - 1 < now <=> t <= now)
        BY <3>2, <1>1
      <4>2. Before(t) = approved[t - 1] /\ Before(t)' = approved'[t - 1]
        BY <3>2 DEF Before
      <4>3. QED
        BY <4>1, <4>2, <2>1
    <3>3. QED
      BY <3>1, <3>2
  <2>3. QED
    BY <2>1, <2>2
<1>5. TypeOK'
  <2>1. approved' \in [0..MaxTime -> 0..MaxCount]
    <3>1. \A t \in 0..MaxTime : approved[t] + 1 \in 0..MaxCount /\ approved[t] \in 0..MaxCount
      <4>1. count \in Nat /\ count + 1 <= MaxCount /\ MaxCount \in Nat
        BY <1>1
      <4>2. \A t \in 0..MaxTime : approved[t] \in Nat /\ approved[t] <= count
        BY <1>3
      <4>3. QED
        BY <4>1, <4>2
    <3>2. QED
      BY <3>1, <1>1
  <2>2. QED
    BY <2>1, <1>1, <1>2 DEF TypeOK, Burst
<1>6. HistoryOK'
  <2>1. ASSUME NEW t \in 0..MaxTime
        PROVE  Before(t)' <= approved'[t] /\ approved'[t] <= count'
    BY <1>1, <1>3, <1>4
  <2>2. \A t \in now..MaxTime : approved'[t] = count'
    BY <1>1, <1>4
  <2>3. QED
    BY <1>1, <2>1, <2>2 DEF HistoryOK
<1>7. /\ \A s \in 0..now : GrantedIn(s, now)' = GrantedIn(s, now) + 1
      /\ \A s, u \in 0..now : u < now => GrantedIn(s, u)' = GrantedIn(s, u)
  <2>1. ASSUME NEW s \in 0..now
        PROVE  s \in 0..MaxTime /\ s <= now /\ Before(s) \in Nat /\ Before(s)' = Before(s)
    BY <1>1, <1>3, <1>4
  <2>2. approved[now] = count /\ approved'[now] = count + 1
    BY <1>1, <1>3, <1>4
  <2>3. \A u \in 0..now : u < now => approved'[u] = approved[u]
    BY <1>1, <1>4
  <2>4. ASSUME NEW s \in 0..now
        PROVE  GrantedIn(s, now)' = GrantedIn(s, now) + 1
    BY <1>1, <2>1, <2>2 DEF GrantedIn
  <2>5. ASSUME NEW s \in 0..now, NEW u \in 0..now, u < now
        PROVE  GrantedIn(s, u)' = GrantedIn(s, u)
    BY <2>1, <2>3, <2>5 DEF GrantedIn
  <2>6. QED
    BY <2>4, <2>5
<1>8. ASSUME RatePerMinute # 0, NEW s \in 0..now
      PROVE  GrantedIn(s, now)' * Minute + tokens' <= Burst + (now - s) * RatePerMinute
  <2>1. GrantedIn(s, now) * Minute + tokens <= Burst + (now - s) * RatePerMinute
    BY <1>8 DEF IInv, BucketCovers
  <2> s \in 0..MaxTime /\ now - s \in Int
    BY <1>1
  <2> GrantedIn(s, now) \in Int
    BY <1>1, GrantedIsInt
  <2>2. (GrantedIn(s, now) + 1) * Minute = GrantedIn(s, now) * Minute + Minute
    BY OneMore
  <2>3. GrantedIn(s, now) * Minute \in Int /\ (now - s) * RatePerMinute \in Int
    BY OneMore
  <2>4. /\ GrantedIn(s, now)' = GrantedIn(s, now) + 1 /\ tokens' = tokens - Minute
        /\ tokens \in Nat /\ Minute \in Nat /\ Burst \in Nat
    BY <1>1, <1>2, <1>7, <1>8
  <2>5. GrantedIn(s, now)' * Minute = GrantedIn(s, now) * Minute + Minute
    BY <2>2, <2>4
  <2>6. QED
    BY <2>1, <2>3, <2>4, <2>5
<1>9. BucketCovers'
  BY <1>1, <1>8 DEF BucketCovers, Burst
<1>10. SpanCovered'
  <2>1. SUFFICES ASSUME RatePerMinute # 0, NEW s \in 0..now, NEW u \in 0..now, s <= u
                 PROVE  GrantedIn(s, u)' * Minute <= Burst + (u - s) * RatePerMinute
    BY <1>1 DEF SpanCovered, Burst
  <2>2. CASE u < now
    <3>1. GrantedIn(s, u) * Minute <= Burst + (u - s) * RatePerMinute
      BY <2>1 DEF IInv, SpanCovered
    <3>2. GrantedIn(s, u)' = GrantedIn(s, u)
      BY <2>2, <1>7
    <3>3. QED
      BY <3>1, <3>2
  <2>3. CASE u = now
    <3>1. GrantedIn(s, now)' \in Int /\ now - s \in Int
      <4>1. s \in 0..MaxTime /\ now - s \in Int
        BY <1>1
      <4>2. GrantedIn(s, now) \in Int
        BY <4>1, <1>1, GrantedIsInt
      <4>3. GrantedIn(s, now)' = GrantedIn(s, now) + 1
        BY <1>7
      <4>4. QED
        BY <4>1, <4>2, <4>3
    <3>2. GrantedIn(s, now)' * Minute \in Int /\ (now - s) * RatePerMinute \in Int
      BY <3>1, OneMore
    <3>3. GrantedIn(s, now)' * Minute + tokens' <= Burst + (now - s) * RatePerMinute
      BY <2>1, <1>8
    <3>4. GrantedIn(s, now)' * Minute <= Burst + (now - s) * RatePerMinute
      BY <3>2, <3>3, <1>2
    <3>5. GrantedIn(s, u)' = GrantedIn(s, now)'
      BY <2>3, <1>1 DEF GrantedIn
    <3>6. QED
      BY <2>3, <3>4, <3>5
  <2>4. QED
    BY <2>2, <2>3, <1>1
<1>11. BucketExplained'
  <2>1. GrantedIn(now, now)' > 0
    BY <1>1, <1>3, <1>4 DEF GrantedIn
  <2>2. (now - now) * RatePerMinute = 0
    BY <1>1
  <2>3. QED
    BY <1>1, <1>2, <2>1, <2>2 DEF BucketExplained
<1>12. (DenialMeansEmpty /\ DenialMeansTotal /\ WithinTotal)'
  BY <1>1 DEF Allow, BelowTotal, DenialMeansEmpty, DenialMeansTotal, WithinTotal
<1>13. QED
  BY <1>5, <1>6, <1>9, <1>10, <1>11, <1>12 DEF IInv

LEMMA NextIInv == IInv /\ [Next]_vars => IInv'
<1> SUFFICES ASSUME IInv, [Next]_vars
             PROVE  IInv'
  OBVIOUS
<1> USE NumberAssumption, BurstIsNat
<1>1. ASSUME UNCHANGED <<count, tokens, now, approved>>,
             denied' \in {"none", "fields", "total", "rate"}, (DenialMeansEmpty /\ DenialMeansTotal)'
      PROVE  IInv'
  <2>1. \A s, u : Before(s)' = Before(s) /\ GrantedIn(s, u)' = GrantedIn(s, u)
    BY <1>1 DEF Before, GrantedIn
  <2>2. TypeOK' /\ HistoryOK' /\ WithinTotal'
    BY <1>1, <2>1 DEF IInv, TypeOK, HistoryOK, WithinTotal, Burst
  <2>3. BucketCovers' /\ SpanCovered' /\ BucketExplained'
    BY <1>1, <2>1 DEF IInv, BucketCovers, SpanCovered, BucketExplained, Burst
  <2>4. QED
    BY <1>1, <2>2, <2>3 DEF IInv
<1>2. CASE Tick
  BY <1>2, TickIInv
<1>3. ASSUME NEW args \in Arguments, Allow(args)
      PROVE  IInv'
  BY <1>3, AllowIInv
<1>4. ASSUME NEW args \in Arguments, DenyFields(args)
      PROVE  IInv'
  BY <1>1, <1>4 DEF DenyFields, DenialMeansEmpty, DenialMeansTotal
<1>5. ASSUME NEW args \in Arguments, DenyTotal(args)
      PROVE  IInv'
  <2>1. MaxTotal # 0 /\ count' = MaxTotal
    BY <1>5 DEF DenyTotal, BelowTotal, IInv, TypeOK, WithinTotal
  <2>2. QED
    BY <1>1, <1>5, <2>1 DEF DenyTotal, DenialMeansEmpty, DenialMeansTotal
<1>6. ASSUME NEW args \in Arguments, DenyRate(args)
      PROVE  IInv'
  <2>1. RatePerMinute # 0 /\ tokens' < Minute
    BY <1>6 DEF DenyRate, HasToken, IInv, TypeOK
  <2>2. QED
    BY <1>1, <1>6, <2>1 DEF DenyRate, DenialMeansEmpty, DenialMeansTotal
<1>7. CASE UNCHANGED vars
  BY <1>1, <1>7 DEF vars, IInv, TypeOK, DenialMeansEmpty, DenialMeansTotal
<1>8. QED
  BY <1>2, <1>3, <1>4, <1>5, <1>6, <1>7 DEF Next, Approve

LEMMA Invariance == Spec => []IInv
BY InitIInv, NextIInv, PTL DEF Spec

-----------------------------------------------------------------------------
(* What follows from it.                                                   *)

\* The counter, the bucket and the clock stay in their ranges.
THEOREM LimitsTypeCorrect == Spec => []TypeOK
<1>1. IInv => TypeOK
  BY DEF IInv
<1>2. QED
  BY <1>1, Invariance, PTL

\* max_total is never passed (limits.go:104-111).
THEOREM TotalHolds == Spec => []WithinTotal
<1>1. IInv => WithinTotal
  BY DEF IInv
<1>2. QED
  BY <1>1, Invariance, PTL

\* The counter is the calls that were approved; a call denied for max_total
\* proves that so many were (limits.go:104-111).
THEOREM TotalIsExact == Spec => []TotalExact
<1>1. IInv => TotalExact
  <2> SUFFICES ASSUME IInv
               PROVE  TotalExact
    OBVIOUS
  <2>1. count \in Nat /\ now \in 0..MaxTime /\ MaxTime \in Nat
    BY NumberAssumption DEF IInv, TypeOK
  <2>2. approved[MaxTime] = count
    BY <2>1 DEF IInv, HistoryOK
  <2>3. GrantedIn(0, MaxTime) = count
    BY <2>1, <2>2 DEF GrantedIn, Before
  <2>4. QED
    BY <2>3 DEF TotalExact, IInv, WithinTotal, DenialMeansTotal
<1>2. QED
  BY <1>1, Invariance, PTL

\* Over any span of time no more calls are approved than a full bucket and what
\* the span refills pay for.
AnySpan ==
    RatePerMinute # 0 =>
        \A s, u \in 0..MaxTime :
            s <= u => GrantedIn(s, u) * Minute <= Burst + (u - s) * RatePerMinute

LEMMA SpanOfAnyLength == IInv => AnySpan
<1> SUFFICES ASSUME IInv, RatePerMinute # 0,
                    NEW s \in 0..MaxTime, NEW u \in 0..MaxTime, s <= u
             PROVE  GrantedIn(s, u) * Minute <= Burst + (u - s) * RatePerMinute
  BY DEF AnySpan
<1> USE NumberAssumption, BurstIsNat
<1>1. now \in 0..MaxTime /\ count \in Nat /\ u - s \in Nat /\ TypeOK
  BY DEF IInv, TypeOK
<1>2. (u - s) * RatePerMinute \in Nat
  <2>1. \A d, r \in Nat : d * r \in Nat
    OBVIOUS
  <2>2. QED
    BY <2>1, <1>1
<1>3. CASE u <= now
  <2>1. s \in 0..now /\ u \in 0..now
    BY <1>1, <1>3
  <2>2. QED
    BY <2>1 DEF IInv, SpanCovered
<1>4. CASE u > now /\ s <= now
  <2>1. s \in 0..now /\ now \in 0..now /\ s <= now
    BY <1>1, <1>4
  <2>2. GrantedIn(s, now) * Minute <= Burst + (now - s) * RatePerMinute
    BY <2>1 DEF IInv, SpanCovered
  <2>3. GrantedIn(s, u) = GrantedIn(s, now)
    <3>1. u \in now..MaxTime /\ now \in now..MaxTime
      BY <1>1, <1>4
    <3>2. QED
      BY <3>1 DEF IInv, HistoryOK, GrantedIn
  <2>4. (now - s) * RatePerMinute <= (u - s) * RatePerMinute
    <3>1. now - s \in Nat /\ now - s <= u - s
      BY <1>1, <1>4, <2>1
    <3>2. QED
      BY <3>1, <1>1, ProductOrder
  <2>5. GrantedIn(s, now) * Minute \in Int /\ (now - s) * RatePerMinute \in Int
    BY <1>1, GrantedIsInt, OneMore
  <2>6. QED
    BY <1>2, <2>2, <2>3, <2>4, <2>5
<1>5. CASE s > now
  <2>1. GrantedIn(s, u) = 0
    <3>1. s # 0 /\ s - 1 \in now..MaxTime /\ u \in now..MaxTime
      BY <1>1, <1>5
    <3>2. QED
      BY <3>1, <1>1 DEF IInv, HistoryOK, GrantedIn, Before
  <2>2. 0 * Minute = 0
    OBVIOUS
  <2>3. QED
    BY <2>1, <2>2, <1>2
<1>6. QED
  BY <1>1, <1>3, <1>4, <1>5

\* rate.Limiter's promise as the approver relies on it, for a span of any length
\* (limits.go:99-109).
THEOREM SpansAreBounded == Spec => []AnySpan
BY SpanOfAnyLength, Invariance, PTL

\* Less than twice the rate within any minute: the bucket may be full when it
\* starts, but the last token it refills comes when it is over (limits.go:99-109).
THEOREM RateIsBounded == Spec => []RateBound
<1>1. IInv => RateBound
  <2> SUFFICES ASSUME IInv, RatePerMinute # 0,
                      NEW from \in 0..MaxTime, NEW to \in 0..MaxTime,
                      from <= to, to < from + Minute
               PROVE  GrantedIn(from, to) <= 2 * RatePerMinute - 1
    BY DEF RateBound
  <2> USE NumberAssumption
  <2>1. /\ GrantedIn(from, to) \in Int /\ RatePerMinute \in Nat \ {0} /\ Minute \in Nat \ {0}
        /\ to - from \in Nat /\ to - from <= Minute - 1 /\ Minute - 1 \in Nat
    BY GrantedIsInt DEF IInv
  <2>2. GrantedIn(from, to) * Minute <= RatePerMinute * Minute + (to - from) * RatePerMinute
    BY SpanOfAnyLength DEF AnySpan, Burst
  <2>3. (to - from) * RatePerMinute <= (Minute - 1) * RatePerMinute
    BY <2>1, ProductOrder
  <2>4. ASSUME NEW g \in Int, NEW m \in Nat \ {0}, NEW r \in Nat \ {0}, NEW x \in Int,
               g * m <= r * m + x, x <= (m - 1) * r
        PROVE  g <= 2 * r - 1
    <3>1. (m - 1) * r = r * m - r
      OBVIOUS
    <3>2. g * m < (2 * r) * m
      <4>1. g * m \in Int /\ r * m \in Int /\ (2 * r) * m = r * m + r * m
        OBVIOUS
      <4>2. QED
        BY <4>1, <3>1, <2>4
    <3>3. g < 2 * r
      <4>1. ASSUME NEW a \in Nat, NEW b \in Int, b * m + a * m < b * m
            PROVE  FALSE
        <5>1. a * m \in Nat /\ b * m \in Int
          OBVIOUS
        <5>2. QED
          BY <4>1, <5>1
      <4>2. ASSUME g >= 2 * r
            PROVE  FALSE
        <5>1. g - 2 * r \in Nat /\ 2 * r \in Int
          BY <4>2
        <5>2. g * m = (2 * r) * m + (g - 2 * r) * m
          OBVIOUS
        <5>3. QED
          BY <3>2, <4>1, <5>1, <5>2
      <4>3. QED
        BY <4>2
    <3>4. QED
      BY <3>3
  <2>5. (to - from) * RatePerMinute \in Int
    BY <2>1, OneMore
  <2>6. QED
    BY <2>1, <2>2, <2>3, <2>4, <2>5
<1>2. QED
  BY <1>1, Invariance, PTL

\* A call denied for the rate follows an approval by less than the time that one
\* token takes, whatever the rate (limits.go:99-108).
THEOREM RateDenialIsJustified == Spec => []RateDenialIsRecent
<1>1. IInv => RateDenialIsRecent
  <2> SUFFICES ASSUME IInv, denied = "rate"
               PROVE  \E t \in 0..now : GrantedIn(t, t) > 0 /\ (now - t) * RatePerMinute < Minute
    BY DEF RateDenialIsRecent
  <2>1. RatePerMinute # 0 /\ tokens < Minute /\ tokens # Burst /\ tokens \in Nat /\ now \in Nat
    BY BurstIsNat, NumberAssumption DEF IInv, DenialMeansEmpty, TypeOK
  <2>2. PICK t \in 0..now : GrantedIn(t, t) > 0 /\ (now - t) * RatePerMinute <= tokens
    BY <2>1 DEF IInv, BucketExplained
  <2>3. (now - t) * RatePerMinute \in Int
    BY <2>1, NumberAssumption
  <2>4. QED
    BY <2>1, <2>2, <2>3, NumberAssumption
<1>2. QED
  BY <1>1, Invariance, PTL
=============================================================================
