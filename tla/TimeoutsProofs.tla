---------------------------- MODULE TimeoutsProofs ----------------------------
(***************************************************************************)
(* Proofs about Timeouts, for every configuration of timeouts and every    *)
(* length of a second: the clock does not pass a deadline that ends the    *)
(* current wait, but while a command is held; and what the response and    *)
(* the request say of the deadline agrees with it.                         *)
(***************************************************************************)
EXTENDS Timeouts, TLAPS

\* While a call is on its way, none of its deadlines has been passed; or else a
\* held command is waited for, or was a moment ago.
DeadlinesHold ==
    /\ at # "done" /\ ~held => now <= CallDeadline \/ now = freed
    /\ Waiting => now <= ClientDeadline /\ (held \/ now <= After(began, StepTimeout))

\* What the response says, and what an executor and an async approver were told.
DeadlineIsTold ==
    /\ at = "done" => (reply.kind = "timeout" <=> reply.time >= CallDeadline)
    /\ at # "next" /\ ~Approving /\ told > 1 => began + told * Second <= CallDeadline
    /\ at # "next" /\ Approving /\ Item.kind = "async" /\ StepTimeout > 0 =>
           began + told * Second <= After(began, StepTimeout)
    /\ at = "done" /\ reply.kind = "step_timeout" =>
           Approving /\ StepTimeout > 0 /\ reply.time >= After(began, StepTimeout)

IInv == TypeOK /\ DeadlinesHold /\ DeadlineIsTold

-----------------------------------------------------------------------------
(* Arithmetic.                                                             *)

LEMMA MinOfTwo ==
    ASSUME NEW a \in Int, NEW b \in Int
    PROVE  Min({a, b}) = IF a <= b THEN a ELSE b
BY DEF Min

LEMMA MaxOfTwo ==
    ASSUME NEW a \in Int, NEW b \in Int
    PROVE  Max({a, b}) = IF a >= b THEN a ELSE b
BY DEF Max

LEMMA ElementOf ==
    ASSUME NEW S, NEW c \in Seq(S), NEW i \in 1..Len(c)
    PROVE  c[i] \in S
OBVIOUS

\* Whole seconds do not add up to more than what they were cut from.
LEMMA Truncated ==
    ASSUME NEW x \in Nat, NEW s \in Nat \ {0}
    PROVE  x \div s \in Nat /\ (x \div s) * s <= x
OBVIOUS

-----------------------------------------------------------------------------
(* Deadlines.                                                              *)

LEMMA ParsedIsInt ==
    ASSUME NEW v \in Written, NEW def \in Int
    PROVE  ParseDurationOrDefault(v, def) \in Int
BY DEF Written, ParseDurationOrDefault

LEMMA AfterIsInt ==
    ASSUME NEW start \in Int, NEW timeout \in Int
    PROVE  After(start, timeout) \in Int
BY MaxTimeAssumption DEF After, Never

\* What a configuration is made of.
LEMMA CfgType ==
    ASSUME TypeOK
    PROVE  /\ cfg.tool \in Written /\ cfg.executor.timeout \in Written
           /\ cfg.executor.kind \in Kinds \ {"limits"}
           /\ Len(cfg.chain) \in Nat
           /\ Item.timeout \in Written /\ Item.kind \in Kinds
           /\ ~Approving => Item.kind # "limits"
<1>1. cfg \in [tool : Written,
              chain : Seq([kind : Kinds, timeout : Written]),
              executor : [kind : Kinds \ {"limits"}, timeout : Written]]
  BY ConfigsAssumption DEF TypeOK
<1>2. /\ cfg.chain \in Seq([kind : Kinds, timeout : Written]) /\ Len(cfg.chain) \in Nat
      /\ cfg.executor \in [kind : Kinds \ {"limits"}, timeout : Written]
  BY <1>1
<1>3. Approving => step \in 1..Len(cfg.chain)
  BY <1>2 DEF TypeOK, Approving
<1>4. Approving => Item \in [kind : Kinds, timeout : Written]
  <2> DEFINE S == [kind : Kinds, timeout : Written]
  <2>1. Approving => cfg.chain[step] \in S
    BY <1>2, <1>3, ElementOf
  <2> QED BY <2>1 DEF Item
<1>5. ~Approving => Item = cfg.executor
  BY DEF Item
<1> QED BY <1>1, <1>2, <1>4, <1>5

LEMMA DeadlineTypes ==
    ASSUME TypeOK
    PROVE  /\ CallTimeout \in Int /\ StepTimeout \in Int /\ ClientTimeout \in Int
           /\ CallDeadline \in Int /\ After(began, StepTimeout) \in Int
           /\ ClientDeadline \in Int
           /\ CtxDeadline \in Int
           /\ CtxDeadline <= CallDeadline /\ CtxDeadline <= After(began, StepTimeout)
           /\ CtxDeadline \in {CallDeadline, After(began, StepTimeout)}
<1>1. CallTimeout \in Int
  <2>1. /\ ParseDurationOrDefault(cfg.tool, 0) \in Int
        /\ ParseDurationOrDefault(cfg.executor.timeout, 0) \in Int
    BY CfgType DEF ParseDurationOrDefault, Written
  <2> QED BY <2>1 DEF CallTimeout
<1>2. StepTimeout \in Int
  BY CfgType, ParsedIsInt DEF StepTimeout
<1>3. 10 * Second \in Int
  BY SecondAssumption
<1>4. ClientTimeout \in Int
  BY <1>3, CfgType, ParsedIsInt DEF ClientTimeout
<1>5. began \in Int
  BY DEF TypeOK
<1>6. CallDeadline \in Int /\ After(began, StepTimeout) \in Int /\ ClientDeadline \in Int
  <2>1. CallDeadline \in Int
    BY <1>1, AfterIsInt DEF CallDeadline
  <2>2. After(began, StepTimeout) \in Int /\ After(began, ClientTimeout) \in Int /\ Never \in Int
    BY <1>2, <1>4, <1>5, AfterIsInt, MaxTimeAssumption DEF Never
  <2> QED BY <2>1, <2>2 DEF ClientDeadline
<1>7. CtxDeadline = IF CallDeadline <= After(began, StepTimeout) THEN CallDeadline ELSE After(began, StepTimeout)
  BY <1>6, MinOfTwo DEF CtxDeadline
<1> QED BY <1>1, <1>2, <1>4, <1>6, <1>7

\* The call's deadline never moves; the others do not while a step lasts.
LEMMA SameDeadlines ==
    ASSUME cfg' = cfg
    PROVE  /\ CallDeadline' = CallDeadline /\ CallTimeout' = CallTimeout
           /\ step' = step => Approving' = Approving /\ Item' = Item /\ StepTimeout' = StepTimeout
                              /\ ClientTimeout' = ClientTimeout
           /\ step' = step /\ began' = began =>
                  CtxDeadline' = CtxDeadline
                  /\ After(began, StepTimeout)' = After(began, StepTimeout)
           /\ step' = step /\ began' = began /\ at' = at => ClientDeadline' = ClientDeadline
BY DEF CallDeadline, CallTimeout, Approving, Item, StepTimeout, ClientTimeout, CtxDeadline, ClientDeadline,
       After, ParseDurationOrDefault, Never

-----------------------------------------------------------------------------
(* The invariant.                                                          *)

LEMMA InitIInv == Init => IInv
<1> SUFFICES ASSUME Init PROVE IInv
  OBVIOUS
<1>1. TypeOK
  <2>1. Len(cfg.chain) \in Nat
    BY ConfigsAssumption DEF Init
  <2>2. /\ cfg \in Configs /\ now \in 0..MaxTime /\ step \in 1..Len(cfg.chain) + 1
        /\ began \in 0..now /\ told \in Nat /\ freed \in 0..now
    BY <2>1, MaxTimeAssumption DEF Init
  <2>3. /\ at = "next" /\ reply = [kind |-> "none", time |-> 0] /\ held = FALSE /\ now = 0
    BY DEF Init
  <2>4. reply \in [kind : Replies, time : 0..now] /\ (at = "done" <=> reply.kind # "none")
    BY <2>2, <2>3 DEF Replies
  <2> QED BY <2>2, <2>3, <2>4 DEF TypeOK
<1>2. 0 <= CallDeadline
  BY <1>1, DeadlineTypes, MaxTimeAssumption DEF CallDeadline, After, Never
<1>3. DeadlinesHold /\ DeadlineIsTold
  BY <1>2 DEF Init, DeadlinesHold, DeadlineIsTold, Waiting, TypeOK
<1> QED BY <1>1, <1>3 DEF IInv

\* What a service is told is a whole number of seconds that the call still has.
LEMMA ToldFits ==
    ASSUME TypeOK
    PROVE  /\ Told \in Nat
           /\ ~Approving /\ Told > 1 => now + Told * Second <= CallDeadline
           /\ Approving /\ Item.kind = "async" /\ StepTimeout > 0 => Told * Second <= StepTimeout
<1>1. now \in Nat /\ ClientTimeout \in Int /\ CallDeadline \in Int
  BY DeadlineTypes, MaxTimeAssumption DEF TypeOK
<1>2. CASE Approving
  <2>1. ClientTimeout > 0 => /\ ClientTimeout \div Second \in Nat
                              /\ (ClientTimeout \div Second) * Second <= ClientTimeout
    BY <1>1, SecondAssumption, Truncated
  <2>2. StepTimeout > 0 => ClientTimeout = StepTimeout
    BY <1>2, CfgType DEF ClientTimeout, StepTimeout, ParseDurationOrDefault
  <2> QED BY <1>2, <2>1, <2>2 DEF Told
<1>3. CASE ~Approving
  <2> DEFINE left == CallDeadline - now
  <2>1. CASE CallDeadline > now
    <3>1. left \in Nat /\ left \div Second \in Nat /\ (left \div Second) * Second <= left
      BY <1>1, <2>1, SecondAssumption, Truncated
    <3>2. Told \in {0, 1, left \div Second}
      BY <1>3, <3>1, MaxOfTwo DEF Told
    <3>3. CASE Told = left \div Second
      <4>1. Told \in Nat /\ Told * Second <= CallDeadline - now
        BY <3>1, <3>3
      <4>2. Told * Second \in Int
        BY <4>1, SecondAssumption, SMTT(30)
      <4>3. now + Told * Second <= CallDeadline
        <5> HIDE DEF left
        <5> DEFINE t == Told * Second
        <5>1. t \in Int /\ t <= CallDeadline - now
          BY <4>1, <4>2
        <5> HIDE DEF t
        <5>2. now + t <= CallDeadline
          BY <1>1, <5>1
        <5> QED BY <5>2 DEF t
      <4> QED BY <1>3, <4>1, <4>3
    <3>4. CASE Told \in {0, 1}
      BY <1>3, <3>4
    <3> QED BY <3>2, <3>3, <3>4
  <2>2. CASE ~(CallDeadline > now)
    BY <1>3, <2>2 DEF Told
  <2> QED BY <2>1, <2>2
<1> QED BY <1>2, <1>3

\* A response is a timeout exactly when the call's deadline has come.
LEMMA FinishKeepsIInv ==
    ASSUME IInv, Waiting, NEW kind \in {"success", "denied", "step_timeout", "error"},
           kind = "step_timeout" => StepTimeout > 0 /\ now >= CtxDeadline,
           Finish(kind), held' = FALSE, freed' = IF held THEN now ELSE freed,
           UNCHANGED <<cfg, now, began, told>>
    PROVE  IInv'
<1>1. /\ at' = "done" /\ step' = step
      /\ reply' = [kind |-> OrTimeout(kind), time |-> now]
  BY DEF Finish
<1>2. OrTimeout(kind) = IF now >= CallDeadline THEN "timeout" ELSE kind
  BY DEF OrTimeout
<1>3. /\ CallDeadline' = CallDeadline /\ Approving' = Approving /\ Item' = Item
      /\ StepTimeout' = StepTimeout /\ After(began, StepTimeout)' = After(began, StepTimeout)
  BY <1>1, SameDeadlines
<1>4. now \in 0..now /\ OrTimeout(kind) \in Replies \ {"none"}
  BY <1>2 DEF IInv, TypeOK, Replies
<1>5. TypeOK'
  BY <1>1, <1>4 DEF IInv, TypeOK
<1>6. DeadlinesHold'
  BY <1>1 DEF DeadlinesHold, Waiting
<1>7. reply'.kind = OrTimeout(kind) /\ reply'.time = now
  BY <1>1
<1>8. reply'.kind = "timeout" <=> reply'.time >= CallDeadline'
  BY <1>2, <1>3, <1>7
<1>9. /\ ~Approving /\ told > 1 => began + told * Second <= CallDeadline
      /\ Approving /\ Item.kind = "async" /\ StepTimeout > 0 =>
             began + told * Second <= After(began, StepTimeout)
  BY DEF IInv, DeadlineIsTold, Waiting
<1>10. reply'.kind = "step_timeout" =>
           Approving' /\ StepTimeout' > 0 /\ reply'.time >= After(began, StepTimeout)'
  <2> SUFFICES ASSUME OrTimeout(kind) = "step_timeout"
               PROVE  Approving /\ StepTimeout > 0 /\ now >= After(began, StepTimeout)
    BY <1>3, <1>7
  <2>1. kind = "step_timeout" /\ ~(now >= CallDeadline)
    BY <1>2
  <2>2. StepTimeout > 0 /\ now >= CtxDeadline
    BY <2>1
  <2>3. CtxDeadline = After(began, StepTimeout)
    BY <2>1, <2>2, DeadlineTypes DEF IInv
  <2>4. Approving
    BY <2>2 DEF StepTimeout
  <2> QED BY <2>2, <2>3, <2>4
<1>11. DeadlineIsTold'
  BY <1>1, <1>3, <1>8, <1>9, <1>10 DEF DeadlineIsTold
<1> QED BY <1>5, <1>6, <1>11 DEF IInv

LEMMA ReturnKeepsIInv ==
    ASSUME IInv, Waiting, NEW v \in {"yes", "no", "error"}, Return(v)
    PROVE  IInv'
<1>1. Wrapped(v) \in {"yes", "no", "error", "step_timeout"}
  BY DEF Wrapped
<1>2. /\ UNCHANGED <<cfg, now, began, told>>
      /\ held' = FALSE /\ freed' = IF held THEN now ELSE freed
  BY DEF Return
<1>3. CASE Wrapped(v) = "yes" /\ Approving /\ (step < Len(cfg.chain) \/ now < CallDeadline)
  <2>1. at' = "next" /\ step' = step + 1 /\ reply' = reply
    BY <1>3 DEF Return
  <2>2. TypeOK'
    <3>1. step \in 1..Len(cfg.chain) /\ Len(cfg.chain) \in Nat
      BY <1>3, CfgType DEF IInv, TypeOK, Approving
    <3>2. held' = FALSE /\ freed' \in 0..now /\ step' \in 1..Len(cfg.chain) + 1
      BY <1>2, <2>1, <3>1 DEF IInv, TypeOK
    <3>3. at # "done" /\ at' # "done"
      BY <2>1 DEF Waiting
    <3> QED BY <1>2, <2>1, <3>2, <3>3 DEF IInv, TypeOK
  <2>3. CallDeadline' = CallDeadline
    BY <1>2, SameDeadlines
  <2>4. held \/ now <= CallDeadline \/ now = freed
    BY DEF IInv, DeadlinesHold, Waiting
  <2>5. now <= CallDeadline' \/ now' = freed'
    BY <1>2, <2>3, <2>4
  <2>6. DeadlinesHold'
    BY <1>2, <2>1, <2>5 DEF DeadlinesHold, Waiting
  <2>7. DeadlineIsTold'
    BY <2>1 DEF DeadlineIsTold
  <2> QED BY <2>2, <2>6, <2>7 DEF IInv
<1>4. CASE ~(Wrapped(v) = "yes" /\ Approving /\ (step < Len(cfg.chain) \/ now < CallDeadline))
  <2>1. CASE Wrapped(v) = "yes"
    <3>1. Finish(IF Approving THEN "denied" ELSE "success")
      BY <1>4, <2>1 DEF Return
    <3> QED BY <1>2, <3>1, FinishKeepsIInv
  <2>2. CASE Wrapped(v) = "no"
    <3>1. Finish(IF Approving THEN "denied" ELSE "error")
      BY <1>4, <2>2 DEF Return
    <3> QED BY <1>2, <3>1, FinishKeepsIInv
  <2>3. CASE Wrapped(v) \in {"error", "step_timeout"}
    <3>1. Finish(Wrapped(v))
      BY <1>4, <2>3 DEF Return
    <3>2. Wrapped(v) = "step_timeout" => StepTimeout > 0 /\ now >= CtxDeadline
      BY DEF Wrapped
    <3> QED BY <1>2, <2>3, <3>1, <3>2, FinishKeepsIInv
  <2> QED BY <1>1, <2>1, <2>2, <2>3
<1> QED BY <1>3, <1>4

LEMMA NextIInv == IInv /\ [Next]_vars => IInv'
<1> SUFFICES ASSUME IInv, [Next]_vars PROVE IInv'
  OBVIOUS
<1>1. CASE Begin
  <2>1. /\ at = "next" /\ at' = "request" /\ began' = now /\ told' = Told
        /\ UNCHANGED <<cfg, now, step, reply, held, freed>>
    BY <1>1 DEF Begin
  <2>2. ~held
    BY <2>1 DEF IInv, TypeOK
  <2>3. TypeOK'
    BY <2>1, <2>2, ToldFits, MaxTimeAssumption DEF IInv, TypeOK
  <2>4. /\ CallDeadline' = CallDeadline /\ Approving' = Approving /\ Item' = Item
        /\ StepTimeout' = StepTimeout /\ StepTimeout \in Int
        /\ ClientTimeout' = ClientTimeout /\ ClientTimeout \in Int
        /\ now \in 0..MaxTime
    BY <2>1, SameDeadlines, DeadlineTypes DEF IInv, TypeOK
  <2>5. After(began, StepTimeout)' = After(now, StepTimeout)
    BY <2>1, <2>4 DEF After, Never
  <2>6. now <= After(now, StepTimeout) /\ now <= ClientDeadline'
    <3>1. /\ now <= After(now, StepTimeout) /\ now <= After(now, ClientTimeout) /\ now <= Never
      BY <2>4, MaxTimeAssumption DEF After, Never
    <3>2. ClientDeadline' \in {After(now, ClientTimeout), Never}
      BY <2>1, <2>4 DEF ClientDeadline, After, Never
    <3> QED BY <3>1, <3>2
  <2>7. now <= CallDeadline \/ now = freed
    BY <2>1, <2>2 DEF IInv, DeadlinesHold
  <2>8. DeadlinesHold'
    BY <2>1, <2>4, <2>5, <2>6, <2>7 DEF DeadlinesHold, Waiting
  <2>9. Approving /\ Item.kind = "async" /\ StepTimeout > 0 =>
            now + Told * Second <= After(now, StepTimeout)
    <3> SUFFICES ASSUME Approving, Item.kind = "async", StepTimeout > 0
                 PROVE  now + Told * Second <= now + StepTimeout
      BY DEF After
    <3>1. Told \in Nat /\ Told * Second <= StepTimeout
      BY ToldFits DEF IInv
    <3>2. Told * Second \in Int
      BY <3>1, SecondAssumption
    <3> QED BY <2>4, <3>1, <3>2
  <2>10. ~Approving /\ Told > 1 => now + Told * Second <= CallDeadline
    BY ToldFits DEF IInv
  <2>11. DeadlineIsTold'
    BY <2>1, <2>4, <2>5, <2>9, <2>10 DEF DeadlineIsTold
  <2> QED BY <2>3, <2>8, <2>11 DEF IInv
<1>2. ASSUME NEW v \in {"yes", "no"}, Answer(v) PROVE IInv'
  BY <1>2, ReturnKeepsIInv DEF Answer, Waiting
<1>3. CASE Accept
  <2>1. /\ at = "request" /\ at' = "await" /\ Item.kind = "async"
        /\ UNCHANGED <<cfg, now, step, began, told, reply, held, freed>>
    BY <1>3 DEF Accept
  <2>2. /\ CallDeadline' = CallDeadline /\ Approving' = Approving /\ Item' = Item
        /\ StepTimeout' = StepTimeout /\ After(began, StepTimeout)' = After(began, StepTimeout)
    BY <2>1, SameDeadlines
  <2>3. ~held
    BY <2>1 DEF IInv, TypeOK
  <2>4. TypeOK'
    BY <2>1, <2>3 DEF IInv, TypeOK
  <2>5. now <= ClientDeadline'
    BY <2>1, MaxTimeAssumption DEF ClientDeadline, Never, IInv, TypeOK
  <2>6. DeadlinesHold'
    BY <2>1, <2>2, <2>5 DEF IInv, DeadlinesHold, Waiting
  <2>7. DeadlineIsTold'
    BY <2>1, <2>2 DEF IInv, DeadlineIsTold
  <2> QED BY <2>4, <2>6, <2>7 DEF IInv
<1>4. ASSUME NEW v \in {"yes", "no"}, Callback(v) PROVE IInv'
  BY <1>4, ReturnKeepsIInv DEF Callback, Waiting
<1>5. CASE ClientGivesUp
  <2>1. at = "request"
    BY <1>5, MaxTimeAssumption DEF ClientGivesUp, ClientDeadline, Never, IInv, TypeOK
  <2> QED BY <1>5, <2>1, ReturnKeepsIInv DEF ClientGivesUp, Waiting
<1>6. CASE ContextDone
  BY <1>6, ReturnKeepsIInv DEF ContextDone, Waiting
<1>7. CASE Tick
  <2>1. /\ at # "done" /\ now' = now + 1 /\ now < Min({Due, MaxTime})
        /\ UNCHANGED <<cfg, step, at, began, told, reply, held, freed>>
    BY <1>7 DEF Tick
  <2>2. now \in Nat /\ CtxDeadline \in Int /\ ClientDeadline \in Int /\ CallDeadline \in Int
        /\ CtxDeadline <= CallDeadline
        /\ After(began, StepTimeout) \in Int /\ CtxDeadline <= After(began, StepTimeout)
    BY DeadlineTypes, MaxTimeAssumption DEF IInv, TypeOK
  <2>3. Min({CtxDeadline, ClientDeadline}) = IF CtxDeadline <= ClientDeadline THEN CtxDeadline ELSE ClientDeadline
    BY <2>2, MinOfTwo
  <2>4. /\ Due \in {Never, now, Min({CtxDeadline, ClientDeadline})} /\ Due \in Int
        /\ ~held => Due \in {now, Min({CtxDeadline, ClientDeadline})}
    BY <2>2, <2>3, MaxTimeAssumption DEF Due, Never, IInv, TypeOK
  <2>5. now < Due /\ now < MaxTime
    BY <2>1, <2>2, <2>4, MinOfTwo, MaxTimeAssumption
  <2>6. /\ CallDeadline' = CallDeadline /\ Approving' = Approving /\ Item' = Item
        /\ StepTimeout' = StepTimeout /\ After(began, StepTimeout)' = After(began, StepTimeout)
        /\ ClientDeadline' = ClientDeadline
    BY <2>1, SameDeadlines
  <2>7. TypeOK'
    BY <2>1, <2>2, <2>5, <2>6, MaxTimeAssumption DEF IInv, TypeOK
  <2>8. DeadlinesHold'
    <3>1. CASE held
      <4>1. ClientDeadline = Never
        BY <3>1 DEF ClientDeadline, IInv, TypeOK
      <4>2. now + 1 <= ClientDeadline
        BY <2>2, <2>5, <4>1, MaxTimeAssumption DEF Never
      <4> QED BY <2>1, <2>6, <3>1, <4>2 DEF DeadlinesHold
    <3>2. CASE ~held
      <4>1. Due = Min({CtxDeadline, ClientDeadline})
        BY <2>2, <2>4, <2>5, <3>2
      <4>2. /\ now + 1 <= CtxDeadline /\ now + 1 <= ClientDeadline /\ now + 1 <= CallDeadline
            /\ now + 1 <= After(began, StepTimeout)
        BY <2>2, <2>3, <2>5, <4>1
      <4> QED BY <2>1, <2>6, <4>2 DEF DeadlinesHold
    <3> QED BY <3>1, <3>2
  <2>9. DeadlineIsTold'
    BY <2>1, <2>6 DEF IInv, DeadlineIsTold
  <2> QED BY <2>7, <2>8, <2>9 DEF IInv
<1>8. ASSUME UNCHANGED vars \/ Hold PROVE IInv'
  <2>1. UNCHANGED <<cfg, now, step, at, began, told, reply, freed>>
    BY <1>8 DEF vars, Hold
  <2>2. /\ CallDeadline' = CallDeadline /\ Approving' = Approving /\ Item' = Item
        /\ StepTimeout' = StepTimeout /\ After(began, StepTimeout)' = After(began, StepTimeout)
        /\ ClientDeadline' = ClientDeadline
    BY <2>1, SameDeadlines
  <2>3. held' = held \/ (held' = TRUE /\ at = "request" /\ Item.kind = "shell")
    BY <1>8 DEF vars, Hold
  <2>4. held' \in BOOLEAN /\ (held' => at = "request" /\ Item.kind = "shell")
    <3>1. CASE held' = TRUE /\ at = "request" /\ Item.kind = "shell"
      BY <3>1
    <3>2. CASE held' = held
      BY <3>2 DEF IInv, TypeOK
    <3> QED BY <2>3, <3>1, <3>2
  <2>5. TypeOK'
    BY <2>1, <2>2, <2>4 DEF IInv, TypeOK
  <2>6. DeadlinesHold'
    BY <2>1, <2>2, <2>3 DEF IInv, DeadlinesHold, Waiting
  <2>7. DeadlineIsTold'
    BY <2>1, <2>2 DEF IInv, DeadlineIsTold
  <2> QED BY <2>5, <2>6, <2>7 DEF IInv
<1> QED BY <1>1, <1>2, <1>3, <1>4, <1>5, <1>6, <1>7, <1>8 DEF Next, Terminated

LEMMA Invariance == Spec => []IInv
BY InitIInv, NextIInv, PTL DEF Spec

-----------------------------------------------------------------------------

\* The variables of a call stay in their types.
THEOREM TimeoutsTypeCorrect == Spec => []TypeOK
<1>1. IInv => TypeOK
  BY DEF IInv
<1> QED BY <1>1, Invariance, PTL

\* A written timeout is the deadline that it says.
LEMMA WrittenIsDeadline ==
    ASSUME NEW v \in Written, Positive(v), NEW def \in Int, NEW start \in Int
    PROVE  /\ v \in Int /\ v > 0 /\ ParseDurationOrDefault(v, def) = v
           /\ After(start, v) = start + v
BY WrittenAssumption DEF Written, Positive, ParseDurationOrDefault, After

\* The call's timeout is the tool's, or the executor's if the tool has none.
LEMMA CallTimeoutIs ==
    ASSUME TypeOK, NEW t \in Written,
           t = IF Missing(cfg.tool) THEN cfg.executor.timeout ELSE cfg.tool
    PROVE  /\ Positive(t) => t \in Int /\ CallDeadline = t
           /\ ~Positive(t) => CallDeadline = Never
<1>1. CallTimeout = ParseDurationOrDefault(t, 0)
  BY CfgType, WrittenAssumption DEF CallTimeout, ParseDurationOrDefault, Missing, Written
<1>2. CASE Positive(t)
  <2>1. t \in Int /\ t > 0 /\ CallTimeout = t
    BY <1>1, <1>2, WrittenAssumption DEF Written, Positive, ParseDurationOrDefault
  <2> QED BY <1>2, <2>1 DEF CallDeadline, After
<1>3. CASE ~Positive(t)
  <2>1. CallTimeout \in Int /\ ~(CallTimeout > 0)
    BY <1>1, <1>3, WrittenAssumption DEF Written, Positive, ParseDurationOrDefault
  <2> QED BY <1>3, <2>1 DEF CallDeadline, After
<1> QED BY <1>2, <1>3

\* No wait goes on past the timeout that the configuration says, but the wait
\* for a held command: the call is over as soon as that command returns.
THEOREM WaitsEndInTime == Spec => []EndsInTime
<1>1. IInv => CallEnds
  <2> SUFFICES ASSUME IInv, at # "done", ~held PROVE
        /\ Positive(cfg.tool) => now <= Max({cfg.tool, freed})
        /\ Missing(cfg.tool) /\ Positive(cfg.executor.timeout) =>
               now <= Max({cfg.executor.timeout, freed})
    BY DEF CallEnds
  <2>1. now <= CallDeadline \/ now = freed
    BY DEF IInv, DeadlinesHold
  <2>2. cfg.tool \in Written /\ cfg.executor.timeout \in Written
    BY CfgType DEF IInv
  <2>3. Positive(cfg.tool) => ~Missing(cfg.tool)
    BY <2>2, WrittenAssumption DEF Positive, Missing, Written
  <2>4. Positive(cfg.tool) => cfg.tool \in Int /\ CallDeadline = cfg.tool
    BY <2>2, <2>3, CallTimeoutIs DEF IInv
  <2>5. Missing(cfg.tool) /\ Positive(cfg.executor.timeout) =>
            cfg.executor.timeout \in Int /\ CallDeadline = cfg.executor.timeout
    BY <2>2, CallTimeoutIs DEF IInv
  <2>6. freed \in Int /\ now \in Int
    BY DEF IInv, TypeOK
  <2>7. ASSUME NEW t \in Int, CallDeadline = t PROVE now <= Max({t, freed})
    BY <2>1, <2>6, <2>7, MaxOfTwo
  <2> QED BY <2>4, <2>5, <2>7
<1>2. IInv => ApproverEnds
  <2> SUFFICES ASSUME IInv, Waiting, Approving, ~held, Positive(Item.timeout)
               PROVE  now <= began + Item.timeout
    BY DEF ApproverEnds
  <2>1. Item.timeout \in Written /\ began \in Int
    BY CfgType DEF IInv, TypeOK
  <2>2. StepTimeout = Item.timeout /\ After(began, Item.timeout) = began + Item.timeout
    BY <2>1, WrittenIsDeadline DEF StepTimeout
  <2>3. now <= After(began, StepTimeout)
    BY DEF IInv, DeadlinesHold
  <2> QED BY <2>2, <2>3
<1>3. IInv => RequestEnds
  <2> DEFINE T == Item.timeout
  <2> SUFFICES ASSUME IInv, at = "request", Item.kind \in {"http", "async"},
                      Approving => T \in {Absent, Invalid} \/ Positive(T)
               PROVE  now <= began + (IF Positive(T) THEN T ELSE 10 * Second)
    BY DEF RequestEnds
  <2>1. T \in Written /\ began \in Int /\ 10 * Second \in Int /\ 10 * Second > 0
    BY CfgType, SecondAssumption DEF IInv, TypeOK
  <2>2. now <= After(began, ClientTimeout)
    BY DEF IInv, DeadlinesHold, Waiting, ClientDeadline
  <2>3. CASE Positive(T)
    <3>1. T \in Int /\ T > 0 /\ ParseDurationOrDefault(T, 10 * Second) = T
          /\ After(began, T) = began + T
      BY <2>1, <2>3, WrittenIsDeadline
    <3>2. ClientTimeout = T
      BY <3>1 DEF ClientTimeout
    <3> QED BY <2>2, <2>3, <3>1, <3>2
  <2>4. CASE ~Positive(T)
    <3>1. ClientTimeout = 10 * Second
      BY <2>1, <2>4 DEF ClientTimeout, ParseDurationOrDefault, Positive, Written
    <3>2. After(began, 10 * Second) = began + 10 * Second
      BY <2>1 DEF After
    <3> QED BY <2>2, <2>4, <3>1, <3>2
  <2> QED BY <2>3, <2>4
<1>4. IInv => EndsInTime
  BY <1>1, <1>2, <1>3 DEF EndsInTime
<1> QED BY <1>4, Invariance, PTL

\* A response says timeout exactly when the call's written time was over.
THEOREM TimeoutSaysExpired == Spec => []TimeoutIffExpired
<1>1. IInv => TimeoutIffExpired
  <2> DEFINE T == IF Missing(cfg.tool) THEN cfg.executor.timeout ELSE cfg.tool
  <2> SUFFICES ASSUME IInv, at = "done"
               PROVE  reply.kind = "timeout" <=> Positive(T) /\ reply.time >= T
    BY DEF TimeoutIffExpired
  <2>1. reply.kind = "timeout" <=> reply.time >= CallDeadline
    BY DEF IInv, DeadlineIsTold
  <2>2. T \in Written
    BY CfgType DEF IInv
  <2>3. reply.time \in 0..now /\ now \in 0..MaxTime
    BY DEF IInv, TypeOK
  <2>4. reply.time < Never
    BY <2>3, MaxTimeAssumption DEF Never
  <2>5. /\ Positive(T) => CallDeadline = T
        /\ ~Positive(T) => CallDeadline = Never
    BY <2>2, CallTimeoutIs DEF IInv
  <2>6. CASE Positive(T)
    BY <2>1, <2>5, <2>6
  <2>7. CASE ~Positive(T)
    <3>1. ~(reply.time >= CallDeadline)
      BY <2>3, <2>4, <2>5, <2>7, MaxTimeAssumption DEF Never
    <3> QED BY <2>1, <2>7, <3>1
  <2> QED BY <2>6, <2>7
<1> QED BY <1>1, Invariance, PTL

\* A timeout does not come before the seconds that the executor, or the async
\* approver, was told.
THEOREM ToldSecondsAreKept == Spec => []ToldIsKept
<1>1. IInv => ToldIsKept
  <2> SUFFICES ASSUME IInv, at = "done"
               PROVE  /\ reply.kind = "timeout" /\ ~Approving /\ told > 1 =>
                             reply.time >= began + told * Second
                      /\ reply.kind = "step_timeout" /\ Item.kind = "async" =>
                             reply.time >= began + told * Second
    BY DEF ToldIsKept
  <2>1. /\ CallDeadline \in Int /\ After(began, StepTimeout) \in Int
        /\ reply.time \in Int /\ began + told * Second \in Int
    <3>1. told * Second \in Int
      BY SecondAssumption DEF IInv, TypeOK
    <3> QED BY <3>1, DeadlineTypes DEF IInv, TypeOK
  <2>2. reply.kind = "timeout" /\ ~Approving /\ told > 1 =>
            began + told * Second <= CallDeadline /\ reply.time >= CallDeadline
    BY DEF IInv, DeadlineIsTold
  <2>3. reply.kind = "step_timeout" /\ Item.kind = "async" =>
            /\ began + told * Second <= After(began, StepTimeout)
            /\ reply.time >= After(began, StepTimeout)
    BY DEF IInv, DeadlineIsTold
  <2> QED BY <2>1, <2>2, <2>3
<1> QED BY <1>1, Invariance, PTL
=============================================================================
