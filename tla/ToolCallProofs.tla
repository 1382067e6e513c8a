--------------------------- MODULE ToolCallProofs ---------------------------
(***************************************************************************)
(* Proofs about the gateway, for any calls, tools, ids, chains, executors, *)
(* key strategy and limits: all of its safety properties that hold.        *)
(*                                                                         *)
(* The invariant has five parts, each proved from those before it: where a *)
(* call is (TypeOK, Position), whose the slots are (SlotsAreHere), what a  *)
(* verdict rests on (OutcomesWereAsked, AllEarned, AllAllowed), what       *)
(* responses and the cache say (Answers), and what the counters count      *)
(* (CountIsExact).                                                         *)
(***************************************************************************)
EXTENDS ToolCall, FiniteSetTheorems, TLAPS

\* A call goes through its chain from the first step on, and is at the
\* executor's step when it is at the executor.
Position ==
    \A c \in Calls :
        /\ pc[c] = "idle" => step[c] = 1 /\ verdict[c] = None
        /\ pc[c] = "approve" => step[c] < ExecStep(c)
        /\ pc[c] \in {"execute", "running"} => step[c] = ExecStep(c)
        /\ pc[c] = "running" => verdict[c] = None

\* Only the approver or executor a call is at can hold a slot or owe a Cancel.
SlotsAreHere ==
    /\ \A a \in Attempts : phase[a] \in {"open", "left"} => a = Here(a[1]) /\ Async(a[1])
    /\ \A s \in Slots : table[s] # None =>
         SlotOf[table[s]] = s /\ phase[table[s]] \in {"open", "left"}

\* A verdict in an outcome comes from a service that was asked.
OutcomesWereAsked == \A a \in Attempts : outcome[a].verdict # None => a \in sent

\* An async approver or executor that returned "yes" was told so; the async
\* approvers a call has passed have said yes; and only a call that has passed
\* them all is executed.
Earned(c) ==
    /\ verdict[c] = "yes" /\ pc[c] = "approve" /\ KindIs(c, "async") =>
         outcome[Here(c)].verdict = "yes"
    /\ verdict[c] = "yes" /\ pc[c] = "execute" => Executed(c)
    /\ pc[c] = "running" => Executed(c)
    /\ \A k \in AsyncApprovers(c) : k < step[c] => outcome[<<c, k>>].verdict = "yes"
    /\ Executed(c) => step[c] = ExecStep(c) /\ pc[c] \in {"execute", "running", "done"}

AllEarned == \A c \in Calls : Earned(c)

\* The approvers that a call has passed have approved it in time, and the one it
\* is about to pass has.
Allowed(c) ==
    /\ pc[c] = "approve" /\ verdict[c] = "yes" /\ ~Late(c) => Here(c) \in allowed
    /\ \A k \in DOMAIN ChainOf(c) : k < step[c] => <<c, k>> \in allowed

AllAllowed == \A c \in Calls : Allowed(c)

\* A call has its response when it is done, and the response is true.
RepliesAreTrue ==
    \A c \in Calls :
        /\ reply[c].kind = "none" <=> pc[c] # "done"
        /\ reply[c].kind \in {"denied", "cached"} => ~Executed(c)
        /\ reply[c].kind = "success" => Executed(c) /\ reply[c].from = c
        /\ reply[c].kind = "timeout" => ctx[c] = "deadline"

\* Successes are in the cache until it forgets their key.
SuccessIsCached ==
    \A c \in Calls :
        reply[c].kind = "success" /\ CacheKey(c) # None /\ CacheKey(c) \notin forgotten
        => cache[CacheKey(c)] # None

Answers == RepliesAreTrue /\ CacheIsSound /\ SuccessIsCached

\* Step k of call c's chain has let it through.
PassedAt(c, k) == step[c] > k \/ (step[c] = k /\ verdict[c] = "yes")

\* The calls that limits approver l has let through.
Passed(l) == {c \in Calls : ToolOf[c] = l[1] /\ PassedAt(c, l[2])}

\* The counter of a limits approver counts them.
CountIsExact ==
    \A l \in Limits : IsFiniteSet(Passed(l)) /\ Cardinality(Passed(l)) = used[l]

\* What an attempt was answered is what the service of the request decided whose
\* callback it took, a request that waited in the same store under the same id.
AnswerHasSource ==
    \A a \in Attempts :
        /\ source[a] = None => answer[a] = None
        /\ source[a] # None =>
             /\ source[a] \in sent /\ SlotOf[source[a]] = SlotOf[a]
             /\ answer[a] = decided[source[a]] /\ answer[a] # None
             /\ delivered[source[a]] > 0
        /\ outcome[a].kind = "received" => answer[a] # None /\ outcome[a].verdict = answer[a]

\* An attempt without a slot, or whose slot is still open, has no answer.
OpenIsUnanswered ==
    /\ \A a \in Attempts : phase[a] = "idle" => source[a] = None
    /\ \A s \in Slots : table[s] # None => source[table[s]] = None

\* A request whose callbacks answered two attempts was answered twice.
TwiceIsCounted ==
    \A a, b \in Attempts : a # b /\ source[a] = source[b] /\ source[a] # None =>
        delivered[source[a]] > 1

Traced == AnswerHasSource /\ OpenIsUnanswered /\ TwiceIsCounted

IInv ==
    /\ TypeOK /\ Position /\ SlotsAreHere /\ OutcomesWereAsked /\ AllEarned /\ AllAllowed
    /\ Answers /\ CountIsExact /\ Traced

-----------------------------------------------------------------------------
(* The static structure.                                                   *)

LEMMA ChainType ==
    ASSUME NEW c \in Calls
    PROVE  /\ ToolOf[c] \in Tools /\ IdOf[c] \in CorrIds
           /\ ChainOf(c) \in Seq([kind : {"limits", "sync", "async"}, timed : BOOLEAN])
           /\ Len(ChainOf(c)) \in Nat /\ DOMAIN ChainOf(c) = 1..Len(ChainOf(c))
           /\ ExecStep(c) = Len(ChainOf(c)) + 1
           /\ AsyncApprovers(c) \subseteq 1..Len(ChainOf(c))
BY ConfigAssumption DEF ChainOf, ExecStep, AsyncApprovers

LEMMA AttemptOf ==
    /\ \A c \in Calls : \A k \in 1..ExecStep(c) : <<c, k>> \in Attempts
    /\ \A a \in Attempts : a[1] \in Calls /\ a[2] \in 1..ExecStep(a[1]) /\ a = <<a[1], a[2]>>
BY DEF Attempts

LEMMA SlotType == \A a \in Attempts : SlotOf[a] \in Slots
BY ChainType, AttemptOf DEF SlotOf, Slots

LEMMA PlacesOfTools ==
  \A t \in Tools : DOMAIN Chain[t] = 1..Len(Chain[t]) /\ Len(Chain[t]) \in Nat
BY ConfigAssumption

LEMMA LimitsType ==
    /\ \A l \in Limits : l[1] \in Tools /\ l[2] \in DOMAIN Chain[l[1]] /\ l = <<l[1], l[2]>>
    /\ \A c \in Calls : \A k \in DOMAIN ChainOf(c) :
         ChainOf(c)[k].kind = "limits" => <<ToolOf[c], k>> \in Limits
BY ChainType DEF Limits, ChainOf

LEMMA HereType ==
    ASSUME TypeOK, NEW c \in Calls
    PROVE  Here(c) \in Attempts /\ Here(c)[1] = c /\ Here(c)[2] = step[c]
BY AttemptOf DEF Here, TypeOK

-----------------------------------------------------------------------------
(* Types and positions.                                                    *)

LEMMA InitTypes == Init => TypeOK /\ Position
BY ChainType, AttemptOf, SlotType, NoneAssumption, BoundsAssumption
   DEF Init, TypeOK, Position, Reply, NoReply, Store!Init, Store!NoOutcome, Store!Outcomes

\* A verdict returned to a call at a step keeps everything in its type.
LEMMA ReturnTypes ==
    ASSUME TypeOK, Position, NEW c \in Calls, pc[c] \in {"approve", "execute"},
           NEW v \in {"yes", "no", "error"}, Return(c, v),
           UNCHANGED <<used, cacheVars, storeVars, serviceVars>>
    PROVE  TypeOK' /\ Position'
<1>1. verdict' \in [Calls -> {None, "yes", "no", "error"}]
  BY DEF Return, TypeOK
<1>2. UNCHANGED <<pc, step, ctx, stepCtx, reply, used, cacheVars, storeVars, serviceVars>>
  BY DEF Return
<1>3. TypeOK'
  <2>1. allowed' \subseteq Attempts
    BY HereType DEF Return, TypeOK
  <2> QED BY <1>1, <1>2, <2>1 DEF TypeOK, storeVars, serviceVars, cacheVars
<1>4. \A d \in Calls : verdict'[d] = verdict[d] \/ d = c
  BY DEF Return, TypeOK
<1>5. Position'
  BY <1>2, <1>4 DEF Position
<1> QED BY <1>3, <1>5

LEMMA NextTypes == TypeOK /\ Position /\ [Next]_vars => TypeOK' /\ Position'
<1> SUFFICES ASSUME TypeOK, Position, [Next]_vars
             PROVE  TypeOK' /\ Position'
  OBVIOUS
<1> USE ChainType, HereType, SlotType, NoneAssumption, BoundsAssumption
    DEF TypeOK, Position, callVars, storeVars, serviceVars, cacheVars, Approving, Executing, InProgress
<1>1. ASSUME NEW c \in Calls, LimitsDeny(c)
      PROVE  TypeOK' /\ Position'
  BY ONLY <1>1, TypeOK, Position, ReturnTypes DEF LimitsDeny, KindIs, Approving
<1>2. ASSUME NEW c \in Calls, LimitsApprove(c)
      PROVE  TypeOK' /\ Position'
  <2>1. <<ToolOf[c], step[c]>> \in Limits
    BY <1>2, LimitsType DEF LimitsApprove, KindIs
  <2>2. used' \in [Limits -> 0..MaxTotal]
    BY <1>2, <2>1 DEF LimitsApprove
  <2>3. QED
    BY <1>2, <2>2, SMTT(20) DEF LimitsApprove, Return
<1>3. ASSUME NEW c \in Calls, SyncDecide(c)
      PROVE  TypeOK' /\ Position'
  <2>1. /\ pc[c] \in {"approve", "execute"} /\ UNCHANGED <<used, cacheVars, storeVars, serviceVars>>
        /\ \E v \in {"yes", "no", "error"} : Return(c, v)
    BY ONLY <1>3 DEF SyncDecide, KindIs, Approving
  <2> QED BY ONLY <2>1, TypeOK, Position, ReturnTypes
<1>4. ASSUME NEW c \in Calls, SyncStart(c)
      PROVE  TypeOK' /\ Position'
  BY <1>4, SMTT(20) DEF SyncStart
<1>5. ASSUME NEW c \in Calls, SyncNoStart(c)
      PROVE  TypeOK' /\ Position'
  BY ONLY <1>5, TypeOK, Position, ReturnTypes DEF SyncNoStart, Executing
<1>6. ASSUME NEW c \in Calls, SyncEnd(c)
      PROVE  TypeOK' /\ Position'
  BY <1>6, SMTT(20) DEF SyncEnd
<1>7. ASSUME NEW c \in Calls, AsyncInvalid(c)
      PROVE  TypeOK' /\ Position'
  BY ONLY <1>7, TypeOK, Position, ReturnTypes DEF AsyncInvalid
<1>8. ASSUME NEW c \in Calls, AsyncRegister(c)
      PROVE  TypeOK' /\ Position'
  BY <1>8 DEF AsyncRegister, Return, Store!Register, Async
<1>9. ASSUME NEW c \in Calls, AsyncRefused(c)
      PROVE  TypeOK' /\ Position'
  <2>1. outcome' \in [Attempts -> Store!Outcomes]
    BY <1>9 DEF AsyncRefused, Store!Refuse, Store!Outcomes
  <2>2. QED
    BY <1>9, <2>1 DEF AsyncRefused, Return, Store!Refuse, Async
<1>10. ASSUME NEW c \in Calls, AsyncSend(c)
      PROVE  TypeOK' /\ Position'
  BY <1>10, SMTT(20) DEF AsyncSend, Posting
<1>11. ASSUME NEW c \in Calls, AsyncAccepted(c)
      PROVE  TypeOK' /\ Position'
  BY <1>11, SMTT(20) DEF AsyncAccepted, Posting
<1>12. ASSUME NEW c \in Calls, AsyncPosted(c)
      PROVE  TypeOK' /\ Position'
  <2>1. PICK o \in Store!Outcomes : Store!EndAs(Here(c), o)
    BY <1>12 DEF AsyncPosted, Store!OwnOutcomes
  <2>2. UNCHANGED <<callVars, used, cacheVars, serviceVars>>
    BY <1>12 DEF AsyncPosted
  <2>3. QED
    BY <2>1, <2>2 DEF Store!EndAs
<1>13. ASSUME NEW c \in Calls, AsyncTake(c)
      PROVE  TypeOK' /\ Position'
  <2>1. CASE Store!Take(Here(c))
    BY <1>13, <2>1, SMTT(20) DEF AsyncTake, Store!Take, Store!EndAs, Store!Outcomes
  <2>2. CASE Store!FindRevoked(Here(c))
    BY <1>13, <2>2 DEF AsyncTake, Store!FindRevoked, Store!EndAs, Store!Outcomes
  <2>3. QED
    BY <1>13, <2>1, <2>2 DEF AsyncTake
<1>14. ASSUME NEW c \in Calls, AsyncTimeout(c)
      PROVE  TypeOK' /\ Position'
  BY <1>14 DEF AsyncTimeout, Return, Store!EndAs, Store!Outcomes, Async
<1>15. ASSUME NEW c \in Calls, AsyncReturn(c)
      PROVE  TypeOK' /\ Position'
  <2>1. outcome[Here(c)].verdict \in {"yes", "no", None}
    BY DEF Store!Outcomes, Verdicts
  <2>2. verdict' \in [Calls -> {None, "yes", "no", "error"}]
    BY <1>15, <2>1 DEF AsyncReturn, Return
  <2>3. pc[c] \in {"approve", "execute"}
    BY <1>15 DEF AsyncReturn, Async
  <2>4. Position'
    BY <1>15, <2>3 DEF AsyncReturn, Return
  <2>5. TypeOK'
    BY <1>15, <2>2 DEF AsyncReturn, Return, Store!Cancel
  <2>6. QED
    BY <2>4, <2>5
<1>16. ASSUME NEW c \in Calls, ChainNext(c)
      PROVE  TypeOK' /\ Position'
  <2>1. step[c] \in 1..Len(ChainOf(c))
    BY <1>16 DEF ChainNext
  <2>2. step' = [step EXCEPT ![c] = step[c] + 1] /\ step[c] + 1 \in 1..ExecStep(c)
    BY <1>16, <2>1 DEF ChainNext
  <2>3. TypeOK'
    BY <1>16, <2>1, <2>2 DEF ChainNext
  <2>4. Position'
    <3> DEFINE n == Len(ChainOf(c))
    <3>0. n \in Nat /\ ExecStep(c) = n + 1 /\ step[c] \in 1..n
      BY <2>1
    <3> HIDE DEF n
    <3>1. step[c] + 1 < ExecStep(c) \/ (step[c] = n /\ step[c] + 1 = ExecStep(c))
      BY ONLY <3>0
    <3>2. pc' = [pc EXCEPT ![c] = IF step[c] = n THEN "execute" ELSE "approve"]
      BY <1>16 DEF ChainNext, n
    <3>3. verdict' = [verdict EXCEPT ![c] = None]
      BY <1>16 DEF ChainNext
    <3>4. ASSUME NEW d \in Calls, d # c
          PROVE  UNCHANGED <<pc[d], step[d], verdict[d]>>
      BY <2>2, <3>2, <3>3, <3>4
    <3>5. /\ pc'[c] = IF step[c] = n THEN "execute" ELSE "approve"
          /\ step'[c] = step[c] + 1 /\ verdict'[c] = None
      BY <2>2, <3>2, <3>3
    <3>6. SUFFICES ASSUME NEW d \in Calls
                   PROVE  /\ pc'[d] = "idle" => step'[d] = 1 /\ verdict'[d] = None
                          /\ pc'[d] = "approve" => step'[d] < ExecStep(d)
                          /\ pc'[d] \in {"execute", "running"} => step'[d] = ExecStep(d)
                          /\ pc'[d] = "running" => verdict'[d] = None
      OBVIOUS
    <3>7. CASE d = c
      BY ONLY <3>0, <3>1, <3>5, <3>7
    <3>8. CASE d # c
      BY <3>4, <3>8
    <3>9. QED
      BY <3>7, <3>8
  <2>5. QED
    BY <2>3, <2>4
<1>17. ASSUME NEW c \in Calls, ChainStop(c)
      PROVE  TypeOK' /\ Position'
  <2>1. PICK kind \in {"denied", "error"} : Finish(c, OrTimeout(c, kind))
    BY <1>17 DEF ChainStop
  <2>2. QED
    BY <1>17, <2>1, SMTT(20) DEF ChainStop, Finish, OrTimeout, Reply
<1>18. ASSUME NEW c \in Calls, ExecFailed(c)
      PROVE  TypeOK' /\ Position'
  BY <1>18, SMTT(20) DEF ExecFailed, Finish, OrTimeout, Reply
<1>19. ASSUME NEW c \in Calls, ExecOk(c)
      PROVE  TypeOK' /\ Position'
  BY <1>19, SMTT(20) DEF ExecOk, Finish, Reply
<1>20. ASSUME NEW c \in Calls, ReceiveCached(c)
      PROVE  TypeOK' /\ Position'
  <2>1. cache[CacheKey(c)] \in Calls
    BY <1>20 DEF ReceiveCached, Hit, Keys
  <2>2. QED
    BY <1>20, <2>1, SMTT(20) DEF ReceiveCached, Finish, Reply
<1>21. ASSUME NEW c \in Calls, Receive(c)
      PROVE  TypeOK' /\ Position'
  <2>1. CASE NeedsApproval(c) /\ ChainOf(c) = <<>>
    <3>1. Finish(c, Reply("denied", c)) /\ UNCHANGED <<used, cacheVars, storeVars, serviceVars>>
      BY <1>21, <2>1 DEF Receive
    <3>2. QED
      BY <3>1 DEF Finish, Reply
  <2>2. CASE ~(NeedsApproval(c) /\ ChainOf(c) = <<>>)
    <3>1. NeedsApproval(c) => 1 < ExecStep(c)
      <4>1. SUFFICES ASSUME NeedsApproval(c) PROVE Len(ChainOf(c)) # 0
        BY DEF ExecStep
      <4>2. ChainOf(c) # <<>>
        BY <2>2, <4>1
      <4>3. QED
        BY <4>2
    <3>2. ~NeedsApproval(c) => ExecStep(c) = 1
      BY DEF NeedsApproval
    <3>3. QED
      <4>1. pc' = [pc EXCEPT ![c] = IF NeedsApproval(c) THEN "approve" ELSE "execute"]
            /\ step[c] = 1
        BY <1>21, <2>2 DEF Receive
      <4>2. UNCHANGED <<step, verdict, ctx, stepCtx, allowed, reply, used, cacheVars, storeVars, serviceVars>>
        BY <1>21, <2>2 DEF Receive
      <4>3. TypeOK'
        BY <4>1, <4>2
      <4>4. Position'
        BY <4>1, <4>2, <3>1, <3>2
      <4>5. QED
        BY <4>3, <4>4
  <2>3. QED
    BY <2>1, <2>2
<1>22. ASSUME NEW c \in Calls, ToolDeadline(c)
      PROVE  TypeOK' /\ Position'
  BY <1>22 DEF ToolDeadline
<1>23. ASSUME NEW c \in Calls, StepDeadline(c)
      PROVE  TypeOK' /\ Position'
  BY <1>23 DEF StepDeadline
<1>24. ASSUME NEW c \in Calls, ClientGone(c)
      PROVE  TypeOK' /\ Position'
  BY <1>24 DEF ClientGone
<1>25. ASSUME NEW a \in Attempts, NEW v \in Verdicts, Callback(a, v)
      PROVE  TypeOK' /\ Position'
  <2> DEFINE b == table[SlotOf[a]]
  <2>1. b \in Attempts
    BY <1>25 DEF Callback, Store!Resolve
  <2>2. answer' \in [Attempts -> Verdicts \cup {None}] /\ source' \in [Attempts -> Attempts \cup {None}]
    BY <1>25, <2>1 DEF Callback, Store!Resolve
  <2>3. table' \in [Slots -> Attempts \cup {None}] /\ UNCHANGED <<revoked, phase, outcome>>
    BY <1>25 DEF Callback, Store!Resolve
  <2>4. delivered' \in [Attempts -> 0..MaxDeliver] /\ decided' \in [Attempts -> Verdicts \cup {None}]
    BY <1>25 DEF Callback
  <2>5. UNCHANGED <<callVars, used, cacheVars, sent, accepted>>
    BY <1>25 DEF Callback
  <2> HIDE DEF b
  <2>6. QED
    BY <2>2, <2>3, <2>4, <2>5
<1>26. ASSUME NEW k \in Keys, Forget(k)
      PROVE  TypeOK' /\ Position'
  BY <1>26 DEF Forget
<1>27. CASE UNCHANGED vars
  BY <1>27 DEF vars
<1>28. QED
  BY <1>1, <1>2, <1>3, <1>4, <1>5, <1>6, <1>7, <1>8, <1>9, <1>10, <1>11, <1>12, <1>13,
     <1>14, <1>15, <1>16, <1>17, <1>18, <1>19, <1>20, <1>21, <1>22, <1>23, <1>24, <1>25,
     <1>26, <1>27
     DEF Next, Prompt, AsyncStep, Foreign, Terminated

-----------------------------------------------------------------------------
(* Slots.                                                                  *)

\* What is known of the steps of a call: they are its own.
OwnStep(c) ==
    \A d \in Calls \ {c} : pc'[d] = pc[d] /\ step'[d] = step[d] /\ verdict'[d] = verdict[d]

\* A call that neither holds a slot nor owes a Cancel may move on.
LEMMA FreeToMove ==
    ASSUME TypeOK, SlotsAreHere, NEW c \in Calls, OwnStep(c), UNCHANGED <<table, phase>>,
           Async(c) => phase[Here(c)] \notin {"open", "left"}
    PROVE  SlotsAreHere'
<1>1. ASSUME NEW a \in Attempts, phase[a] \in {"open", "left"}
      PROVE  a = Here(a[1])' /\ Async(a[1])'
  <2>1. a[1] # c
    BY <1>1 DEF SlotsAreHere
  <2>2. a[1] \in Calls /\ a = Here(a[1]) /\ Async(a[1])
    BY <1>1, AttemptOf DEF SlotsAreHere
  <2>3. QED
    BY <2>1, <2>2 DEF OwnStep, Here, Async, Approving, Executing, KindIs
<1>2. QED
  BY <1>1 DEF SlotsAreHere

LEMMA NextSlots == TypeOK /\ Position /\ SlotsAreHere /\ [Next]_vars => SlotsAreHere'
<1> SUFFICES ASSUME TypeOK, Position, SlotsAreHere, [Next]_vars
             PROVE  SlotsAreHere'
  OBVIOUS
<1> USE DEF callVars, storeVars
<1>1. ASSUME NEW c \in Calls,
             \/ LimitsDeny(c) \/ LimitsApprove(c) \/ SyncDecide(c) \/ AsyncInvalid(c)
             \/ ChainNext(c) \/ ChainStop(c)
      PROVE  SlotsAreHere'
  <2>1. OwnStep(c)
    BY <1>1 DEF OwnStep, TypeOK, LimitsDeny, LimitsApprove, SyncDecide, AsyncInvalid, Return,
                ChainNext, ChainStop, Finish
  <2>2. UNCHANGED <<table, phase>>
    BY <1>1 DEF LimitsDeny, LimitsApprove, SyncDecide, AsyncInvalid, ChainNext, ChainStop
  <2>3. Async(c) => phase[Here(c)] \notin {"open", "left"}
    BY <1>1 DEF LimitsDeny, LimitsApprove, SyncDecide, AsyncInvalid, ChainNext, ChainStop,
                Async, Approving, Executing, KindIs
  <2>4. QED
    BY <2>1, <2>2, <2>3, FreeToMove
<1>2. ASSUME NEW c \in Calls,
             \/ SyncStart(c) \/ SyncNoStart(c) \/ SyncEnd(c) \/ ExecFailed(c) \/ ExecOk(c)
             \/ Receive(c) \/ ReceiveCached(c)
      PROVE  SlotsAreHere'
  <2>1. OwnStep(c)
    BY <1>2 DEF OwnStep, TypeOK, SyncStart, SyncNoStart, SyncEnd, ExecFailed, ExecOk,
                Receive, ReceiveCached, Return, Finish
  <2>2. UNCHANGED <<table, phase>>
    BY <1>2 DEF SyncStart, SyncNoStart, SyncEnd, ExecFailed, ExecOk, Receive, ReceiveCached
  <2>3. ~Async(c)
    BY <1>2, NoneAssumption
       DEF SyncStart, SyncNoStart, SyncEnd, ExecFailed, ExecOk, Receive, ReceiveCached,
           Async, Approving, Executing
  <2>4. QED
    BY <2>1, <2>2, <2>3, FreeToMove
<1>3. ASSUME NEW c \in Calls,
             \/ AsyncSend(c) \/ AsyncAccepted(c)
             \/ ToolDeadline(c) \/ StepDeadline(c) \/ ClientGone(c)
      PROVE  SlotsAreHere'
  BY <1>3 DEF AsyncSend, AsyncAccepted, ToolDeadline, StepDeadline, ClientGone, SlotsAreHere,
              Here, Async, Approving, Executing, KindIs
<1>4. ASSUME NEW c \in Calls, AsyncRegister(c)
      PROVE  SlotsAreHere'
  <2>1. /\ table' = [table EXCEPT ![SlotOf[Here(c)]] = Here(c)]
        /\ phase' = [phase EXCEPT ![Here(c)] = "open"]
        /\ Async(c) /\ UNCHANGED <<pc, step, verdict>>
    BY <1>4 DEF AsyncRegister, Store!Register
  <2>2. QED
    <3>1. \A a \in Attempts : phase'[a] \in {"open", "left"} =>
            a = Here(a[1]) /\ Async(a[1])
      BY <2>1, HereType DEF SlotsAreHere, TypeOK
    <3>2. \A s \in Slots : table'[s] # None =>
            SlotOf[table'[s]] = s /\ phase'[table'[s]] \in {"open", "left"}
      BY <2>1, HereType, SlotType DEF SlotsAreHere, TypeOK
    <3>3. QED
      BY <2>1, <3>1, <3>2 DEF SlotsAreHere, Here, Async, Approving, Executing, KindIs
<1>5. ASSUME NEW c \in Calls, AsyncRefused(c)
      PROVE  SlotsAreHere'
  <2>1. /\ phase[Here(c)] = "idle" /\ UNCHANGED table
        /\ phase' = [phase EXCEPT ![Here(c)] = "gone"]
        /\ UNCHANGED <<pc, step>> /\ verdict' = [verdict EXCEPT ![c] = "error"]
    BY <1>5 DEF AsyncRefused, Store!Refuse, Return
  <2>2. ASSUME NEW a \in Attempts, phase'[a] \in {"open", "left"}
        PROVE  a # Here(c) /\ a[1] # c /\ phase'[a] = phase[a]
    BY <2>1, <2>2, HereType DEF SlotsAreHere, TypeOK
  <2>3. QED
    <3>1. \A a \in Attempts : phase'[a] \in {"open", "left"} =>
            a = Here(a[1])' /\ Async(a[1])'
      BY <2>1, <2>2 DEF SlotsAreHere, TypeOK, Here, Async, Approving, Executing, KindIs
    <3>2. \A s \in Slots : table[s] # None => phase'[table[s]] \in {"open", "left"}
      BY <2>1, HereType DEF SlotsAreHere, TypeOK
    <3>3. QED
      BY <2>1, <3>1, <3>2 DEF SlotsAreHere
<1>6. ASSUME NEW c \in Calls, AsyncPosted(c) \/ AsyncTake(c) \/ AsyncTimeout(c)
      PROVE  SlotsAreHere'
  <2>1. /\ phase[Here(c)] = "open" /\ phase' = [phase EXCEPT ![Here(c)] = "left"]
        /\ Async(c) /\ UNCHANGED <<pc, step, verdict, table>>
    BY <1>6 DEF AsyncPosted, AsyncTake, AsyncTimeout, Posting, Awaiting,
                Store!Take, Store!FindRevoked, Store!EndAs
  <2>2. QED
    BY <2>1, HereType DEF SlotsAreHere, TypeOK, Here, Async, Approving, Executing, KindIs
<1>7. ASSUME NEW c \in Calls, AsyncReturn(c)
      PROVE  SlotsAreHere'
  <2>1. /\ phase[Here(c)] = "left" /\ phase' = [phase EXCEPT ![Here(c)] = "gone"]
        /\ table' = [table EXCEPT ![SlotOf[Here(c)]] = None]
        /\ UNCHANGED <<pc, step>> /\ OwnStep(c)
    BY <1>7 DEF AsyncReturn, Store!Cancel, Return, OwnStep, TypeOK
  <2>2. ASSUME NEW a \in Attempts, phase'[a] \in {"open", "left"}
        PROVE  a # Here(c) /\ a[1] # c /\ phase'[a] = phase[a]
    BY <2>1, <2>2, HereType DEF SlotsAreHere, TypeOK
  <2>3. ASSUME NEW s \in Slots, table'[s] # None
        PROVE  table'[s] = table[s] /\ table[s] # Here(c)
    BY <2>1, <2>3, HereType, SlotType DEF SlotsAreHere, TypeOK
  <2>4. \A a \in Attempts : phase'[a] \in {"open", "left"} => a = Here(a[1])' /\ Async(a[1])'
    BY <2>1, <2>2, AttemptOf DEF SlotsAreHere, OwnStep, Here, Async, Approving, Executing, KindIs
  <2>5. \A s \in Slots : table'[s] # None =>
          SlotOf[table'[s]] = s /\ phase'[table'[s]] \in {"open", "left"}
    BY <2>1, <2>3, HereType DEF SlotsAreHere, TypeOK
  <2>6. QED
    BY <2>4, <2>5 DEF SlotsAreHere
<1>8. ASSUME NEW a \in Attempts, NEW v \in Verdicts, Callback(a, v)
      PROVE  SlotsAreHere'
  <2>1. /\ table' = [table EXCEPT ![SlotOf[a]] = None]
        /\ UNCHANGED <<phase, pc, step, verdict>>
    BY <1>8 DEF Callback, Store!Resolve
  <2>2. QED
    BY <2>1, SlotType DEF SlotsAreHere, TypeOK, Here, Async, Approving, Executing, KindIs
<1>9. CASE (\E k \in Keys : Forget(k)) \/ UNCHANGED vars
  BY <1>9 DEF Forget, vars, SlotsAreHere, Here, Async, Approving, Executing, KindIs
<1>10. QED
  BY <1>1, <1>2, <1>3, <1>4, <1>5, <1>6, <1>7, <1>8, <1>9
     DEF Next, Prompt, AsyncStep, Foreign, Terminated

-----------------------------------------------------------------------------
(* Verdicts.                                                               *)

\* What is known of the outcomes and the requests of a call: they are its own.
OwnService(c) ==
    \A a \in Attempts : a[1] # c => outcome'[a] = outcome[a] /\ (a \in sent' <=> a \in sent)

LEMMA OthersEarned ==
    ASSUME TypeOK, NEW c \in Calls, OwnStep(c), OwnService(c), AllEarned, Earned(c)'
    PROVE  AllEarned'
<1> SUFFICES ASSUME NEW d \in Calls, d # c
             PROVE  Earned(d)'
  BY DEF AllEarned
<1>1. \A k \in 1..ExecStep(d) : /\ outcome'[<<d, k>>] = outcome[<<d, k>>]
                                /\ <<d, k>> \in sent' <=> <<d, k>> \in sent
  BY AttemptOf DEF OwnService
<1>2. pc'[d] = pc[d] /\ step'[d] = step[d] /\ verdict'[d] = verdict[d]
  BY DEF OwnStep
<1>3. step[d] \in 1..ExecStep(d) /\ ExecStep(d) \in 1..ExecStep(d)
      /\ AsyncApprovers(d) \subseteq 1..ExecStep(d)
  BY ChainType DEF TypeOK
<1>4. Earned(d)
  BY DEF AllEarned
<1>5. QED
  BY <1>1, <1>2, <1>3, <1>4 DEF Earned, Here, Executed, KindIs

LEMMA NextEarned ==
    TypeOK /\ Position /\ SlotsAreHere /\ OutcomesWereAsked /\ AllEarned /\ [Next]_vars
      => OutcomesWereAsked' /\ AllEarned'
<1> SUFFICES ASSUME TypeOK, Position, SlotsAreHere, OutcomesWereAsked, AllEarned, [Next]_vars
             PROVE  OutcomesWereAsked' /\ AllEarned'
  OBVIOUS
<1> USE DEF callVars, storeVars, serviceVars
\* No outcome and no request.
<1>1. ASSUME NEW c \in Calls,
             \/ LimitsDeny(c) \/ LimitsApprove(c) \/ SyncDecide(c) \/ AsyncInvalid(c)
             \/ SyncNoStart(c) \/ SyncEnd(c)
             \/ ChainStop(c) \/ ExecFailed(c) \/ ExecOk(c)
             \/ Receive(c) \/ ReceiveCached(c)
      PROVE  OutcomesWereAsked' /\ AllEarned'
  <2>1. UNCHANGED <<outcome, sent, step>> /\ OwnStep(c)
    BY <1>1 DEF LimitsDeny, LimitsApprove, SyncDecide, AsyncInvalid, SyncNoStart, SyncEnd,
                ChainStop, ExecFailed, ExecOk, Receive, ReceiveCached, Return, Finish,
                OwnStep, TypeOK
  <2>2. Earned(c)
    BY DEF AllEarned
  <2>3. /\ verdict'[c] = "yes" /\ pc'[c] = "approve" /\ KindIs(c, "async") =>
             outcome[Here(c)].verdict = "yes"
        /\ verdict'[c] = "yes" /\ pc'[c] = "execute" => Executed(c)
        /\ pc'[c] # "running"
        /\ Executed(c) => pc'[c] \in {"execute", "running", "done"}
    <3>1. CASE \/ LimitsDeny(c) \/ LimitsApprove(c) \/ SyncDecide(c) \/ AsyncInvalid(c)
               \/ SyncNoStart(c)
      BY <3>1, <2>2, NoneAssumption
         DEF LimitsDeny, LimitsApprove, SyncDecide, AsyncInvalid, SyncNoStart, Return,
             Approving, Executing, KindIs, TypeOK, Earned
    <3>2. CASE SyncEnd(c)
      BY <3>2, <2>2 DEF SyncEnd, TypeOK, Earned
    <3>3. CASE \/ ChainStop(c) \/ ExecFailed(c) \/ ExecOk(c) \/ ReceiveCached(c)
      BY <3>3 DEF ChainStop, ExecFailed, ExecOk, ReceiveCached, Finish, TypeOK
    <3>4. CASE Receive(c)
      BY <3>4, <2>2, NoneAssumption DEF Receive, Finish, TypeOK, Position, Earned
    <3>5. QED
      BY <1>1, <3>1, <3>2, <3>3, <3>4
  <2>4. Earned(c)'
    BY <2>1, <2>2, <2>3 DEF Earned, Here, Executed, KindIs
  <2>5. QED
    BY <2>1, <2>4, OthersEarned DEF OwnService, OutcomesWereAsked
<1>2. ASSUME NEW c \in Calls, ChainNext(c)
      PROVE  OutcomesWereAsked' /\ AllEarned'
  <2>1. UNCHANGED <<outcome, sent>> /\ OwnStep(c) /\ verdict'[c] = None /\ pc'[c] # "running"
        /\ step'[c] = step[c] + 1 /\ pc[c] = "approve" /\ verdict[c] = "yes"
    BY <1>2 DEF ChainNext, Wrapped, OwnStep, TypeOK
  <2>2. Earned(c) /\ ~Executed(c)
    BY <2>1 DEF AllEarned, Earned
  <2>3. ASSUME NEW k \in AsyncApprovers(c), k < step[c] + 1
        PROVE  outcome[<<c, k>>].verdict = "yes"
    <3>1. CASE k < step[c]
      BY <2>2, <3>1 DEF Earned
    <3>2. CASE k = step[c]
      BY <2>1, <2>2, <3>2 DEF Earned, KindIs, Here, AsyncApprovers
    <3>3. QED
      BY <2>3, <3>1, <3>2, ChainType DEF TypeOK
  <2>4. Earned(c)'
    BY <2>1, <2>2, <2>3, NoneAssumption DEF Earned, Executed
  <2>5. QED
    BY <2>1, <2>4, OthersEarned DEF OwnService, OutcomesWereAsked
\* A request.
<1>3. ASSUME NEW c \in Calls, SyncStart(c) \/ AsyncSend(c)
      PROVE  OutcomesWereAsked' /\ AllEarned'
  <2>1. UNCHANGED <<outcome, step, verdict>> /\ OwnStep(c) /\ sent' = sent \cup {Here(c)}
    BY <1>3 DEF SyncStart, AsyncSend, OwnStep, TypeOK
  <2>2. Earned(c)
    BY DEF AllEarned
  <2>3. \/ pc[c] = "approve" /\ pc'[c] = "approve" /\ Here(c) # <<c, ExecStep(c)>>
        \/ pc[c] = "execute" /\ pc'[c] \in {"execute", "running"} /\ Here(c) = <<c, ExecStep(c)>>
    BY <1>3, ChainType DEF SyncStart, AsyncSend, Posting, Async, Approving, Executing, Position,
                           Here, TypeOK
  <2>4. Earned(c)'
    BY <2>1, <2>2, <2>3 DEF Earned, Executed, Here, KindIs, Position
  <2>5. OwnService(c) /\ OutcomesWereAsked'
    BY <2>1, HereType DEF OwnService, OutcomesWereAsked
  <2>6. QED
    BY <2>1, <2>4, <2>5, OthersEarned
\* An outcome.
<1>4. ASSUME NEW c \in Calls,
             AsyncRefused(c) \/ AsyncPosted(c) \/ AsyncTake(c) \/ AsyncTimeout(c)
      PROVE  OutcomesWereAsked' /\ AllEarned'
  <2>1. PICK o : /\ outcome' = [outcome EXCEPT ![Here(c)] = o]
                 /\ o.verdict # None => Here(c) \in sent
    <3>1. CASE AsyncRefused(c)
      <4> DEFINE o == [kind |-> "refused", verdict |-> None]
      <4>1. outcome' = [outcome EXCEPT ![Here(c)] = o] /\ o.verdict = None
        BY <3>1 DEF AsyncRefused, Store!Refuse
      <4> HIDE DEF o
      <4>2. QED
        BY <4>1
    <3>2. CASE AsyncPosted(c)
      <4>1. PICK o \in Store!OwnOutcomes :
              /\ Store!EndAs(Here(c), o)
              /\ (o.kind = "immediate" /\ Here(c) \in sent) \/ o.kind = "failed"
        BY <3>2 DEF AsyncPosted
      <4>2. o.kind = "failed" => o.verdict = None
        BY DEF Store!OwnOutcomes, Store!Outcomes
      <4>3. QED
        BY <4>1, <4>2 DEF Store!EndAs
    <3>3. CASE AsyncTake(c) \/ AsyncTimeout(c)
      <4>1. Here(c) \in sent
        BY <3>3 DEF AsyncTake, AsyncTimeout, Awaiting, TypeOK
      <4>2. \E o : outcome' = [outcome EXCEPT ![Here(c)] = o]
        BY <3>3 DEF AsyncTake, AsyncTimeout, Store!Take, Store!FindRevoked, Store!EndAs
      <4>3. QED
        BY <4>1, <4>2
    <3>4. QED
      BY <1>4, <3>1, <3>2, <3>3
  <2>2. UNCHANGED <<sent, pc, step>> /\ OwnStep(c) /\ Async(c) /\ verdict'[c] # "yes"
    BY <1>4, NoneAssumption
       DEF AsyncRefused, AsyncPosted, AsyncTake, AsyncTimeout, Awaiting, Posting, Return,
           OwnStep, TypeOK, Async, Approving, Executing
  <2>3. Earned(c)
    BY DEF AllEarned
  <2>4. \A k \in AsyncApprovers(c) : k < step[c] => outcome'[<<c, k>>] = outcome[<<c, k>>]
    BY <2>1, ChainType, AttemptOf DEF Here, TypeOK
  <2>5. Earned(c)'
    BY <2>2, <2>3, <2>4, NoneAssumption DEF Earned, Executed, Async, Approving, Executing
  <2>6. OwnService(c) /\ OutcomesWereAsked'
    BY <2>1, <2>2, HereType DEF OwnService, OutcomesWereAsked, TypeOK
  <2>7. QED
    BY <2>2, <2>5, <2>6, OthersEarned
<1>5. ASSUME NEW c \in Calls, AsyncReturn(c)
      PROVE  OutcomesWereAsked' /\ AllEarned'
  <2>1. UNCHANGED <<sent, outcome, pc, step>> /\ OwnStep(c) /\ Async(c)
    BY <1>5 DEF AsyncReturn, Return, OwnStep, TypeOK, Store!Cancel
  <2>2. verdict'[c] = "yes" => outcome[Here(c)].verdict = "yes"
    BY <1>5, NoneAssumption DEF AsyncReturn, Return, TypeOK
  <2>3. Earned(c)
    BY DEF AllEarned
  <2>4. verdict'[c] = "yes" => Here(c) \in sent
    BY <2>2, HereType, NoneAssumption DEF OutcomesWereAsked
  <2>5. Earned(c)'
    BY <2>1, <2>2, <2>3, <2>4
       DEF Earned, Executed, Here, KindIs, Position, Async, Approving, Executing
  <2>6. QED
    BY <2>1, <2>5, OthersEarned DEF OwnService, OutcomesWereAsked
<1>6. ASSUME \/ \E c \in Calls : \/ AsyncRegister(c) \/ AsyncAccepted(c)
                                 \/ ToolDeadline(c) \/ StepDeadline(c) \/ ClientGone(c)
             \/ \E a \in Attempts, v \in Verdicts : Callback(a, v)
             \/ \E k \in Keys : Forget(k)
             \/ UNCHANGED vars
      PROVE  OutcomesWereAsked' /\ AllEarned'
  <2>1. UNCHANGED <<sent, outcome, pc, step, verdict>>
    BY <1>6 DEF AsyncRegister, AsyncAccepted, ToolDeadline, StepDeadline, ClientGone, Callback,
                Forget, Store!Register, Store!Resolve, vars
  <2>2. QED
    BY <2>1 DEF OutcomesWereAsked, AllEarned, Earned, Executed, Here, KindIs
<1>7. QED
  BY <1>1, <1>2, <1>3, <1>4, <1>5, <1>6 DEF Next, Prompt, AsyncStep, Foreign, Terminated

-----------------------------------------------------------------------------
(* Approvals.                                                              *)

\* A call may lose an approval of the approver it is at, but gains none.
Gains(c) ==
    pc'[c] = "approve" /\ verdict'[c] = "yes" /\ ~Late(c)'
      => pc[c] = "approve" /\ verdict[c] = "yes" /\ ~Late(c)

LEMMA StillAllowed ==
    ASSUME AllAllowed, NEW d \in Calls, UNCHANGED step[d], allowed \subseteq allowed', Gains(d)
    PROVE  Allowed(d)'
BY DEF AllAllowed, Allowed, Gains, Here

\* An approver or executor returns.
LEMMA ReturnAllowed ==
    ASSUME TypeOK, AllAllowed, NEW c \in Calls, NEW v, Return(c, v)
    PROVE  AllAllowed'
<1>1. UNCHANGED <<pc, step, ctx, stepCtx>> /\ allowed \subseteq allowed'
      /\ verdict' = [verdict EXCEPT ![c] = v]
  BY DEF Return
<1>2. \A d \in Calls : Late(d)' = Late(d)
  BY <1>1 DEF Late, StepTimed
<1>3. ASSUME NEW d \in Calls, d # c PROVE Allowed(d)'
  BY <1>1, <1>2, <1>3, StillAllowed DEF Gains, TypeOK
<1>4. Allowed(c)'
  <2>1. verdict'[c] = v
    BY <1>1 DEF TypeOK
  <2>2. pc[c] = "approve" /\ v = "yes" /\ ~Late(c) => Here(c) \in allowed'
    BY DEF Return
  <2> QED BY <1>1, <1>2, <2>1, <2>2 DEF AllAllowed, Allowed, Here
<1> QED BY <1>3, <1>4 DEF AllAllowed

LEMMA NextAllowed == TypeOK /\ Position /\ AllAllowed /\ [Next]_vars => AllAllowed'
<1> SUFFICES ASSUME TypeOK, Position, AllAllowed, [Next]_vars
             PROVE  AllAllowed'
  OBVIOUS
<1> USE DEF callVars
<1>1. ASSUME NEW c \in Calls,
             \/ LimitsDeny(c) \/ LimitsApprove(c) \/ SyncDecide(c) \/ SyncNoStart(c)
             \/ AsyncInvalid(c) \/ AsyncRefused(c) \/ AsyncReturn(c)
      PROVE  AllAllowed'
  <2>1. \E v : Return(c, v)
    BY <1>1 DEF LimitsDeny, LimitsApprove, SyncDecide, SyncNoStart, AsyncInvalid, AsyncRefused,
                AsyncReturn
  <2> QED BY <2>1, ReturnAllowed
<1>2. ASSUME NEW c \in Calls, ChainNext(c)
      PROVE  AllAllowed'
  <2>1. /\ pc[c] = "approve" /\ verdict[c] = "yes" /\ ~Late(c)
        /\ step' = [step EXCEPT ![c] = step[c] + 1]
        /\ verdict' = [verdict EXCEPT ![c] = None]
        /\ stepCtx' = [stepCtx EXCEPT ![c] = "live"]
        /\ pc' = [pc EXCEPT ![c] = IF step[c] = Len(ChainOf(c)) THEN "execute" ELSE "approve"]
        /\ UNCHANGED <<ctx, allowed>>
    BY <1>2 DEF ChainNext, Wrapped
  <2>2. ASSUME NEW d \in Calls, d # c PROVE Allowed(d)'
    <3>1. /\ pc'[d] = pc[d] /\ step'[d] = step[d] /\ verdict'[d] = verdict[d]
          /\ ctx'[d] = ctx[d] /\ stepCtx'[d] = stepCtx[d]
      BY <2>1, <2>2 DEF TypeOK
    <3>2. Late(d)' = Late(d)
      BY <3>1 DEF Late, StepTimed
    <3> QED BY <2>1, <3>1, <3>2, StillAllowed DEF Gains
  <2>3. Allowed(c)'
    <3>1. /\ verdict'[c] = None /\ step'[c] = step[c] + 1 /\ step[c] \in Nat
      BY <2>1 DEF TypeOK
    <3>2. Here(c) \in allowed /\ Here(c) = <<c, step[c]>>
      BY <2>1 DEF AllAllowed, Allowed, Here
    <3>3. ASSUME NEW k \in DOMAIN ChainOf(c), k < step[c] + 1 PROVE <<c, k>> \in allowed
      <4>1. k \in Nat
        BY ChainType
      <4>2. k < step[c] \/ k = step[c]
        BY <3>1, <3>3, <4>1
      <4> QED BY <3>2, <4>2 DEF AllAllowed, Allowed
    <3> QED BY <2>1, <3>1, <3>3, NoneAssumption DEF Allowed
  <2> QED BY <2>2, <2>3 DEF AllAllowed
\* The clocks.
<1>3. ASSUME NEW c \in Calls, ToolDeadline(c) \/ StepDeadline(c) \/ ClientGone(c)
      PROVE  AllAllowed'
  <2>1. UNCHANGED <<pc, step, verdict, allowed>>
    BY <1>3 DEF ToolDeadline, StepDeadline, ClientGone
  <2>2. ASSUME NEW d \in Calls PROVE Late(d) => Late(d)'
    <3>1. /\ ctx[d] = "deadline" => ctx'[d] = "deadline"
          /\ stepCtx[d] = "deadline" => stepCtx'[d] = "deadline"
      BY <1>3 DEF ToolDeadline, StepDeadline, ClientGone, TypeOK
    <3> QED BY <2>1, <3>1 DEF Late, StepTimed
  <2> QED BY <2>1, <2>2, StillAllowed DEF Gains, AllAllowed
\* Elsewhere nothing is approved.
<1>4. ASSUME NEW c \in Calls,
             \/ SyncStart(c) \/ SyncEnd(c) \/ ChainStop(c) \/ ExecFailed(c) \/ ExecOk(c)
             \/ Receive(c) \/ ReceiveCached(c)
      PROVE  AllAllowed'
  <2>1. UNCHANGED <<step, ctx, stepCtx, allowed>> /\ OwnStep(c)
    BY <1>4 DEF SyncStart, SyncEnd, ChainStop, ExecFailed, ExecOk, Receive, ReceiveCached, Finish,
                OwnStep, TypeOK
  <2>2. ~(pc'[c] = "approve" /\ verdict'[c] = "yes")
    <3>1. CASE SyncStart(c) \/ SyncEnd(c)
      BY <3>1 DEF SyncStart, SyncEnd, TypeOK
    <3>2. CASE ChainStop(c) \/ ExecFailed(c) \/ ExecOk(c) \/ ReceiveCached(c)
      BY <3>2 DEF ChainStop, ExecFailed, ExecOk, ReceiveCached, Finish, TypeOK
    <3>3. CASE Receive(c)
      BY <3>3, NoneAssumption DEF Receive, Finish, TypeOK, Position
    <3> QED BY <1>4, <3>1, <3>2, <3>3
  <2>3. Allowed(c)'
    BY <2>1, <2>2, StillAllowed DEF Gains
  <2>4. ASSUME NEW d \in Calls, d # c PROVE Allowed(d)'
    <3>1. Late(d)' = Late(d) /\ pc'[d] = pc[d] /\ verdict'[d] = verdict[d]
      BY <2>1, <2>4 DEF OwnStep, Late, StepTimed
    <3> QED BY <2>1, <3>1, StillAllowed DEF Gains
  <2> QED BY <2>3, <2>4 DEF AllAllowed
<1>5. ASSUME \/ \E c \in Calls : \/ AsyncRegister(c) \/ AsyncSend(c) \/ AsyncAccepted(c)
                                 \/ AsyncPosted(c) \/ AsyncTake(c) \/ AsyncTimeout(c)
             \/ \E a \in Attempts, v \in Verdicts : Callback(a, v)
             \/ \E k \in Keys : Forget(k)
             \/ UNCHANGED vars
      PROVE  AllAllowed'
  <2>1. UNCHANGED <<pc, step, verdict, ctx, stepCtx, allowed>>
    BY <1>5 DEF AsyncRegister, AsyncSend, AsyncAccepted, AsyncPosted, AsyncTake, AsyncTimeout,
                Callback, Forget, vars
  <2> QED BY <2>1 DEF AllAllowed, Allowed, Here, Late, StepTimed
<1> QED BY <1>1, <1>2, <1>3, <1>4, <1>5 DEF Next, Prompt, AsyncStep, Foreign, Terminated

-----------------------------------------------------------------------------
(* Responses and the cache.                                                *)

\* A call that ends with a true response.
LEMMA FinishTrue ==
    ASSUME TypeOK, Answers, NEW c \in Calls, NEW r, Finish(c, r),
           pc[c] # "done", r.kind # "none", UNCHANGED <<sent, forgotten>>,
           r.kind \in {"denied", "cached"} => ~Executed(c),
           r.kind = "timeout" => ctx[c] = "deadline",
           r.kind = "success" =>
             /\ Executed(c) /\ r = Reply("success", c)
             /\ cache' = [k \in Keys |-> IF k = CacheKey(c) THEN c ELSE cache[k]],
           r.kind # "success" => UNCHANGED cache
    PROVE  Answers'
<1>1. /\ pc'[c] = "done" /\ reply'[c] = r /\ UNCHANGED ctx
      /\ \A d \in Calls \ {c} : pc'[d] = pc[d] /\ reply'[d] = reply[d]
  BY DEF Finish, TypeOK
<1>2. RepliesAreTrue'
  BY <1>1 DEF Answers, RepliesAreTrue, Executed, Reply
<1>3. ASSUME NEW k \in Keys, cache[k] # None
      PROVE  cache[k] # c /\ cache[k] \in Calls
  <2>1. cache[k] \in Calls /\ reply[cache[k]] = Reply("success", cache[k])
    BY <1>3 DEF Answers, CacheIsSound, TypeOK
  <2>2. reply[cache[k]].kind # "none"
    BY <2>1 DEF Reply
  <2>3. QED
    BY <2>1, <2>2 DEF Answers, RepliesAreTrue
<1>4. CacheIsSound'
  <2>1. CASE r.kind = "success"
    BY <1>1, <1>3, <2>1 DEF Answers, CacheIsSound, Executed
  <2>2. CASE r.kind # "success"
    BY <1>1, <1>3, <2>2 DEF Answers, CacheIsSound, Executed
  <2>3. QED
    BY <2>1, <2>2
<1>5. SuccessIsCached'
  <2> SUFFICES ASSUME NEW d \in Calls, reply'[d].kind = "success",
                      CacheKey(d) # None, CacheKey(d) \notin forgotten
               PROVE  cache'[CacheKey(d)] # None
    BY DEF SuccessIsCached
  <2>1. CacheKey(d) \in Keys
    BY DEF Keys
  <2>2. CASE d = c
    BY <1>1, <2>1, <2>2, NoneAssumption
  <2>3. CASE d # c /\ r.kind = "success"
    BY <1>1, <2>1, <2>3, NoneAssumption DEF Answers, SuccessIsCached
  <2>4. CASE d # c /\ r.kind # "success"
    BY <1>1, <2>1, <2>4 DEF Answers, SuccessIsCached
  <2>5. QED
    BY <2>2, <2>3, <2>4
<1>6. QED
  BY <1>2, <1>4, <1>5 DEF Answers

LEMMA NextAnswers ==
    TypeOK /\ Position /\ AllEarned /\ Answers /\ [Next]_vars => Answers'
<1> SUFFICES ASSUME TypeOK, Position, AllEarned, Answers, [Next]_vars
             PROVE  Answers'
  OBVIOUS
<1> USE DEF callVars, storeVars, serviceVars, cacheVars
<1>1. ASSUME NEW c \in Calls, ReceiveCached(c)
      PROVE  Answers'
  <2>1. ~Executed(c) /\ pc[c] = "idle"
    BY <1>1 DEF AllEarned, Earned, ReceiveCached
  <2>2. QED
    BY <1>1, <2>1, FinishTrue, Zenon DEF ReceiveCached, Reply
<1>2. ASSUME NEW c \in Calls, Receive(c)
      PROVE  Answers'
  <2>1. ~Executed(c) /\ pc[c] = "idle"
    BY <1>2 DEF AllEarned, Earned, Receive
  <2>2. CASE NeedsApproval(c) /\ ChainOf(c) = <<>>
    BY <1>2, <2>1, <2>2, FinishTrue DEF Receive, Reply
  <2>3. CASE ~(NeedsApproval(c) /\ ChainOf(c) = <<>>)
    <3>1. /\ UNCHANGED <<reply, ctx, sent, cache, forgotten>>
          /\ pc' = [pc EXCEPT ![c] = IF NeedsApproval(c) THEN "approve" ELSE "execute"]
      BY <1>2, <2>3 DEF Receive
    <3>2. \A d \in Calls : pc'[d] = "done" <=> pc[d] = "done"
      BY <2>1, <3>1 DEF TypeOK
    <3>3. QED
      BY <3>1, <3>2 DEF Answers, RepliesAreTrue, CacheIsSound, SuccessIsCached, Executed
  <2>4. QED
    BY <2>2, <2>3
<1>3. ASSUME NEW c \in Calls, ChainStop(c)
      PROVE  Answers'
  <2>1. ~Executed(c) /\ pc[c] = "approve"
    BY <1>3 DEF AllEarned, Earned, ChainStop
  <2>2. PICK kind \in {"denied", "error"} : Finish(c, OrTimeout(c, kind))
    BY <1>3 DEF ChainStop
  <2>3. UNCHANGED <<cache, forgotten, sent>>
    BY <1>3 DEF ChainStop
  <2>4. QED
    BY <2>1, <2>2, <2>3, FinishTrue DEF OrTimeout, Reply
<1>4. ASSUME NEW c \in Calls, ExecFailed(c)
      PROVE  Answers'
  BY <1>4, FinishTrue DEF ExecFailed, OrTimeout, Reply
<1>5. ASSUME NEW c \in Calls, ExecOk(c)
      PROVE  Answers'
  <2>1. Executed(c)
    BY <1>5 DEF ExecOk, AllEarned, Earned
  <2>2. QED
    BY <1>5, <2>1, FinishTrue DEF ExecOk, Reply
<1>6. ASSUME NEW c \in Calls, SyncStart(c) \/ AsyncSend(c)
      PROVE  Answers'
  <2>1. /\ UNCHANGED <<reply, ctx, cache, forgotten>> /\ sent' = sent \cup {Here(c)}
        /\ pc[c] # "done" /\ \A d \in Calls : pc'[d] = "done" <=> pc[d] = "done"
    BY <1>6 DEF SyncStart, AsyncSend, Posting, Async, Approving, Executing, TypeOK
  <2>2. \A d \in Calls : d # c => (<<d, ExecStep(d)>> \in sent' <=> <<d, ExecStep(d)>> \in sent)
    BY <2>1 DEF Here
  <2>3. RepliesAreTrue'
    BY <2>1, <2>2 DEF Answers, RepliesAreTrue, Executed
  <2>4. QED
    BY <2>1, <2>3 DEF Answers, CacheIsSound, SuccessIsCached, Executed
<1>7. ASSUME NEW c \in Calls, ToolDeadline(c) \/ ClientGone(c) \/ SyncEnd(c) \/ ChainNext(c)
      PROVE  Answers'
  <2>1. /\ UNCHANGED <<reply, cache, forgotten, sent>>
        /\ \A d \in Calls : (pc'[d] = "done" <=> pc[d] = "done")
                            /\ (ctx[d] = "deadline" => ctx'[d] = "deadline")
    BY <1>7 DEF ToolDeadline, ClientGone, SyncEnd, ChainNext, TypeOK
  <2>2. QED
    BY <2>1 DEF Answers, RepliesAreTrue, CacheIsSound, SuccessIsCached, Executed
<1>8. ASSUME NEW k \in Keys, Forget(k)
      PROVE  Answers'
  <2>1. /\ UNCHANGED <<reply, ctx, pc, sent>> /\ forgotten' = forgotten \cup {k}
        /\ cache'[k] = None /\ \A j \in Keys \ {k} : cache'[j] = cache[j]
    BY <1>8 DEF Forget, TypeOK
  <2>2. \A c \in Calls : CacheKey(c) # None => CacheKey(c) \in Keys
    BY DEF Keys
  <2>3. QED
    BY <2>1, <2>2 DEF Answers, RepliesAreTrue, CacheIsSound, SuccessIsCached, Executed
<1>9. ASSUME \/ \E c \in Calls :
                  \/ LimitsDeny(c) \/ LimitsApprove(c) \/ SyncDecide(c) \/ SyncNoStart(c)
                  \/ AsyncInvalid(c) \/ AsyncRegister(c) \/ AsyncRefused(c)
                  \/ AsyncAccepted(c) \/ AsyncPosted(c)
                  \/ AsyncTake(c) \/ AsyncTimeout(c) \/ AsyncReturn(c) \/ StepDeadline(c)
             \/ \E a \in Attempts, v \in Verdicts : Callback(a, v)
             \/ UNCHANGED vars
      PROVE  Answers'
  <2>1. UNCHANGED <<pc, reply, ctx, cache, forgotten, sent>>
    BY <1>9 DEF LimitsDeny, LimitsApprove, SyncDecide, SyncNoStart, AsyncInvalid, AsyncRegister,
                AsyncRefused, AsyncAccepted, AsyncPosted, AsyncTake, AsyncTimeout, AsyncReturn,
                StepDeadline, Return, Callback, vars
  <2>2. QED
    BY <2>1 DEF Answers, RepliesAreTrue, CacheIsSound, SuccessIsCached, Executed
<1>10. QED
  BY <1>1, <1>2, <1>3, <1>4, <1>5, <1>6, <1>7, <1>8, <1>9
     DEF Next, Prompt, AsyncStep, Foreign, Terminated

-----------------------------------------------------------------------------
(* The counters.                                                           *)

LEMMA InitCount == Init => CountIsExact
<1> SUFFICES ASSUME Init, NEW l \in Limits
             PROVE  IsFiniteSet(Passed(l)) /\ Cardinality(Passed(l)) = used[l]
  BY DEF CountIsExact
<1>1. l[2] \in Nat \ {0}
  <2>1. l[1] \in Tools /\ l[2] \in DOMAIN Chain[l[1]]
    BY LimitsType
  <2>2. QED
    BY <2>1, PlacesOfTools
<1>2. Passed(l) = {}
  BY <1>1, NoneAssumption DEF Passed, PassedAt, Init
<1>3. QED
  BY <1>2, FS_EmptySet DEF Init

\* A step of a call that no limits approver lets through in it.
LEMMA CountUnmoved ==
    ASSUME CountIsExact, NEW c \in Calls, OwnStep(c), UNCHANGED used,
           \A l \in Limits : ToolOf[c] = l[1] => (PassedAt(c, l[2])' <=> PassedAt(c, l[2]))
    PROVE  CountIsExact'
<1> SUFFICES ASSUME NEW l \in Limits
             PROVE  Passed(l)' = Passed(l)
  BY DEF CountIsExact
<1>1. ASSUME NEW d \in Calls, ToolOf[d] = l[1]
      PROVE  PassedAt(d, l[2])' <=> PassedAt(d, l[2])
  BY <1>1 DEF OwnStep, PassedAt
<1>2. QED
  BY <1>1 DEF Passed

LEMMA NextCount == TypeOK /\ Position /\ CountIsExact /\ [Next]_vars => CountIsExact'
<1> SUFFICES ASSUME TypeOK, Position, CountIsExact, [Next]_vars
             PROVE  CountIsExact'
  OBVIOUS
<1> USE DEF callVars
<1>1. ASSUME NEW c \in Calls, LimitsApprove(c)
      PROVE  CountIsExact'
  <2>0. PICK m \in Limits : m = <<ToolOf[c], step[c]>>
    BY <1>1, ChainType, LimitsType DEF LimitsApprove, Approving, KindIs, TypeOK, Position
  <2>1. /\ m = <<ToolOf[c], step[c]>> /\ used' = [used EXCEPT ![m] = @ + 1]
        /\ UNCHANGED step /\ verdict' = [verdict EXCEPT ![c] = "yes"] /\ verdict[c] = None
    BY <1>1, <2>0 DEF LimitsApprove, Return, Approving
  <2>2. ASSUME NEW d \in Calls, NEW k \in Nat, <<ToolOf[d], k>> # m \/ d # c
        PROVE  PassedAt(d, k)' <=> PassedAt(d, k)
    BY <2>1, <2>2, NoneAssumption DEF PassedAt, TypeOK
  <2>3. PassedAt(c, step[c])' /\ ~PassedAt(c, step[c])
    BY <2>1, NoneAssumption DEF PassedAt, TypeOK
  <2>4. \A l \in Limits : l[2] \in Nat /\ l = <<l[1], l[2]>>
    BY LimitsType, ConfigAssumption
  <2>5. ASSUME NEW l \in Limits, l # m
        PROVE  Passed(l)' = Passed(l)
    BY <2>2, <2>4, <2>5 DEF Passed
  <2>6. Passed(m)' = Passed(m) \cup {c} /\ c \notin Passed(m)
    BY <2>2, <2>3, <2>4, <2>1 DEF Passed
  <2>7. /\ IsFiniteSet(Passed(m)) /\ Cardinality(Passed(m)) = used[m]
        /\ used'[m] = used[m] + 1 /\ \A l \in Limits : l # m => used'[l] = used[l]
    BY <2>1 DEF CountIsExact, TypeOK
  <2>8. IsFiniteSet(Passed(m)') /\ Cardinality(Passed(m)') = used'[m]
    BY <2>6, <2>7, FS_AddElement
  <2>9. ASSUME NEW l \in Limits, l # m
        PROVE  IsFiniteSet(Passed(l)') /\ Cardinality(Passed(l)') = used'[l]
    BY <2>5, <2>7, <2>9 DEF CountIsExact
  <2>10. \A l \in Limits : IsFiniteSet(Passed(l)') /\ Cardinality(Passed(l)') = used'[l]
    BY <2>8, <2>9
  <2>11. QED
    BY <2>10, Zenon DEF CountIsExact
<1>2. ASSUME NEW c \in Calls, LimitsDeny(c) \/ SyncDecide(c) \/ AsyncInvalid(c)
                              \/ AsyncRefused(c) \/ AsyncReturn(c)
      PROVE  CountIsExact'
  <2>1. OwnStep(c) /\ UNCHANGED <<used, step>> /\ verdict[c] = None
    BY <1>2 DEF OwnStep, TypeOK, LimitsDeny, SyncDecide, AsyncInvalid, AsyncRefused, AsyncReturn,
                Return, Async, Approving, Executing
  <2>2. \/ verdict'[c] # "yes"
        \/ pc[c] = "approve" /\ ~KindIs(c, "limits")
        \/ pc[c] = "execute"
    BY <1>2, NoneAssumption
       DEF LimitsDeny, SyncDecide, AsyncInvalid, AsyncRefused, AsyncReturn, Return, TypeOK,
           Async, Approving, Executing, KindIs
  <2>3. ASSUME NEW l \in Limits, ToolOf[c] = l[1], verdict'[c] = "yes"
        PROVE  step[c] # l[2]
    BY <2>2, <2>3, ChainType DEF Limits, KindIs, ChainOf, Position, TypeOK
  <2>4. QED
    BY <2>1, <2>3, NoneAssumption, CountUnmoved DEF PassedAt
<1>3. ASSUME NEW c \in Calls, ChainNext(c)
      PROVE  CountIsExact'
  <2>1. /\ OwnStep(c) /\ UNCHANGED used
        /\ verdict[c] = "yes" /\ verdict'[c] = None /\ step'[c] = step[c] + 1 /\ step[c] \in Nat
    BY <1>3 DEF ChainNext, Wrapped, OwnStep, TypeOK
  <2>2. \A l \in Limits : l[2] \in Nat
    BY LimitsType, ConfigAssumption
  <2>3. \A k \in Nat : PassedAt(c, k)' <=> PassedAt(c, k)
    BY <2>1, NoneAssumption DEF PassedAt
  <2>4. QED
    BY <2>1, <2>2, <2>3, CountUnmoved
<1>4. ASSUME NEW c \in Calls, SyncNoStart(c) \/ SyncEnd(c)
      PROVE  CountIsExact'
  <2>1. /\ OwnStep(c) /\ UNCHANGED <<used, step>> /\ step[c] = ExecStep(c)
    BY <1>4 DEF SyncNoStart, SyncEnd, Executing, Return, OwnStep, TypeOK, Position
  <2>2. \A l \in Limits : ToolOf[c] = l[1] => l[2] < step[c] /\ l[2] \in Nat
    BY <2>1, ChainType, LimitsType DEF ChainOf
  <2>3. QED
    BY <2>1, <2>2, CountUnmoved DEF PassedAt
<1>5. ASSUME UNCHANGED <<step, verdict, used>>
      PROVE  CountIsExact'
  BY <1>5 DEF CountIsExact, Passed, PassedAt
<1>6. ASSUME \/ \E c \in Calls :
                  \/ SyncStart(c) \/ AsyncRegister(c) \/ AsyncSend(c) \/ AsyncAccepted(c)
                  \/ AsyncPosted(c) \/ AsyncTake(c) \/ AsyncTimeout(c)
                  \/ ToolDeadline(c) \/ StepDeadline(c) \/ ClientGone(c)
                  \/ Receive(c) \/ ReceiveCached(c)
                  \/ ChainStop(c) \/ ExecFailed(c) \/ ExecOk(c)
             \/ \E a \in Attempts, v \in Verdicts : Callback(a, v)
             \/ \E k \in Keys : Forget(k)
             \/ UNCHANGED vars
      PROVE  UNCHANGED <<step, verdict, used>>
  BY <1>6 DEF SyncStart, AsyncRegister, AsyncSend, AsyncAccepted, AsyncPosted, AsyncTake,
              AsyncTimeout, ToolDeadline, StepDeadline, ClientGone, Receive, ReceiveCached,
              ChainStop, ExecFailed, ExecOk, Finish, Callback, Forget, vars
<1>7. QED
  BY <1>1, <1>2, <1>3, <1>4, <1>5, <1>6 DEF Next, Prompt, AsyncStep, Foreign, Terminated

-----------------------------------------------------------------------------
(* Where answers come from.                                                *)

\* What is known of the answers when no callback arrives and no wait ends.
LEMMA UnansweredStep ==
    ASSUME TypeOK, Traced, UNCHANGED <<answer, source, decided, delivered>>,
           sent \subseteq sent',
           \A a \in Attempts : phase'[a] = "idle" => phase[a] = "idle",
           \A a \in Attempts : outcome'[a].kind = "received" =>
               answer[a] # None /\ outcome'[a].verdict = answer[a],
           \A s \in Slots : table'[s] # None => source[table'[s]] = None
    PROVE  Traced'
<1>1. AnswerHasSource'
  BY DEF Traced, AnswerHasSource
<1>2. OpenIsUnanswered'
  BY DEF Traced, OpenIsUnanswered
<1>3. TwiceIsCounted'
  BY DEF Traced, TwiceIsCounted
<1>4. QED
  BY <1>1, <1>2, <1>3 DEF Traced

LEMMA CallbackTraced ==
    ASSUME TypeOK, SlotsAreHere, Traced, NEW a \in Attempts, NEW v \in Verdicts, Callback(a, v)
    PROVE  Traced'
<1> DEFINE t == table[SlotOf[a]]
<1>1. /\ t \in Attempts /\ SlotOf[t] = SlotOf[a] /\ phase[t] # "idle" /\ source[t] = None
      /\ SlotOf[a] \in Slots
  BY SlotType DEF Callback, Store!Resolve, TypeOK, SlotsAreHere, Traced, OpenIsUnanswered
<1>2. /\ a \in sent /\ decided[a] \in {None, v}
      /\ answer' = [answer EXCEPT ![t] = v] /\ source' = [source EXCEPT ![t] = a]
      /\ table' = [table EXCEPT ![SlotOf[a]] = None]
      /\ decided' = [decided EXCEPT ![a] = v]
      /\ delivered' = [delivered EXCEPT ![a] = @ + 1]
      /\ UNCHANGED <<phase, outcome, sent>>
  BY DEF Callback, Store!Resolve
<1>3. v # None /\ a # None
  BY NoneAssumption DEF Verdicts
<1>4. \A b \in Attempts : delivered[b] \in Nat /\ delivered'[b] \in Nat /\ delivered'[b] >= delivered[b]
  BY <1>2, BoundsAssumption DEF TypeOK
<1>5. AnswerHasSource'
  <2> SUFFICES ASSUME NEW b \in Attempts
               PROVE  AnswerHasSource!(b)'
    BY DEF AnswerHasSource
  <2>1. CASE b = t
    <3>1. /\ source'[b] = a /\ answer'[b] = v /\ decided'[a] = v
          /\ delivered'[a] = delivered[a] + 1
      BY <1>1, <1>2, <2>1 DEF TypeOK
    <3>2. outcome[b].kind # "received"
      BY <1>1, <2>1 DEF Traced, AnswerHasSource
    <3>3. QED
      BY <1>1, <1>2, <1>3, <1>4, <2>1, <3>1, <3>2
  <2>2. CASE b # t
    <3>1. source'[b] = source[b] /\ answer'[b] = answer[b]
      BY <1>2, <2>2 DEF TypeOK
    <3>2. source[b] # None => decided'[source[b]] = decided[source[b]]
      BY <1>2 DEF Traced, AnswerHasSource, TypeOK
    <3>3. source[b] # None => delivered'[source[b]] > 0
      BY <1>4 DEF Traced, AnswerHasSource, TypeOK
    <3>4. QED
      BY <1>2, <3>1, <3>2, <3>3 DEF Traced, AnswerHasSource
  <2>3. QED
    BY <2>1, <2>2
<1>6. OpenIsUnanswered'
  <2>1. \A b \in Attempts : phase'[b] = "idle" => source'[b] = None
    BY <1>1, <1>2 DEF Traced, OpenIsUnanswered, TypeOK
  <2>2. ASSUME NEW s \in Slots, table'[s] # None
        PROVE  source'[table'[s]] = None
    <3>1. s # SlotOf[a] /\ table'[s] = table[s]
      BY <1>2, <2>2 DEF TypeOK
    <3>2. table[s] # t
      BY <1>1, <2>2, <3>1 DEF SlotsAreHere
    <3>3. QED
      BY <1>2, <2>2, <3>1, <3>2 DEF Traced, OpenIsUnanswered, TypeOK
  <2>3. QED
    BY <2>1, <2>2 DEF OpenIsUnanswered
<1>7. TwiceIsCounted'
  <2> SUFFICES ASSUME NEW b \in Attempts, NEW d \in Attempts, b # d,
                      source'[b] = source'[d], source'[b] # None
               PROVE  delivered'[source'[b]] > 1
    BY DEF TwiceIsCounted
  <2>1. ASSUME NEW e \in Attempts, source[e] = a
        PROVE  delivered'[a] > 1
    <3>1. delivered[a] > 0
      BY <1>3, <2>1 DEF Traced, AnswerHasSource
    <3>2. delivered'[a] = delivered[a] + 1
      BY <1>2 DEF TypeOK
    <3>3. QED
      BY <1>4, <3>1, <3>2
  <2>2. CASE b = t
    BY <1>1, <1>2, <2>1, <2>2 DEF TypeOK
  <2>3. CASE d = t
    BY <1>1, <1>2, <2>1, <2>3 DEF TypeOK
  <2>4. CASE b # t /\ d # t
    <3>1. source'[b] = source[b] /\ source'[d] = source[d]
      BY <1>2, <2>4 DEF TypeOK
    <3>2. source[b] \in Attempts /\ delivered[source[b]] > 1
      BY <3>1 DEF Traced, TwiceIsCounted, TypeOK
    <3>3. QED
      BY <1>4, <3>1, <3>2
  <2>5. QED
    BY <2>2, <2>3, <2>4
<1>8. QED
  BY <1>5, <1>6, <1>7 DEF Traced

LEMMA NextTraced == TypeOK /\ SlotsAreHere /\ Traced /\ [Next]_vars => Traced'
<1> SUFFICES ASSUME TypeOK, SlotsAreHere, Traced, [Next]_vars
             PROVE  Traced'
  OBVIOUS
<1> USE DEF storeVars, serviceVars
<1>0. /\ \A a \in Attempts : outcome[a].kind = "received" =>
           answer[a] # None /\ outcome[a].verdict = answer[a]
      /\ \A s \in Slots : table[s] # None => source[table[s]] = None
  BY DEF Traced, AnswerHasSource, OpenIsUnanswered
<1>1. CASE UNCHANGED <<storeVars, decided, delivered, source>> /\ sent \subseteq sent'
  BY <1>0, <1>1, UnansweredStep
<1>2. ASSUME NEW c \in Calls, AsyncRegister(c)
      PROVE  Traced'
  <2>1. /\ phase[Here(c)] = "idle" /\ phase' = [phase EXCEPT ![Here(c)] = "open"]
        /\ table' = [table EXCEPT ![SlotOf[Here(c)]] = Here(c)]
        /\ UNCHANGED <<answer, outcome, serviceVars>>
    BY <1>2 DEF AsyncRegister, Store!Register
  <2>2. \A a \in Attempts : phase'[a] = "idle" => phase[a] = "idle"
    BY <2>1, HereType DEF TypeOK
  <2>3. source[Here(c)] = None
    BY <2>1, HereType DEF Traced, OpenIsUnanswered
  <2>4. \A s \in Slots : table'[s] # None => source[table'[s]] = None
    BY <1>0, <2>1, <2>3 DEF TypeOK
  <2>5. QED
    BY <1>0, <2>1, <2>2, <2>4, UnansweredStep
<1>3. ASSUME NEW c \in Calls, AsyncRefused(c)
      PROVE  Traced'
  <2>1. /\ phase' = [phase EXCEPT ![Here(c)] = "gone"]
        /\ outcome' = [outcome EXCEPT ![Here(c)] = [kind |-> "refused", verdict |-> None]]
        /\ UNCHANGED <<table, answer, serviceVars>>
    BY <1>3 DEF AsyncRefused, Store!Refuse
  <2>2. \A a \in Attempts : phase'[a] = "idle" => phase[a] = "idle"
    BY <2>1, HereType DEF TypeOK
  <2>3. \A a \in Attempts : outcome'[a].kind = "received" =>
            answer[a] # None /\ outcome'[a].verdict = answer[a]
    BY <1>0, <2>1, HereType DEF TypeOK
  <2>4. QED
    BY <1>0, <2>1, <2>2, <2>3, UnansweredStep
<1>4. ASSUME NEW c \in Calls, AsyncPosted(c) \/ AsyncTake(c) \/ AsyncTimeout(c)
      PROVE  Traced'
  <2>1. PICK o : /\ Store!EndAs(Here(c), o)
                 /\ o.kind = "received" => answer[Here(c)] # None /\ o.verdict = answer[Here(c)]
    <3>1. CASE AsyncPosted(c)
      BY <3>1 DEF AsyncPosted
    <3>2. CASE AsyncTake(c)
      BY <3>2 DEF AsyncTake, Store!Take, Store!FindRevoked
    <3>3. CASE AsyncTimeout(c)
      BY <3>3 DEF AsyncTimeout
    <3>4. QED
      BY <1>4, <3>1, <3>2, <3>3
  <2>2. /\ phase' = [phase EXCEPT ![Here(c)] = "left"]
        /\ outcome' = [outcome EXCEPT ![Here(c)] = o]
        /\ UNCHANGED <<table, answer>>
    BY <2>1 DEF Store!EndAs
  <2>3. UNCHANGED serviceVars
    BY <1>4 DEF AsyncPosted, AsyncTake, AsyncTimeout
  <2>4. \A a \in Attempts : phase'[a] = "idle" => phase[a] = "idle"
    BY <2>2, HereType DEF TypeOK
  <2>5. \A a \in Attempts : outcome'[a].kind = "received" =>
            answer[a] # None /\ outcome'[a].verdict = answer[a]
    BY <1>0, <2>1, <2>2, HereType DEF TypeOK
  <2>6. QED
    BY <1>0, <2>2, <2>3, <2>4, <2>5, UnansweredStep
<1>5. ASSUME NEW c \in Calls, AsyncReturn(c)
      PROVE  Traced'
  <2>1. /\ phase' = [phase EXCEPT ![Here(c)] = "gone"]
        /\ table' = [table EXCEPT ![SlotOf[Here(c)]] = None]
        /\ UNCHANGED <<answer, outcome, serviceVars>>
    BY <1>5 DEF AsyncReturn, Store!Cancel
  <2>2. \A a \in Attempts : phase'[a] = "idle" => phase[a] = "idle"
    BY <2>1, HereType DEF TypeOK
  <2>3. \A s \in Slots : table'[s] # None => source[table'[s]] = None
    BY <1>0, <2>1 DEF TypeOK
  <2>4. QED
    BY <1>0, <2>1, <2>2, <2>3, UnansweredStep
<1>6. ASSUME NEW a \in Attempts, NEW v \in Verdicts, Callback(a, v)
      PROVE  Traced'
  BY <1>6, CallbackTraced
<1>7. ASSUME NEW c \in Calls,
             \/ LimitsDeny(c) \/ LimitsApprove(c) \/ SyncDecide(c) \/ AsyncInvalid(c)
             \/ ChainNext(c) \/ ChainStop(c) \/ SyncStart(c) \/ SyncNoStart(c) \/ SyncEnd(c)
             \/ ExecFailed(c) \/ ExecOk(c) \/ Receive(c) \/ ReceiveCached(c)
             \/ AsyncSend(c) \/ AsyncAccepted(c)
             \/ ToolDeadline(c) \/ StepDeadline(c) \/ ClientGone(c)
      PROVE  UNCHANGED <<storeVars, decided, delivered, source>> /\ sent \subseteq sent'
  BY <1>7 DEF LimitsDeny, LimitsApprove, SyncDecide, AsyncInvalid, ChainNext, ChainStop,
              SyncStart, SyncNoStart, SyncEnd, ExecFailed, ExecOk, Receive, ReceiveCached,
              AsyncSend, AsyncAccepted, ToolDeadline, StepDeadline, ClientGone
<1>8. ASSUME (\E k \in Keys : Forget(k)) \/ UNCHANGED vars
      PROVE  UNCHANGED <<storeVars, decided, delivered, source>> /\ sent \subseteq sent'
  BY <1>8 DEF Forget, vars
<1>9. QED
  BY <1>1, <1>2, <1>3, <1>4, <1>5, <1>6, <1>7, <1>8
     DEF Next, Prompt, AsyncStep, Foreign, Terminated

-----------------------------------------------------------------------------
(* The theorems.                                                           *)

LEMMA InitIInv == Init => IInv
<1> SUFFICES ASSUME Init
             PROVE  IInv
  OBVIOUS
<1>1. SlotsAreHere /\ OutcomesWereAsked
  BY SlotType DEF Init, Store!Init, Store!NoOutcome, SlotsAreHere, OutcomesWereAsked
<1>2. AllEarned
  BY ChainType, NoneAssumption DEF Init, AllEarned, Earned, Executed
<1>3. Answers
  BY DEF Init, Answers, RepliesAreTrue, CacheIsSound, SuccessIsCached, NoReply, Reply
<1>4. Traced
  BY DEF Init, Store!Init, Store!NoOutcome, Traced, AnswerHasSource, OpenIsUnanswered,
         TwiceIsCounted
<1>5. AllAllowed
  BY ChainType DEF Init, AllAllowed, Allowed
<1>6. QED
  BY <1>1, <1>2, <1>3, <1>4, <1>5, InitTypes, InitCount DEF IInv

LEMMA NextIInv == IInv /\ [Next]_vars => IInv'
BY NextTypes, NextSlots, NextEarned, NextAllowed, NextAnswers, NextCount, NextTraced DEF IInv

LEMMA Invariance == Spec => []IInv
BY InitIInv, NextIInv, PTL DEF Spec

\* The handler's state, the counters, the cache and the slots of every call
\* stay in their types: the chain's index stays in the chain, the counters stay
\* within max_total, the slots hold attempts of calls (build.go:113-231).
THEOREM CallTypeCorrect == Spec => []TypeOK
<1>1. IInv => TypeOK
  BY DEF IInv
<1>2. QED
  BY <1>1, Invariance, PTL

\* A response tells what was done: a denial or a cached response means that the
\* executor was not reached, a success that it was, and nothing reaches the
\* executor before every approver of the chain has approved it, each before its
\* timeout, the async ones by the word of a service (build.go:151-231,
\* approver.go:39-54, timeout.go:20-38).
THEOREM RepliesTellTheTruth == Spec => []ReplyIsTrue
<1>1. IInv => ReplyIsTrue
  <2> SUFFICES ASSUME IInv, NEW c \in Calls
               PROVE  /\ reply[c].kind \in {"denied", "cached"} => ~Executed(c)
                      /\ reply[c].kind = "success" => Executed(c)
                      /\ Executed(c) =>
                           /\ \A k \in DOMAIN ChainOf(c) : <<c, k>> \in allowed
                           /\ \A k \in AsyncApprovers(c) : outcome[<<c, k>>].verdict = "yes"
                      /\ reply[c].kind = "timeout" => ctx[c] = "deadline"
    BY DEF ReplyIsTrue
  <2>1. Executed(c) => step[c] = ExecStep(c)
    BY DEF IInv, AllEarned, Earned
  <2>2. \A k \in AsyncApprovers(c) : k < ExecStep(c)
    BY ChainType
  <2>3. Executed(c) => \A k \in AsyncApprovers(c) : outcome[<<c, k>>].verdict = "yes"
    BY <2>1, <2>2 DEF IInv, AllEarned, Earned
  <2>4. Executed(c) => \A k \in DOMAIN ChainOf(c) : <<c, k>> \in allowed
    <3>1. \A k \in DOMAIN ChainOf(c) : k < ExecStep(c)
      BY ChainType
    <3> QED BY <2>1, <3>1 DEF IInv, AllAllowed, Allowed
  <2>5. QED
    BY <2>3, <2>4 DEF IInv, Answers, RepliesAreTrue
<1>2. QED
  BY <1>1, Invariance, PTL

\* A slot in one of the two stores belongs to the attempt its call is making
\* now, so that a chain never finds its own id taken (http.go:135-143).
THEOREM SlotsAreReleased == Spec => []OwnSlotsReleased
<1>1. IInv => OwnSlotsReleased
  <2> SUFFICES ASSUME IInv, NEW s \in Slots, table[s] # None
               PROVE  /\ table[s] = Here(table[s][1])
                      /\ verdict[table[s][1]] = None
                      /\ pc[table[s][1]] \in {"approve", "execute"}
    BY DEF OwnSlotsReleased
  <2>1. table[s] \in Attempts /\ phase[table[s]] \in {"open", "left"}
    BY DEF IInv, TypeOK, SlotsAreHere
  <2>2. table[s] = Here(table[s][1]) /\ Async(table[s][1])
    BY <2>1 DEF IInv, SlotsAreHere
  <2>3. QED
    BY <2>2 DEF Async, Approving, Executing
<1>2. QED
  BY <1>1, Invariance, PTL

\* A decision taken from a callback was given by a service of the same kind that
\* was asked under the same id, and another request's only if that one was not
\* waiting for it any more (async.go:45-58, build.go:118).
THEOREM DecisionsAreTraceable == Spec => []DecisionIsTraceable
<1>1. IInv => DecisionIsTraceable
  <2> SUFFICES ASSUME IInv, NEW a \in Attempts, outcome[a].kind = "received"
               PROVE  DecisionIsTraceable!(a)!2
    BY DEF DecisionIsTraceable
  <2>1. /\ source[a] # None /\ source[a] \in Attempts /\ source[a] \in sent
        /\ SlotOf[source[a]] = SlotOf[a]
        /\ outcome[a].verdict = decided[source[a]]
    BY DEF IInv, Traced, AnswerHasSource, TypeOK
  <2>2. ASSUME NEW x \in Attempts
        PROVE  /\ SlotOf[x][1] = "approval" <=> IsApproval(x)
               /\ SlotOf[x][2] = IdOf[x[1]]
    BY AttemptOf, ChainType DEF SlotOf, IsApproval
  <2>3. source[source[a]] = source[a] /\ source[a] # a => delivered[source[a]] > 1
    BY <2>1 DEF IInv, Traced, TwiceIsCounted
  <2>4. QED
    BY <2>1, <2>2, <2>3
<1>2. QED
  BY <1>1, Invariance, PTL

\* max_total holds for what reaches the executor, however calls interleave, are
\* repeated, fail or time out (limits.go:104-112).
THEOREM TotalIsRespected == Spec => []TotalRespected
<1>1. IInv => TotalRespected
  <2> SUFFICES ASSUME IInv, NEW l \in Limits
               PROVE  Cardinality({c \in Calls : ToolOf[c] = l[1] /\ Executed(c)}) <= MaxTotal
    BY DEF TotalRespected
  <2> DEFINE E == {c \in Calls : ToolOf[c] = l[1] /\ Executed(c)}
  <2>1. ASSUME NEW c \in E
        PROVE  c \in Passed(l)
    <3>1. step[c] = Len(Chain[l[1]]) + 1
      BY ChainType DEF IInv, AllEarned, Earned, ChainOf
    <3>2. l[2] \in 1..Len(Chain[l[1]])
      BY LimitsType, PlacesOfTools
    <3>3. QED
      BY <3>1, <3>2, ChainType DEF Passed, PassedAt, ChainOf
  <2>2. /\ IsFiniteSet(Passed(l)) /\ Cardinality(Passed(l)) = used[l]
        /\ used[l] \in Nat /\ used[l] <= MaxTotal
    BY BoundsAssumption DEF IInv, CountIsExact, TypeOK
  <2>3. E \in SUBSET Passed(l)
    BY <2>1
  <2>4. IsFiniteSet(E) /\ Cardinality(E) <= Cardinality(Passed(l))
    BY <2>2, <2>3, FS_Subset
  <2>5. Cardinality(E) \in Nat
    BY <2>4, FS_CardinalityType
  <2>6. QED
    BY <2>2, <2>4, <2>5, BoundsAssumption
<1>2. QED
  BY <1>1, Invariance, PTL

\* The cache holds responses of calls with that key that were executed and
\* answered with success, and nothing else (build.go:223-230).
THEOREM CacheHoldsSuccesses == Spec => []CacheIsSound
<1>1. IInv => CacheIsSound
  BY DEF IInv, Answers
<1>2. QED
  BY <1>1, Invariance, PTL

\* Only the two ways to receive a call start it.
LEMMA OnlyReceiveStarts ==
    ASSUME TypeOK, Next, NEW c \in Calls, pc[c] = "idle", pc'[c] # "idle"
    PROVE  Receive(c) \/ ReceiveCached(c)
<1> USE DEF callVars, TypeOK
<1>1. ASSUME NEW d \in Calls, Receive(d) \/ ReceiveCached(d)
      PROVE  d = c
  BY <1>1 DEF Receive, ReceiveCached, Finish
<1>2. ASSUME NEW d \in Calls, \/ SyncStart(d) \/ SyncEnd(d) \/ ChainNext(d)
                              \/ ChainStop(d) \/ ExecFailed(d) \/ ExecOk(d)
      PROVE  FALSE
  BY <1>2 DEF SyncStart, SyncEnd, ChainNext, ChainStop, ExecFailed, ExecOk, Finish, Executing
<1>3. ASSUME \/ \E d \in Calls :
                  \/ LimitsDeny(d) \/ LimitsApprove(d) \/ SyncDecide(d) \/ SyncNoStart(d)
                  \/ AsyncStep(d)
                  \/ ToolDeadline(d) \/ StepDeadline(d) \/ ClientGone(d)
             \/ \E a \in Attempts, v \in Verdicts : Callback(a, v)
             \/ \E k \in Keys : Forget(k)
             \/ Terminated
      PROVE  FALSE
  BY <1>3 DEF LimitsDeny, LimitsApprove, SyncDecide, SyncNoStart, AsyncStep, AsyncInvalid,
              AsyncRegister, AsyncRefused, AsyncSend, AsyncAccepted, AsyncPosted, AsyncTake,
              AsyncTimeout, AsyncReturn, ToolDeadline, StepDeadline, ClientGone, Return,
              Callback, Forget, Terminated, vars
<1>4. QED
  BY <1>1, <1>2, <1>3 DEF Next, Prompt, Foreign

\* A call that arrives after a call with its key was answered with success gets
\* the cached response, unless the cache has lost the key (build.go:133-142).
THEOREM RepeatsAreCached == Spec => RepeatIsNotExecuted
<1>1. ASSUME IInv, Next, NEW c \in Calls, NEW d \in Calls,
             pc[c] = "idle", pc'[c] # "idle", reply[d].kind = "success",
             CacheKey(c) # None, CacheKey(d) = CacheKey(c), CacheKey(c) \notin forgotten
      PROVE  reply'[c].kind = "cached"
  <2>1. Hit(c)
    BY <1>1 DEF IInv, Answers, SuccessIsCached, Hit
  <2>2. ReceiveCached(c)
    BY <1>1, <2>1, OnlyReceiveStarts DEF IInv, Receive
  <2>3. reply'[c] = Reply("cached", cache[CacheKey(c)])
    BY <2>2, <1>1 DEF ReceiveCached, Finish, IInv, TypeOK
  <2>4. QED
    BY <2>3 DEF Reply
<1>2. IInv /\ [Next]_vars =>
        [\A c, d \in Calls :
           /\ pc[c] = "idle" /\ pc'[c] # "idle"
           /\ reply[d].kind = "success" /\ CacheKey(c) # None /\ CacheKey(d) = CacheKey(c)
           /\ CacheKey(c) \notin forgotten
           => reply'[c].kind = "cached"]_vars
  BY <1>1
<1>3. QED
  BY <1>2, Invariance, PTL DEF Spec, RepeatIsNotExecuted

\* The handler uses its stores as PendingStore lets it: each step of a call, a
\* service or a client is a step of the abstract store or leaves the store alone.
\* So what PendingStore is proved to implement is what the calls rely on
\* (http.go:131-174, executor/http.go:117-152).
THEOREM CallsUseRendezvous == Spec => Store!Spec
<1>1. Init => Store!Init
  BY DEF Init
<1>2. IInv /\ [Next]_vars => [Store!Next]_(Store!vars)
  <2> SUFFICES ASSUME IInv, [Next]_vars
               PROVE  Store!Next \/ UNCHANGED storeVars
    BY DEF Store!vars, storeVars
  <2> USE DEF IInv
  <2>1. ASSUME NEW c \in Calls, AsyncRegister(c) \/ AsyncRefused(c) \/ AsyncTake(c) \/ AsyncReturn(c)
        PROVE  Store!Next
    <3>1. Here(c) \in Attempts
      BY HereType
    <3>2. QED
      BY <2>1, <3>1 DEF AsyncRegister, AsyncRefused, AsyncTake, AsyncReturn, Store!Next
  <2>2. ASSUME NEW c \in Calls, AsyncPosted(c) \/ AsyncTimeout(c)
        PROVE  Store!Next
    <3>1. Here(c) \in Attempts
      BY HereType
    <3>2. [kind |-> "timeout", verdict |-> None] \in Store!OwnOutcomes
      BY DEF Store!OwnOutcomes, Store!Outcomes
    <3>3. Store!Leave(Here(c))
      BY <2>2, <3>2 DEF AsyncPosted, AsyncTimeout, Store!Leave
    <3>4. QED
      BY <3>1, <3>3 DEF Store!Next
  <2>3. ASSUME NEW a \in Attempts, NEW v \in Verdicts, Callback(a, v)
        PROVE  Store!Next
    BY <2>3, SlotType DEF Callback, Store!Next
  <2>4. ASSUME NEW c \in Calls,
               \/ ReceiveCached(c) \/ Receive(c) \/ ToolDeadline(c) \/ StepDeadline(c) \/ ClientGone(c)
               \/ LimitsDeny(c) \/ LimitsApprove(c) \/ SyncStart(c) \/ SyncNoStart(c)
               \/ SyncDecide(c) \/ SyncEnd(c)
        PROVE  UNCHANGED storeVars
    BY <2>4 DEF ReceiveCached, Receive, ToolDeadline, StepDeadline, ClientGone, LimitsDeny, LimitsApprove,
                SyncStart, SyncNoStart, SyncDecide, SyncEnd
  <2>5. ASSUME NEW c \in Calls,
               \/ AsyncInvalid(c) \/ AsyncSend(c) \/ AsyncAccepted(c)
               \/ ChainNext(c) \/ ChainStop(c) \/ ExecFailed(c) \/ ExecOk(c)
        PROVE  UNCHANGED storeVars
    BY <2>5 DEF AsyncInvalid, AsyncSend, AsyncAccepted, ChainNext, ChainStop, ExecFailed, ExecOk
  <2>6. CASE (\E k \in Keys : Forget(k)) \/ Terminated \/ UNCHANGED vars
    BY <2>6 DEF Forget, Terminated, vars
  <2>7. QED
    BY <2>1, <2>2, <2>3, <2>4, <2>5, <2>6 DEF Next, Prompt, Foreign, AsyncStep
<1>3. QED
  BY <1>1, <1>2, Invariance, PTL DEF Spec, Store!Spec
-----------------------------------------------------------------------------
(* What the calls do to the cache, told from their side: a call that       *)
(* arrives looks its key up and acts on what it finds, and a success is    *)
(* put under its key. op is a history variable: the last such operation.   *)

VARIABLE op

Map == INSTANCE ForgetfulMap WITH map <- cache, Values <- Calls

\* Call c arrives, and what it was answered with tells what it found.
Arrives(c) == CacheKey(c) # None /\ pc[c] = "idle" /\ pc'[c] # "idle"

LookedUp(c) ==
    [kind |-> "get", key |-> CacheKey(c),
     value |-> IF reply'[c].kind = "cached" THEN reply'[c].from ELSE None]

\* Call c is answered with success.
Succeeds(c) == CacheKey(c) # None /\ reply[c].kind # "success" /\ reply'[c].kind = "success"

Stored(c) == [kind |-> "set", key |-> CacheKey(c), value |-> c]

\* The operation o that a step does, or is known by later.
Operation(o) ==
    \/ \E c \in Calls : Arrives(c) /\ o = LookedUp(c)
    \/ \E c \in Calls : Succeeds(c) /\ o = Stored(c)
    \/ /\ \A c \in Calls : ~Arrives(c) /\ ~Succeeds(c)
       /\ o = IF cache' = cache THEN op ELSE Map!NoOp

OperatedSpec ==
    /\ Init /\ op = Map!NoOp
    /\ [][[Next]_vars /\ Operation(op')]_<<vars, op>>

\* op records what the calls do and holds nothing up: every step has an operation.
LEMMA EveryStepOperates == \E o : Operation(o)
BY DEF Operation

LEMMA CacheIsChangedBy ==
    ASSUME Next
    PROVE  cache' = cache \/ (\E k \in Keys : Forget(k)) \/ (\E c \in Calls : ExecOk(c))
<1>1. ASSUME NEW c \in Calls,
             \/ ReceiveCached(c) \/ Receive(c) \/ ToolDeadline(c) \/ StepDeadline(c) \/ ClientGone(c)
             \/ LimitsDeny(c) \/ LimitsApprove(c) \/ SyncStart(c) \/ SyncNoStart(c)
             \/ SyncDecide(c) \/ SyncEnd(c) \/ ChainNext(c) \/ ChainStop(c) \/ ExecFailed(c)
      PROVE  cache' = cache
  BY <1>1 DEF ReceiveCached, Receive, ToolDeadline, StepDeadline, ClientGone, LimitsDeny, LimitsApprove,
              SyncStart, SyncNoStart, SyncDecide, SyncEnd, ChainNext, ChainStop, ExecFailed, cacheVars
<1>2. ASSUME NEW c \in Calls, AsyncStep(c)
      PROVE  cache' = cache
  BY <1>2 DEF AsyncStep, AsyncInvalid, AsyncRegister, AsyncRefused, AsyncSend, AsyncAccepted, AsyncPosted,
              AsyncTake, AsyncTimeout, AsyncReturn, cacheVars
<1>3. CASE (\E a \in Attempts, v \in Verdicts : Callback(a, v)) \/ Terminated
  BY <1>3 DEF Callback, Terminated, vars, cacheVars
<1>4. QED
  BY <1>1, <1>2, <1>3 DEF Next, Prompt, Foreign

\* Nothing but the end of an executor in time makes a call succeed.
LEMMA OnlyExecOkSucceeds ==
    ASSUME TypeOK, Next, NEW c \in Calls, reply[c].kind # "success", reply'[c].kind = "success"
    PROVE  ExecOk(c)
<1> USE DEF callVars, TypeOK
<1>1. ASSUME NEW d \in Calls, ExecOk(d)
      PROVE  d = c
  BY <1>1 DEF ExecOk, Finish
<1>2. ASSUME NEW d \in Calls, Receive(d) \/ ReceiveCached(d) \/ ChainStop(d) \/ ExecFailed(d)
      PROVE  FALSE
  BY <1>2 DEF Receive, ReceiveCached, ChainStop, ExecFailed, Finish, Reply, OrTimeout
<1>3. ASSUME \/ \E d \in Calls :
                  \/ LimitsDeny(d) \/ LimitsApprove(d) \/ SyncDecide(d) \/ SyncNoStart(d)
                  \/ SyncStart(d) \/ SyncEnd(d) \/ ChainNext(d)
                  \/ AsyncStep(d)
                  \/ ToolDeadline(d) \/ StepDeadline(d) \/ ClientGone(d)
             \/ \E a \in Attempts, v \in Verdicts : Callback(a, v)
             \/ \E k \in Keys : Forget(k)
             \/ Terminated
      PROVE  FALSE
  BY <1>3 DEF LimitsDeny, LimitsApprove, SyncDecide, SyncNoStart, SyncStart, SyncEnd, ChainNext,
              AsyncStep, AsyncInvalid,
              AsyncRegister, AsyncRefused, AsyncSend, AsyncAccepted, AsyncPosted, AsyncTake,
              AsyncTimeout, AsyncReturn, ToolDeadline, StepDeadline, ClientGone, Return,
              Callback, Forget, Terminated, vars
<1>4. QED
  BY <1>1, <1>2, <1>3 DEF Next, Prompt, Foreign

\* The calls live with a cache that forgets: what an arriving call acts on is what the
\* abstract map answers, a success is what is put there, and no other step of theirs
\* touches it; so what IdempotencyCache is proved to implement is all that the calls
\* rely on (build.go:133-142, 223-230).
THEOREM CallsUseForgetfulMap == OperatedSpec => Map!Spec
<1>1. Init /\ op = Map!NoOp => Map!Init
  BY DEF Init, Map!Init
<1>2. ASSUME IInv, Next, Operation(op')
      PROVE  Map!Next \/ UNCHANGED <<cache, op>>
  <2> USE DEF IInv
  <2>1. ASSUME NEW c \in Calls, Arrives(c), op' = LookedUp(c)
        PROVE  Map!Next
    <3>1. CacheKey(c) \in Keys
      BY <2>1 DEF Arrives, Keys
    <3>2. Receive(c) \/ ReceiveCached(c)
      BY <1>2, <2>1, OnlyReceiveStarts DEF Arrives
    <3>3. cache' = cache
      BY <3>2 DEF Receive, ReceiveCached, cacheVars
    <3>4. CASE ReceiveCached(c)
      <4>1. reply'[c] = Reply("cached", cache[CacheKey(c)])
        BY <1>2, <2>1, <3>4 DEF ReceiveCached, Finish, TypeOK, Arrives
      <4>2. op' = [kind |-> "get", key |-> CacheKey(c), value |-> cache[CacheKey(c)]]
        BY <2>1, <4>1 DEF LookedUp, Reply
      <4>3. QED
        BY <3>1, <3>3, <4>2 DEF Map!Next, Map!Get
    <3>5. CASE Receive(c)
      <4>1. reply'[c].kind # "cached"
        BY <1>2, <2>1, <3>5 DEF Receive, Finish, TypeOK, Answers, RepliesAreTrue, Reply, Arrives
      <4>2. cache[CacheKey(c)] = None
        BY <2>1, <3>5 DEF Receive, Hit, Arrives
      <4>3. op' = [kind |-> "get", key |-> CacheKey(c), value |-> cache[CacheKey(c)]]
        BY <2>1, <4>1, <4>2 DEF LookedUp
      <4>4. QED
        BY <3>1, <3>3, <4>3 DEF Map!Next, Map!Get
    <3>6. QED
      BY <3>2, <3>4, <3>5
  <2>2. ASSUME NEW c \in Calls, Succeeds(c), op' = Stored(c)
        PROVE  Map!Next
    <3>1. CacheKey(c) \in Keys
      BY <2>2 DEF Succeeds, Keys
    <3>2. ExecOk(c)
      BY <1>2, <2>2, OnlyExecOkSucceeds DEF Succeeds
    <3>3. cache' = [k \in Keys |-> IF k = CacheKey(c) THEN c ELSE IF k \in {} THEN None ELSE cache[k]]
      BY <3>2 DEF ExecOk
    <3>4. Map!PutAndForget(CacheKey(c), c, {})
      BY <2>2, <3>3 DEF Map!PutAndForget, Stored
    <3>5. QED
      BY <3>1, <3>4 DEF Map!Next
  <2>3. ASSUME \A c \in Calls : ~Arrives(c) /\ ~Succeeds(c),
               op' = IF cache' = cache THEN op ELSE Map!NoOp
        PROVE  Map!Next \/ UNCHANGED <<cache, op>>
    <3>1. CASE cache' = cache
      BY <2>3, <3>1
    <3>2. ASSUME NEW k \in Keys, Forget(k), cache' # cache
          PROVE  Map!Next
      <4>1. cache' = [x \in Keys |-> IF x \in {k} THEN None ELSE cache[x]]
        BY <1>2, <3>2 DEF Forget, TypeOK
      <4>2. Map!Forget({k})
        BY <2>3, <3>2, <4>1 DEF Map!Forget
      <4>3. QED
        BY <4>2 DEF Map!Next
    <3>3. ASSUME NEW c \in Calls, ExecOk(c)
          PROVE  cache' = cache
      <4>1. reply'[c].kind = "success" /\ reply[c].kind # "success"
        BY <1>2, <3>3 DEF ExecOk, Finish, Reply, TypeOK, Answers, RepliesAreTrue
      <4>2. CacheKey(c) = None
        BY <2>3, <4>1 DEF Succeeds
      <4>3. cache' = [k \in Keys |-> cache[k]]
        BY <3>3, <4>2 DEF ExecOk, Keys
      <4>4. QED
        BY <1>2, <4>3 DEF TypeOK
    <3>4. QED
      BY <1>2, <3>1, <3>2, <3>3, CacheIsChangedBy
  <2>4. QED
    BY <1>2, <2>1, <2>2, <2>3 DEF Operation
<1>3. ASSUME IInv, [[Next]_vars /\ Operation(op')]_<<vars, op>>
      PROVE  [Map!Next]_(Map!vars)
  <2>1. CASE UNCHANGED vars
    <3>1. cache' = cache /\ \A c \in Calls : ~Arrives(c) /\ ~Succeeds(c)
      BY <2>1 DEF vars, callVars, cacheVars, Arrives, Succeeds
    <3>2. op' = op
      BY <1>3, <3>1 DEF Operation
    <3>3. QED
      BY <3>1, <3>2 DEF Map!vars
  <2>2. CASE Next /\ Operation(op')
    BY <1>2, <1>3, <2>2 DEF Map!vars
  <2>3. QED
    BY <1>3, <2>1, <2>2
<1>4. OperatedSpec => Spec
  <2>1. [[Next]_vars /\ Operation(op')]_<<vars, op>> => [Next]_vars
    OBVIOUS
  <2>2. QED
    BY <2>1, PTL DEF OperatedSpec, Spec
<1>5. QED
  BY <1>1, <1>3, <1>4, Invariance, PTL DEF OperatedSpec, Map!Spec
=============================================================================
