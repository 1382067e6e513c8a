------------------------- MODULE PendingStoreProofs -------------------------
(***************************************************************************)
(* Proofs about PendingStore, for every set of attempts, callbacks, ids    *)
(* and decisions, in three layers: who has an entry, what a channel        *)
(* carries, and the refinement of Rendezvous.                              *)
(*                                                                         *)
(* The argument is one of ownership. The entry of a registered attempt is  *)
(* at any time in one place only: in the table, with the one handler that  *)
(* popped it, or with the one Cancel that popped it. Its channel is closed *)
(* by the goroutine that popped it, once, so nobody else can still send on *)
(* it or close it.                                                         *)
(***************************************************************************)
EXTENDS PendingStore, TLAPS

\* What is in the table belongs to an attempt that has not returned, and
\* nobody else has it.
TableOwns ==
    \A i \in Ids : pending[i] # None =>
        /\ IdOf[pending[i]] = i
        /\ pc[pending[i]] \in {"posting", "awaiting", "cancel"}
        /\ ~closed[pending[i]]
        /\ ~Answered(pending[i])
        /\ ~Revoked(pending[i])

\* An attempt that has not registered has an untouched channel.
StartIsFresh ==
    \A a \in Attempts : pc[a] = "start" =>
        ~closed[a] /\ ~Answered(a) /\ ~Revoked(a)

\* A goroutine about to send or close has an entry whose channel is open.
PoppedIsOpen ==
    /\ \A h \in Handlers : hpc[h] \in {"send", "close"} =>
         hentry[h] \in Attempts /\ ~closed[hentry[h]]
    /\ \A a \in Attempts : pc[a] = "closing" =>
         held[a] \in Attempts /\ ~closed[held[a]]

Ownership == TableOwns /\ StartIsFresh /\ PoppedIsOpen /\ SlotEndsOnce /\ NoPanic

-----------------------------------------------------------------------------

\* Every variable of PendingStore keeps its type.
THEOREM TypeCorrect == Spec => []TypeOK
<1> USE IdAssumption, TimedAssumption, NoneAssumption
<1>1. Init => TypeOK
  <2> SUFFICES ASSUME Init PROVE TypeOK
    OBVIOUS
  <2>1. Ended("none") \in Results
    BY DEF Ended, Results
  <2> QED BY <2>1 DEF Init, TypeOK, Entries
<1>2. TypeOK /\ [Next]_vars => TypeOK'
  <2> SUFFICES ASSUME TypeOK, [Next]_vars PROVE TypeOK'
    OBVIOUS
  <2> USE DEF TypeOK, Entries, Results, Ended, Return, CloseChannel,
              storeVars, attemptVars, handlerVars
  <2>1. ASSUME NEW a \in Attempts, AttemptNext(a) PROVE TypeOK'
    <3>1. CASE Register(a)          BY <3>1 DEF Register
    <3>2. CASE RegisterRefused(a)   BY <3>2 DEF RegisterRefused
    <3>3. CASE PostAccepted(a)      BY <3>3 DEF PostAccepted
    <3>4. CASE PostDecided(a)       BY <3>4 DEF PostDecided
    <3>5. CASE Receive(a)           BY <3>5 DEF Receive
    <3>6. CASE ReceiveClosed(a)     BY <3>6 DEF ReceiveClosed
    <3>7. CASE CtxDone(a)           BY <3>7 DEF CtxDone
    <3>8. CASE CancelPop(a)         BY <3>8 DEF CancelPop
    <3>9. CASE CancelClose(a)       BY <3>9 DEF CancelClose
    <3> QED BY <2>1, <3>1, <3>2, <3>3, <3>4, <3>5, <3>6, <3>7, <3>8, <3>9 DEF AttemptNext
  <2>2. ASSUME NEW h \in Handlers, HandlerNext(h) PROVE TypeOK'
    <3>1. CASE Reject(h)            BY <3>1 DEF Reject
    <3>2. ASSUME NEW i \in Ids, NotFound(h, i) PROVE TypeOK'
      BY <3>2 DEF NotFound
    <3>3. ASSUME NEW i \in Ids, NEW v \in Verdicts, ResolvePop(h, i, v) PROVE TypeOK'
      BY <3>3 DEF ResolvePop
    <3>4. CASE ResolveSend(h)       BY <3>4 DEF ResolveSend
    <3>5. CASE ResolveClose(h)      BY <3>5 DEF ResolveClose
    <3> QED BY <2>2, <3>1, <3>2, <3>3, <3>4, <3>5 DEF HandlerNext
  <2>3. CASE Terminated             BY <2>3 DEF Terminated, vars
  <2>4. CASE UNCHANGED vars         BY <2>4 DEF vars
  <2> QED BY <2>1, <2>2, <2>3, <2>4 DEF Next
<1> QED BY <1>1, <1>2, PTL DEF Spec
-----------------------------------------------------------------------------

\* The step of a goroutine that owns the entry e through handler h or through
\* Cancel of b leaves e with nobody else: not in the table, not with another.
LEMMA OwnerIsAlone ==
    ASSUME TypeOK, Ownership
    PROVE  /\ \A h \in Handlers, i \in Ids :
                hentry[h] # None => pending[i] # hentry[h]
           /\ \A b \in Attempts, i \in Ids :
                held[b] # None => pending[i] # held[b]
           /\ \A g, h \in Handlers : g # h /\ hentry[h] # None => hentry[g] # hentry[h]
           /\ \A a, b \in Attempts : a # b /\ held[b] # None => held[a] # held[b]
           /\ \A h \in Handlers, b \in Attempts :
                hentry[h] # None => held[b] # hentry[h]
  BY DEF TypeOK, Entries, Ownership, TableOwns, SlotEndsOnce, Answered, Revoked

\* The entry popped from the table moves to the goroutine that popped it.
LEMMA AttemptKeepsOwnership ==
    ASSUME TypeOK, Ownership, NEW a \in Attempts, AttemptNext(a)
    PROVE  Ownership'
<1> USE IdAssumption, TimedAssumption, NoneAssumption
<1> USE DEF TypeOK, Entries, Ownership, TableOwns, StartIsFresh, PoppedIsOpen,
            SlotEndsOnce, NoPanic, Answered, Revoked, Return, CloseChannel,
            storeVars, attemptVars, handlerVars
<1>1. CASE Register(a)          BY <1>1 DEF Register
<1>2. CASE RegisterRefused(a)   BY <1>2 DEF RegisterRefused
<1>3. CASE PostAccepted(a)      BY <1>3 DEF PostAccepted
<1>4. CASE PostDecided(a)
  <2>1. /\ pc[a] = "posting"
        /\ pc' = [pc EXCEPT ![a] = "cancel"]
        /\ UNCHANGED <<storeVars, held, handlerVars, panicked>>
    BY <1>4 DEF PostDecided
  <2> QED BY <2>1
<1>5. CASE Receive(a)           BY <1>5 DEF Receive
<1>6. CASE ReceiveClosed(a)     BY <1>6 DEF ReceiveClosed
<1>7. CASE CtxDone(a)           BY <1>7 DEF CtxDone
<1>8. CASE CancelPop(a)
  <2> DEFINE e == pending[IdOf[a]]
  <2> USE <1>8 DEF CancelPop
  <2>1. IdOf[a] \in Ids
    OBVIOUS
  <2>2. \A i \in Ids : pending'[i] = IF i = IdOf[a] THEN None ELSE pending[i]
    BY <2>1
  <2>3. \A b \in Attempts : held'[b] = IF b = a THEN e ELSE held[b]
    OBVIOUS
  <2>4. e # None => ~closed[e] /\ ~Answered(e) /\ ~Revoked(e) /\ IdOf[e] = IdOf[a]
    BY <2>1
  <2>5. \A b \in Attempts : b # a => pc'[b] = pc[b]
    OBVIOUS
  <2>6. TableOwns'
    <3> SUFFICES ASSUME NEW i \in Ids, pending'[i] # None PROVE TableOwns!(i)'
      BY DEF TableOwns
    <3>1. i # IdOf[a] /\ pending'[i] = pending[i]
      BY <2>2
    <3>2. pending[i] # a /\ pending[i] # e
      BY <2>1, <3>1
    <3> QED BY <2>3, <2>5, <3>1, <3>2
  <2>7. StartIsFresh'
    BY <2>3, <2>4
  <2>8. PoppedIsOpen'
    BY <2>1, <2>3, <2>4, <2>5
  <2>9. SlotEndsOnce'
    <3>1. \A b \in Attempts : b # a /\ e # None => held'[b] # e
      BY <2>1, <2>3, <2>4
    <3>2. \A b, c \in Attempts : held'[b] = held'[c] /\ held'[b] # None => b = c
      BY <2>3, <3>1
    <3>3. \A b \in Attempts : ~(Answered(b)' /\ Revoked(b)')
      BY <2>3, <2>4
    <3> QED BY <3>2, <3>3
  <2> QED BY <2>6, <2>7, <2>8, <2>9
<1>9. CASE CancelClose(a)       BY <1>9, OwnerIsAlone, SMTT(20) DEF CancelClose
<1> QED BY <1>1, <1>2, <1>3, <1>4, <1>5, <1>6, <1>7, <1>8, <1>9 DEF AttemptNext

LEMMA HandlerKeepsOwnership ==
    ASSUME TypeOK, Ownership, NEW h \in Handlers, HandlerNext(h)
    PROVE  Ownership'
<1> USE IdAssumption, TimedAssumption, NoneAssumption
<1> USE DEF TypeOK, Entries, Ownership, TableOwns, StartIsFresh, PoppedIsOpen,
            SlotEndsOnce, NoPanic, Answered, Revoked, CloseChannel,
            storeVars, attemptVars, handlerVars
<1>1. CASE Reject(h)            BY <1>1 DEF Reject
<1>2. ASSUME NEW i \in Ids, NotFound(h, i) PROVE Ownership'
  BY <1>2 DEF NotFound
<1>3. ASSUME NEW i \in Ids, NEW v \in Verdicts, ResolvePop(h, i, v) PROVE Ownership'
  <2> DEFINE e == pending[i]
  <2> USE <1>3 DEF ResolvePop
  <2>1. e \in Attempts /\ ~closed[e] /\ ~Answered(e) /\ ~Revoked(e) /\ pc[e] # "start"
    OBVIOUS
  <2>2. \A g \in Handlers : hentry'[g] = IF g = h THEN e ELSE hentry[g]
    OBVIOUS
  <2>3. TableOwns'
    <3> SUFFICES ASSUME NEW j \in Ids, pending'[j] # None PROVE TableOwns!(j)'
      BY DEF TableOwns
    <3>1. j # i /\ pending'[j] = pending[j] /\ pending[j] # e
      OBVIOUS
    <3> QED BY <2>2, <3>1
  <2>4. StartIsFresh'
    BY <2>1, <2>2
  <2>5. PoppedIsOpen'
    BY <2>1, <2>2
  <2>6. SlotEndsOnce'
    BY <2>1, <2>2
  <2> QED BY <2>3, <2>4, <2>5, <2>6
<1>4. CASE ResolveSend(h)       BY <1>4 DEF ResolveSend
<1>5. CASE ResolveClose(h)
  <2> USE <1>5, OwnerIsAlone DEF ResolveClose
  <2>1. TableOwns'
    OBVIOUS
  <2>2. StartIsFresh'
    OBVIOUS
  <2>3. PoppedIsOpen'
    OBVIOUS
  <2>4. SlotEndsOnce' /\ NoPanic'
    OBVIOUS
  <2> QED BY <2>1, <2>2, <2>3, <2>4
<1> QED BY <1>1, <1>2, <1>3, <1>4, <1>5 DEF HandlerNext
LEMMA OwnershipInvariant == Spec => []Ownership
<1> USE IdAssumption, TimedAssumption, NoneAssumption
<1>1. Init => Ownership
  BY DEF Init, Ownership, TableOwns, StartIsFresh, PoppedIsOpen, SlotEndsOnce,
         NoPanic, Answered, Revoked
<1>2. TypeOK /\ Ownership /\ [Next]_vars => Ownership'
  <2> SUFFICES ASSUME TypeOK, Ownership, [Next]_vars PROVE Ownership'
    OBVIOUS
  <2>1. ASSUME NEW a \in Attempts, AttemptNext(a) PROVE Ownership'
    BY <2>1, AttemptKeepsOwnership
  <2>2. ASSUME NEW h \in Handlers, HandlerNext(h) PROVE Ownership'
    BY <2>2, HandlerKeepsOwnership
  <2>3. CASE UNCHANGED vars
    BY <2>3 DEF vars, storeVars, attemptVars, handlerVars, Ownership, TableOwns,
         StartIsFresh, PoppedIsOpen, SlotEndsOnce, NoPanic, Answered, Revoked
  <2> QED BY <2>1, <2>2, <2>3 DEF Next, Terminated
<1> QED BY <1>1, <1>2, TypeCorrect, PTL DEF Spec

\* Resolve and Cancel never send on, or close, a closed channel.
THEOREM NeverPanics == Spec => []NoPanic
BY OwnershipInvariant, PTL DEF Ownership

\* A slot ends at most once: with one callback or with one Cancel.
THEOREM EndsOnce == Spec => []SlotEndsOnce
BY OwnershipInvariant, PTL DEF Ownership

\* No slot outlives the attempt that registered it.
THEOREM NoSlotLeaks == Spec => []NoLeak
<1>1. Ownership => NoLeak
  BY DEF Ownership, TableOwns, NoLeak
<1> QED BY <1>1, OwnershipInvariant, PTL

-----------------------------------------------------------------------------
(* What the channels carry: a decision comes from the handler that popped  *)
(* the entry, stays in the buffer until it is received, and a channel is   *)
(* closed by whoever popped its entry.                                     *)


\* A handler has an entry exactly from its pop on, and with it a decision.
HandlerHolds ==
    \A h \in Handlers :
        /\ hpc[h] = "idle" => hentry[h] = None
        /\ hentry[h] # None => hmsg[h] \in Verdicts

\* An attempt's Cancel has popped nothing before it runs.
CancelHolds ==
    \A a \in Attempts : held[a] # None => pc[a] \in {"closing", "done"}

\* What is in a buffer was put there by the handler that has the entry.
BufferedWasSent ==
    \A a \in Attempts : buf[a] # None =>
        \E h \in Handlers : hentry[h] = a /\ hpc[h] # "send" /\ hmsg[h] = buf[a]

\* What a handler has put into the buffer stays there until it is received.
SentIsKept ==
    \A h \in Handlers : hentry[h] # None /\ hpc[h] # "send" =>
        buf[hentry[h]] # None \/ result[hentry[h]].kind = "received"

\* Who has popped an entry closes its channel, and nobody else does.
PoppedIsClosed ==
    /\ \A h \in Handlers : hentry[h] # None /\ hpc[h] = "done" => closed[hentry[h]]
    /\ \A a \in Attempts : held[a] # None /\ pc[a] = "done" => closed[held[a]]
    /\ \A a \in Attempts : closed[a] =>
         Revoked(a) \/ \E h \in Handlers : hentry[h] = a /\ hpc[h] = "done"

\* A result is there only after the return, and says what happened to the slot.
ResultIsTrue ==
    \A a \in Attempts :
        /\ pc[a] \in {"start", "posting", "awaiting"} => result[a].kind = "none"
        /\ result[a].kind = "received" =>
             \E h \in Handlers : hentry[h] = a /\ hmsg[h] = result[a].verdict
        /\ result[a].kind = "closed" => Revoked(a)
        /\ result[a].kind = "refused" => pc[a] = "done" /\ ~Answered(a)

\* The slot of an attempt that has not returned is in the table or was popped.
SlotIsSomewhere ==
    \A a \in Attempts : pc[a] \in {"posting", "awaiting"} =>
        pending[IdOf[a]] = a \/ Answered(a) \/ Revoked(a)

Delivery ==
    /\ HandlerHolds /\ CancelHolds
    /\ BufferedWasSent /\ SentIsKept /\ PoppedIsClosed
    /\ ResultIsTrue /\ SlotIsSomewhere

-----------------------------------------------------------------------------

\* No attempt and no decision is the null.
LEMMA NotNone == None \notin Attempts /\ None \notin Verdicts
  BY NoneAssumption

\* The steps of an attempt keep Delivery.
LEMMA AttemptKeepsDelivery ==
    ASSUME TypeOK, Ownership, Delivery, NEW a \in Attempts, AttemptNext(a)
    PROVE  Delivery'
<1> USE DEF TypeOK, Entries, Results, Ended, Ownership, TableOwns, StartIsFresh, PoppedIsOpen,
            SlotEndsOnce, NoPanic, Answered, Revoked, Return, CloseChannel,
            Delivery, HandlerHolds, CancelHolds, BufferedWasSent, SentIsKept,
            PoppedIsClosed, ResultIsTrue, SlotIsSomewhere,
            storeVars, attemptVars, handlerVars
<1>1. CASE Register(a)
  <2> USE <1>1 DEF Register
  <2>1. HandlerHolds'  OBVIOUS
  <2>2. CancelHolds'  OBVIOUS
  <2>3. BufferedWasSent'  OBVIOUS
  <2>4. SentIsKept'  OBVIOUS
  <2>5. PoppedIsClosed'  OBVIOUS
  <2>6. ResultIsTrue'  OBVIOUS
  <2>7. SlotIsSomewhere'
    <3> SUFFICES ASSUME NEW b \in Attempts, pc'[b] \in {"posting", "awaiting"}
                 PROVE  pending'[IdOf[b]] = b \/ Answered(b)' \/ Revoked(b)'
      OBVIOUS
    <3>0. /\ IdOf[a] \in Ids /\ IdOf[b] \in Ids
          /\ pending' = [pending EXCEPT ![IdOf[a]] = a] /\ pending \in [Ids -> Entries]
          /\ pending[IdOf[a]] # b
      <4>1. IdOf[a] \in Ids /\ IdOf[b] \in Ids
        BY ONLY IdAssumption, b \in Attempts, a \in Attempts
      <4>2. pending[IdOf[a]] = None
        BY ONLY Register(a) DEF Register
      <4> QED BY ONLY <1>1, <4>1, <4>2, NotNone, TypeOK, b \in Attempts DEF Register, TypeOK
    <3>1. CASE b = a
      BY ONLY <3>0, <3>1
    <3>2. CASE b # a
      <4>1. pc'[b] = pc[b] /\ Answered(b)' = Answered(b) /\ Revoked(b)' = Revoked(b)
        BY <3>2
      <4>2. IdOf[b] # IdOf[a] => pending'[IdOf[b]] = pending[IdOf[b]]
        BY ONLY <3>0
      <4> QED BY <3>0, <4>1, <4>2
    <3> QED BY <3>1, <3>2
  <2> QED BY <2>1, <2>2, <2>3, <2>4, <2>5, <2>6, <2>7
<1>2. CASE RegisterRefused(a)
  <2> USE <1>2 DEF RegisterRefused
  <2>1. HandlerHolds'  OBVIOUS
  <2>2. CancelHolds'  OBVIOUS
  <2>3. BufferedWasSent'  OBVIOUS
  <2>4. SentIsKept'  OBVIOUS
  <2>5. PoppedIsClosed'  OBVIOUS
  <2>6. ResultIsTrue'  OBVIOUS
  <2>7. SlotIsSomewhere'  OBVIOUS
  <2> QED BY <2>1, <2>2, <2>3, <2>4, <2>5, <2>6, <2>7
<1>3. CASE PostAccepted(a)      BY <1>3 DEF PostAccepted
<1>4. CASE PostDecided(a)
  <2> USE <1>4 DEF PostDecided
  <2>1. HandlerHolds'  OBVIOUS
  <2>2. CancelHolds'  OBVIOUS
  <2>3. BufferedWasSent'  OBVIOUS
  <2>4. SentIsKept'  OBVIOUS
  <2>5. PoppedIsClosed'  BY SMTT(20)
  <2>6. ResultIsTrue'  OBVIOUS
  <2>7. SlotIsSomewhere'  OBVIOUS
  <2> QED BY <2>1, <2>2, <2>3, <2>4, <2>5, <2>6, <2>7
<1>5. CASE Receive(a)
  <2> USE <1>5 DEF Receive
  <2>1. HandlerHolds'  OBVIOUS
  <2>2. CancelHolds'  OBVIOUS
  <2>3. BufferedWasSent'  OBVIOUS
  <2>4. SentIsKept'  OBVIOUS
  <2>5. PoppedIsClosed'  OBVIOUS
  <2>6. ResultIsTrue'  OBVIOUS
  <2>7. SlotIsSomewhere'  OBVIOUS
  <2> QED BY <2>1, <2>2, <2>3, <2>4, <2>5, <2>6, <2>7
<1>6. CASE ReceiveClosed(a)     BY <1>6 DEF ReceiveClosed
<1>7. CASE CtxDone(a)
  <2> USE <1>7 DEF CtxDone
  <2>1. HandlerHolds'  OBVIOUS
  <2>2. CancelHolds'  OBVIOUS
  <2>3. BufferedWasSent'  OBVIOUS
  <2>4. SentIsKept'  OBVIOUS
  <2>5. PoppedIsClosed'  OBVIOUS
  <2>6. ResultIsTrue'  OBVIOUS
  <2>7. SlotIsSomewhere'  OBVIOUS
  <2> QED BY <2>1, <2>2, <2>3, <2>4, <2>5, <2>6, <2>7
<1>8. CASE CancelPop(a)
  <2> USE <1>8 DEF CancelPop
  <2>0. \A b \in Attempts : Revoked(b) => Revoked(b)'
    <3>1. held[a] = None
      OBVIOUS
    <3>2. \A c \in Attempts : c # a => held'[c] = held[c]
      OBVIOUS
    <3> SUFFICES ASSUME NEW b \in Attempts, NEW c \in Attempts, held[c] = b
                 PROVE  held'[c] = b
      OBVIOUS
    <3>3. c # a
      BY ONLY <3>1, held[c] = b, b \in Attempts, NotNone
    <3> QED BY <3>2, <3>3
  <2>1. HandlerHolds'  OBVIOUS
  <2>2. CancelHolds'  OBVIOUS
  <2>3. BufferedWasSent'  OBVIOUS
  <2>4. SentIsKept'  OBVIOUS
  <2>5. PoppedIsClosed'
    <3>1. \A b \in Attempts : b # a => pc'[b] = pc[b] /\ held'[b] = held[b]
      OBVIOUS
    <3>2. pc'[a] = "done" => held'[a] = None
      OBVIOUS
    <3> QED BY <2>0, <3>1, <3>2
  <2>6. ResultIsTrue'
    <3> SUFFICES ASSUME NEW b \in Attempts PROVE ResultIsTrue!(b)'
      BY DEF ResultIsTrue
    <3>1. b # a => pc'[b] = pc[b]
      OBVIOUS
    <3>2. pc'[a] \in {"closing", "done"} /\ result[a].kind # "refused"
      OBVIOUS
    <3> QED BY <2>0, <3>1, <3>2
  <2>7. SlotIsSomewhere'  OBVIOUS
  <2> QED BY <2>1, <2>2, <2>3, <2>4, <2>5, <2>6, <2>7
<1>9. CASE CancelClose(a)
  <2> USE <1>9 DEF CancelClose
  <2>1. HandlerHolds'  OBVIOUS
  <2>2. CancelHolds'  OBVIOUS
  <2>3. BufferedWasSent'  OBVIOUS
  <2>4. SentIsKept'  OBVIOUS
  <2>5. PoppedIsClosed'  OBVIOUS
  <2>6. ResultIsTrue'  OBVIOUS
  <2>7. SlotIsSomewhere'  OBVIOUS
  <2> QED BY <2>1, <2>2, <2>3, <2>4, <2>5, <2>6, <2>7
<1> QED BY <1>1, <1>2, <1>3, <1>4, <1>5, <1>6, <1>7, <1>8, <1>9 DEF AttemptNext

\* The steps of a handler keep Delivery.
LEMMA HandlerKeepsDelivery ==
    ASSUME TypeOK, Ownership, Delivery, NEW h \in Handlers, HandlerNext(h)
    PROVE  Delivery'
<1> USE DEF TypeOK, Entries, Results, Ended, Ownership, TableOwns, StartIsFresh, PoppedIsOpen,
            SlotEndsOnce, NoPanic, Answered, Revoked, CloseChannel,
            Delivery, HandlerHolds, CancelHolds, BufferedWasSent, SentIsKept,
            PoppedIsClosed, ResultIsTrue, SlotIsSomewhere,
            storeVars, attemptVars, handlerVars
<1>1. CASE Reject(h)            BY <1>1 DEF Reject
<1>2. ASSUME NEW i \in Ids, NotFound(h, i) PROVE Delivery'
  BY <1>2 DEF NotFound
<1>3. ASSUME NEW i \in Ids, NEW v \in Verdicts, ResolvePop(h, i, v) PROVE Delivery'
  <2> USE <1>3 DEF ResolvePop
  <2>1. HandlerHolds'  OBVIOUS
  <2>2. CancelHolds'  OBVIOUS
  <2>3. BufferedWasSent'  OBVIOUS
  <2>4. SentIsKept'  OBVIOUS
  <2>5. PoppedIsClosed'  OBVIOUS
  <2>6. ResultIsTrue'
    <3>1. hentry[h] = None
      OBVIOUS
    <3>2. \A g \in Handlers : g # h => hentry'[g] = hentry[g] /\ hmsg'[g] = hmsg[g]
      OBVIOUS
    <3>3. pc[pending[i]] # "done" /\ hentry'[h] = pending[i]
      OBVIOUS
    <3> SUFFICES ASSUME NEW b \in Attempts PROVE ResultIsTrue!(b)'
      BY DEF ResultIsTrue
    <3>4. pc' = pc /\ result' = result /\ held' = held
      OBVIOUS
    <3>5. result[b].kind = "received" =>
            \E g \in Handlers : hentry'[g] = b /\ hmsg'[g] = result[b].verdict
      <4> SUFFICES ASSUME result[b].kind = "received"
                   PROVE  \E g \in Handlers : hentry'[g] = b /\ hmsg'[g] = result[b].verdict
        OBVIOUS
      <4>1. PICK g \in Handlers : hentry[g] = b /\ hmsg[g] = result[b].verdict
        OBVIOUS
      <4> QED BY <3>1, <3>2, <4>1, SMTT(20)
    <3>6. result[b].kind = "refused" => ~Answered(b)'
      <4> SUFFICES ASSUME result[b].kind = "refused", NEW g \in Handlers, hentry'[g] = b
                   PROVE  FALSE
        OBVIOUS
      <4>1. pc[b] = "done" /\ ~Answered(b)
        OBVIOUS
      <4> QED BY <3>2, <3>3, <4>1
    <3> QED BY <3>4, <3>5, <3>6
  <2>7. SlotIsSomewhere'  OBVIOUS
  <2> QED BY <2>1, <2>2, <2>3, <2>4, <2>5, <2>6, <2>7
<1>4. CASE ResolveSend(h)
  <2> USE <1>4 DEF ResolveSend
  <2>1. HandlerHolds'  OBVIOUS
  <2>2. CancelHolds'  OBVIOUS
  <2>3. BufferedWasSent'  OBVIOUS
  <2>4. SentIsKept'
    <3>0. hentry[h] \in Attempts /\ ~closed[hentry[h]]
      OBVIOUS
    <3>1. hentry[h] \in Attempts /\ ~closed[hentry[h]] /\ hmsg[h] # None
      <4>1. hentry[h] # None
        BY ONLY <3>0, NotNone
      <4>2. hmsg[h] \in Verdicts
        BY <4>1
      <4> QED BY ONLY <3>0, <4>2, NotNone
    <3>2. buf'[hentry[h]] # None
      BY <3>1
    <3>3. \A b \in Attempts : buf[b] # None => buf'[b] # None
      BY <3>1
    <3>4. \A g \in Handlers : g # h => hpc'[g] = hpc[g]
      OBVIOUS
    <3> SUFFICES ASSUME NEW g \in Handlers, hentry[g] # None, hpc'[g] # "send"
                 PROVE  buf'[hentry[g]] # None \/ result[hentry[g]].kind = "received"
      OBVIOUS
    <3> QED BY <3>2, <3>3, <3>4
  <2>5. PoppedIsClosed'
    <3>1. UNCHANGED <<closed, held, pc, hentry>>
      OBVIOUS
    <3>2. hpc' = [hpc EXCEPT ![h] = "close"] /\ hpc[h] = "send" /\ hpc \in [Handlers -> {"idle", "send", "close", "done"}]
      OBVIOUS
    <3>3. PoppedIsClosed
      OBVIOUS
    <3> QED BY ONLY <3>1, <3>2, <3>3, NotNone DEF PoppedIsClosed, Revoked
  <2>6. ResultIsTrue'  OBVIOUS
  <2>7. SlotIsSomewhere'  OBVIOUS
  <2> QED BY <2>1, <2>2, <2>3, <2>4, <2>5, <2>6, <2>7
<1>5. CASE ResolveClose(h)
  <2> USE <1>5 DEF ResolveClose
  <2>1. HandlerHolds'  OBVIOUS
  <2>2. CancelHolds'  OBVIOUS
  <2>3. BufferedWasSent'  OBVIOUS
  <2>4. SentIsKept'  OBVIOUS
  <2>5. PoppedIsClosed'  BY SMTT(20)
  <2>6. ResultIsTrue'  OBVIOUS
  <2>7. SlotIsSomewhere'  OBVIOUS
  <2> QED BY <2>1, <2>2, <2>3, <2>4, <2>5, <2>6, <2>7
<1> QED BY <1>1, <1>2, <1>3, <1>4, <1>5 DEF HandlerNext

\* Delivery holds in every reachable state.
LEMMA DeliveryInvariant == Spec => []Delivery
<1> USE DEF Delivery, HandlerHolds, CancelHolds, BufferedWasSent, SentIsKept,
            PoppedIsClosed, ResultIsTrue, SlotIsSomewhere, Answered, Revoked
<1>1. Init => Delivery
  BY NotNone DEF Init, Ended
<1>2. TypeOK /\ Ownership /\ Delivery /\ [Next]_vars => Delivery'
  <2> SUFFICES ASSUME TypeOK, Ownership, Delivery, [Next]_vars PROVE Delivery'
    OBVIOUS
  <2>1. ASSUME NEW a \in Attempts, AttemptNext(a) PROVE Delivery'
    BY ONLY <2>1, TypeOK, Ownership, Delivery, AttemptKeepsDelivery
  <2>2. ASSUME NEW h \in Handlers, HandlerNext(h) PROVE Delivery'
    BY ONLY <2>2, TypeOK, Ownership, Delivery, HandlerKeepsDelivery
  <2>3. CASE UNCHANGED vars
    BY <2>3 DEF vars, storeVars, attemptVars, handlerVars
  <2> QED BY <2>1, <2>2, <2>3 DEF Next, Terminated
<1> QED BY <1>1, <1>2, TypeCorrect, OwnershipInvariant, PTL DEF Spec

\* A callback that took a slot is not lost: its attempt never ends as if it had
\* been cancelled or refused, and returns no other callback's decision.
THEOREM AcknowledgedDelivered == Spec => []AcknowledgedIsDelivered
<1>1. Ownership /\ Delivery /\ TypeOK => AcknowledgedIsDelivered
  <2> SUFFICES ASSUME Ownership, Delivery, TypeOK, NEW h \in Handlers, hentry[h] # None
               PROVE  /\ result[hentry[h]].kind \notin {"closed", "refused"}
                      /\ result[hentry[h]].kind = "received" =>
                           result[hentry[h]].verdict = hmsg[h]
    BY DEF AcknowledgedIsDelivered
  <2>1. hentry[h] \in Attempts /\ Answered(hentry[h])
    BY DEF TypeOK, Entries, Answered
  <2>2. ~Revoked(hentry[h])
    BY <2>1 DEF Ownership, SlotEndsOnce
  <2>3. \A g \in Handlers : hentry[g] = hentry[h] => g = h
    BY DEF Ownership, SlotEndsOnce
  <2> QED BY <2>1, <2>2, <2>3 DEF Delivery, ResultIsTrue
<1> QED BY <1>1, TypeCorrect, OwnershipInvariant, DeliveryInvariant, PTL

\* awaitDecision returns only decisions a callback carried to this attempt.
THEOREM ReceivedIsSent == Spec => []ReceivedWasSent
<1>1. Delivery => ReceivedWasSent
  BY DEF Delivery, ResultIsTrue, ReceivedWasSent, Answered
<1> QED BY <1>1, DeliveryInvariant, PTL

\* An attempt that waits is in the table or its news is there or on its way.
THEOREM NoWakeupIsLost == Spec => []NoLostWakeup
<1>1. TypeOK /\ Delivery => NoLostWakeup
  <2> SUFFICES ASSUME TypeOK, Delivery, NEW a \in Attempts, pc[a] = "awaiting",
                      pending[IdOf[a]] # a, ~closed[a]
               PROVE  \/ \E h \in Handlers : hentry[h] = a /\ hpc[h] \in {"send", "close"}
                      \/ \E b \in Attempts : held[b] = a /\ pc[b] = "closing"
    BY DEF NoLostWakeup
  <2>1. CASE Answered(a)
    <3>1. PICK h \in Handlers : hentry[h] = a
      BY <2>1 DEF Answered
    <3>2. hpc[h] \in {"send", "close"}
      BY <3>1, NotNone DEF TypeOK, Delivery, HandlerHolds, PoppedIsClosed
    <3> QED BY <3>1, <3>2
  <2>2. CASE Revoked(a)
    <3>1. PICK b \in Attempts : held[b] = a
      BY <2>2 DEF Revoked
    <3>2. pc[b] = "closing"
      BY <3>1, NotNone DEF Delivery, CancelHolds, PoppedIsClosed
    <3> QED BY <3>1, <3>2
  <2> QED BY <2>1, <2>2 DEF Delivery, SlotIsSomewhere
<1> QED BY <1>1, TypeCorrect, DeliveryInvariant, PTL

\* A slot stays taken.
LEMMA TakenStays ==
    ASSUME TypeOK, Delivery, [Next]_vars, NEW a \in Attempts, Answered(a) \/ Revoked(a)
    PROVE  (Answered(a) \/ Revoked(a))'
<1>1. ASSUME NEW h \in Handlers, hentry[h] = a
      PROVE  hentry'[h] = a
  <2>1. hpc[h] # "idle"
    BY <1>1, NotNone DEF Delivery, HandlerHolds
  <2>2. QED
    BY <1>1, <2>1
       DEF TypeOK, Next, AttemptNext, HandlerNext, Terminated, vars, storeVars, attemptVars, handlerVars,
           Register, RegisterRefused, PostAccepted, PostDecided, Receive, ReceiveClosed, CtxDone,
           CancelPop, CancelClose, Return, Reject, NotFound, ResolvePop, ResolveSend, ResolveClose
<1>2. ASSUME NEW b \in Attempts, held[b] = a
      PROVE  held'[b] = a
  <2>1. pc[b] # "cancel"
    BY <1>2, NotNone DEF Delivery, CancelHolds
  <2>2. QED
    BY <1>2, <2>1
       DEF TypeOK, Next, AttemptNext, HandlerNext, Terminated, vars, storeVars, attemptVars, handlerVars,
           Register, RegisterRefused, PostAccepted, PostDecided, Receive, ReceiveClosed, CtxDone,
           CancelPop, CancelClose, Return, Reject, NotFound, ResolvePop, ResolveSend, ResolveClose
<1>3. QED
  BY <1>1, <1>2 DEF Answered, Revoked

\* The slot of an attempt that is about to cancel is still there, or was taken.
LeavingSlot ==
    \A a \in Attempts : pc[a] = "cancel" =>
        pending[IdOf[a]] = a \/ Answered(a) \/ Revoked(a)

\* A slot leaves the table only when somebody takes it.
LEMMA SlotIsTaken ==
    ASSUME TypeOK, Delivery, [Next]_vars, NEW a \in Attempts,
           pending[IdOf[a]] = a, pending'[IdOf[a]] # a
    PROVE  (Answered(a) \/ Revoked(a))'
<1>0. IdOf[a] \in Ids /\ a # None
  BY IdAssumption, NotNone
<1>1. ASSUME NEW b \in Attempts, AttemptNext(b)
      PROVE  Revoked(a)'
  <2>1. CancelPop(b) /\ IdOf[b] = IdOf[a]
    BY <1>0, <1>1
       DEF TypeOK, AttemptNext, storeVars, Register, RegisterRefused, PostAccepted, PostDecided,
           Receive, ReceiveClosed, CtxDone, CancelPop, CancelClose
  <2>2. held'[b] = a
    BY <2>1 DEF CancelPop, TypeOK
  <2>3. QED
    BY <2>2 DEF Revoked
<1>2. ASSUME NEW h \in Handlers, HandlerNext(h)
      PROVE  Answered(a)'
  <2>1. PICK i \in Ids, v \in Verdicts : ResolvePop(h, i, v)
    BY <1>2 DEF HandlerNext, storeVars, Reject, NotFound, ResolveSend, ResolveClose
  <2>2. i = IdOf[a]
    BY <1>0, <2>1 DEF ResolvePop, TypeOK
  <2>3. hentry'[h] = a
    BY <2>1, <2>2 DEF ResolvePop, TypeOK
  <2>4. QED
    BY <2>3 DEF Answered
<1>3. QED
  BY <1>1, <1>2 DEF Next, Terminated, vars, storeVars

LEMMA LeavingSlotInvariant == Spec => []LeavingSlot
<1>1. Init => LeavingSlot
  BY DEF Init, LeavingSlot
<1>2. TypeOK /\ Delivery /\ LeavingSlot /\ [Next]_vars => LeavingSlot'
  <2> SUFFICES ASSUME TypeOK, Delivery, LeavingSlot, [Next]_vars,
                      NEW a \in Attempts, pc'[a] = "cancel", ~(Answered(a) \/ Revoked(a))'
               PROVE  pending'[IdOf[a]] = a
    BY DEF LeavingSlot
  <2>1. pc[a] \in {"posting", "awaiting", "cancel"}
    BY DEF TypeOK, Next, AttemptNext, HandlerNext, Terminated, vars, storeVars, attemptVars,
           handlerVars, Register, RegisterRefused, PostAccepted, PostDecided, Receive,
           ReceiveClosed, CtxDone, CancelPop, CancelClose, Return, Reject, NotFound,
           ResolvePop, ResolveSend, ResolveClose
  <2>2. ~(Answered(a) \/ Revoked(a))
    BY TakenStays
  <2>3. pending[IdOf[a]] = a
    BY <2>1, <2>2 DEF LeavingSlot, Delivery, SlotIsSomewhere
  <2>4. QED
    BY <2>3, SlotIsTaken
<1>3. QED
  BY <1>1, <1>2, TypeCorrect, DeliveryInvariant, PTL DEF Spec

\* An attempt's Cancel takes the slot of another attempt only when its own was
\* taken before (async.go:62-67).
THEOREM ForeignCancelsAreStale == Spec => []ForeignCancelIsStale
<1>1. Init => ForeignCancelIsStale
  BY NotNone DEF Init, ForeignCancelIsStale
<1>2. TypeOK /\ Delivery /\ LeavingSlot /\ ForeignCancelIsStale /\ [Next]_vars
        => ForeignCancelIsStale'
  <2> SUFFICES ASSUME TypeOK, Delivery, LeavingSlot, ForeignCancelIsStale, [Next]_vars,
                      NEW a \in Attempts, NEW b \in Attempts, held'[b] = a, a # b
               PROVE  (Answered(b) \/ Revoked(b))'
    BY DEF ForeignCancelIsStale
  <2>1. Answered(b) \/ Revoked(b)
    <3>1. CASE held[b] = a
      BY <3>1 DEF ForeignCancelIsStale
    <3>2. CASE held[b] # a
      <4>1. pc[b] = "cancel" /\ pending[IdOf[b]] = a
        BY <3>2
           DEF TypeOK, Next, AttemptNext, HandlerNext, Terminated, vars, storeVars, attemptVars,
               handlerVars, Register, RegisterRefused, PostAccepted, PostDecided, Receive,
               ReceiveClosed, CtxDone, CancelPop, CancelClose, Return, Reject, NotFound,
               ResolvePop, ResolveSend, ResolveClose
      <4>2. QED
        BY <4>1 DEF LeavingSlot
    <3>3. QED
      BY <3>1, <3>2
  <2>2. QED
    BY <2>1, TakenStays
<1>3. QED
  BY <1>1, <1>2, TypeCorrect, DeliveryInvariant, LeavingSlotInvariant, PTL DEF Spec

-----------------------------------------------------------------------------
(* PendingStore, whose Resolve and Cancel work on channels outside the     *)
(* mutex, implements Rendezvous, where each is one step. The send and the  *)
(* closes are stutters of Rendezvous: what they will do was settled when   *)
(* the entry was popped.                                                   *)

\* The answer of an attempt is the decision of any handler that has its entry,
\* for there is one such handler.
LEMMA AnswerIsUnique ==
    ASSUME NEW entry, NEW msg, NEW h \in Handlers,
           \A g \in Handlers : entry[g] = entry[h] => g = h
    PROVE  msg[CHOOSE g \in Handlers : entry[g] = entry[h]] = msg[h]
OBVIOUS

\* The initial state of the store is the one of Rendezvous.
LEMMA InitIsRendezvous == Init => R!Init
<1> SUFFICES ASSUME Init PROVE R!Init
  OBVIOUS
<1>1. \A a \in Attempts : ~Answered(a) /\ ~Revoked(a)
  BY NotNone DEF Init, Answered, Revoked
<1>2. AnswerGiven = [a \in Attempts |-> None] /\ RevokedAttempts = {}
  BY <1>1 DEF AnswerGiven, RevokedAttempts
<1>3. Phases = [a \in Attempts |-> "idle"]
  BY DEF Init, Phases, Phase
<1> QED BY <1>2, <1>3 DEF Init, Ended, R!Init, R!NoOutcome

\* A step of an attempt is a step of Rendezvous or leaves its state alone.
LEMMA AttemptStepRefines ==
    ASSUME TypeOK, Ownership, Delivery, NEW a \in Attempts, AttemptNext(a)
    PROVE  [R!Next]_(R!vars)
<1>1. handlerVars' = handlerVars => AnswerGiven' = AnswerGiven
  BY DEF handlerVars, AnswerGiven, Answered
<1>2. held' = held => RevokedAttempts' = RevokedAttempts
  BY DEF RevokedAttempts, Revoked
<1>3. ASSUME NEW p \in {"start", "posting", "awaiting", "cancel", "closing", "done"},
             pc' = [pc EXCEPT ![a] = p]
      PROVE  /\ Phases' = [Phases EXCEPT ![a] = Phase(p)]
             /\ Phase(p) = Phases[a] => Phases' = Phases
  BY <1>3 DEF Phases, Phase, TypeOK
<1>4. /\ Phases[a] = Phase(pc[a])
      /\ Phase("start") = "idle" /\ Phase("posting") = "open" /\ Phase("awaiting") = "open"
      /\ Phase("cancel") = "left" /\ Phase("closing") = "gone" /\ Phase("done") = "gone"
  BY DEF Phases, Phase
<1>5. R!Outcomes = Results
  BY DEF R!Outcomes, Results
<1>6. CASE Register(a)
  <2>1. R!Register(a)
    BY <1>1, <1>2, <1>3, <1>4, <1>6 DEF Register, R!Register
  <2> QED BY <2>1 DEF R!Next
<1>7. CASE RegisterRefused(a)
  <2>1. R!Refuse(a)
    BY <1>1, <1>2, <1>3, <1>4, <1>7 DEF RegisterRefused, R!Refuse, storeVars, Ended
  <2> QED BY <2>1 DEF R!Next
<1>8. CASE PostAccepted(a)
  <2>1. UNCHANGED R!vars
    BY <1>1, <1>2, <1>3, <1>4, <1>8 DEF PostAccepted, R!vars, storeVars
  <2> QED BY <2>1
<1>9. CASE PostDecided(a)
  <2>1. R!Leave(a)
    <3>1. PICK r \in R!OwnOutcomes : Return(a, r)
      BY <1>5, <1>9 DEF PostDecided, R!OwnOutcomes, Results, Ended
    <3>2. R!EndAs(a, r)
      BY <1>1, <1>2, <1>3, <1>4, <1>9, <3>1 DEF PostDecided, Return, R!EndAs, storeVars
    <3> QED BY <3>1, <3>2 DEF R!Leave
  <2> QED BY <2>1 DEF R!Next
<1>10. CASE Receive(a)
  <2>1. PICK h \in Handlers : hentry[h] = a /\ hmsg[h] = buf[a]
    BY <1>10 DEF Receive, Delivery, BufferedWasSent
  <2>2. AnswerGiven[a] = buf[a]
    <3>1. \A g \in Handlers : hentry[g] = hentry[h] => g = h
      BY <2>1, NotNone DEF Ownership, SlotEndsOnce
    <3>2. hmsg[CHOOSE g \in Handlers : hentry[g] = hentry[h]] = hmsg[h]
      BY ONLY <3>1, h \in Handlers, AnswerIsUnique
    <3> QED BY <2>1, <3>2 DEF AnswerGiven, Answered
  <2>3. R!EndAs(a, [kind |-> "received", verdict |-> buf[a]])
    BY <1>1, <1>2, <1>3, <1>4, <1>10 DEF Receive, Return, R!EndAs
  <2>4. R!Take(a)
    BY <1>10, <2>2, <2>3 DEF Receive, R!Take
  <2> QED BY <2>4 DEF R!Next
<1>11. CASE ReceiveClosed(a)
  <2>1. a \in RevokedAttempts
    <3>1. Revoked(a) \/ \E h \in Handlers : hentry[h] = a /\ hpc[h] = "done"
      BY <1>11 DEF ReceiveClosed, Delivery, PoppedIsClosed
    <3>2. ASSUME NEW h \in Handlers, hentry[h] = a, hpc[h] = "done" PROVE FALSE
      <4>1. buf[a] # None \/ result[a].kind = "received"
        BY <3>2, NotNone DEF Delivery, SentIsKept
      <4>2. result[a].kind = "none"
        BY <1>11 DEF ReceiveClosed, Delivery, ResultIsTrue
      <4> QED BY <1>11, <4>1, <4>2 DEF ReceiveClosed
    <3> QED BY <3>1, <3>2 DEF RevokedAttempts
  <2>2. R!EndAs(a, [kind |-> "closed", verdict |-> None])
    BY <1>1, <1>2, <1>3, <1>4, <1>11 DEF ReceiveClosed, Return, Ended, R!EndAs, storeVars
  <2>3. R!FindRevoked(a)
    BY <2>1, <2>2 DEF R!FindRevoked
  <2> QED BY <2>3 DEF R!Next
<1>12. CASE CtxDone(a)
  <2>1. Ended("timeout") \in R!OwnOutcomes
    BY <1>5 DEF R!OwnOutcomes, Results, Ended
  <2>2. R!EndAs(a, Ended("timeout"))
    BY <1>1, <1>2, <1>3, <1>4, <1>12 DEF CtxDone, Return, R!EndAs, storeVars
  <2>3. R!Leave(a)
    BY <2>1, <2>2 DEF R!Leave
  <2> QED BY <2>3 DEF R!Next
<1>13. CASE CancelPop(a)
  <2> DEFINE e == pending[IdOf[a]]
  <2>1. /\ pc[a] = "cancel" /\ held[a] = None
        /\ pending' = [pending EXCEPT ![IdOf[a]] = None]
        /\ held' = [held EXCEPT ![a] = e]
        /\ handlerVars' = handlerVars /\ result' = result
    BY <1>13 DEF CancelPop, Delivery, CancelHolds
  <2>2. Phases' = [Phases EXCEPT ![a] = "gone"]
    BY <1>3, <1>4, <1>13 DEF CancelPop
  <2>3. RevokedAttempts' = RevokedAttempts \cup ({e} \ {None})
    <3>1. \A b \in Attempts : held'[b] = IF b = a THEN e ELSE held[b]
      BY <2>1 DEF TypeOK
    <3>2. \A b \in Attempts : Revoked(b)' <=> Revoked(b) \/ b = e
      BY <2>1, <3>1, NotNone DEF Revoked
    <3>3. e \in Attempts \cup {None}
      BY IdAssumption DEF TypeOK, Entries
    <3> QED BY <3>2, <3>3, NotNone DEF RevokedAttempts
  <2>4. R!Cancel(a)
    BY <1>1, <1>4, <2>1, <2>2, <2>3 DEF R!Cancel
  <2> QED BY <2>4 DEF R!Next
<1>14. CASE CancelClose(a)
  <2>1. UNCHANGED R!vars
    BY <1>1, <1>2, <1>3, <1>4, <1>14 DEF CancelClose, R!vars
  <2> QED BY <2>1
<1> QED BY <1>6, <1>7, <1>8, <1>9, <1>10, <1>11, <1>12, <1>13, <1>14 DEF AttemptNext

\* A handler's pop is the Resolve of Rendezvous; its other steps are stutters.
LEMMA HandlerStepRefines ==
    ASSUME TypeOK, Ownership, Delivery, NEW h \in Handlers, HandlerNext(h)
    PROVE  [R!Next]_(R!vars)
<1>1. hmsg' = hmsg /\ hentry' = hentry => AnswerGiven' = AnswerGiven
  BY DEF AnswerGiven, Answered
<1>2. held' = held => RevokedAttempts' = RevokedAttempts
  BY DEF RevokedAttempts, Revoked
<1>3. pc' = pc => Phases' = Phases
  BY DEF Phases, Phase
<1> USE DEF storeVars, attemptVars, R!vars
<1>4. CASE Reject(h)
  BY <1>1, <1>2, <1>3, <1>4 DEF Reject
<1>5. ASSUME NEW i \in Ids, NotFound(h, i) PROVE [R!Next]_(R!vars)
  BY <1>1, <1>2, <1>3, <1>5 DEF NotFound
<1>6. ASSUME NEW i \in Ids, NEW v \in Verdicts, ResolvePop(h, i, v)
      PROVE  [R!Next]_(R!vars)
  <2> DEFINE e == pending[i]
  <2>1. /\ e # None /\ hentry[h] = None
        /\ pending' = [pending EXCEPT ![i] = None]
        /\ hmsg' = [hmsg EXCEPT ![h] = v] /\ hentry' = [hentry EXCEPT ![h] = e]
        /\ pc' = pc /\ held' = held /\ result' = result
    BY <1>6 DEF ResolvePop, Delivery, HandlerHolds
  <2>2. e \in Attempts /\ \A g \in Handlers : hentry[g] # e
    BY <2>1 DEF TypeOK, Entries, Ownership, TableOwns, Answered
  <2>3. hentry'[h] = e /\ hmsg'[h] = v
    BY <2>1 DEF TypeOK
  <2>4. \A g \in Handlers : g # h => hentry'[g] = hentry[g] /\ hmsg'[g] = hmsg[g]
    BY <2>1 DEF TypeOK
  <2>5. AnswerGiven'[e] = v
    <3>1. \A g \in Handlers : hentry'[g] = hentry'[h] => g = h
      BY <2>2, <2>3, <2>4
    <3>2. hmsg'[CHOOSE g \in Handlers : hentry'[g] = hentry'[h]] = hmsg'[h]
      BY ONLY <3>1, h \in Handlers, AnswerIsUnique
    <3> QED BY <2>2, <2>3, <3>2 DEF AnswerGiven, Answered
  <2>6. ASSUME NEW b \in Attempts, b # e PROVE AnswerGiven'[b] = AnswerGiven[b]
    <3>1. CASE \E g \in Handlers : hentry[g] = b
      <4>1. PICK g \in Handlers : hentry[g] = b
        BY <3>1
      <4>2. g # h /\ hentry'[g] = b /\ hmsg'[g] = hmsg[g]
        BY <2>1, <2>4, <4>1, NotNone
      <4>3. /\ \A k \in Handlers : hentry[k] = hentry[g] => k = g
            /\ \A k \in Handlers : hentry'[k] = hentry'[g] => k = g
        BY <2>3, <2>4, <2>6, <4>1, <4>2, NotNone DEF Ownership, SlotEndsOnce
      <4>4. /\ hmsg[CHOOSE k \in Handlers : hentry[k] = hentry[g]] = hmsg[g]
            /\ hmsg'[CHOOSE k \in Handlers : hentry'[k] = hentry'[g]] = hmsg'[g]
        BY ONLY <4>3, g \in Handlers, AnswerIsUnique
      <4> QED BY <4>1, <4>2, <4>4 DEF AnswerGiven, Answered
    <3>2. CASE ~\E g \in Handlers : hentry[g] = b
      <4>1. \A g \in Handlers : hentry'[g] # b
        BY <2>3, <2>4, <2>6, <3>2
      <4> QED BY <3>2, <4>1 DEF AnswerGiven, Answered
    <3> QED BY <3>1, <3>2
  <2>7. AnswerGiven' = [AnswerGiven EXCEPT ![e] = v]
    <3>1. AnswerGiven = [b \in Attempts |-> AnswerGiven[b]]
      BY ONLY DEF AnswerGiven
    <3>2. AnswerGiven' = [b \in Attempts |-> AnswerGiven'[b]]
      BY ONLY DEF AnswerGiven
    <3>3. \A b \in Attempts : AnswerGiven'[b] = IF b = e THEN v ELSE AnswerGiven[b]
      BY <2>5, <2>6
    <3> DEFINE f == AnswerGiven
               g == AnswerGiven'
    <3> HIDE DEF f, g
    <3>4. /\ f = [b \in Attempts |-> f[b]] /\ g = [b \in Attempts |-> g[b]]
          /\ \A b \in Attempts : g[b] = IF b = e THEN v ELSE f[b]
      BY <3>1, <3>2, <3>3 DEF f, g
    <3>5. g = [f EXCEPT ![e] = v]
      BY ONLY <2>2, <3>4
    <3> QED BY <3>5 DEF f, g
  <2>8. R!Resolve(i, v)
    BY <1>2, <1>3, <2>1, <2>7 DEF R!Resolve
  <2> QED BY <2>8 DEF R!Next
<1>7. CASE ResolveSend(h)
  BY <1>1, <1>2, <1>3, <1>7 DEF ResolveSend
<1>8. CASE ResolveClose(h)
  BY <1>1, <1>2, <1>3, <1>8 DEF ResolveClose
<1> QED BY <1>4, <1>5, <1>6, <1>7, <1>8 DEF HandlerNext

\* The store implements the atomic Rendezvous: the initial states map to initial
\* states, and every step maps to a step of it or to a stutter.
THEOREM StoreIsRendezvous == Spec => ImplementsRendezvous
<1>1. TypeOK /\ Ownership /\ Delivery /\ [Next]_vars => [R!Next]_(R!vars)
  <2> SUFFICES ASSUME TypeOK, Ownership, Delivery, [Next]_vars PROVE [R!Next]_(R!vars)
    OBVIOUS
  <2>1. ASSUME NEW a \in Attempts, AttemptNext(a) PROVE [R!Next]_(R!vars)
    BY <2>1, AttemptStepRefines
  <2>2. ASSUME NEW h \in Handlers, HandlerNext(h) PROVE [R!Next]_(R!vars)
    BY <2>2, HandlerStepRefines
  <2>3. CASE UNCHANGED vars
    BY <2>3 DEF vars, storeVars, attemptVars, handlerVars, R!vars, AnswerGiven, Answered,
         RevokedAttempts, Revoked, Phases
  <2> QED BY <2>1, <2>2, <2>3 DEF Next, Terminated
<1> QED BY <1>1, InitIsRendezvous, TypeCorrect, OwnershipInvariant, DeliveryInvariant, PTL
        DEF Spec, ImplementsRendezvous, R!Spec
=============================================================================
