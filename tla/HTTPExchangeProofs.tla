-------------------------- MODULE HTTPExchangeProofs --------------------------
(***************************************************************************)
(* Proofs about HTTPExchange, for any number of callbacks. What a response *)
(* is taken for is a lemma about Approve and Execute; the invariant says   *)
(* that only the service's own answer ever gets into the slot's channel,   *)
(* and that an attempt that waits has its slot or that answer. Then, of    *)
(* the process that serves the webhooks (Server) and of the commands that  *)
(* it runs (ShellCommand).                                                 *)
(***************************************************************************)
EXTENDS ServedExchange, TLAPS

\* A response r of which so much was read.
AsRead(r, read) == [r EXCEPT !.body = read]
HeardOf(r, read) == [by |-> IF read = r.body THEN "response" ELSE "cut", body |-> r.body]

FromResponse(h, o) ==
    \E r \in Responses : \E read \in Reads(r.body) : h = HeardOf(r, read) /\ o = Taken(AsRead(r, read))

\* An attempt ends with what it was told, or with a verdict nobody gave.
Source ==
    /\ heard.by \in {"none", "response", "cut", "callback"}
    /\ phase # "done" => heard = Nothing
    /\ phase = "done" /\ heard.by = "none" => outcome.verdict \in {"error", "timeout"}
    /\ heard.by \in {"response", "cut"} => FromResponse(heard, outcome)
    /\ heard.by = "callback" => heard.body = answer /\ outcome = Delivered(answer)

\* Only the answer is delivered, and the slot is given up for it or at the end.
Slot ==
    /\ buffer \in {None, answer}
    /\ phase = "await" => async
    /\ async /\ phase # "done" => slot \/ buffer = answer

IInv == TypeOK /\ Source /\ Slot

-----------------------------------------------------------------------------
(* What responses and callbacks are taken for.                             *)

LEMMA BodyHasVerdict ==
    ASSUME NEW b, NEW accepted
    PROVE  /\ Decided(b).verdict \in {"await", "yes", "no", "error"}
           /\ Executed(b, accepted).verdict \in {"await", "yes", "no", "error"}
           /\ Decided(b).verdict = "await" => async
           /\ Executed(b, accepted).verdict = "await" => async
<1>1. /\ Decided(b).verdict \in {"await", "yes", "no", "error"}
      /\ Decided(b).verdict = "await" => async
  BY DEF Decided, Outcome, Await
<1>2. /\ Executed(b, accepted).verdict \in {"await", "yes", "no", "error"}
      /\ Executed(b, accepted).verdict = "await" => async
  BY DEF Executed, Outcome, Await
<1> QED BY <1>1, <1>2

LEMMA TakenHasVerdict ==
    ASSUME NEW r
    PROVE  /\ Taken(r).verdict \in {"await", "yes", "no", "error"}
           /\ Taken(r).verdict = "await" => async
BY BodyHasVerdict DEF Taken, Approve, Execute, Acknowledged, Outcome, Await

LEMMA DeliveredHasVerdict ==
    ASSUME NEW b
    PROVE  Delivered(b).verdict \in {"yes", "no", "error"}
BY DEF Delivered, Outcome

\* Only "approve" is an approval, and only a response that was read to its end;
\* an error that was is no success.
LEMMA ResponseIsMeant ==
    ASSUME side \in {"approver", "executor"}, NEW r \in Responses, NEW read \in Reads(r.body),
           Taken(AsRead(r, read)).verdict = "yes"
    PROVE  IF side = "approver" THEN r.body.word = "approve" /\ read = r.body
           ELSE r.body.word # "error" \/ read # r.body
<1> DEFINE a == AsRead(r, read)
<1>1. /\ Garbled.word = None /\ Blank.word = None
      /\ None \notin {"approve", "success", "error", "pending", ""}
  BY NoneAssumption DEF Garbled, Blank, Decisions, Statuses
<1>2. a.body = read /\ a.status = r.status
  BY DEF Responses, AsRead
<1>3. CASE side = "approver"
  <2>1. Decided(read).verdict = "yes"
    BY <1>2, <1>3 DEF Taken, Approve, Outcome, Await
  <2>2. read.word = "approve"
    BY <2>1 DEF Decided, Outcome, Await, Normal
  <2> QED BY <1>1, <1>3, <2>2 DEF Reads, Limited
<1>4. CASE side = "executor"
  <2>1. Executed(read, r.status = 202).verdict = "yes"
    BY <1>2, <1>4 DEF Taken, Execute, Outcome, Await
  <2>2. read.word # "error"
    BY <1>1, <2>1 DEF Executed, Outcome, Await, Normal
  <2> QED BY <1>4, <2>2
<1> QED BY <1>3, <1>4

\* The webhook takes nothing but the service's decision, and only while the slot is there.
LEMMA AcceptedIsAnswer ==
    ASSUME NEW p \in Payloads, answer \in Answers, Status(p) = "ok"
    PROVE  p.body = answer /\ slot
<1>1. CallbackWord(p.body) \in Decisive /\ slot
  BY DEF Status
<1>2. p.body \in {answer, Garbled, Say("pending"), Say("")}
  BY DEF Payloads
<1>3. None \notin Decisive /\ "pending" \notin Decisive /\ "" \notin Decisive
  BY NoneAssumption DEF Decisive, Decisions, Statuses
<1>4. Garbled.word = None /\ Say("pending").word = "pending" /\ Say("").word = ""
  BY DEF Garbled, Say
<1> QED BY <1>1, <1>2, <1>3, <1>4 DEF CallbackWord, Normal

LEMMA PendingHasNoVerdict == Pending.verdict = "none"
BY DEF Pending, Outcome

\* All of this depends on what never changes.
LEMMA SameService ==
    ASSUME UNCHANGED <<side, async, answer, id>>
    PROVE  /\ Responses' = Responses /\ Answers' = Answers
           /\ \A r : Taken(r)' = Taken(r)
           /\ Delivered(answer)' = Delivered(answer)
           /\ \A h, o : FromResponse(h, o)' = FromResponse(h, o)
<1>1. Responses' = Responses
  BY DEF Responses
<1>2. Answers' = Answers
  BY DEF Answers, Decisive
<1>3. \A r : Taken(r)' = Taken(r)
  BY DEF Taken, Approve, Execute, Acknowledged, Decided, Executed
<1>4. Delivered(answer)' = Delivered(answer)
  BY DEF Delivered
<1>5. \A h, o : FromResponse(h, o)' = FromResponse(h, o)
  BY <1>1, <1>3 DEF FromResponse
<1> QED BY <1>1, <1>2, <1>3, <1>4, <1>5

-----------------------------------------------------------------------------
(* The invariant.                                                          *)

LEMMA InitIInv == Init => IInv
<1> SUFFICES ASSUME Init PROVE IInv
  OBVIOUS
<1>1. TypeOK
  <2>1. /\ {async, slot} \subseteq BOOLEAN /\ answer \in Answers /\ id \in Ids
        /\ side \in {"approver", "executor"} /\ phase \in {"request", "await", "done"}
    BY DEF Init
  <2>2. /\ buffer \in Answers \cup {None} /\ callbacks \in 0..MaxCallbacks
        /\ ack \in {None, "ok", "bad_request", "not_found"}
    BY MaxCallbacksAssumption DEF Init
  <2>3. /\ outcome.verdict \in {"none", "yes", "no", "error", "timeout"}
        /\ phase = "done" <=> outcome # Pending
        /\ slot => async /\ phase # "done"
    BY DEF Init, Pending, Outcome
  <2> QED BY <2>1, <2>2, <2>3 DEF TypeOK
<1>2. Source /\ Slot
  BY DEF Init, Source, Slot, Nothing
<1> QED BY <1>1, <1>2 DEF IInv

\* The attempt returns with o, which is what the response or callback h says.
LEMMA EndKeepsIInv ==
    ASSUME IInv, NEW o, NEW h, End(o, h),
           o.verdict \in {"yes", "no", "error", "timeout"},
           \/ h = Nothing /\ o.verdict \in {"error", "timeout"}
           \/ h.by \in {"response", "cut"} /\ FromResponse(h, o)
           \/ h.by = "callback" /\ h.body = answer /\ o = Delivered(answer)
    PROVE  IInv'
<1>1. UNCHANGED <<side, async, answer, id>>
  BY DEF End, fixed
<1>2. /\ Responses' = Responses /\ Answers' = Answers
      /\ Delivered(answer)' = Delivered(answer)
      /\ \A g, v : FromResponse(g, v)' = FromResponse(g, v)
  BY <1>1, SameService
<1>3. /\ phase' = "done" /\ outcome' = o /\ slot' = FALSE /\ heard' = h
      /\ UNCHANGED <<buffer, callbacks, ack>>
  BY DEF End
<1>4. TypeOK'
  <2>1. o # Pending
    BY PendingHasNoVerdict
  <2> QED BY <1>1, <1>2, <1>3, <2>1 DEF IInv, TypeOK, Pending
<1>5. FromResponse(heard, outcome)' <=> FromResponse(h, o)
  BY <1>2, <1>3
<1>6. Source' /\ Slot'
  BY <1>1, <1>2, <1>3, <1>5 DEF IInv, Source, Slot, Nothing
<1> QED BY <1>4, <1>6 DEF IInv

LEMMA NextIInv == IInv /\ [Next]_vars => IInv'
<1> SUFFICES ASSUME IInv, [Next]_vars PROVE IInv'
  OBVIOUS
<1>1. CASE Respond
  <2>1. PICK r \in Responses : \E read \in Reads(r.body) :
          IF Taken(AsRead(r, read)).verdict = "await"
          THEN phase' = "await" /\ UNCHANGED <<fixed, slot, buffer, callbacks, ack, outcome, heard>>
          ELSE End(Taken(AsRead(r, read)), HeardOf(r, read))
    BY <1>1, Zenon DEF Respond, AsRead, HeardOf
  <2>2. PICK read \in Reads(r.body) :
          IF Taken(AsRead(r, read)).verdict = "await"
          THEN phase' = "await" /\ UNCHANGED <<fixed, slot, buffer, callbacks, ack, outcome, heard>>
          ELSE End(Taken(AsRead(r, read)), HeardOf(r, read))
    BY <2>1
  <2> DEFINE o == Taken(AsRead(r, read))
  <2>3. CASE o.verdict = "await"
    <3>1. async
      BY <2>3, TakenHasVerdict
    <3>2. /\ phase = "request" /\ phase' = "await"
          /\ UNCHANGED <<side, async, answer, id, slot, buffer, callbacks, ack, outcome, heard>>
      BY <1>1, <2>2, <2>3 DEF Respond, fixed
    <3>3. Responses' = Responses /\ Answers' = Answers
      BY <3>2, SameService
    <3>4. TypeOK'
      BY <3>2, <3>3 DEF IInv, TypeOK, Pending
    <3>5. Source' /\ Slot'
      BY <3>1, <3>2, <3>3 DEF IInv, Source, Slot, Nothing
    <3> QED BY <3>4, <3>5 DEF IInv
  <2>4. CASE o.verdict # "await"
    <3>1. o.verdict \in {"yes", "no", "error", "timeout"}
      BY <2>4, TakenHasVerdict
    <3>2. FromResponse(HeardOf(r, read), o) /\ HeardOf(r, read).by \in {"response", "cut"}
      BY DEF FromResponse, HeardOf
    <3>3. End(o, HeardOf(r, read))
      BY <2>2, <2>4
    <3> QED BY <3>1, <3>2, <3>3, EndKeepsIInv
  <2> QED BY <2>3, <2>4
<1>2. CASE Fail
  BY <1>2, EndKeepsIInv DEF Fail, Outcome
<1>3. CASE Callback
  <2>1. PICK p \in Payloads :
          /\ ack' = Status(p)
          /\ IF Status(p) = "ok" THEN slot' = FALSE /\ buffer' = p.body ELSE UNCHANGED <<slot, buffer>>
    BY <1>3 DEF Callback
  <2>2. UNCHANGED <<side, async, answer, id, phase, outcome, heard>>
    BY <1>3 DEF Callback, fixed
  <2>3. /\ Responses' = Responses /\ Answers' = Answers
        /\ \A r : Taken(r)' = Taken(r)
        /\ Delivered(answer)' = Delivered(answer)
    BY <2>2, SameService
  <2>4. /\ buffer' \in {None, answer} /\ slot' \in BOOLEAN
        /\ slot' => slot
        /\ slot \/ buffer = answer => slot' \/ buffer' = answer
    BY <2>1, AcceptedIsAnswer DEF IInv, TypeOK, Slot
  <2>5. callbacks' \in 0..MaxCallbacks
    BY <1>3, MaxCallbacksAssumption DEF Callback, IInv, TypeOK
  <2>6. ack' \in {None, "ok", "bad_request", "not_found"}
    BY <2>1 DEF Status
  <2>7. TypeOK'
    BY <2>2, <2>3, <2>4, <2>5, <2>6 DEF IInv, TypeOK, Pending, Outcome
  <2>8. Source' /\ Slot'
    <3>1. FromResponse(heard, outcome)' <=> FromResponse(heard, outcome)
      BY <2>2, SameService
    <3> QED BY <2>2, <2>3, <2>4, <3>1 DEF IInv, Source, Slot, Nothing, Blank
  <2> QED BY <2>7, <2>8 DEF IInv
<1>4. CASE Receive
  <2>1. buffer = answer /\ Delivered(answer).verdict \in {"yes", "no", "error", "timeout"}
    BY <1>4, DeliveredHasVerdict DEF Receive, IInv, Slot
  <2> QED BY <1>4, <2>1, EndKeepsIInv DEF Receive
<1>5. CASE Expire
  BY <1>5, EndKeepsIInv DEF Expire, Outcome
<1>6. CASE UNCHANGED vars
  <2>1. UNCHANGED <<side, async, answer, id, phase, slot, buffer, callbacks, ack, outcome, heard>>
    BY <1>6 DEF vars, fixed
  <2>2. /\ Responses' = Responses /\ Answers' = Answers
        /\ \A r : Taken(r)' = Taken(r)
        /\ Delivered(answer)' = Delivered(answer)
    BY <2>1, SameService
  <2>3. TypeOK'
    BY <2>1, <2>2 DEF IInv, TypeOK, Pending
  <2>4. Source' /\ Slot'
    <3>1. FromResponse(heard, outcome)' <=> FromResponse(heard, outcome)
      BY <2>1, SameService
    <3> QED BY <2>1, <2>2, <3>1 DEF IInv, Source, Slot, Nothing
  <2> QED BY <2>3, <2>4 DEF IInv
<1> QED BY <1>1, <1>2, <1>3, <1>4, <1>5, <1>6 DEF Next, Terminated

LEMMA Invariance == Spec => []IInv
BY InitIInv, NextIInv, PTL DEF Spec

-----------------------------------------------------------------------------

\* The attempt's variables stay in their types; it has an outcome exactly when it
\* has returned, and no slot then.
THEOREM ExchangeTypeCorrect == Spec => []TypeOK
<1>1. IInv => TypeOK
  BY DEF IInv
<1> QED BY <1>1, Invariance, PTL

\* Nothing but "approve" is an approval, and an error that was read to its end is
\* no success, by response or callback (approver/http/http.go:145-190,
\* executor/http.go:121-175).
THEOREM YesWasMeant == Spec => []YesIsMeant
<1>1. IInv => YesIsMeant
  <2> SUFFICES ASSUME IInv, outcome.verdict = "yes"
               PROVE  IF side = "approver" THEN heard.body.word = "approve" /\ heard.by # "cut"
                      ELSE heard.body.word # "error" \/ heard.by = "cut"
    BY DEF YesIsMeant
  <2>1. phase = "done" /\ side \in {"approver", "executor"}
    BY PendingHasNoVerdict DEF IInv, TypeOK
  <2>2. CASE heard.by \in {"response", "cut"}
    <3>1. PICK r \in Responses : \E read \in Reads(r.body) :
            heard = HeardOf(r, read) /\ outcome = Taken(AsRead(r, read))
      BY <2>2 DEF IInv, Source, FromResponse
    <3>2. PICK read \in Reads(r.body) :
            heard = HeardOf(r, read) /\ outcome = Taken(AsRead(r, read))
      BY <3>1
    <3>3. IF side = "approver" THEN r.body.word = "approve" /\ read = r.body
          ELSE r.body.word # "error" \/ read # r.body
      BY <2>1, <3>2, ResponseIsMeant
    <3> QED BY <3>2, <3>3 DEF HeardOf
  <2>3. CASE heard.by = "callback"
    <3>1. Delivered(answer).verdict = "yes" /\ heard.body = answer
      BY <2>3 DEF IInv, Source
    <3>2. IF side = "approver" THEN answer.word = "approve" ELSE answer.word = "success"
      BY <3>1 DEF Delivered, Outcome, Normal
    <3> QED BY <2>3, <3>1, <3>2
  <2> QED BY <2>1, <2>2, <2>3 DEF IInv, Source
<1> QED BY <1>1, Invariance, PTL

\* A callback has the effect that the response would have had.
THEOREM CallbackIsResponse == Spec => []SameByCallback
<1>1. IInv => SameByCallback
  <2> SUFFICES ASSUME IInv, heard.by = "callback", Fits
               PROVE  LET o == Taken([status |-> 200, body |-> answer])
                      IN /\ outcome.verdict = o.verdict
                         /\ side # "approver" \/ o.verdict # "yes" => outcome.text = o.text
    BY DEF SameByCallback
  <2> DEFINE o == Taken([status |-> 200, body |-> answer])
             d == Delivered(answer)
  <2>1. outcome = d /\ answer \in Answers /\ side \in {"approver", "executor"}
    BY DEF IInv, Source, TypeOK
  <2>2. CASE side = "approver"
    <3>1. answer.word \in {"approve", "deny", "error"} /\ None \notin {"approve", "deny", "error"}
      BY <2>1, <2>2, NoneAssumption DEF Answers, Decisive, Decisions
    <3>2. o = Decided(answer)
      BY <2>2 DEF Taken, Approve, Acknowledged
    <3>3. CASE answer.word = "approve"
      BY <2>1, <2>2, <3>1, <3>2, <3>3 DEF Decided, Delivered, Normal, Outcome
    <3>4. CASE answer.word = "deny"
      BY <2>1, <2>2, <3>1, <3>2, <3>4 DEF Decided, Delivered, Normal, Outcome
    <3>5. CASE answer.word = "error"
      BY <2>1, <2>2, <3>1, <3>2, <3>5 DEF Decided, Delivered, Normal, Outcome
    <3> QED BY <3>1, <3>3, <3>4, <3>5
  <2>3. CASE side = "executor"
    <3>1. answer.word \in {"success", "error"} /\ None \notin {"success", "error"}
      BY <2>1, <2>3, NoneAssumption DEF Answers, Decisive, Statuses
    <3>2. o = Executed(answer, 200 = 202)
      BY <2>3 DEF Taken, Execute, Acknowledged
    <3>3. CASE answer.word = "success"
      BY <2>1, <2>3, <3>1, <3>2, <3>3 DEF Executed, Delivered, ResultText, Normal, Outcome
    <3>4. CASE answer.word = "error"
      BY <2>1, <2>3, <3>1, <3>2, <3>4 DEF Executed, Delivered, ResultText, Normal, Outcome
    <3> QED BY <3>1, <3>3, <3>4
  <2> QED BY <2>1, <2>2, <2>3
<1> QED BY <1>1, Invariance, PTL

\* A service that was told to wait can still answer (async.go:91-107 of both).
THEOREM WaitingIsAnswered == Spec => []AnswerIsTaken
<1>1. IInv => AnswerIsTaken
  <2> SUFFICES ASSUME IInv, phase = "await", buffer = None, Trim(id) = id
               PROVE  slot /\ Status([id |-> id, body |-> answer]) = "ok"
    BY DEF AnswerIsTaken
  <2>1. answer \in Answers /\ id # ""
    BY DEF IInv, TypeOK, Ids
  <2>2. answer.word \in Decisive /\ answer # None
    BY <2>1, NoneAssumption DEF Answers, Decisive
  <2>3. slot
    BY <2>2 DEF IInv, Slot
  <2> QED BY <2>1, <2>2, <2>3 DEF Status, CallbackWord, Normal
<1> QED BY <1>1, Invariance, PTL

-----------------------------------------------------------------------------
(* The process that the webhooks are served by, for every set of           *)
(* configurations and any number of startup hooks and requests. One        *)
(* inductive invariant says what main has done when it is at a stage; the  *)
(* wiring of what serves follows.                                          *)

\* A hook runs only while main is at the hooks, and the count stays below.
HooksInOrder ==
    /\ running => stage \in {"hooks", "exited"}
    /\ running /\ stage = "hooks" => hook < Hooks
    /\ stage \in {"serve", "run", "shutdown"} => hook = Hooks

\* What main was given is valid once it is past the load, and the routes it
\* serves with are those of the configuration.
Prepared ==
    /\ stage \in {"build", "hooks", "serve", "run", "shutdown"} => Valid
    /\ stage \in {"run", "shutdown"} => routes = Routes /\ ~RoutesClash

\* Nothing is served before Run, and what Run's goroutine has done.
ListenerFollows ==
    /\ stage \in {"load", "build", "hooks", "serve", "stdio"} => listener = "off" /\ inflight = 0
    /\ stage = "run" /\ listener \in {"marked", "open"} => ready

ProcessInv == ServerTypeOK /\ HooksInOrder /\ Prepared /\ ListenerFollows

\* Validation and routing depend on the configuration only, which never changes.
LEMMA SameConfiguration ==
    ASSUME cfg' = cfg
    PROVE  /\ Valid' = Valid /\ Routes' = Routes /\ RoutesClash' = RoutesClash
           /\ HasExecutions' = HasExecutions /\ HasApprovals' = HasApprovals
BY DEF Valid, Routes, RoutesClash, HasExecutions, HasApprovals, ExecutorURLs, AsyncApprovers,
       CallbackURL, Tools, TrimsToHTTP, FoldsToHTTP

\* The routes lead to the two kinds of stores and to nothing else.
LEMMA RoutesLead == \A p \in DOMAIN Routes : Routes[p] \in {"approvals", "executions"}
BY DEF Routes

LEMMA ProcessInit ==
    ASSUME ServerInit
    PROVE  ProcessInv
<1> USE HooksAssumption, MaxRequestsAssumption
<1>1. ServerTypeOK
  <2>1. {running, signaled, baseDone, closing, ready} \subseteq BOOLEAN
    BY DEF ServerInit
  <2>2. DOMAIN routes = {}
    BY DEF ServerInit
  <2>3. hook \in 0..Hooks /\ inflight \in 0..MaxRequests
    BY DEF ServerInit
  <2>4. QED
    BY <2>1, <2>2, <2>3 DEF ServerInit, ServerTypeOK
<1>2. HooksInOrder /\ Prepared /\ ListenerFollows
  BY DEF ServerInit, HooksInOrder, Prepared, ListenerFollows
<1>3. QED
  BY <1>1, <1>2 DEF ProcessInv

LEMMA ProcessNext ==
    ASSUME ProcessInv, [ServerNext]_serverVars
    PROVE  ProcessInv'
<1> USE HooksAssumption, MaxRequestsAssumption DEF ProcessInv, ServerTypeOK, HooksInOrder, ListenerFollows, Exit
<1>0. cfg' = cfg
  BY DEF ServerNext, MainStep, Load, Build, HookStart, HooksDone, Serve, RunFails, RunStops,
         CloseListener, ShutdownClean, ShutdownGivesUp, HookOk, HookFailed, StdioEnds, Signal,
         SignalKills, CancelBase, SetReady, Listen, ListenerFails, Accept, Complete,
         DrainTimeout, Exited, serverVars, mainVars
<1>same. Valid' = Valid /\ Routes' = Routes /\ RoutesClash' = RoutesClash
  BY <1>0, SameConfiguration
<1>1. CASE Load
  BY <1>1, <1>same DEF Load, Prepared, signalVars, appVars
<1>2. CASE Build
  BY <1>2, <1>same DEF Build, Prepared, signalVars, appVars
<1>3. CASE HookStart
  BY <1>3, <1>same DEF HookStart, Prepared, signalVars, appVars
<1>4. CASE HookOk
  <2>1. hook' = hook + 1 /\ hook' \in 0..Hooks
    BY <1>4 DEF HookOk
  <2>2. {running, signaled, baseDone, closing, ready}' \subseteq BOOLEAN
    BY <1>4 DEF HookOk, signalVars, appVars
  <2>3. ServerTypeOK'
    BY <1>4, <2>1, <2>2 DEF HookOk, signalVars, appVars
  <2>4. QED
    BY <1>4, <2>1, <2>3, <1>same DEF HookOk, Prepared, signalVars, appVars
<1>5. CASE HookFailed
  BY <1>5, <1>same DEF HookFailed, Prepared, signalVars, appVars
<1>6. CASE HooksDone
  BY <1>6, <1>same DEF HooksDone, Prepared, signalVars, appVars
<1>7. CASE StdioEnds
  BY <1>7, <1>same DEF StdioEnds, Prepared, signalVars, appVars
<1>8. CASE Serve
  BY <1>8, <1>same, RoutesLead DEF Serve, Prepared, signalVars
<1>9. CASE SignalKills
  BY <1>9, <1>same DEF SignalKills, Prepared, appVars
<1>10. CASE Signal
  BY <1>10, <1>same DEF Signal, Prepared, mainVars, appVars
<1>11. CASE CancelBase
  BY <1>11, <1>same DEF CancelBase, Prepared, mainVars, appVars
<1>12. CASE SetReady
  BY <1>12, <1>same DEF SetReady, Prepared, mainVars, signalVars
<1>13. CASE Listen
  BY <1>13, <1>same DEF Listen, Prepared, mainVars, signalVars
<1>14. CASE ListenerFails
  BY <1>14, <1>same DEF ListenerFails, Prepared, mainVars, signalVars
<1>15. CASE Accept
  BY <1>15, <1>same DEF Accept, Prepared, mainVars, signalVars
<1>16. CASE Complete
  BY <1>16, <1>same DEF Complete, Prepared, mainVars, signalVars
<1>17. CASE RunFails
  BY <1>17, <1>same DEF RunFails, Prepared, signalVars, appVars
<1>18. CASE RunStops
  BY <1>18, <1>same DEF RunStops, Prepared, signalVars
<1>19. CASE CloseListener
  BY <1>19, <1>same DEF CloseListener, Prepared, mainVars, signalVars
<1>20. CASE DrainTimeout
  BY <1>20, <1>same DEF DrainTimeout, Prepared, mainVars, signalVars
<1>21. CASE ShutdownClean
  BY <1>21, <1>same DEF ShutdownClean, Prepared, signalVars, appVars
<1>22. CASE ShutdownGivesUp
  BY <1>22, <1>same DEF ShutdownGivesUp, Prepared, signalVars, appVars
<1>23. CASE UNCHANGED serverVars
  BY <1>23, <1>same DEF serverVars, mainVars, signalVars, appVars, Prepared
<1>24. QED
  BY <1>1, <1>2, <1>3, <1>4, <1>5, <1>6, <1>7, <1>8, <1>9, <1>10, <1>11, <1>12, <1>13, <1>14, <1>15,
     <1>16, <1>17, <1>18, <1>19, <1>20, <1>21, <1>22, <1>23
     DEF ServerNext, MainStep, Exited

LEMMA ProcessInvariance ==
    ServerSpec => []ProcessInv
BY ProcessInit, ProcessNext, PTL DEF ServerSpec

\* A valid configuration's async executors have their URLs routed.
LEMMA ProcessWired == ProcessInv => ServingIsWired
<1> SUFFICES ASSUME ProcessInv, Serving
             PROVE  /\ ready
                    /\ hook = Hooks
                    /\ \A t \in Tools : FoldsToHTTP(t.executor.type) /\ t.executor.async =>
                         LET path == CallbackURL(t.executor.webhook, cfg.executorURL).path
                         IN path \in DOMAIN routes /\ routes[path] = "executions"
                    /\ \A t \in Tools : \A a \in AsyncApprovers(t) : a.webhook = NoURL =>
                         /\ cfg.approvalURL.path \in DOMAIN routes
                         /\ routes[cfg.approvalURL.path] = "approvals"
                    /\ \A p \in DOMAIN routes :
                         IF routes[p] = "executions" THEN HasExecutions ELSE HasApprovals
  BY DEF ServingIsWired
<1>1. ready /\ hook = Hooks /\ Valid /\ routes = Routes /\ ~RoutesClash
  BY DEF ProcessInv, HooksInOrder, Prepared, ListenerFollows, Serving
<1>2. ASSUME NEW t \in Tools, FoldsToHTTP(t.executor.type), t.executor.async
      PROVE  LET path == CallbackURL(t.executor.webhook, cfg.executorURL).path
             IN path \in DOMAIN routes /\ routes[path] = "executions"
  <2> DEFINE u == CallbackURL(t.executor.webhook, cfg.executorURL)
  <2>1. u # NoURL
    BY <1>1, <1>2 DEF Valid, FoldsToHTTP, TrimsToHTTP
  <2>2. u \in ExecutorURLs
    BY <1>2, <2>1 DEF ExecutorURLs
  <2>3. QED
    BY <1>1, <2>2 DEF Routes
<1>3. ASSUME NEW p \in DOMAIN routes, routes[p] = "executions"
      PROVE  HasExecutions
  <2>1. PICK u \in ExecutorURLs : u.path = p
    BY <1>1, <1>3 DEF Routes
  <2>2. QED
    BY <2>1 DEF ExecutorURLs, HasExecutions, CallbackURL
<1>4. ASSUME NEW p \in DOMAIN routes, routes[p] # "executions"
      PROVE  HasApprovals
  BY <1>1, <1>4 DEF Routes, HasApprovals
<1>5. ASSUME NEW t \in Tools, NEW a \in AsyncApprovers(t), a.webhook = NoURL
      PROVE  /\ cfg.approvalURL.path \in DOMAIN routes
             /\ routes[cfg.approvalURL.path] = "approvals"
  <2>1. cfg.approvalURL # NoURL
    BY <1>1, <1>5 DEF Valid, CallbackURL
  <2>2. ~\E u \in ExecutorURLs : u.path = cfg.approvalURL.path
    BY <1>1, <2>1 DEF RoutesClash
  <2>3. cfg.approvalURL.path \in DOMAIN Routes
    BY <2>1 DEF Routes
  <2>4. QED
    BY <1>1, <2>2, <2>3 DEF Routes
<1>6. QED
  BY <1>1, <1>2, <1>3, <1>4, <1>5

\* The process's variables stay in their types.
THEOREM ServerTypeCorrect ==
    ServerSpec => []ServerTypeOK
<1>1. ProcessInv => ServerTypeOK
  BY DEF ProcessInv
<1>2. QED
  BY <1>1, ProcessInvariance, PTL

\* What serves is marked ready (app.go:78-84), has run all hooks and routes the callbacks of async executors, and
\* of approvers that answer to the server's URL, to the stores that main made (main.go:93-104, 166-185, 215-262).
THEOREM ServedIsWired ==
    ServerSpec => []ServingIsWired
BY ProcessWired, ProcessInvariance, PTL

-----------------------------------------------------------------------------
(* The process and an exchange together.                                   *)

\* What is proved of the process and of an exchange alone holds of the two
\* together: stopping the process, and asking only while it serves, add nothing to either.
THEOREM ServedIsBoth == ServedSpec => FairServerSpec /\ Spec
<1>1. ServedInit => ServerInit /\ Init
  BY DEF ServedInit
<1>2. [ServedNext]_allVars => [ServerNext]_serverVars /\ [Next]_vars
  <2> SUFFICES ASSUME [ServedNext]_allVars
               PROVE  [ServerNext]_serverVars /\ [Next]_vars
    OBVIOUS
  <2>1. CASE CallStep
    BY <2>1 DEF CallStep, Next
  <2>2. CASE CallbackStep
    BY <2>2 DEF CallbackStep, Next
  <2>3. CASE ProcessStep
    BY <2>3 DEF ProcessStep
  <2>4. CASE UNCHANGED allVars
    BY <2>4 DEF allVars
  <2>5. QED
    BY <2>1, <2>2, <2>3, <2>4 DEF ServedNext
<1>3. QED
  BY <1>1, <1>2, PTL DEF ServedSpec, FairServerSpec, ServerSpec, Spec

-----------------------------------------------------------------------------
(* A command that RunCommand runs, such as that of a hook: it has ended    *)
(* when Server's HookOk or HookFailed says so, and its output is complete. *)

CONSTANTS Children
VARIABLES expired, command, children, run, failed

Hook == INSTANCE ShellCommand

\* Before the start there is no process; once the command's process has been
\* waited for it stays as it ended, and it decides the error.
Waiting ==
    /\ run = "start" => command = "none" /\ children = {}
    /\ run \in {"copy", "returned"} => command # "running"
    /\ run \in {"copy", "returned"} /\ ~failed => command = "zero"

HookInv == Hook!TypeOK /\ Waiting /\ Hook!OutputComplete

\* RunCommand's result is complete, whatever the command forks and however the
\* deadline falls (executil.go:78-93).
THEOREM OutputIsComplete == Hook!Spec => []Hook!OutputComplete
<1>1. Hook!Init => HookInv
  BY DEF Hook!Init, HookInv, Hook!TypeOK, Waiting, Hook!OutputComplete
<1>2. HookInv /\ [Hook!Next]_(Hook!vars) => HookInv'
  <2> SUFFICES ASSUME HookInv, [Hook!Next]_(Hook!vars)
               PROVE  HookInv'
    OBVIOUS
  <2> USE DEF HookInv, Hook!TypeOK, Waiting, Hook!OutputComplete
  <2>1. CASE Hook!Expire
    BY <2>1 DEF Hook!Expire
  <2>2. CASE Hook!CannotStart
    BY <2>2 DEF Hook!CannotStart
  <2>3. CASE Hook!Start
    BY <2>3 DEF Hook!Start
  <2>4. CASE Hook!Kill
    BY <2>4 DEF Hook!Kill
  <2>5. CASE Hook!Waited
    BY <2>5 DEF Hook!Waited
  <2>6. CASE Hook!Copied
    BY <2>6 DEF Hook!Copied
  <2>7. CASE Hook!CommandExits
    BY <2>7 DEF Hook!CommandExits
  <2>8. ASSUME NEW p \in Children, Hook!Fork(p)
        PROVE  HookInv'
    BY <2>8 DEF Hook!Fork
  <2>9. ASSUME NEW p \in Children, Hook!ChildExits(p)
        PROVE  HookInv'
    BY <2>9 DEF Hook!ChildExits
  <2>10. CASE UNCHANGED Hook!vars
    BY <2>10 DEF Hook!vars
  <2>11. QED
    BY <2>1, <2>2, <2>3, <2>4, <2>5, <2>6, <2>7, <2>8, <2>9, <2>10 DEF Hook!Next, Hook!Terminated
<1>3. HookInv => Hook!OutputComplete
  BY DEF HookInv
<1>4. QED
  BY <1>1, <1>2, <1>3, PTL DEF Hook!Spec
=============================================================================
