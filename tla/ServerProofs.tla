---------------------------- MODULE ServerProofs ----------------------------
(***************************************************************************)
(* That a stop of the server is justified, gentle and truly reported, for  *)
(* any number of requests and any idle and grace time.                     *)
(***************************************************************************)
EXTENDS Server, TLAPS

\* A time that is kept up to a bound stays within it.
LEMMA UpToType ==
    ASSUME NEW b \in Nat, NEW n \in 0..b
    PROVE  UpTo(b, n + 1) \in 0..b
<1>1. CASE n + 1 < b
  BY <1>1 DEF UpTo
<1>2. CASE ~(n + 1 < b)
  BY <1>2 DEF UpTo
<1> QED
  BY <1>1, <1>2

\* Of two such times the longer ago stays the longer ago.
LEMMA UpToOrder ==
    ASSUME NEW b \in Nat, NEW m \in 0..b, NEW n \in 0..b, n >= m
    PROVE  UpTo(b, n + 1) >= UpTo(b, m + 1)
<1>1. CASE n + 1 < b
  BY <1>1 DEF UpTo
<1>2. CASE ~(n + 1 < b)
  BY <1>2 DEF UpTo
<1> QED
  BY <1>1, <1>2

\* The types in three parts: the provers want Booleans and numbers apart.
Flags == idleDone \in BOOLEAN /\ listening \in BOOLEAN /\ tick \in BOOLEAN

Times ==
    /\ waited \in 0..Grace
    /\ lastReq \in 0..Idle
    /\ since \in [Requests -> 0..Idle]

Places ==
    /\ run \in {"new", "select", "shutdown", "returned"}
    /\ result \in {"", "canceled", "nil", "error"}
    /\ cause \in {"", "signal", "idle"}
    /\ accepting \in {"off", "starting", "on", "over"}
    /\ errCh \in {"", "closed", "error"}
    /\ watch \in {"off", "starting", "waiting", "cancelling", "over"}
    /\ req \in [Requests -> ReqStates]

\* Together they are TypeOK.
LEMMA TypeParts == TypeOK <=> Flags /\ Times /\ Places
<1>1. TypeOK => Flags
  BY Zenon DEF TypeOK, Flags
<1>2. TypeOK => Times
  BY Zenon DEF TypeOK, Times
<1>3. TypeOK => Places
  BY Zenon DEF TypeOK, Places
<1>4. Flags /\ Times /\ Places => TypeOK
  BY Zenon DEF TypeOK, Flags, Times, Places
<1> QED
  BY <1>1, <1>2, <1>3, <1>4

\* Every step keeps every variable in its type.
LEMMA TypeStep == TypeOK /\ [Next]_vars => TypeOK'
<1> SUFFICES ASSUME TypeOK, [Next]_vars
             PROVE  TypeOK'
  OBVIOUS
<1> USE TimesAssumption
<1>0. /\ Flags /\ Times /\ Places
      /\ Flags' /\ Times' /\ Places' => TypeOK'
  BY TypeParts, PTL
<1>1. CASE Second
  <2>1. waited' \in 0..Grace
    <3>1. Grace \in Nat /\ waited \in 0..Grace
      BY DEF TypeOK
    <3>2. waited' \in {UpTo(Grace, waited + 1), waited}
      BY <1>1 DEF Second
    <3> QED
      BY <3>1, <3>2, UpToType
  <2>2. lastReq' \in 0..Idle
    <3>1. Idle \in Nat /\ lastReq \in 0..Idle
      BY DEF TypeOK
    <3>2. lastReq' = UpTo(Idle, lastReq + 1)
      BY <1>1 DEF Second
    <3> QED
      BY <3>1, <3>2, UpToType
  <2>3. since' \in [Requests -> 0..Idle]
    <3>1. Idle \in Nat /\ since \in [Requests -> 0..Idle]
      BY DEF TypeOK
    <3>2. \A r \in Requests : UpTo(Idle, since[r] + 1) \in 0..Idle
      BY <3>1, UpToType
    <3>3. since' = [r \in Requests |-> UpTo(Idle, since[r] + 1)]
      BY <1>1 DEF Second
    <3> QED
      BY <3>2, <3>3, Zenon
  <2>4. tick' \in BOOLEAN
    BY <1>1 DEF Second
  <2>5. UNCHANGED <<run, result, idleDone, cause, accepting, listening, errCh, watch, req>>
    BY <1>1 DEF Second, serveVars
  <2>6. Flags'
    BY <1>0, <2>4, <2>5, Zenon DEF Flags
  <2>7. Times'
    BY <2>1, <2>2, <2>3 DEF Times
  <2>8. Places'
    BY <1>0, <2>5 DEF Places
  <2> QED
    BY <1>0, <2>6, <2>7, <2>8
<1>2. ASSUME Signal \/ RunStep \/ ServeStep \/ WatchStep
      PROVE  TypeOK'
  <2>1. Flags'
    <3>1. idleDone' \in {idleDone, TRUE} /\ listening' \in {listening, FALSE} /\ tick' \in {tick, FALSE}
      BY <1>2 DEF Signal, RunStep, RunStart, RunShutdown, RunStopped, RunFailed, ServeStep,
                ServeStart, ServeClosed, ServeFails, WatchStep, WatchStart, WatchTick, WatchCancel,
                WatchDone, runVars, serveVars, watchVars
    <3> QED
      BY <1>0, <3>1 DEF Flags
  <2>2. Times'
    <3>1. UNCHANGED <<waited, lastReq, since>>
      BY <1>2 DEF Signal, RunStep, RunStart, RunShutdown, RunStopped, RunFailed, ServeStep,
                ServeStart, ServeClosed, ServeFails, WatchStep, WatchStart, WatchTick, WatchCancel,
                WatchDone, runVars, reqVars
    <3> QED
      BY <1>0, <3>1 DEF Times
  <2>3. req' \in [Requests -> ReqStates]
    <3>1. req \in [Requests -> ReqStates]
      BY <1>0 DEF Places
    <3>2. UNCHANGED req \/ EndRequests \/ RefuseQueued
      BY <1>2 DEF Signal, RunStep, RunStart, RunShutdown, RunStopped, RunFailed, ServeStep,
                ServeStart, ServeClosed, ServeFails, WatchStep, WatchStart, WatchTick, WatchCancel,
                WatchDone, reqVars
    <3> QED
      BY <3>1, <3>2 DEF EndRequests, RefuseQueued, ReqStates
  <2>4. /\ run' \in {run, "select", "shutdown", "returned"}
        /\ result' \in {result, "canceled", "nil", "error"}
        /\ cause' \in {cause, "signal", "idle"}
    BY <1>2 DEF Signal, RunStep, RunStart, RunShutdown, RunStopped, RunFailed, ServeStep,
                ServeStart, ServeClosed, ServeFails, WatchStep, WatchStart, WatchTick, WatchCancel,
                WatchDone, runVars, ServeResult
  <2>5. /\ accepting' \in {accepting, "starting", "on", "over"}
        /\ errCh' \in {errCh, "closed", "error"}
    BY <1>2 DEF Signal, RunStep, RunStart, RunShutdown, RunStopped, RunFailed, ServeStep,
                ServeStart, ServeClosed, ServeFails, WatchStep, WatchStart, WatchTick, WatchCancel,
                WatchDone, serveVars
  <2>6. watch' \in {watch, "off", "starting", "waiting", "cancelling", "over"}
    BY <1>2 DEF Signal, RunStep, RunStart, RunShutdown, RunStopped, RunFailed, ServeStep,
                ServeStart, ServeClosed, ServeFails, WatchStep, WatchStart, WatchTick, WatchCancel,
                WatchDone, watchVars, AfterTick
  <2>7. Places'
    <3>1. Places
      BY <1>0
    <3>2. run' \in {"new", "select", "shutdown", "returned"}
      BY <2>4, <3>1 DEF Places
    <3>3. result' \in {"", "canceled", "nil", "error"}
      BY <2>4, <3>1 DEF Places
    <3>4. cause' \in {"", "signal", "idle"}
      BY <2>4, <3>1 DEF Places
    <3>5. accepting' \in {"off", "starting", "on", "over"} /\ errCh' \in {"", "closed", "error"}
      BY <2>5, <3>1 DEF Places
    <3>6. watch' \in {"off", "starting", "waiting", "cancelling", "over"}
      BY <2>6, <3>1 DEF Places
    <3> QED
      BY <2>3, <3>2, <3>3, <3>4, <3>5, <3>6, Zenon DEF Places
  <2> QED
    BY <1>0, <2>1, <2>2, <2>7
<1>3. ASSUME NEW r \in Requests, RequestStep(r)
      PROVE  TypeOK'
  <2>1. lastReq' \in 0..Idle /\ since' \in [Requests -> 0..Idle]
    <3>0. 0 \in 0..Idle
      OBVIOUS
    <3>1. lastReq \in 0..Idle /\ since \in [Requests -> 0..Idle]
      BY DEF TypeOK
    <3>2. CASE Handle(r)
      BY <3>0, <3>1, <3>2 DEF Handle, touch
    <3>3. CASE UNCHANGED <<lastReq, since>>
      BY <3>1, <3>3
    <3> QED
      BY <1>3, <3>2, <3>3 DEF RequestStep, Connect, Accept, Finish
  <2>2. req' \in [Requests -> ReqStates]
    BY <1>3 DEF TypeOK, RequestStep, Connect, Accept, Handle, Finish, ReqStates
  <2>3. UNCHANGED <<run, result, idleDone, cause, waited>>
    BY <1>3 DEF RequestStep, Connect, Accept, Handle, Finish, runVars
  <2>4. UNCHANGED <<accepting, listening, errCh, watch, tick>>
    BY <1>3 DEF RequestStep, Connect, Accept, Handle, Finish, serveVars, watchVars
  <2> QED
    <3>1. Flags'
      BY <1>0, <2>3, <2>4, Zenon DEF Flags
    <3>2. Times'
      BY <1>0, <2>1, <2>3 DEF Times
    <3>3. Places'
      BY <1>0, <2>2, <2>3, <2>4 DEF Places
    <3> QED
      BY <1>0, <3>1, <3>2, <3>3
<1>4. CASE UNCHANGED vars
  <2>1. UNCHANGED <<run, result, idleDone, cause, waited, accepting, listening, errCh,
                    watch, tick, lastReq, req, since>>
    BY <1>4 DEF vars, runVars, serveVars, watchVars, reqVars
  <2>2. Flags'
    BY <1>0, <2>1, Zenon DEF Flags
  <2>3. Times'
    BY <1>0, <2>1 DEF Times
  <2>4. Places'
    BY <1>0, <2>1 DEF Places
  <2> QED
    BY <1>0, <2>2, <2>3, <2>4
<1> QED
  BY <1>1, <1>2, <1>3, <1>4 DEF Next

\* At first every variable has its type.
LEMMA TypeInit == Init => TypeOK
<1> SUFFICES ASSUME Init
             PROVE  TypeOK
  OBVIOUS
<1>1. 0 \in 0..Grace /\ 0 \in 0..Idle
  BY TimesAssumption
<1>2. since \in [Requests -> 0..Idle] /\ req \in [Requests -> ReqStates]
  BY <1>1 DEF Init, ReqStates
<1> QED
  BY <1>1, <1>2, Zenon DEF Init, TypeOK

\* The types of all variables, for any requests and times.
THEOREM TypeCorrect == Spec => []TypeOK
<1>1. Init => TypeOK
  BY TypeInit
<1> QED
  BY <1>1, TypeStep, PTL DEF Spec

-----------------------------------------------------------------------------
\* Who has told Run to stop is on record as long as it runs.
Told ==
    /\ run = "shutdown" => idleDone
    /\ idleDone /\ run # "returned" => cause # ""

\* Serve ends with ErrServerClosed only after Shutdown.
ClosedByShutdown == run \in {"new", "select"} => errCh # "closed"

\* Requests are cut when the process ends, and not before.
CutAtTheEnd == run # "returned" => \A r \in Requests : req[r] # "cut"

\* lastReq is the time of the last request to begin.
LastIsLast == \A r \in Handled : since[r] >= lastReq

IInv ==
    /\ TypeOK
    /\ Told /\ ClosedByShutdown /\ CutAtTheEnd /\ LastIsLast
    /\ CutOnlyAfterGrace /\ ResultIsTrue

\* New leaves the server as IInv says.
LEMMA IInvInit == Init => IInv
<1> SUFFICES ASSUME Init
             PROVE  IInv
  OBVIOUS
<1>1. TypeOK
  BY TypeInit
<1>2. Told /\ ClosedByShutdown /\ ResultIsTrue
  BY DEF Init, Told, ClosedByShutdown, ResultIsTrue
<1>3. CutAtTheEnd /\ CutOnlyAfterGrace /\ LastIsLast
  BY DEF Init, CutAtTheEnd, CutOnlyAfterGrace, LastIsLast, Handled
<1> QED
  BY <1>1, <1>2, <1>3 DEF IInv

\* The parts about Run, Serve and the watcher.
LEMMA TellingStep ==
    ASSUME IInv, [Next]_vars
    PROVE  Told' /\ ClosedByShutdown' /\ ResultIsTrue'
<1> USE DEF IInv, Told, ClosedByShutdown, ResultIsTrue
<1>1. CASE Second
  BY <1>1 DEF Second, serveVars
<1>2. CASE Signal
  BY <1>2 DEF Signal, serveVars
<1>3. CASE RunStart
  BY <1>3, Zenon DEF RunStart
<1>4. CASE RunShutdown
  BY <1>4, Zenon DEF RunShutdown
<1>5. CASE RunStopped
  BY <1>5, Zenon DEF RunStopped, serveVars
<1>6. CASE RunFailed
  BY <1>6 DEF TypeOK, RunFailed, ServeResult, serveVars
<1>7. CASE ServeStart
  BY <1>7 DEF ServeStart, runVars
<1>8. CASE ServeClosed
  BY <1>8 DEF ServeClosed, runVars
<1>9. CASE ServeFails
  BY <1>9 DEF ServeFails, runVars
<1>10. CASE WatchCancel
  BY <1>10 DEF WatchCancel, serveVars
<1>11. ASSUME UNCHANGED <<runVars, serveVars>>
       PROVE  Told' /\ ClosedByShutdown' /\ ResultIsTrue'
  BY <1>11, Zenon DEF runVars, serveVars
<1>12. CASE WatchStart \/ WatchTick \/ WatchDone
  BY <1>11, <1>12 DEF WatchStart, WatchTick, WatchDone
<1>13. ASSUME NEW r \in Requests, RequestStep(r)
       PROVE  Told' /\ ClosedByShutdown' /\ ResultIsTrue'
  BY <1>11, <1>13 DEF RequestStep, Connect, Accept, Handle, Finish
<1>14. CASE UNCHANGED vars
  BY <1>11, <1>14 DEF vars
<1> QED
  BY <1>1, <1>2, <1>3, <1>4, <1>5, <1>6, <1>7, <1>8, <1>9, <1>10, <1>12, <1>13, <1>14
     DEF Next, RunStep, ServeStep, WatchStep

\* A request that is in progress when Run returns is cut: after a failure, or
\* after Shutdown has waited for it in vain.
LEMMA CutStep ==
    ASSUME IInv, [Next]_vars
    PROVE  CutAtTheEnd' /\ CutOnlyAfterGrace'
<1> USE DEF IInv, TypeOK, CutAtTheEnd, CutOnlyAfterGrace
<1>1. CASE Second
  BY <1>1 DEF Second
<1>2. CASE Signal
  BY <1>2 DEF Signal, reqVars
<1>3. CASE RunStart
  BY <1>3 DEF RunStart, reqVars
<1>4. CASE RunShutdown
  BY <1>4 DEF RunShutdown, RefuseQueued
<1>5. CASE RunStopped
  <2> SUFFICES ASSUME NEW r \in Requests, req'[r] = "cut"
               PROVE  waited' = Grace
    BY <1>5 DEF RunStopped
  <2>1. req[r] \in {"accepted", "handling"}
    BY <1>5 DEF RunStopped, EndRequests
  <2>2. InProgress # {}
    BY <2>1 DEF InProgress
  <2> QED
    BY <1>5, <2>2 DEF RunStopped, ShutdownOver
<1>6. CASE RunFailed
  BY <1>6 DEF RunFailed, ServeResult, ClosedByShutdown
<1>7. CASE ServeStep
  BY <1>7 DEF ServeStep, ServeStart, ServeClosed, ServeFails, RefuseQueued, runVars, reqVars
<1>8. CASE WatchStep
  BY <1>8 DEF WatchStep, WatchStart, WatchTick, WatchCancel, WatchDone, runVars, reqVars
<1>9. ASSUME NEW r \in Requests, RequestStep(r)
      PROVE  CutAtTheEnd' /\ CutOnlyAfterGrace'
  BY <1>9 DEF RequestStep, Connect, Accept, Handle, Finish, runVars
<1>10. CASE UNCHANGED vars
  BY <1>10 DEF vars, runVars, reqVars
<1> QED
  BY <1>1, <1>2, <1>3, <1>4, <1>5, <1>6, <1>7, <1>8, <1>9, <1>10 DEF Next, RunStep

\* The handler touches lastReq when a request begins, and seconds pass for both.
LEMMA LastStep ==
    ASSUME IInv, [Next]_vars
    PROVE  LastIsLast'
<1>0. /\ LastIsLast
      /\ lastReq \in 0..Idle
      /\ req \in [Requests -> ReqStates]
      /\ since \in [Requests -> 0..Idle]
  BY DEF IInv, TypeOK
<1> USE <1>0 DEF LastIsLast, Handled
<1>1. CASE Second
  <2> SUFFICES ASSUME NEW r \in Handled
               PROVE  since'[r] >= lastReq'
    BY <1>1 DEF Second
  <2>1. /\ since'[r] = UpTo(Idle, since[r] + 1) /\ lastReq' = UpTo(Idle, lastReq + 1)
        /\ since[r] \in 0..Idle /\ lastReq \in 0..Idle /\ since[r] >= lastReq
    BY <1>1 DEF Second
  <2> QED
    BY <2>1, TimesAssumption, UpToOrder
<1>2. CASE Signal
  BY <1>2 DEF Signal, reqVars
<1>3. CASE RunStep
  BY <1>3 DEF RunStep, RunStart, RunShutdown, RunStopped, RunFailed, RefuseQueued, EndRequests, reqVars
<1>4. CASE ServeStep
  BY <1>4 DEF ServeStep, ServeStart, ServeClosed, ServeFails, RefuseQueued, reqVars
<1>5. CASE WatchStep
  BY <1>5 DEF WatchStep, WatchStart, WatchTick, WatchCancel, WatchDone, reqVars
<1>6. ASSUME NEW r \in Requests, RequestStep(r)
      PROVE  LastIsLast'
  <2>1. CASE Connect(r)
    BY <2>1 DEF Connect
  <2>2. CASE Accept(r)
    BY <2>2 DEF Accept
  <2>3. CASE Handle(r)
    <3>1. lastReq' = 0 /\ since' = [since EXCEPT ![r] = 0] /\ req' = [req EXCEPT ![r] = "handling"]
      BY <2>3 DEF Handle, touch
    <3> SUFFICES ASSUME NEW q \in Handled'
                 PROVE  since'[q] >= lastReq'
      OBVIOUS
    <3>2. CASE q = r
      <4>1. since'[q] = 0
        BY <3>1, <3>2
      <4> QED
        BY <3>1, <4>1
    <3>3. CASE q # r
      <4>1. q \in Requests /\ since \in [Requests -> 0..Idle]
        OBVIOUS
      <4>2. since'[q] = since[q] /\ since[q] \in 0..Idle
        BY <3>1, <3>3, <4>1
      <4>3. \A n \in 0..Idle : n >= 0
        BY TimesAssumption
      <4> QED
        BY <3>1, <4>2, <4>3
    <3> QED
      BY <3>2, <3>3
  <2>4. CASE Finish(r)
    BY <2>4 DEF Finish
  <2> QED
    BY <1>6, <2>1, <2>2, <2>3, <2>4 DEF RequestStep
<1>7. CASE UNCHANGED vars
  BY <1>7 DEF vars, reqVars
<1> QED
  BY <1>1, <1>2, <1>3, <1>4, <1>5, <1>6, <1>7 DEF Next

\* IInv is an inductive invariant.
THEOREM Invariance == Spec => []IInv
<1>1. IInv /\ [Next]_vars => IInv'
  BY TypeStep, TellingStep, CutStep, LastStep DEF IInv
<1> QED
  BY <1>1, IInvInit, PTL DEF Spec

\* A request that was accepted is cut only by a failed listener or after the
\* whole grace time, for any number of requests and any grace time.
THEOREM GraceIsGiven == Spec => []CutOnlyAfterGrace
<1>1. IInv => CutOnlyAfterGrace
  BY DEF IInv
<1> QED
  BY <1>1, Invariance, PTL

\* The reason that Run returns is the true one.
THEOREM ReasonIsTrue == Spec => []ResultIsTrue
<1>1. IInv => ResultIsTrue
  BY DEF IInv
<1> QED
  BY <1>1, Invariance, PTL

\* watchIdle decides to stop only when no request has begun for Idle seconds.
THEOREM IdleStopIsJustified == Spec => IdleStopJustified
<1>1. ASSUME IInv, [Next]_vars, watch' = "cancelling", watch # "cancelling"
      PROVE  \A r \in Handled : since[r] = Idle
  <2>1. WatchTick
    BY <1>1 DEF Next, Second, Signal, RunStep, RunStart, RunShutdown, RunStopped, RunFailed,
                ServeStep, ServeStart, ServeClosed, ServeFails,
                WatchStep, WatchStart, WatchCancel, WatchDone,
                RequestStep, Connect, Accept, Handle, Finish, watchVars, vars
  <2>2. lastReq >= Idle
    BY <1>1, <2>1 DEF WatchTick, AfterTick, Expired
  <2> TAKE r \in Handled
  <2>3. lastReq \in 0..Idle /\ since[r] \in 0..Idle /\ since[r] >= lastReq
    BY <1>1 DEF IInv, TypeOK, LastIsLast, Handled
  <2> QED
    BY <2>2, <2>3, TimesAssumption
<1>2. IInv /\ [Next]_vars =>
        [watch' = "cancelling" /\ watch # "cancelling"
            => \A r \in Handled : since[r] = Idle]_vars
  BY <1>1
<1> QED
  BY <1>2, Invariance, PTL DEF Spec, IdleStopJustified
=============================================================================
