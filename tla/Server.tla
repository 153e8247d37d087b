------------------------------- MODULE Server -------------------------------
(***************************************************************************)
(* internal/serve: the life of a running server.  Four kinds of goroutine  *)
(* meet here: Run, which waits to be told to stop; the one that runs       *)
(* http.Server.Serve; watchIdle, which looks at lastReq every second; and  *)
(* one handler per request, which sets lastReq.  What a request is         *)
(* answered with is not part of this module.                               *)
(*                                                                         *)
(* Time is counted in seconds, and a time is kept as how long ago it was,  *)
(* up to the bound that matters (Idle, Grace): the clock has no end.  Any  *)
(* goroutine may be slow, so seconds may go by between any two steps.      *)
(***************************************************************************)
EXTENDS Integers, FiniteSets

CONSTANTS
    Requests, \* the requests that clients will ever make
    Idle,     \* Options.Idle in seconds, 0 = never
    Grace     \* seconds Shutdown waits for requests in progress; 2 in the code

ASSUME TimesAssumption == Idle \in Nat /\ Grace \in Nat \ {0}

VARIABLES
    run,       \* main and Run: "new", "select", "shutdown", "returned"
    result,    \* what Run returned: "canceled", "nil", "error"; "" before
    idleDone,  \* idleCtx is cancelled
    cause,     \* who cancelled it: "signal", "idle"; "" before
    waited,    \* seconds spent in Shutdown, up to Grace
    accepting, \* the Serve goroutine: "off", "starting", "on", "over"
    listening, \* the listener is open
    errCh,     \* "closed" or "error" when Serve's result is in the channel
    watch,     \* watchIdle: "off", "starting", "waiting", "cancelling", "over"
    tick,      \* a tick is waiting in the ticker's channel
    lastReq,   \* seconds since Server.lastReq, up to Idle
    req,       \* of each request: where it is
    since      \* of each request: seconds since its handler began, up to Idle

runVars == <<run, result, idleDone, cause, waited>>
serveVars == <<accepting, listening, errCh>>
watchVars == <<watch, tick>>
reqVars == <<req, since>>
vars == <<runVars, serveVars, watchVars, lastReq, reqVars>>

ReqStates == {"none", "queued", "accepted", "handling", "done", "refused", "cut"}

InProgress == {r \in Requests : req[r] \in {"accepted", "handling"}}

TypeOK ==
    /\ run \in {"new", "select", "shutdown", "returned"}
    /\ result \in {"", "canceled", "nil", "error"}
    /\ idleDone \in BOOLEAN
    /\ cause \in {"", "signal", "idle"}
    /\ waited \in 0..Grace
    /\ accepting \in {"off", "starting", "on", "over"}
    /\ listening \in BOOLEAN
    /\ errCh \in {"", "closed", "error"}
    /\ watch \in {"off", "starting", "waiting", "cancelling", "over"}
    /\ tick \in BOOLEAN
    /\ lastReq \in 0..Idle
    /\ req \in [Requests -> ReqStates]
    /\ since \in [Requests -> 0..Idle]

-----------------------------------------------------------------------------
\* New: the listener is open and lastReq is now; Run has not begun.
Init ==
    /\ run = "new" /\ result = "" /\ idleDone = FALSE /\ cause = "" /\ waited = 0
    /\ accepting = "off" /\ listening = TRUE /\ errCh = ""
    /\ watch = "off" /\ tick = FALSE
    /\ lastReq = 0
    /\ req = [r \in Requests |-> "none"]
    /\ since = [r \in Requests |-> 0]

UpTo(bound, n) == IF n < bound THEN n ELSE bound

\* A second goes by.  The ticker drops a tick nobody has taken yet.
Second ==
    /\ run # "returned"
    /\ lastReq' = UpTo(Idle, lastReq + 1)
    /\ since' = [r \in Requests |-> UpTo(Idle, since[r] + 1)]
    /\ tick' = (watch \in {"waiting", "cancelling"})
    /\ waited' = IF run = "shutdown" THEN UpTo(Grace, waited + 1) ELSE waited
    /\ UNCHANGED <<run, result, idleDone, cause, serveVars, watch, req>>

\* When the process ends, so does everything it was doing.
EndRequests ==
    req' = [r \in Requests |->
        CASE req[r] \in {"accepted", "handling"} -> "cut"
          [] req[r] = "queued" -> "refused"
          [] OTHER -> req[r]]

RefuseQueued ==
    req' = [r \in Requests |-> IF req[r] = "queued" THEN "refused" ELSE req[r]]

-----------------------------------------------------------------------------
(* Run, and main around it. *)

\* Up to the select: idleCtx, watchIdle if there is an idle time, Serve.
RunStart ==
    /\ run = "new"
    /\ run' = "select"
    /\ watch' = IF Idle > 0 THEN "starting" ELSE "off"
    /\ accepting' = "starting"
    /\ UNCHANGED <<result, idleDone, cause, waited, listening, errCh, tick, lastReq, reqVars>>

\* Ctrl-C or SIGTERM: main's context, and idleCtx with it.
Signal ==
    /\ run \in {"select", "shutdown"}
    /\ ~idleDone
    /\ idleDone' = TRUE
    /\ cause' = "signal"
    /\ UNCHANGED <<run, result, waited, serveVars, watchVars, lastReq, reqVars>>

\* The select takes idleCtx.Done; Shutdown first closes the listener Serve has
\* registered, if Serve has got that far.
RunShutdown ==
    /\ run = "select"
    /\ idleDone
    /\ run' = "shutdown"
    /\ IF accepting = "on"
       THEN listening' = FALSE /\ RefuseQueued
       ELSE UNCHANGED <<listening, req>>
    /\ UNCHANGED <<result, idleDone, cause, waited, accepting, errCh, watchVars, lastReq, since>>

\* FAULT: Close instead of Shutdown, which waits for nobody.
FaultNoWait == TRUE

\* FAULT: Shutdown with a context that never expires.
FaultNoTimeout == InProgress = {}

\* Shutdown returns: nothing is in progress, or its context has expired.
ShutdownOver == InProgress = {} \/ waited = Grace

RunStopped ==
    /\ run = "shutdown"
    /\ ShutdownOver
    /\ run' = "returned"
    /\ result' = "canceled"
    /\ EndRequests
    /\ UNCHANGED <<idleDone, cause, waited, serveVars, watchVars, lastReq, since>>

\* FAULT: whatever Serve returns is taken for a clean end.
FaultErrorLost(err) == "nil"

ServeResult(err) == IF err = "closed" THEN "nil" ELSE "error"

\* The select takes errCh; the deferred cancelIdle runs.
RunFailed ==
    /\ run = "select"
    /\ errCh # ""
    /\ run' = "returned"
    /\ result' = ServeResult(errCh)
    /\ idleDone' = TRUE
    /\ EndRequests
    /\ UNCHANGED <<cause, waited, serveVars, watchVars, lastReq, since>>

-----------------------------------------------------------------------------
(* The Serve goroutine (net/http). *)

\* After Shutdown has been called, Serve closes the listener and returns.
ServeStart ==
    /\ accepting = "starting"
    /\ run \in {"select", "shutdown"}
    /\ IF run = "shutdown"
       THEN accepting' = "over" /\ listening' = FALSE /\ errCh' = "closed" /\ RefuseQueued
       ELSE accepting' = "on" /\ UNCHANGED <<listening, errCh, req>>
    /\ UNCHANGED <<runVars, watchVars, lastReq, since>>

\* Accept fails because Shutdown has closed the listener.
ServeClosed ==
    /\ accepting = "on"
    /\ run = "shutdown"
    /\ accepting' = "over"
    /\ errCh' = "closed"
    /\ UNCHANGED <<runVars, listening, watchVars, lastReq, reqVars>>

\* Accept fails for another reason.
ServeFails ==
    /\ accepting = "on"
    /\ run = "select"
    /\ accepting' = "over"
    /\ listening' = FALSE
    /\ errCh' = "error"
    /\ RefuseQueued
    /\ UNCHANGED <<runVars, watchVars, lastReq, since>>

-----------------------------------------------------------------------------
(* watchIdle. *)

Expired(idleFor) == idleFor >= Idle

\* FAULT: no loop around the select.
FaultOneLook(idleFor) == IF Expired(idleFor) THEN "cancelling" ELSE "over"

AfterTick(idleFor) == IF Expired(idleFor) THEN "cancelling" ELSE "waiting"

WatchStart ==
    /\ watch = "starting"
    /\ run # "returned"
    /\ watch' = "waiting"
    /\ UNCHANGED <<runVars, serveVars, tick, lastReq, reqVars>>

\* A tick: lastReq is read under the mutex, and compared after it is let go.
WatchTick ==
    /\ watch = "waiting"
    /\ run # "returned"
    /\ tick
    /\ tick' = FALSE
    /\ watch' = AfterTick(lastReq)
    /\ UNCHANGED <<runVars, serveVars, lastReq, reqVars>>

WatchCancel ==
    /\ watch = "cancelling"
    /\ run # "returned"
    /\ watch' = "over"
    /\ tick' = FALSE
    /\ idleDone' = TRUE
    /\ cause' = IF idleDone THEN cause ELSE "idle"
    /\ UNCHANGED <<run, result, waited, serveVars, lastReq, reqVars>>

WatchDone ==
    /\ watch = "waiting"
    /\ run # "returned"
    /\ idleDone
    /\ watch' = "over"
    /\ tick' = FALSE
    /\ UNCHANGED <<runVars, serveVars, lastReq, reqVars>>

-----------------------------------------------------------------------------
(* Requests. *)

\* The kernel queues a connection as soon as New has opened the listener.
Connect(r) ==
    /\ listening /\ run # "returned"
    /\ req[r] = "none"
    /\ req' = [req EXCEPT ![r] = "queued"]
    /\ UNCHANGED <<runVars, serveVars, watchVars, lastReq, since>>

Accept(r) ==
    /\ accepting = "on" /\ listening /\ run # "returned"
    /\ req[r] = "queued"
    /\ req' = [req EXCEPT ![r] = "accepted"]
    /\ UNCHANGED <<runVars, serveVars, watchVars, lastReq, since>>

\* FAULT: the time is not filled in: the zero time is longer ago than Idle.
FaultZeroTime == lastReq' = Idle + 1

\* FAULT: the handler does not touch lastReq.
FaultNoTouch == lastReq' = lastReq

touch == lastReq' = 0

\* The handler begins; it touches lastReq once, here.
Handle(r) ==
    /\ run # "returned"
    /\ req[r] = "accepted"
    /\ req' = [req EXCEPT ![r] = "handling"]
    /\ since' = [since EXCEPT ![r] = 0]
    /\ touch
    /\ UNCHANGED <<runVars, serveVars, watchVars>>

\* It has written the whole answer.
Finish(r) ==
    /\ run # "returned"
    /\ req[r] = "handling"
    /\ req' = [req EXCEPT ![r] = "done"]
    /\ UNCHANGED <<runVars, serveVars, watchVars, lastReq, since>>

-----------------------------------------------------------------------------
RunStep == RunStart \/ RunShutdown \/ RunStopped \/ RunFailed
ServeStep == ServeStart \/ ServeClosed \/ ServeFails
WatchStep == WatchStart \/ WatchTick \/ WatchCancel \/ WatchDone
RequestStep(r) == Connect(r) \/ Accept(r) \/ Handle(r) \/ Finish(r)

Next ==
    \/ Second \/ Signal
    \/ RunStep \/ ServeStep \/ WatchStep
    \/ \E r \in Requests : RequestStep(r)

Spec == Init /\ [][Next]_vars

\* Time passes and the scheduler gets round to Run and to watchIdle.  No client,
\* no signal and no handler is ever obliged to do anything.
FairSpec == Spec /\ WF_vars(Second) /\ WF_vars(RunStep) /\ WF_vars(WatchStep)

-----------------------------------------------------------------------------
(* Properties. *)

Handled == {r \in Requests : req[r] \in {"handling", "done"}}

\* watchIdle makes up its mind to stop the server only when, at that moment, no
\* request has begun for Idle seconds.
IdleStopJustified ==
    [][watch' = "cancelling" /\ watch # "cancelling"
        => \A r \in Handled : since[r] = Idle]_vars

\* A request that Serve has accepted is cut off only by a failed listener or
\* after Shutdown has waited the whole grace time: a stop, even one that was
\* decided just before the request came in, lets short requests finish.
CutOnlyAfterGrace ==
    \A r \in Requests : req[r] = "cut" => result = "error" \/ waited = Grace

\* The reason Run gives its caller is true: "canceled", which vault reports as an
\* ordinary stop, only after a signal or for idleness, and anything else only
\* when Serve has failed.
ResultIsTrue ==
    run = "returned" => \/ result = "canceled" /\ cause # ""
                        \/ result = "error" /\ errCh = "error"

\* Once told to stop, Run does return, whatever the requests in progress do.
StopIsHeeded == cause # "" ~> run = "returned"

\* A server with an idle time that is left alone stops by itself.
IdleStops == Idle > 0 => <>(run = "returned")

\* "auto-shutdown after this much inactivity": the idle stop finds nothing going on.
IdleMeansInactive ==
    [][cause' = "idle" /\ cause # "idle" => \A r \in Requests : req[r] # "handling"]_vars
=============================================================================
