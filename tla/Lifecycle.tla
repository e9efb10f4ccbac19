------------------------------- MODULE Lifecycle -------------------------------
(***************************************************************************)
(* The server process of go-client/cmd/server/main.go from its start to    *)
(* its end: main and the goroutine that runs the HTTP server, the signals, *)
(* the requests they cut off, the services they depend on, and the health  *)
(* check of the container.  A request here only runs or does not: what it  *)
(* does is OracleAPI's.  Calls carry no deadline, so a request may run for *)
(* ever.  What ends the process without its doing is not here: the Go      *)
(* runtime's end of it is Middleware's, a crash at any point OracleAPI's.  *)
(***************************************************************************)
EXTENDS Naturals

CONSTANTS
    Requests,       \* slots in which a request may be in progress
    Retries         \* failed probes in a row that make a container unhealthy: 3

ASSUME LifecycleAssumption == Retries \in Nat \ {0}

Services == {"rpc", "redis", "postgres"}

(* What the environment holds: everything, or all but one usable setting.  *)
(* No step of start-up looks at the API key, and any string is an address  *)
(* to HexToAddress, though one with no contract behind it.                 *)
Unchecked == {"noAPIKey", "badAddress"}
Settings == {"complete", "noKey", "noAddress", "badURL", "badKey"} \cup Unchecked

VARIABLES
    main,           \* how far the goroutine of main has come
    listener,       \* how far the goroutine of ListenAndServe has come
    env,            \* the settings of this process
    open,           \* the connections with a deferred Close
    signal,         \* the signals in the channel `quit'
    grace,          \* the timer of the context given to Shutdown
    handler,        \* the requests in progress
    up,             \* the condition of each service
    probe,          \* the request of the container's health check
    container       \* what the container is said to be

process == <<main, listener, env, open, signal, grace>>
vars == <<process, handler, up, probe, container>>

NoProbe == [at |-> "idle", report |-> {}, steady |-> TRUE]
Stopped == [status |-> "stopped", strikes |-> 0, young |-> FALSE]

\* An unreachable service refuses calls; one that hangs never answers them.
\* Redis never hangs: its client has timeouts of its own.
Conditions(s) == IF s = "redis" THEN {"up", "down"} ELSE {"up", "down", "hung"}
-----------------------------------------------------------------------------
(***************************************************************************)
(* The end of the process, by log.Fatalf, by a signal or by main's return, *)
(* ends everything in it; the container stops with it.                     *)
(***************************************************************************)
ProcessEnds ==
    /\ main' = "down" /\ listener' = "off" /\ env' = env
    /\ open' = {} /\ signal' = 0 /\ grace' = "unset"
    /\ handler' = [r \in Requests |-> FALSE]
    /\ probe' = NoProbe /\ container' = Stopped
    /\ up' = up

Fatalf == ProcessEnds

Start ==
    /\ main = "down"
    /\ main' = "config" /\ env' \in Settings
    /\ container' = [status |-> "starting", strikes |-> 0, young |-> TRUE]
    /\ UNCHANGED <<listener, open, signal, grace, handler, up, probe>>

Goto(stage, connections) ==
    /\ main' = stage /\ open' = connections
    /\ UNCHANGED <<listener, env, signal, grace, handler, up, probe, container>>

\* A slip: the contract's address is not asked for.
CompleteWithoutAddress == env # "noKey"

\* Of the three settings without a default, the two that are asked for.
Complete == env \notin {"noKey", "noAddress"}

LoadConfig ==
    /\ main = "config"
    /\ \/ Complete /\ Goto("dial", open)
       \/ ~Complete /\ Fatalf

\* An http URL is parsed, and nothing is sent; then NewReader binds the address.
Dial ==
    /\ main = "dial"
    /\ \/ env # "badURL" /\ Goto("updater", open \cup {"rpc"})
       \/ env = "badURL" /\ Fatalf

(* NetworkID is called with context.Background(): against a node that hangs*)
(* main waits here.  cache.New follows, which returns no error.            *)
NewUpdater ==
    /\ main = "updater"
    /\ \/ env # "badKey" /\ up["rpc"] = "up" /\ Goto("database", open \cup {"redis"})
       \/ (env = "badKey" \/ up["rpc"] = "down") /\ Fatalf

\* gorm.Open connects and pings; AutoMigrate may fail on its own.
NewDatabase ==
    /\ main = "database"
    /\ \/ up["postgres"] = "up" /\ Goto("launch", open \cup {"postgres"})
       \/ up["postgres"] # "hung" /\ Fatalf

Launch ==
    /\ main = "launch"
    /\ main' = "notify" /\ listener' = "starting"
    /\ UNCHANGED <<env, open, signal, grace, handler, up, probe, container>>

Notify ==
    /\ main = "notify"
    /\ Goto("wait", open)

ShuttingDown == main \in {"shutdown", "closing"}
Notified == main = "wait" \/ ShuttingDown

(* <-quit, then the 30-second context, then Shutdown, which closes the     *)
(* listener; ListenAndServe is then about to return ErrServerClosed.       *)
TakeSignal ==
    /\ main = "wait" /\ signal > 0
    /\ main' = "shutdown" /\ signal' = signal - 1 /\ grace' = "running"
    /\ listener' = IF listener = "on" THEN "returning" ELSE listener
    /\ UNCHANGED <<env, open, handler, up, probe, container>>

\* The 30 seconds are over.
GraceExpires ==
    /\ main = "shutdown" /\ grace = "running"
    /\ grace' = "expired"
    /\ UNCHANGED <<main, listener, env, open, signal, handler, up, probe, container>>

Serving == (\E r \in Requests : handler[r]) \/ probe.at \in Services

\* Slips: Shutdown does not wait for the requests, or waits for them for ever.
AllDoneUnchecked == TRUE
ExpiredNever == FALSE

AllDone == ~Serving
Expired == grace = "expired"

Shutdown ==
    /\ main = "shutdown"
    /\ \/ AllDone /\ Goto("closing", open)
       \/ Expired /\ Fatalf

\* The deferred calls, last first.
LastOpened ==
    IF "postgres" \in open THEN "postgres" ELSE IF "redis" \in open THEN "redis" ELSE "rpc"

Close ==
    /\ main = "closing"
    /\ \/ open # {} /\ Goto("closing", open \ {LastOpened})
       \/ open = {} /\ ProcessEnds
-----------------------------------------------------------------------------
(***************************************************************************)
(* The goroutine that runs server.ListenAndServe.                          *)
(***************************************************************************)

\* Slips: ErrServerClosed is an error like any other; errors are only logged.
FatalServeErrorAny(err) == TRUE
FatalServeErrorLogged(err) == FALSE

FatalServeError(err) == err # "ErrServerClosed"

ServeReturns(err) ==
    \/ FatalServeError(err) /\ Fatalf
    \/ /\ ~FatalServeError(err) /\ listener' = "closed"
       /\ UNCHANGED <<main, env, open, signal, grace, handler, up, probe, container>>

Reach(stage) ==
    /\ listener' = stage
    /\ UNCHANGED <<main, env, open, signal, grace, handler, up, probe, container>>

\* ListenAndServe looks for a shutdown, binds the port, and looks again.
Listen ==
    /\ listener = "starting"
    /\ \/ ~ShuttingDown /\ Reach("binding")
       \/ ShuttingDown /\ ServeReturns("ErrServerClosed")

Bind ==
    /\ listener = "binding"
    /\ \/ ~ShuttingDown /\ Reach("on")
       \/ ShuttingDown /\ ServeReturns("ErrServerClosed")
       \/ ServeReturns("address already in use")

\* Accept fails for good, and Serve is about to return its error.
AcceptFails == listener = "on" /\ Reach("failed")

Return ==
    \/ listener = "returning" /\ ServeReturns("ErrServerClosed")
    \/ listener = "failed" /\ ServeReturns("accept error")
-----------------------------------------------------------------------------
(***************************************************************************)
(* Signals, requests and services.                                         *)
(***************************************************************************)

\* A slip: a channel that takes every signal.
BufferedUnbounded(n) == n + 1

\* signal.Notify does not block: what finds the channel full is dropped.
Buffered(n) == 1

\* Before signal.Notify a SIGINT or SIGTERM has its default effect.
Signal ==
    /\ main # "down"
    /\ \/ ~Notified /\ ProcessEnds
       \/ /\ Notified /\ signal' = Buffered(signal)
          /\ UNCHANGED <<main, listener, env, open, grace, handler, up, probe, container>>

Arrive(r) ==
    /\ listener = "on" /\ ~handler[r]
    /\ handler' = [handler EXCEPT ![r] = TRUE]
    /\ UNCHANGED <<process, up, probe, container>>

Finish(r) ==
    /\ handler[r]
    /\ handler' = [handler EXCEPT ![r] = FALSE]
    /\ UNCHANGED <<process, up, probe, container>>

ServiceChanges(s) ==
    /\ \E c \in Conditions(s) \ {up[s]} : up' = [up EXCEPT ![s] = c]
    /\ probe' = [probe EXCEPT !.steady = FALSE]
    /\ UNCHANGED <<process, handler, container>>
-----------------------------------------------------------------------------
(***************************************************************************)
(* The health check: curl -f on /health, which HealthHandler answers after *)
(* one call to each service in turn.                                       *)
(***************************************************************************)
Strike ==
    LET n == container.strikes + 1
    IN  IF n >= Retries
        THEN container' = [container EXCEPT !.status = "unhealthy", !.strikes = Retries]
        ELSE container' = [container EXCEPT !.strikes = n]

\* A slip: a check that ends in `|| true'.
ProbeFailsNever ==
    /\ probe' = NoProbe
    /\ container' = [status |-> "healthy", strikes |-> 0, young |-> FALSE]
    /\ UNCHANGED <<process, handler, up>>

\* Failures in the start period do not count.
ProbeFails ==
    /\ probe' = NoProbe
    /\ \/ container.young /\ container' = container
       \/ ~container.young /\ Strike
    /\ UNCHANGED <<process, handler, up>>

\* The start period lasts 5 seconds, or until the first success.
StartPeriodEnds ==
    /\ container.young
    /\ container' = [container EXCEPT !.young = FALSE]
    /\ UNCHANGED <<process, handler, up, probe>>

ProbeStarts ==
    /\ container # Stopped /\ probe.at \notin Services
    /\ \/ /\ listener = "on"
          /\ probe' = [NoProbe EXCEPT !.at = "rpc"]
          /\ UNCHANGED <<process, handler, up, container>>
       \/ listener # "on" /\ ProbeFails

NextCall(s) == CASE s = "rpc" -> "redis" [] s = "redis" -> "postgres" [] s = "postgres" -> "answered"

\* A slip: the error of the first call is taken for the error of each.
ConnectedAsRpc(s) == IF s = "rpc" THEN up[s] = "up" ELSE "rpc" \in probe.report

\* The node is asked for the contract's price.
Connected(s) == up[s] = "up" /\ (s = "rpc" => env # "badAddress")

\* The status of the reply is 200 whatever its body says.
HealthCall(s) ==
    /\ probe.at = s /\ up[s] # "hung"
    /\ probe' = [probe EXCEPT !.at = NextCall(s),
                              !.report = IF Connected(s) THEN @ \cup {s} ELSE @]
    /\ container' = IF NextCall(s) = "answered"
                    THEN [status |-> "healthy", strikes |-> 0, young |-> FALSE]
                    ELSE container
    /\ UNCHANGED <<process, handler, up>>

\* After 10 seconds the check is given up; its context ends the handler.
HealthTimeout ==
    /\ probe.at \in Services /\ up[probe.at] = "hung"
    /\ ProbeFails
-----------------------------------------------------------------------------
Init ==
    /\ main = "down" /\ listener = "off" /\ env = "complete"
    /\ open = {} /\ signal = 0 /\ grace = "unset"
    /\ handler = [r \in Requests |-> FALSE]
    /\ up = [s \in Services |-> "up"]
    /\ probe = NoProbe /\ container = Stopped

MainStep ==
    \/ LoadConfig \/ Dial \/ NewUpdater \/ NewDatabase \/ Launch \/ Notify
    \/ TakeSignal \/ Shutdown \/ Close

ServerStep == Listen \/ Bind \/ Return

Probing == ProbeStarts \/ (\E s \in Services : HealthCall(s)) \/ HealthTimeout

Next ==
    \/ Start \/ MainStep \/ ServerStep \/ AcceptFails \/ GraceExpires \/ Signal
    \/ Probing \/ StartPeriodEnds
    \/ \E r \in Requests : Arrive(r) \/ Finish(r)
    \/ \E s \in Services : ServiceChanges(s)

Spec == Init /\ [][Next]_vars

(* The scheduler runs both goroutines, the timer of the context runs, and  *)
(* the container grows old and is probed every 30 seconds.  No request has *)
(* to finish, no service has to recover, and nobody has to start the       *)
(* process.                                                                *)
Fairness ==
    /\ WF_vars(MainStep) /\ WF_vars(ServerStep) /\ WF_vars(GraceExpires)
    /\ WF_vars(Probing) /\ WF_vars(StartPeriodEnds)

FairSpec == Spec /\ Fairness
-----------------------------------------------------------------------------
Stages == {"down", "config", "dial", "updater", "database", "launch", "notify", "wait",
           "shutdown", "closing"}

Probes == [at : Services \cup {"idle", "answered"}, report : SUBSET Services, steady : BOOLEAN]
Containers == [status : {"stopped", "starting", "healthy", "unhealthy"},
               strikes : 0..Retries, young : BOOLEAN]

TypeOK ==
    /\ main \in Stages /\ env \in Settings /\ open \subseteq Services
    /\ listener \in {"off", "starting", "binding", "on", "failed", "returning", "closed"}
    /\ signal \in {0, 1} /\ grace \in {"unset", "running", "expired"}
    /\ handler \in [Requests -> BOOLEAN]
    /\ up \in [Services -> {"up", "down", "hung"}]
    /\ probe \in Probes /\ container \in Containers

(* From the first request to the last, through a shutdown as well, the     *)
(* process has every setting that start-up checks and none of the          *)
(* connections that its handlers use has been closed.  The two settings    *)
(* that nothing checks may be missing from a server that takes requests.   *)
ServingIsReady ==
    listener = "on" \/ Serving => env \in {"complete"} \cup Unchecked /\ open = Services

(* "Give outstanding requests 30 seconds to complete": once signal.Notify  *)
(* was called, neither main nor the server's goroutine ends the process    *)
(* under a running request before the 30 seconds are over, though          *)
(* ListenAndServe returns at once on Shutdown, unless Accept has failed:   *)
(* that error is fatal under whatever runs.  (A signal between the start   *)
(* of the listener and Notify still kills.)                                *)
GraceHonoured ==
    [][Serving /\ main' = "down" =>
          ~Notified \/ grace = "expired" \/ listener = "failed"]_vars

(* After a signal the process ends, though requests may hang for ever and  *)
(* though a second signal is not heard.                                    *)
SignalEndsProcess == signal = 1 ~> main = "down"

NothingHangs == \A s \in Services : up[s] # "hung"

(* Unless the node or Postgres hangs, a process that was started comes to  *)
(* serve or ends; it does not linger without a listener.                   *)
StartsOrDies == <>[]NothingHangs => (main = "config" ~> listener = "on" \/ main = "down")

(* A health report names exactly the services that answer (of the node,    *)
(* that the contract answers), if none changed while it was made: one that *)
(* fails does not make the others look down.                               *)
HealthReportExact ==
    probe.at = "answered" /\ probe.steady =>
        \A s \in Services : s \in probe.report <=>
            up[s] = "up" /\ ~(s = "rpc" /\ env = "badAddress")

(* The health handler's calls carry no deadline, so the check's own is what*)
(* notices a service that hangs: while the server listens and the node or  *)
(* Postgres hangs, the container comes to be unhealthy for good, whatever  *)
(* else comes and goes, and though a failure in the start period is lost.  *)
HangIsNoticed ==
    \A s \in Services :
        <>[](listener = "on" /\ up[s] = "hung") => <>[](container.status = "unhealthy")
=============================================================================
