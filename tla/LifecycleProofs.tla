--------------------------- MODULE LifecycleProofs ---------------------------
(***************************************************************************)
(* Theorems about the server process, for any number of requests and any   *)
(* number of probes that make a container unhealthy.                       *)
(***************************************************************************)
EXTENDS Lifecycle, TLAPS

BeforeDial == {"down", "config"}
BeforeLaunch == BeforeDial \cup {"dial", "updater", "database", "launch"}
Accepting == {"notify", "wait"}

\* What has been found in order, and what has been opened, by each stage of main.
StageSound ==
    /\ main \notin BeforeDial => Complete
    /\ main \notin BeforeDial \cup {"dial"} => env # "badURL"
    /\ main \notin BeforeDial \cup {"dial", "updater"} => env # "badKey"
    /\ main \in BeforeDial \cup {"dial"} => open = {}
    /\ main = "updater" => open = {"rpc"}
    /\ main = "database" => open = {"rpc", "redis"}
    /\ main \in {"launch", "shutdown"} \cup Accepting => open = Services

\* What the goroutine of ListenAndServe may be doing at each stage.
ListenerSound ==
    /\ main \in BeforeLaunch => listener = "off"
    /\ listener = "on" => main \in Accepting
    /\ listener = "failed" => main \notin BeforeLaunch
    /\ listener \in {"returning", "closed"} => ShuttingDown

\* Requests run only behind a listener that was on, and until Shutdown has waited for them.
ServingSound ==
    Serving => main \in Accepting \cup {"shutdown"}
               /\ listener \in {"on", "failed", "returning", "closed"}

LifecycleInv == TypeOK /\ StageSound /\ ListenerSound /\ ServingSound

USE LifecycleAssumption
-----------------------------------------------------------------------------
(* However the process ends, what is left is in order.                     *)
LEMMA EndKeeps ==
  ASSUME LifecycleInv, ProcessEnds
  PROVE  LifecycleInv'
<1>1. TypeOK'
  BY DEF ProcessEnds, LifecycleInv, TypeOK, NoProbe, Stopped, Probes, Containers, Stages, Services
<1>2. StageSound' /\ ListenerSound'
  BY DEF ProcessEnds, StageSound, ListenerSound, BeforeDial, BeforeLaunch, Accepting
<1>3. ~Serving'
  BY DEF ProcessEnds, Serving, NoProbe, Services
<1> QED
  BY <1>1, <1>2, <1>3 DEF LifecycleInv, ServingSound

(* The steps of main.                                                      *)
LEMMA MainStepKeeps ==
  ASSUME LifecycleInv, MainStep
  PROVE  LifecycleInv'
<1> SUFFICES ASSUME ~ProcessEnds
             PROVE  LifecycleInv'
  BY EndKeeps
<1> USE DEF LifecycleInv, Goto, Fatalf, ShuttingDown, Accepting, BeforeDial, BeforeLaunch
<1>1. CASE LoadConfig
  <2>1. TypeOK'
    BY <1>1 DEF LoadConfig, TypeOK, Stages, Services
  <2>2. StageSound'
    BY <1>1 DEF LoadConfig, StageSound, Complete, Services, TypeOK, Settings, Unchecked
  <2>3. ListenerSound'
    BY <1>1 DEF LoadConfig, ListenerSound, TypeOK
  <2>4. ServingSound'
    BY <1>1 DEF LoadConfig, ServingSound, ListenerSound, Serving
  <2> QED
    BY <2>1, <2>2, <2>3, <2>4
<1>2. CASE Dial
  <2>1. TypeOK'
    BY <1>2 DEF Dial, TypeOK, Stages, Services
  <2>2. StageSound'
    BY <1>2 DEF Dial, StageSound, Complete, Services, TypeOK, Settings, Unchecked
  <2>3. ListenerSound'
    BY <1>2 DEF Dial, ListenerSound, TypeOK
  <2>4. ServingSound'
    BY <1>2 DEF Dial, ServingSound, ListenerSound, Serving
  <2> QED
    BY <2>1, <2>2, <2>3, <2>4
<1>3. CASE NewUpdater
  <2>1. TypeOK'
    BY <1>3 DEF NewUpdater, TypeOK, Stages, Services
  <2>2. StageSound'
    BY <1>3 DEF NewUpdater, StageSound, Complete, Services, TypeOK, Settings, Unchecked
  <2>3. ListenerSound'
    BY <1>3 DEF NewUpdater, ListenerSound, TypeOK
  <2>4. ServingSound'
    BY <1>3 DEF NewUpdater, ServingSound, ListenerSound, Serving
  <2> QED
    BY <2>1, <2>2, <2>3, <2>4
<1>4. CASE NewDatabase
  <2>1. TypeOK'
    BY <1>4 DEF NewDatabase, TypeOK, Stages, Services
  <2>2. StageSound'
    BY <1>4 DEF NewDatabase, StageSound, Complete, Services, TypeOK, Settings, Unchecked
  <2>3. ListenerSound'
    BY <1>4 DEF NewDatabase, ListenerSound, TypeOK
  <2>4. ServingSound'
    BY <1>4 DEF NewDatabase, ServingSound, ListenerSound, Serving
  <2> QED
    BY <2>1, <2>2, <2>3, <2>4
<1>5. CASE Launch
  <2>1. TypeOK'
    BY <1>5 DEF Launch, TypeOK, Stages, Services
  <2>2. StageSound'
    BY <1>5 DEF Launch, StageSound, Complete, Services, TypeOK, Settings, Unchecked
  <2>3. ListenerSound'
    BY <1>5 DEF Launch, ListenerSound, TypeOK
  <2>4. ServingSound'
    BY <1>5 DEF Launch, ServingSound, ListenerSound, Serving
  <2> QED
    BY <2>1, <2>2, <2>3, <2>4
<1>6. CASE Notify
  <2>1. TypeOK'
    BY <1>6 DEF Notify, TypeOK, Stages, Services
  <2>2. StageSound'
    BY <1>6 DEF Notify, StageSound, Complete, Services, TypeOK, Settings, Unchecked
  <2>3. ListenerSound'
    BY <1>6 DEF Notify, ListenerSound, TypeOK
  <2>4. ServingSound'
    BY <1>6 DEF Notify, ServingSound, ListenerSound, Serving
  <2> QED
    BY <2>1, <2>2, <2>3, <2>4
<1>7. CASE TakeSignal
  <2>1. TypeOK'
    BY <1>7 DEF TakeSignal, TypeOK, Stages, Services
  <2>2. StageSound'
    BY <1>7 DEF TakeSignal, StageSound, Complete, Services, TypeOK, Settings, Unchecked
  <2>3. ListenerSound'
    BY <1>7 DEF TakeSignal, ListenerSound, TypeOK
  <2>4. ServingSound'
    BY <1>7 DEF TakeSignal, ServingSound, ListenerSound, Serving
  <2> QED
    BY <2>1, <2>2, <2>3, <2>4
<1>8. CASE Shutdown
  <2>1. TypeOK'
    BY <1>8 DEF Shutdown, TypeOK, Stages, Services
  <2>2. StageSound'
    BY <1>8 DEF Shutdown, StageSound, Complete, Services, TypeOK, Settings, Unchecked
  <2>3. ListenerSound'
    BY <1>8 DEF Shutdown, ListenerSound, TypeOK
  <2>4. ServingSound'
    BY <1>8 DEF Shutdown, ServingSound, ListenerSound, Serving, AllDone
  <2> QED
    BY <2>1, <2>2, <2>3, <2>4
<1>9. CASE Close
  <2>1. TypeOK'
    BY <1>9 DEF Close, TypeOK, Stages, Services, LastOpened
  <2>2. StageSound'
    BY <1>9 DEF Close, StageSound, Complete, Services, TypeOK, Settings, Unchecked, LastOpened
  <2>3. ListenerSound'
    BY <1>9 DEF Close, ListenerSound, TypeOK
  <2>4. ServingSound'
    BY <1>9 DEF Close, ServingSound, ListenerSound, Serving
  <2> QED
    BY <2>1, <2>2, <2>3, <2>4
<1> QED
  BY <1>1, <1>2, <1>3, <1>4, <1>5, <1>6, <1>7, <1>8, <1>9 DEF MainStep

(* The goroutine of ListenAndServe.                                        *)
LEMMA ServerStepKeeps ==
  ASSUME LifecycleInv, ServerStep
  PROVE  LifecycleInv'
<1> SUFFICES ASSUME ~ProcessEnds
             PROVE  LifecycleInv'
  BY EndKeeps
<1> USE DEF LifecycleInv, Fatalf, ShuttingDown, Accepting, BeforeDial, BeforeLaunch,
            Reach, ServeReturns, FatalServeError
<1>1. CASE Listen
  <2>1. TypeOK'
    BY <1>1 DEF Listen, TypeOK
  <2>2. StageSound'
    BY <1>1 DEF Listen, StageSound, Complete
  <2>3. ListenerSound'
    BY <1>1 DEF Listen, ListenerSound, TypeOK, Stages
  <2>4. ServingSound'
    BY <1>1 DEF Listen, ServingSound, ListenerSound, Serving
  <2> QED
    BY <2>1, <2>2, <2>3, <2>4
<1>2. CASE Bind
  <2>1. TypeOK'
    BY <1>2 DEF Bind, TypeOK
  <2>2. StageSound'
    BY <1>2 DEF Bind, StageSound, Complete
  <2>3. ListenerSound'
    BY <1>2 DEF Bind, ListenerSound, TypeOK, Stages
  <2>4. ServingSound'
    BY <1>2 DEF Bind, ServingSound, ListenerSound, Serving
  <2> QED
    BY <2>1, <2>2, <2>3, <2>4
<1>3. CASE Return
  <2>1. TypeOK'
    BY <1>3 DEF Return, TypeOK
  <2>2. StageSound'
    BY <1>3 DEF Return, StageSound, Complete
  <2>3. ListenerSound'
    BY <1>3 DEF Return, ListenerSound, TypeOK, Stages
  <2>4. ServingSound'
    BY <1>3 DEF Return, ServingSound, ListenerSound, Serving
  <2> QED
    BY <2>1, <2>2, <2>3, <2>4
<1> QED
  BY <1>1, <1>2, <1>3 DEF ServerStep

(* Signals, the timer, requests and services.                              *)
LEMMA SurroundingsKeep ==
  ASSUME LifecycleInv,
         \/ Start \/ AcceptFails \/ GraceExpires \/ Signal
         \/ \E r \in Requests : Arrive(r) \/ Finish(r)
         \/ \E s \in Services : ServiceChanges(s)
  PROVE  LifecycleInv'
<1> SUFFICES ASSUME ~ProcessEnds
             PROVE  LifecycleInv'
  BY EndKeeps
<1> USE DEF LifecycleInv, ShuttingDown, Accepting, BeforeDial, BeforeLaunch, process
<1>1. CASE Start
  <2>1. TypeOK'
    BY <1>1 DEF Start, TypeOK, Stages, Containers
  <2>2. StageSound' /\ ListenerSound'
    BY <1>1 DEF Start, StageSound, ListenerSound, Complete
  <2>3. ServingSound'
    BY <1>1 DEF Start, ServingSound, Serving
  <2> QED
    BY <2>1, <2>2, <2>3
<1>2. CASE GraceExpires
  <2>1. TypeOK'
    BY <1>2 DEF GraceExpires, TypeOK, Stages, Buffered
  <2>2. StageSound' /\ ListenerSound'
    BY <1>2 DEF GraceExpires, StageSound, ListenerSound, Complete
  <2>3. ServingSound'
    BY <1>2 DEF GraceExpires, ServingSound, Serving
  <2> QED
    BY <2>1, <2>2, <2>3
<1>3. CASE Signal
  <2>1. TypeOK'
    BY <1>3 DEF Signal, TypeOK, Stages, Buffered
  <2>2. StageSound' /\ ListenerSound'
    BY <1>3 DEF Signal, StageSound, ListenerSound, Complete
  <2>3. ServingSound'
    BY <1>3 DEF Signal, ServingSound, Serving
  <2> QED
    BY <2>1, <2>2, <2>3
<1>4. ASSUME NEW r \in Requests, Arrive(r)
      PROVE  LifecycleInv'
  <2>1. TypeOK'
    BY <1>4 DEF Arrive, TypeOK, Conditions
  <2>2. StageSound' /\ ListenerSound'
    BY <1>4 DEF Arrive, StageSound, ListenerSound, Complete
  <2>3. ServingSound'
    BY <1>4 DEF Arrive, ServingSound, ListenerSound, Serving, TypeOK
  <2> QED
    BY <2>1, <2>2, <2>3
<1>5. ASSUME NEW r \in Requests, Finish(r)
      PROVE  LifecycleInv'
  <2>1. TypeOK'
    BY <1>5 DEF Finish, TypeOK, Conditions
  <2>2. StageSound' /\ ListenerSound'
    BY <1>5 DEF Finish, StageSound, ListenerSound, Complete
  <2>3. ServingSound'
    BY <1>5 DEF Finish, ServingSound, ListenerSound, Serving, TypeOK
  <2> QED
    BY <2>1, <2>2, <2>3
<1>6. ASSUME NEW s \in Services, ServiceChanges(s)
      PROVE  LifecycleInv'
  <2>1. TypeOK'
    <3>1. up' \in [Services -> {"up", "down", "hung"}]
      BY <1>6 DEF ServiceChanges, TypeOK, Conditions
    <3>2. probe' \in Probes
      BY <1>6 DEF ServiceChanges, TypeOK, Probes
    <3> QED
      BY <1>6, <3>1, <3>2 DEF ServiceChanges, TypeOK
  <2>2. StageSound' /\ ListenerSound'
    BY <1>6 DEF ServiceChanges, StageSound, ListenerSound, Complete
  <2>3. ServingSound'
    BY <1>6 DEF ServiceChanges, ServingSound, ListenerSound, Serving, TypeOK
  <2> QED
    BY <2>1, <2>2, <2>3
<1>7. CASE AcceptFails
  <2>1. TypeOK'
    BY <1>7 DEF AcceptFails, Reach, TypeOK
  <2>2. StageSound' /\ ListenerSound'
    BY <1>7 DEF AcceptFails, Reach, StageSound, ListenerSound, Complete
  <2>3. ServingSound'
    BY <1>7 DEF AcceptFails, Reach, ServingSound, ListenerSound, Serving
  <2> QED
    BY <2>1, <2>2, <2>3
<1> QED
  BY <1>1, <1>2, <1>3, <1>4, <1>5, <1>6, <1>7

(* The health check.                                                       *)
LEMMA ProbingKeeps ==
  ASSUME LifecycleInv, Probing \/ StartPeriodEnds
  PROVE  LifecycleInv'
<1> USE DEF LifecycleInv, process
<1>1. UNCHANGED <<process, handler, up>>
  BY DEF Probing, ProbeStarts, HealthCall, HealthTimeout, ProbeFails, StartPeriodEnds
<1>2. StageSound' /\ ListenerSound'
  BY <1>1 DEF StageSound, ListenerSound, Complete, ShuttingDown
<1>3. ProbeFails => probe' \in Probes /\ container' \in Containers
  <2>1. ASSUME Strike
        PROVE  container' \in Containers
    <3>1. container \in Containers /\ container.strikes + 1 \in Nat
      BY DEF TypeOK, Containers
    <3>2. CASE container.strikes + 1 >= Retries
      <4>1. container' = [container EXCEPT !.status = "unhealthy", !.strikes = Retries]
        BY <2>1, <3>2 DEF Strike
      <4>2. Retries \in 0..Retries
        OBVIOUS
      <4> QED
        BY <3>1, <4>1, <4>2 DEF Containers
    <3>3. CASE ~(container.strikes + 1 >= Retries)
      <4>1. container.strikes + 1 \in 0..Retries
        BY <3>1, <3>3
      <4>2. container' = [container EXCEPT !.strikes = container.strikes + 1]
        BY <2>1, <3>3 DEF Strike
      <4> QED
        BY <3>1, <4>1, <4>2 DEF Containers
    <3> QED
      BY <3>2, <3>3
  <2> QED
    BY <2>1 DEF ProbeFails, NoProbe, Probes, TypeOK
<1>4. probe' \in Probes /\ container' \in Containers
  <2>1. CASE ProbeStarts
    BY <1>3, <2>1 DEF ProbeStarts, NoProbe, TypeOK, Probes, Services
  <2>2. ASSUME NEW s \in Services, HealthCall(s)
        PROVE  probe' \in Probes /\ container' \in Containers
    <3> DEFINE report == IF Connected(s) THEN probe.report \cup {s} ELSE probe.report
    <3>1. report \in SUBSET Services /\ NextCall(s) \in Services \cup {"answered"}
      BY DEF TypeOK, Probes, Services, NextCall
    <3> HIDE DEF report
    <3>2. probe' = [probe EXCEPT !.at = NextCall(s), !.report = report]
      BY <2>2 DEF HealthCall, report
    <3>3. probe' \in Probes
      BY <3>1, <3>2 DEF TypeOK, Probes
    <3>4. container' \in Containers
      BY <2>2 DEF HealthCall, TypeOK, Containers
    <3> QED
      BY <3>3, <3>4
  <2>3. CASE HealthTimeout
    BY <1>3, <2>3 DEF HealthTimeout
  <2>4. CASE StartPeriodEnds
    BY <2>4 DEF StartPeriodEnds, TypeOK, Containers
  <2> QED
    BY <1>3, <2>1, <2>2, <2>3, <2>4 DEF Probing
<1>5. TypeOK'
  BY <1>1, <1>4 DEF TypeOK
<1>6. probe'.at \in Services => probe.at \in Services \/ listener = "on"
  BY DEF Probing, ProbeStarts, HealthCall, HealthTimeout, ProbeFails, StartPeriodEnds, NoProbe,
         Services
<1>7. ServingSound'
  BY <1>1, <1>6 DEF ServingSound, ListenerSound, Serving
<1> QED
  BY <1>2, <1>5, <1>7

(* The invariant is inductive.                                             *)
LEMMA LifecycleInvariant == Spec => []LifecycleInv
<1>1. Init => LifecycleInv
  BY DEF Init, LifecycleInv, TypeOK, StageSound, ListenerSound, ServingSound, Serving, NoProbe,
         Stopped, Probes, Containers, Stages, Services, Settings, Unchecked, BeforeDial, BeforeLaunch,
         Accepting
<1>2. LifecycleInv /\ [Next]_vars => LifecycleInv'
  <2> SUFFICES ASSUME LifecycleInv, [Next]_vars
               PROVE  LifecycleInv'
    OBVIOUS
  <2>1. CASE UNCHANGED vars
    BY <2>1 DEF vars, process, LifecycleInv, TypeOK, StageSound, ListenerSound, ServingSound,
                Serving, Complete, ShuttingDown
  <2> QED
    BY <2>1, MainStepKeeps, ServerStepKeeps, SurroundingsKeep, ProbingKeeps DEF Next
<1> QED
  BY <1>1, <1>2, PTL DEF Spec

(* Type correctness of the process: the signal channel never holds more    *)
(* than one, and a probe's report names services only.                     *)
THEOREM LifecycleTyped == Spec => []TypeOK
<1>1. LifecycleInv => TypeOK
  BY DEF LifecycleInv
<1> QED
  BY <1>1, LifecycleInvariant, PTL

(* A server that takes requests has every setting that start-up checks, and*)
(* none of its connections is closed before the last request is done.      *)
THEOREM ReadyWhileServing == Spec => []ServingIsReady
<1>1. LifecycleInv => ServingIsReady
  BY DEF LifecycleInv, ServingIsReady, ServingSound, ListenerSound, StageSound, TypeOK, Settings,
         Unchecked, Complete, Accepting, BeforeDial
<1> QED
  BY <1>1, LifecycleInvariant, PTL

(* Once signals are taken, neither goroutine ends the process under a      *)
(* request before its 30 seconds are over, unless Accept has failed.       *)
THEOREM NoEarlyEnd == Spec => GraceHonoured
<1> DEFINE Honoured == Serving /\ main' = "down" => ~Notified \/ grace = "expired" \/ listener = "failed"
<1>1. LifecycleInv /\ [Next]_vars => [Honoured]_vars
  <2> SUFFICES ASSUME LifecycleInv, Next, Serving, Notified, main' = "down",
                      listener # "failed"
               PROVE  grace = "expired"
    BY DEF Honoured
  <2>1. main \in {"wait", "shutdown"} /\ listener \in {"on", "returning", "closed"}
    BY DEF LifecycleInv, ServingSound, Notified, ShuttingDown, Accepting
  <2>2. CASE MainStep
    BY <2>1, <2>2 DEF MainStep, LoadConfig, Dial, NewUpdater, NewDatabase, Launch, Notify,
                      TakeSignal, Shutdown, Close, Goto, AllDone, Expired
  <2>3. ~ServerStep
    BY <2>1 DEF ServerStep, Listen, Bind, Return, ServeReturns, FatalServeError
  <2> QED
    BY <2>1, <2>2, <2>3 DEF Next, Start, AcceptFails, Reach, GraceExpires, Signal, Arrive, Finish,
       ServiceChanges, StartPeriodEnds, Probing, ProbeStarts, HealthCall, HealthTimeout, ProbeFails, process
<1> QED
  BY <1>1, LifecycleInvariant, PTL DEF Spec, GraceHonoured
-----------------------------------------------------------------------------
\* The services that the health handler has called by each of its steps.
Asked(at) ==
    CASE at = "redis" -> {"rpc"} [] at = "postgres" -> {"rpc", "redis"}
      [] at = "answered" -> Services [] OTHER -> {}

ReportSound == probe.steady => probe.report = {s \in Asked(probe.at) : Connected(s)}

LEMMA NoReport ==
  ASSUME probe' = NoProbe
  PROVE  ReportSound'
BY DEF NoProbe, ReportSound, Asked

LEMMA HealthCallReports ==
  ASSUME TypeOK, ReportSound, NEW s \in Services, HealthCall(s)
  PROVE  ReportSound'
<1> DEFINE report == IF Connected(s) THEN probe.report \cup {s} ELSE probe.report
<1>1. probe \in Probes /\ probe.at = s
  BY DEF HealthCall, TypeOK
<1>2. probe' = [probe EXCEPT !.at = NextCall(s), !.report = report] /\ UNCHANGED <<up, env>>
  BY DEF HealthCall, process
<1>3. probe'.at = NextCall(s) /\ probe'.report = report /\ probe'.steady = probe.steady
  BY <1>1, <1>2 DEF Probes
<1>4. Asked(NextCall(s)) = Asked(s) \cup {s}
  BY DEF Asked, NextCall, Services
<1>5. probe.steady => report = {x \in Asked(s) \cup {s} : Connected(x)}
  BY <1>1 DEF ReportSound
<1> QED
  BY <1>2, <1>3, <1>4, <1>5 DEF ReportSound, Connected

(* Until a process starts there is no probe.                               *)
DownIdle == main = "down" => container = Stopped /\ probe.at = "idle" /\ probe.report = {}

LEMMA NoProcessNoProbe == Spec => []DownIdle
<1>1. Init => DownIdle
  BY DEF Init, DownIdle, NoProbe
<1>2. TypeOK /\ DownIdle /\ [Next]_vars => DownIdle'
  <2> SUFFICES ASSUME TypeOK, DownIdle, [Next]_vars
               PROVE  DownIdle'
    OBVIOUS
  <2>1. CASE UNCHANGED <<main, probe, container>>
    BY <2>1 DEF DownIdle
  <2>2. ProcessEnds => DownIdle'
    BY DEF ProcessEnds, DownIdle, NoProbe
  <2>3. CASE MainStep \/ ServerStep
    BY <2>1, <2>2, <2>3 DEF MainStep, LoadConfig, Dial, NewUpdater, NewDatabase, Launch, Notify,
       TakeSignal, Shutdown, Close, Goto, Fatalf, DownIdle,
       ServerStep, Listen, Bind, Return, Reach, ServeReturns
  <2>4. CASE Probing
    BY <2>4 DEF Probing, ProbeStarts, HealthCall, HealthTimeout, ProbeFails, process, DownIdle, Services
  <2>5. CASE StartPeriodEnds
    BY <2>5 DEF StartPeriodEnds, process, DownIdle, Stopped
  <2>6. ASSUME NEW s \in Services, ServiceChanges(s)
        PROVE  DownIdle'
    <3>1. UNCHANGED <<main, container>> /\ probe' = [probe EXCEPT !.steady = FALSE]
      BY <2>6 DEF ServiceChanges, process
    <3> QED
      BY <3>1 DEF DownIdle, TypeOK, Probes
  <2> QED
    BY <2>1, <2>2, <2>3, <2>4, <2>5, <2>6
       DEF Next, vars, process, Start, AcceptFails, Reach, GraceExpires, Signal, Arrive, Finish,
           DownIdle
<1> QED
  BY <1>1, <1>2, LifecycleTyped, PTL DEF Spec

(* A health report names exactly the services that answered, unless one    *)
(* changed while it was made: handlers.go calls the three in turn.         *)
THEOREM ReportsExact == Spec => []HealthReportExact
<1>1. Init => ReportSound
  BY DEF Init, ReportSound, Asked, NoProbe
<1>2. TypeOK /\ DownIdle /\ ReportSound /\ [Next]_vars => ReportSound'
  <2> SUFFICES ASSUME TypeOK, DownIdle, ReportSound, [Next]_vars
               PROVE  ReportSound'
    OBVIOUS
  <2>1. CASE UNCHANGED <<probe, up, env>>
    BY <2>1 DEF ReportSound, Connected
  <2>2. CASE probe' = NoProbe
    BY <2>2, NoReport
  <2>3. ASSUME NEW s \in Services, ServiceChanges(s)
        PROVE  ReportSound'
    BY <2>3 DEF ServiceChanges, ReportSound, TypeOK, Probes
  <2>4. ProcessEnds => probe' = NoProbe
    BY DEF ProcessEnds
  <2>5. CASE MainStep \/ ServerStep
    BY <2>1, <2>2, <2>4, <2>5 DEF MainStep, LoadConfig, Dial, NewUpdater, NewDatabase, Launch,
       Notify, TakeSignal, Shutdown, Close, Goto, Fatalf,
       ServerStep, Listen, Bind, Return, Reach, ServeReturns
  <2>6. CASE ProbeStarts
    BY <2>2, <2>6 DEF ProbeStarts, ProbeFails, ReportSound, NoProbe, Asked
  <2>7. CASE HealthTimeout
    BY <2>2, <2>7 DEF HealthTimeout, ProbeFails
  <2>8. CASE Start
    BY <2>8 DEF Start, DownIdle, ReportSound, Asked
  <2> QED
    BY <2>1, <2>2, <2>3, <2>4, <2>5, <2>6, <2>7, <2>8, HealthCallReports
       DEF Next, vars, process, AcceptFails, Reach, GraceExpires, Signal, Probing, StartPeriodEnds,
           Arrive, Finish
<1>3. ReportSound => HealthReportExact
  BY DEF ReportSound, HealthReportExact, Asked, Connected
<1> QED
  BY <1>1, <1>2, <1>3, LifecycleTyped, NoProcessNoProbe, PTL DEF Spec
==============================================================================
