------------------------------ MODULE Middleware ------------------------------
(***************************************************************************)
(* The rate limiter of go-client/api/middleware.go.  It stands before the  *)
(* API key and behind CORS, so that of all requests only the pre-flight    *)
(* ones pass it by, and those with a wrong key are counted like any other. *)
(* Its map is shared by all of net/http's goroutines with no lock, so each *)
(* access to it is an action of its own.                                   *)
(***************************************************************************)
EXTENDS Integers, Sequences, FiniteSets

CONSTANTS
    Goroutines,     \* requests that may be in progress at once
    Connections,    \* values of r.RemoteAddr: host and port
    HostOf,         \* the host of each connection
    Headers,        \* connections whose requests carry X-Forwarded-For or X-Real-IP
    Limit,          \* 10 requests
    Window,         \* per minute
    MaxTime,        \* bound of the clock
    MaxAdmitted     \* bound of the requests let through before arrivals stop

ASSUME MiddlewareAssumption ==
    /\ HostOf \in [Connections -> STRING]
    /\ Headers \subseteq Connections
    /\ Limit \in Nat \ {0} /\ Window \in Nat \ {0} /\ MaxTime \in Nat /\ MaxAdmitted \in Nat

VARIABLES
    clock,
    requests,       \* the map: client key -> stamps of its counted requests
    go,             \* what each goroutine is doing
    admitted,       \* history: connection and time of every request let through
    started,        \* history: how many of them processes now dead let through
    raced           \* history: keys under which two requests were in the limiter at once

vars == <<clock, requests, go, admitted, started, raced>>

(* getClientIP: a forwarding header names the host; without one the key is *)
(* r.RemoteAddr, host and port.                                            *)
ClientKey(conn) == IF conn \in Headers THEN <<"host", HostOf[conn]>> ELSE <<"conn", conn>>
ClientKeys == {ClientKey(c) : c \in Connections}

Idle == [pc |-> "idle", conn |-> "none", now |-> 0, n |-> 0, seen |-> {}, status |-> 0]

(* What time.Now returned for a request.  The model's clock is coarse, so  *)
(* two of the times are told apart by the number of the request, that of   *)
(* its place in `admitted'.  The order of the times in a slice is of no    *)
(* account, and none is in it twice (CountedWereAdmitted), so an entry is  *)
(* their set.                                                              *)
Stamp(q) == [n |-> q.n, at |-> q.now]

\* A missing map entry reads as a nil slice.
Lookup(key) == IF key \in DOMAIN requests THEN requests[key] ELSE {}

Assign(key, times) ==
    requests' = [k \in DOMAIN requests \cup {key} |-> IF k = key THEN times ELSE requests[k]]

\* A slip: a window closed at its end.
ValidClosed(times, now) == {s \in times : now - s.at <= Window}

Valid(times, now) == {s \in times : now - s.at < Window}

\* A slip: one request too many.
AtLimitLate(key) == Cardinality(Lookup(key)) > Limit

AtLimit(key) == Cardinality(Lookup(key)) >= Limit

Refuse(g) == go' = [go EXCEPT ![g].pc = "done", ![g].status = 429, ![g].seen = {}]
Goto(g, pc) == go' = [go EXCEPT ![g].pc = pc]

MapWrites == {"clean", "write"}
MapReads == {"look", "check", "read"}

\* The goroutines that are inside the limiter with this key.
InLimiter(key) ==
    {g \in Goroutines : go[g].pc \in MapWrites \cup MapReads /\ ClientKey(go[g].conn) = key}
-----------------------------------------------------------------------------
Resting == {"idle", "done"}

\* net/http serves one request of a connection at a time.
Arrive(g) ==
    /\ go[g].pc \in Resting
    /\ Len(admitted) < MaxAdmitted
    /\ \E c \in Connections :
          /\ \A h \in Goroutines : go[h].conn = c => go[h].pc \in Resting
          /\ go' = [go EXCEPT ![g] = [Idle EXCEPT !.pc = "look", !.conn = c, !.now = clock]]
          /\ raced' = IF InLimiter(ClientKey(c)) = {} THEN raced ELSE raced \cup {ClientKey(c)}
    /\ UNCHANGED <<clock, requests, admitted, started>>

\* "Clean old requests": read the entry, then write back what is still young.
Look(g) ==
    LET key == ClientKey(go[g].conn)
    IN  /\ go[g].pc = "look"
        /\ \/ /\ key \in DOMAIN requests
              /\ go' = [go EXCEPT ![g].pc = "clean", ![g].seen = requests[key]]
           \/ key \notin DOMAIN requests /\ Goto(g, "check")
        /\ UNCHANGED <<clock, requests, admitted, started, raced>>

Clean(g) ==
    /\ go[g].pc = "clean"
    /\ Assign(ClientKey(go[g].conn), Valid(go[g].seen, go[g].now))
    /\ go' = [go EXCEPT ![g].pc = "check", ![g].seen = {}]
    /\ UNCHANGED <<clock, admitted, started, raced>>

CheckLimit(g) ==
    LET key == ClientKey(go[g].conn)
    IN  /\ go[g].pc = "check"
        /\ \/ AtLimit(key) /\ Refuse(g) /\ UNCHANGED admitted
           \/ /\ ~AtLimit(key)
              /\ go' = [go EXCEPT ![g].pc = "read", ![g].n = Len(admitted) + 1]
              /\ admitted' = Append(admitted, [conn |-> go[g].conn, at |-> go[g].now])
        /\ UNCHANGED <<clock, requests, started, raced>>

\* "Add current request": read the entry again, append, write.
ReadEntry(g) ==
    /\ go[g].pc = "read"
    /\ go' = [go EXCEPT ![g].pc = "write", ![g].seen = Lookup(ClientKey(go[g].conn))]
    /\ UNCHANGED <<clock, requests, admitted, started, raced>>

\* A slip: the time at which the request stops counting.
CountedUntil(times, s) == times \cup {[s EXCEPT !.at = @ + Window]}

Counted(times, s) == times \cup {s}

(* Two appends to one slice may share its array: the time that stays in the*)
(* new slot is then that of either goroutine.                              *)
Appending(g) ==
    {h \in Goroutines : /\ go[h].pc = "write" /\ go[h].seen = go[g].seen
                        /\ ClientKey(go[h].conn) = ClientKey(go[g].conn)}
SlotTimes(g) == {Stamp(go[h]) : h \in Appending(g)}

WriteEntry(g) ==
    /\ go[g].pc = "write"
    /\ \E s \in SlotTimes(g) : Assign(ClientKey(go[g].conn), Counted(go[g].seen, s))
    /\ go' = [go EXCEPT ![g].pc = "done", ![g].seen = {}]
    /\ UNCHANGED <<clock, admitted, started, raced>>

Tick ==
    /\ clock < MaxTime
    /\ clock' = clock + 1
    /\ UNCHANGED <<requests, go, admitted, started, raced>>

(* Go's runtime may notice that one goroutine writes the map while another *)
(* uses it; that error kills the process, and the map with it.  What was   *)
(* let through before stays let through, and the next process knows nothing*)
(* of it.                                                                  *)
ConcurrentMapAccess ==
    /\ \E g, h \in Goroutines :
          g # h /\ go[g].pc \in MapWrites /\ go[h].pc \in MapWrites \cup MapReads
    /\ requests' = [k \in {} |-> {}]
    /\ go' = [g \in Goroutines |-> Idle]
    /\ started' = Len(admitted)
    /\ raced' = {}
    /\ UNCHANGED <<clock, admitted>>

Init ==
    /\ clock = 0
    /\ requests = [k \in {} |-> {}]
    /\ go = [g \in Goroutines |-> Idle]
    /\ admitted = <<>>
    /\ started = 0
    /\ raced = {}

Next ==
    \/ \E g \in Goroutines :
          \/ Arrive(g) \/ Look(g) \/ Clean(g) \/ CheckLimit(g)
          \/ ReadEntry(g) \/ WriteEntry(g)
    \/ Tick
    \/ ConcurrentMapAccess

Spec == Init /\ [][Next]_vars
-----------------------------------------------------------------------------
Stamps == [n : 1..Len(admitted), at : 0..clock]
Request == [pc : Resting \cup MapWrites \cup MapReads, conn : Connections \cup {"none"},
            now : 0..clock, n : 0..Len(admitted), seen : SUBSET Stamps, status : {0, 429}]

TypeOK ==
    /\ clock \in 0..MaxTime
    /\ DOMAIN requests \subseteq ClientKeys /\ requests \in [DOMAIN requests -> SUBSET Stamps]
    /\ go \in [Goroutines -> Request]
    /\ \A g \in Goroutines :
          go[g].pc \in MapWrites \cup MapReads \/ go[g].status = 429 => go[g].conn \in Connections
    /\ admitted \in Seq([conn : Connections, at : 0..clock])
    /\ started \in 0..Len(admitted)
    /\ raced \subseteq ClientKeys

\* The requests that the running process let through.
Own == started + 1 .. Len(admitted)

\* Those of these connections in the window that ends at t.
Recent(conns, t) ==
    {i \in Own :
        admitted[i].conn \in conns /\ admitted[i].at <= t /\ t - admitted[i].at < Window}

SameKey(conn) == {c \in Connections : ClientKey(c) = ClientKey(conn)}

(* "Check rate limit (10 requests per minute)": as long as no two requests *)
(* with one client key have been in the limiter of a process at once, no   *)
(* window of a minute sees more than Limit of them let through by that     *)
(* process.  The counts are the process's own: a client may spend its      *)
(* Limit again, in the same minute, when the races of other keys have      *)
(* killed the process that counted it.                                     *)
WithinLimit ==
    \A i \in Own : ClientKey(admitted[i].conn) \notin raced =>
        Cardinality(Recent(SameKey(admitted[i].conn), admitted[i].at)) <= Limit

(* On the same condition a client is refused only when the process let     *)
(* Limit of its requests through in the minute before; refused requests do *)
(* not count against it, nor do those a dead process let through.          *)
RefusalJustified ==
    \A g \in Goroutines : go[g].status = 429 /\ ClientKey(go[g].conn) \notin raced =>
        Cardinality(Recent(SameKey(go[g].conn), go[g].now)) >= Limit

(* However the goroutines interleave, a time in the map is that of a       *)
(* request of its client that this process let through, and none is        *)
(* counted twice, though a shared slot may hold the time of either of two: *)
(* what a request adds was not there.  Racing writes lose requests but     *)
(* never invent any.                                                       *)
CountedWereAdmitted ==
    /\ \A k \in DOMAIN requests : \A s \in requests[k] :
          s.n \in Own /\ ClientKey(admitted[s.n].conn) = k /\ admitted[s.n].at = s.at
    /\ \A g \in Goroutines : go[g].pc = "write" => go[g].seen \cap SlotTimes(g) = {}
=============================================================================
