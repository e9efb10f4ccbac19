--------------------------- MODULE MiddlewareProofs ---------------------------
(***************************************************************************)
(* Theorems about the rate limiter, for any number of goroutines, clients, *)
(* requests and any limit and window.                                      *)
(***************************************************************************)
EXTENDS Middleware, FiniteSetTheorems, SequenceTheorems, TLAPS

USE MiddlewareAssumption DEF Own

Inside == MapWrites \cup MapReads
KeyOf(g) == ClientKey(go[g].conn)

\* s is the stamp of a request with key k that this process let through.
IsAdmitted(s, k) ==
    s.n \in Own /\ ClientKey(admitted[s.n].conn) = k /\ admitted[s.n].at = s.at

(* Whatever a goroutine writes to the map it has read there or is let      *)
(* through itself.                                                         *)
EntriesSound ==
    /\ \A k \in DOMAIN requests : \A s \in requests[k] : IsAdmitted(s, k)
    /\ \A g \in Goroutines : \A s \in go[g].seen : IsAdmitted(s, KeyOf(g))

\* Let through and yet to be counted.
Letting(q) == q.pc \in {"read", "write"}

NumbersSound ==
    /\ \A g \in Goroutines : Letting(go[g]) => IsAdmitted(Stamp(go[g]), KeyOf(g))
    /\ \A g, h \in Goroutines : Letting(go[g]) /\ Letting(go[h]) /\ go[g].n = go[h].n => g = h

(* Before a goroutine reads the entry, its stamp is nowhere; after, it is  *)
(* not in what it has read, though another may have written it for it.     *)
Uncounted ==
    \A g \in Goroutines :
        /\ go[g].pc = "read" =>
              /\ \A k \in DOMAIN requests : Stamp(go[g]) \notin requests[k]
              /\ \A h \in Goroutines : Stamp(go[g]) \notin go[h].seen
        /\ go[g].pc = "write" => Stamp(go[g]) \notin go[g].seen

CountInv == TypeOK /\ EntriesSound /\ NumbersSound /\ Uncounted
-----------------------------------------------------------------------------
(* The process's requests with one key, and those of them in one window.   *)
Of(k) == {j \in Own : ClientKey(admitted[j].conn) = k}
RecentOf(k, t) == {j \in Of(k) : admitted[j].at <= t /\ t - admitted[j].at < Window}

StampOf(j) == [n |-> j, at |-> admitted[j].at]
Counting(j) == \E g \in Goroutines : Letting(go[g]) /\ go[g].n = j

\* What the entry of k has forgotten is too old at time t.
Remembers(k, t) ==
    \A j \in Of(k) : StampOf(j) \in Lookup(k) \/ Counting(j) \/ t - admitted[j].at >= Window

\* What a goroutine that is alone in the limiter with key k relies on.
GoesAlone(g, k) ==
    /\ Remembers(k, go[g].now)
    /\ \A j \in Of(k) : admitted[j].at <= go[g].now
    /\ go[g].pc \in MapWrites => go[g].seen = Lookup(k)
    /\ go[g].pc = "check" => \A s \in Lookup(k) : go[g].now - s.at < Window

KeySound(k) ==
    /\ \A g, h \in InLimiter(k) : g = h
    /\ InLimiter(k) = {} => Remembers(k, clock)
    /\ \A g \in InLimiter(k) : GoesAlone(g, k)
    /\ \A j \in Of(k) : Cardinality(RecentOf(k, admitted[j].at)) <= Limit
    /\ \A g \in Goroutines : go[g].status = 429 /\ KeyOf(g) = k =>
          Cardinality(RecentOf(k, go[g].now)) >= Limit

LimitInv == CountInv /\ \A k \in ClientKeys \ raced : KeySound(k)
-----------------------------------------------------------------------------
\* No goroutine but g has a stamp s to read for.
Unread(g, s) == \A h \in Goroutines \ {g} : go[h].pc = "read" => s # Stamp(go[h])

\* What g may make of the map, and of its own record.
MapSound(g, map) ==
    /\ DOMAIN map \subseteq ClientKeys /\ map \in [DOMAIN map -> SUBSET Stamps]
    /\ \A k \in DOMAIN map : \A s \in map[k] : IsAdmitted(s, k) /\ Unread(g, s)

RecordSound(g, q, map) ==
    /\ q \in Request
    /\ q.pc \in Inside \/ q.status = 429 => q.conn \in Connections
    /\ \A s \in q.seen : IsAdmitted(s, ClientKey(q.conn)) /\ Unread(g, s)
    /\ Letting(q) => Letting(go[g]) /\ q.n = go[g].n /\ q.now = go[g].now /\ q.conn = go[g].conn
    /\ q.pc = "read" => /\ go[g].pc = "read" /\ q.seen = {}
                        /\ \A k \in DOMAIN map : Stamp(q) \notin map[k]
    /\ q.pc = "write" => Stamp(q) \notin q.seen

(* The steps of a goroutine g other than its admission.                    *)
LEMMA GoroutineStep ==
  ASSUME CountInv, NEW g \in Goroutines, NEW q, go' = [go EXCEPT ![g] = q],
         UNCHANGED <<clock, admitted, started, raced>>,
         MapSound(g, requests'), RecordSound(g, q, requests')
  PROVE  CountInv'
<1> USE DEF RecordSound
<1>1. \A h \in Goroutines : go'[h] = IF h = g THEN q ELSE go[h]
  BY DEF CountInv, TypeOK
<1>2. TypeOK'
  <2>1. Stamps' = Stamps /\ Request' = Request
    BY DEF Stamps, Request
  <2>2. go' \in [Goroutines -> Request]
    BY <1>1 DEF CountInv, TypeOK
  <2>3. \A h \in Goroutines :
          go'[h].pc \in MapWrites \cup MapReads \/ go'[h].status = 429 => go'[h].conn \in Connections
    BY <1>1 DEF CountInv, TypeOK, Inside
  <2> QED
    BY <2>1, <2>2, <2>3 DEF CountInv, TypeOK, MapSound, ClientKeys
<1>3. EntriesSound'
  BY <1>1 DEF CountInv, EntriesSound, IsAdmitted, KeyOf, MapSound
<1>4. NumbersSound'
  <2>1. Letting(q) => q.n = go[g].n /\ IsAdmitted(Stamp(q), ClientKey(q.conn))
    BY DEF CountInv, NumbersSound, KeyOf, Stamp
  <2>2. \A h \in Goroutines : Letting(go'[h]) => IsAdmitted(Stamp(go'[h]), ClientKey(go'[h].conn))
    BY <1>1, <2>1 DEF CountInv, NumbersSound, KeyOf
  <2>3. \A h \in Goroutines : Letting(go'[h]) => Letting(go[h]) /\ go'[h].n = go[h].n
    BY <1>1
  <2> QED
    BY <2>2, <2>3 DEF CountInv, NumbersSound, IsAdmitted, KeyOf, Letting, Stamp
<1>5. Uncounted'
  <2>1. q.pc = "read" => Stamp(q) = Stamp(go[g])
    BY DEF Letting, Stamp
  <2> QED
    BY <1>1, <2>1 DEF CountInv, Uncounted, MapSound, Unread
<1> QED
  BY <1>2, <1>3, <1>4, <1>5 DEF CountInv

LEMMA MapIsSound ==
  ASSUME CountInv, NEW g \in Goroutines
  PROVE  MapSound(g, requests)
BY DEF CountInv, TypeOK, EntriesSound, Uncounted, MapSound, Unread

LEMMA SeenIsSound ==
  ASSUME CountInv, NEW g \in Goroutines, NEW s \in go[g].seen
  PROVE  IsAdmitted(s, KeyOf(g)) /\ Unread(g, s)
BY DEF CountInv, EntriesSound, Uncounted, Unread

LEMMA AssignSound ==
  ASSUME NEW g, MapSound(g, requests), NEW k \in ClientKeys, NEW times \in SUBSET Stamps,
         \A s \in times : IsAdmitted(s, k) /\ Unread(g, s), Assign(k, times)
  PROVE  MapSound(g, requests')
<1>1. /\ DOMAIN requests' = DOMAIN requests \cup {k}
      /\ \A i \in DOMAIN requests' : requests'[i] = IF i = k THEN times ELSE requests[i]
      /\ requests' = [i \in DOMAIN requests' |-> requests'[i]]
  BY DEF Assign
<1>2. \A i \in DOMAIN requests' : requests'[i] \in SUBSET Stamps
  BY <1>1 DEF MapSound
<1> QED
  BY <1>1, <1>2 DEF MapSound

(* A record of `go' stays one when some of its fields change.              *)
Pcs == Resting \cup MapWrites \cup MapReads

LEMMA RequestAt ==
  ASSUME NEW r \in Request, NEW pc \in Pcs
  PROVE  [r EXCEPT !.pc = pc] \in Request
BY DEF Request, Pcs

LEMMA RequestHaving ==
  ASSUME NEW r \in Request, NEW seen \in SUBSET Stamps
  PROVE  [r EXCEPT !.seen = seen] \in Request
BY DEF Request

LEMMA RequestAtHaving ==
  ASSUME NEW r \in Request, NEW pc \in Pcs, NEW seen \in SUBSET Stamps
  PROVE  [r EXCEPT !.pc = pc, !.seen = seen] \in Request
<1>1. [[r EXCEPT !.pc = pc] EXCEPT !.seen = seen] \in Request
  BY RequestAt, RequestHaving
<1>2. [[r EXCEPT !.pc = pc] EXCEPT !.seen = seen] = [r EXCEPT !.pc = pc, !.seen = seen]
  OBVIOUS
<1> QED
  BY <1>1, <1>2

LEMMA RequestRefused ==
  ASSUME NEW r \in Request
  PROVE  [r EXCEPT !.status = 429] \in Request
BY DEF Request

LEMMA RequestDone ==
  ASSUME NEW r \in Request
  PROVE  \E q \in Request :
           /\ q = [r EXCEPT !.pc = "done", !.status = 429, !.seen = {}]
           /\ q.pc = "done" /\ q.status = 429 /\ q.seen = {}
           /\ q.conn = r.conn /\ q.now = r.now
<1>1. [[r EXCEPT !.pc = "done", !.seen = {}] EXCEPT !.status = 429] \in Request
  <2>1. [r EXCEPT !.pc = "done", !.seen = {}] \in Request
    BY RequestAtHaving DEF Pcs, Resting
  <2> QED
    BY <2>1, RequestRefused
<1>2. [[r EXCEPT !.pc = "done", !.seen = {}] EXCEPT !.status = 429]
        = [r EXCEPT !.pc = "done", !.status = 429, !.seen = {}]
  OBVIOUS
<1> DEFINE q == [r EXCEPT !.pc = "done", !.status = 429, !.seen = {}]
<1>3. q.pc = "done" /\ q.status = 429 /\ q.seen = {} /\ q.conn = r.conn /\ q.now = r.now
  BY DEF Request
<1> QED
  BY <1>1, <1>2, <1>3

\* A goroutine g whose request is refused, and is then q.
Refused(g, q) ==
    /\ go' = [go EXCEPT ![g] = q] /\ q.pc = "done" /\ q.status = 429 /\ q.seen = {}
    /\ q.conn = go[g].conn /\ q.now = go[g].now

LEMMA RefuseIs ==
  ASSUME TypeOK, NEW g \in Goroutines, Refuse(g)
  PROVE  \E q \in Request : Refused(g, q)
<1>1. PICK r \in Request : r = go[g]
  BY DEF TypeOK
<1>2. PICK q \in Request :
         /\ q = [r EXCEPT !.pc = "done", !.status = 429, !.seen = {}]
         /\ q.pc = "done" /\ q.status = 429 /\ q.seen = {}
         /\ q.conn = r.conn /\ q.now = r.now
  BY RequestDone
<1>3. go' = [go EXCEPT ![g] = [go[g] EXCEPT !.pc = "done", !.status = 429, !.seen = {}]]
  BY DEF Refuse, TypeOK
<1>4. /\ go' = [go EXCEPT ![g] = q] /\ q.conn = go[g].conn /\ q.now = go[g].now
  BY <1>1, <1>2, <1>3
<1> QED
  BY <1>2, <1>4 DEF Refused

(* As a special case, a step that leaves the map alone, reads nothing and  *)
(* is not between the check and the count.                                 *)
LEMMA QuietStep ==
  ASSUME CountInv, NEW g \in Goroutines, NEW q \in Request,
         go' = [go EXCEPT ![g] = q], UNCHANGED <<clock, requests, admitted, started, raced>>,
         q.pc \in Inside \/ q.status = 429 => q.conn \in Connections,
         q.seen = {}, ~Letting(q)
  PROVE  CountInv'
<1>1. MapSound(g, requests')
  BY MapIsSound
<1>2. RecordSound(g, q, requests')
  BY DEF RecordSound, Letting
<1> QED
  BY <1>1, <1>2, GoroutineStep
-----------------------------------------------------------------------------
(* The steps of the limiter.                                               *)
LEMMA ArriveCounts ==
  ASSUME CountInv, NEW g \in Goroutines, Arrive(g)
  PROVE  CountInv'
<1>1. PICK c \in Connections :
         /\ go' = [go EXCEPT ![g] = [Idle EXCEPT !.pc = "look", !.conn = c, !.now = clock]]
         /\ raced' \in {raced, raced \cup {ClientKey(c)}}
  BY DEF Arrive
<1> DEFINE q == [Idle EXCEPT !.pc = "look", !.conn = c, !.now = clock]
<1>2. q \in Request /\ q.conn \in Connections /\ q.seen = {} /\ q.pc = "look"
  <2>1. clock \in 0..clock /\ 0 \in 0..clock /\ 0 \in 0..Len(admitted)
    BY DEF CountInv, TypeOK
  <2> QED
    BY <2>1 DEF Idle, Request, MapReads
<1> HIDE DEF q
<1>3. \A h \in Goroutines : go'[h] = IF h = g THEN q ELSE go[h]
  BY <1>1 DEF CountInv, TypeOK, q
<1>4. UNCHANGED <<clock, requests, admitted, started>>
  BY DEF Arrive
<1>5. TypeOK'
  <2>1. raced' \subseteq ClientKeys
    BY <1>1 DEF CountInv, TypeOK, ClientKeys
  <2>2. go' \in [Goroutines -> Request]
    BY <1>1, <1>2 DEF CountInv, TypeOK, q
  <2>3. Stamps' = Stamps /\ Request' = Request
    BY <1>4 DEF Stamps, Request
  <2>4. \A h \in Goroutines :
          go'[h].pc \in MapWrites \cup MapReads \/ go'[h].status = 429 => go'[h].conn \in Connections
    BY <1>2, <1>3 DEF CountInv, TypeOK
  <2> QED
    BY <1>4, <2>1, <2>2, <2>3, <2>4 DEF CountInv, TypeOK, ClientKeys
<1>6. EntriesSound' /\ Uncounted'
  BY <1>2, <1>3, <1>4 DEF CountInv, EntriesSound, Uncounted, IsAdmitted, KeyOf
<1>7. NumbersSound'
  BY <1>2, <1>3, <1>4 DEF CountInv, NumbersSound, Letting, IsAdmitted, KeyOf
<1> QED
  BY <1>5, <1>6, <1>7 DEF CountInv

LEMMA LookCounts ==
  ASSUME CountInv, NEW g \in Goroutines, Look(g)
  PROVE  CountInv'
<1> DEFINE key == ClientKey(go[g].conn)
<1>1. go[g] \in Request /\ go[g].conn \in Connections /\ go[g].pc = "look"
  BY DEF CountInv, TypeOK, Look, MapReads
<1>2. UNCHANGED <<clock, requests, admitted, started, raced>>
  BY DEF Look
<1>3. MapSound(g, requests)
  BY MapIsSound
<1>4. CASE key \in DOMAIN requests /\ go' = [go EXCEPT ![g].pc = "clean", ![g].seen = requests[key]]
  <2> DEFINE q == [go[g] EXCEPT !.pc = "clean", !.seen = requests[key]]
  <2>1. /\ q \in Request /\ q.pc = "clean" /\ q.seen = requests[key]
        /\ q.conn = go[g].conn
    <3>1. requests[key] \in SUBSET Stamps
      BY <1>3, <1>4 DEF MapSound
    <3> QED
      BY <1>1, <3>1 DEF Request, MapWrites
  <2>2. go' = [go EXCEPT ![g] = q]
    BY <1>4 DEF CountInv, TypeOK
  <2> HIDE DEF q
  <2>3. RecordSound(g, q, requests)
    BY <1>1, <1>3, <1>4, <2>1 DEF RecordSound, MapSound, Letting
  <2> QED
    BY <1>2, <1>3, <2>2, <2>3, GoroutineStep
<1>5. CASE Goto(g, "check")
  <2> DEFINE q == [go[g] EXCEPT !.pc = "check"]
  <2>1. /\ q \in Request /\ q.pc = "check" /\ q.seen = go[g].seen
        /\ q.conn = go[g].conn
    BY <1>1 DEF Request, MapReads
  <2>2. go' = [go EXCEPT ![g] = q]
    BY <1>5 DEF CountInv, TypeOK, Goto
  <2> HIDE DEF q
  <2>3. RecordSound(g, q, requests)
    BY <1>1, <2>1, SeenIsSound DEF RecordSound, Letting, KeyOf
  <2> QED
    BY <1>2, <1>3, <2>2, <2>3, GoroutineStep
<1> QED
  BY <1>4, <1>5 DEF Look

LEMMA CleanCounts ==
  ASSUME CountInv, NEW g \in Goroutines, Clean(g)
  PROVE  CountInv'
<1> DEFINE key == ClientKey(go[g].conn)
           valid == Valid(go[g].seen, go[g].now)
           q == [go[g] EXCEPT !.pc = "check", !.seen = {}]
<1>1. go[g] \in Request /\ go[g].conn \in Connections
  BY DEF CountInv, TypeOK, Clean, MapWrites
<1>2. UNCHANGED <<clock, admitted, started, raced>> /\ Assign(key, valid)
  BY DEF Clean
<1>3. q \in Request /\ q.conn = go[g].conn /\ q.pc = "check" /\ q.seen = {}
  <2>1. q \in Request
    BY <1>1, RequestAtHaving DEF Pcs, MapReads
  <2> QED
    BY <1>1, <2>1 DEF Request
<1>4. go' = [go EXCEPT ![g] = q]
  BY DEF Clean, CountInv, TypeOK
<1> HIDE DEF q
<1>5. MapSound(g, requests')
  <2>1. valid \subseteq go[g].seen /\ go[g].seen \subseteq Stamps
    BY <1>1 DEF Valid, Request
  <2> HIDE DEF valid
  <2> QED
    BY <1>1, <1>2, <2>1, MapIsSound, SeenIsSound, AssignSound DEF KeyOf, ClientKeys
<1>6. RecordSound(g, q, requests')
  BY <1>1, <1>3 DEF RecordSound, Letting
<1> QED
  BY <1>2, <1>4, <1>5, <1>6, GoroutineStep

LEMMA ReadCounts ==
  ASSUME CountInv, NEW g \in Goroutines, ReadEntry(g)
  PROVE  CountInv'
<1> DEFINE key == ClientKey(go[g].conn)
           q == [go[g] EXCEPT !.pc = "write", !.seen = Lookup(key)]
<1>1. go[g] \in Request /\ go[g].conn \in Connections /\ go[g].pc = "read"
  BY DEF CountInv, TypeOK, ReadEntry, MapReads
<1>2. UNCHANGED <<clock, requests, admitted, started, raced>>
  BY DEF ReadEntry
<1>3. /\ Lookup(key) \in SUBSET Stamps
      /\ \A s \in Lookup(key) : IsAdmitted(s, key) /\ Unread(g, s) /\ s # Stamp(go[g])
  BY <1>1, MapIsSound DEF Lookup, MapSound, CountInv, Uncounted
<1>4. /\ q \in Request /\ q.conn = go[g].conn /\ q.n = go[g].n /\ q.now = go[g].now
      /\ q.pc = "write" /\ q.seen = Lookup(key)
  BY <1>1, <1>3 DEF Request, MapWrites
<1>5. go' = [go EXCEPT ![g] = q]
  BY DEF ReadEntry, CountInv, TypeOK
<1> HIDE DEF q
<1>6. RecordSound(g, q, requests')
  BY <1>1, <1>3, <1>4 DEF RecordSound, Letting, Stamp
<1> QED
  BY <1>2, <1>5, <1>6, MapIsSound, GoroutineStep

LEMMA WriteCounts ==
  ASSUME CountInv, NEW g \in Goroutines, WriteEntry(g)
  PROVE  CountInv'
<1> DEFINE key == ClientKey(go[g].conn)
           q == [go[g] EXCEPT !.pc = "done", !.seen = {}]
<1>1. go[g] \in Request /\ go[g].conn \in Connections
  BY DEF CountInv, TypeOK, WriteEntry, MapWrites
<1>2. PICK h \in Appending(g) : Assign(key, Counted(go[g].seen, Stamp(go[h])))
  BY DEF WriteEntry, SlotTimes
<1>3. UNCHANGED <<clock, admitted, started, raced>>
  BY DEF WriteEntry
<1>4. q \in Request /\ q.pc = "done" /\ q.seen = {} /\ q.conn = go[g].conn
  <2>1. q \in Request
    BY <1>1, RequestAtHaving DEF Pcs, Resting
  <2> QED
    BY <1>1, <2>1 DEF Request
<1>5. go' = [go EXCEPT ![g] = q]
  BY DEF WriteEntry, CountInv, TypeOK
<1> HIDE DEF q
<1>6. IsAdmitted(Stamp(go[h]), key) /\ Unread(g, Stamp(go[h])) /\ Stamp(go[h]) \in Stamps
  <2>1. h \in Goroutines /\ go[h].pc = "write" /\ KeyOf(h) = key
    BY DEF Appending, KeyOf
  <2>2. IsAdmitted(Stamp(go[h]), key)
    BY <2>1 DEF CountInv, NumbersSound, Letting
  <2>3. \A f \in Goroutines : go[f].pc = "read" => Stamp(go[h]).n # Stamp(go[f]).n
    BY <2>1 DEF CountInv, NumbersSound, Letting, Stamp
  <2>4. Stamp(go[h]) \in Stamps
    BY <2>1, <2>2 DEF IsAdmitted, Stamps, Stamp, CountInv, TypeOK, Request
  <2> QED
    BY <2>2, <2>3, <2>4 DEF Unread
<1>7. MapSound(g, requests')
  <2> DEFINE longer == Counted(go[g].seen, Stamp(go[h]))
  <2>1. /\ longer \subseteq Stamps
        /\ \A s \in longer : s \in go[g].seen \/ s = Stamp(go[h])
    BY <1>1, <1>6 DEF Counted, Request
  <2> HIDE DEF longer
  <2>2. \A s \in longer : IsAdmitted(s, key) /\ Unread(g, s)
    BY <1>6, <2>1, SeenIsSound DEF KeyOf
  <2> QED
    BY <1>1, <1>2, <2>1, <2>2, MapIsSound, AssignSound DEF longer, ClientKeys
<1>8. RecordSound(g, q, requests')
  BY <1>1, <1>4 DEF RecordSound, Letting, Inside, MapWrites, MapReads
<1> QED
  BY <1>3, <1>5, <1>7, <1>8, GoroutineStep

(* An admission gives the request the next number, which no stamp has.     *)
LEMMA CheckCounts ==
  ASSUME CountInv, NEW g \in Goroutines, CheckLimit(g)
  PROVE  CountInv'
<1> DEFINE key == ClientKey(go[g].conn)
<1>1. go[g] \in Request /\ go[g].conn \in Connections /\ go[g].pc = "check"
  BY DEF CountInv, TypeOK, CheckLimit, MapReads
<1>2. UNCHANGED <<clock, requests, started, raced>>
  BY DEF CheckLimit
<1>3. CASE Refuse(g) /\ UNCHANGED admitted
  <2>1. PICK q \in Request : Refused(g, q)
    BY <1>3, RefuseIs DEF CountInv
  <2>2. go' = [go EXCEPT ![g] = q] /\ q.seen = {} /\ ~Letting(q) /\ q.conn \in Connections
    BY <1>1, <2>1 DEF Refused, Letting
  <2> QED
    BY <1>2, <1>3, <2>2, QuietStep
<1>4. CASE /\ go' = [go EXCEPT ![g].pc = "read", ![g].n = Len(admitted) + 1]
           /\ admitted' = Append(admitted, [conn |-> go[g].conn, at |-> go[g].now])
  <2> DEFINE new == [conn |-> go[g].conn, at |-> go[g].now]
             n == Len(admitted) + 1
  <2>1. admitted \in Seq([conn : Connections, at : 0..clock]) /\ Len(admitted) \in Nat
    BY DEF CountInv, TypeOK
  <2>2. new \in [conn : Connections, at : 0..clock]
    BY <1>1 DEF Request
  <2>3. /\ admitted' \in Seq([conn : Connections, at : 0..clock])
        /\ Len(admitted') = n /\ admitted'[n] = new
        /\ \A j \in 1..Len(admitted) : j \in 1..n /\ j # n /\ admitted'[j] = admitted[j]
    BY <1>4, <2>1, <2>2
  <2>4. Stamps \subseteq Stamps' /\ Request \subseteq Request'
    BY <1>2, <2>1, <2>3 DEF Stamps, Request
  <2>5. PICK q : q = [go[g] EXCEPT !.pc = "read", !.n = n]
    OBVIOUS
  <2>6. /\ q.pc = "read" /\ q.n = n /\ q.now = go[g].now /\ q.conn = go[g].conn
        /\ q.seen = go[g].seen
    BY <1>1, <2>5 DEF Request
  <2>7. q \in Request'
    <3>1. PICK r \in Request : r = [go[g] EXCEPT !.pc = "read"]
      BY <1>1, RequestAt DEF Pcs, MapReads
    <3>2. r \in Request' /\ n \in 0..Len(admitted')
      BY <2>1, <2>3, <2>4
    <3>3. [r EXCEPT !.n = n] \in Request'
      BY <3>2 DEF Request
    <3> QED
      BY <1>1, <2>5, <3>1, <3>3
  <2>8. \A h \in Goroutines : go'[h] = IF h = g THEN q ELSE go[h]
    BY <1>4, <2>5 DEF CountInv, TypeOK
  <2>9. \A s, k : IsAdmitted(s, k) => IsAdmitted(s, k)' /\ s.n # n
    <3>1. started' = started /\ started \in Nat
      BY <1>2, <2>1 DEF CountInv, TypeOK
    <3> QED
      BY <2>1, <2>3, <3>1 DEF IsAdmitted
  <2>10. TypeOK'
    <3>1. go' \in [Goroutines -> Request']
      BY <1>4, <2>4, <2>7, <2>8 DEF CountInv, TypeOK
    <3>2. requests' \in [DOMAIN requests' -> SUBSET Stamps'] /\ DOMAIN requests' \subseteq ClientKeys
      BY <1>2, <2>4 DEF CountInv, TypeOK
    <3>3. \A h \in Goroutines :
            go'[h].pc \in MapWrites \cup MapReads \/ go'[h].status = 429 => go'[h].conn \in Connections
      BY <1>1, <2>6, <2>8 DEF CountInv, TypeOK
    <3> QED
      BY <1>2, <2>3, <3>1, <3>2, <3>3 DEF CountInv, TypeOK, ClientKeys
  <2>11. EntriesSound'
    BY <1>2, <2>6, <2>8, <2>9 DEF CountInv, EntriesSound, KeyOf
  <2>12. NumbersSound'
    <3>1. IsAdmitted(Stamp(q), ClientKey(q.conn))'
      <4>1. Stamp(q).n = n /\ Stamp(q).at = go[g].now
        BY <2>6 DEF Stamp
      <4>2. n \in Own' /\ admitted'[n].conn = go[g].conn /\ admitted'[n].at = go[g].now
        BY <1>2, <2>1, <2>3 DEF CountInv, TypeOK
      <4> QED
        BY <2>6, <4>1, <4>2 DEF IsAdmitted
    <3>2. \A h \in Goroutines \ {g} : Letting(go[h]) => IsAdmitted(Stamp(go[h]), KeyOf(h))' /\ go[h].n # n
      <4> TAKE h \in Goroutines \ {g}
      <4> HAVE Letting(go[h])
      <4>1. IsAdmitted(Stamp(go[h]), KeyOf(h))
        BY DEF CountInv, NumbersSound
      <4>2. Stamp(go[h]).n = go[h].n
        BY DEF Stamp
      <4> QED
        BY <2>8, <2>9, <4>1, <4>2 DEF KeyOf
    <3>3. \A h \in Goroutines : IF h = g THEN go'[h] = q ELSE go'[h] = go[h]
      BY <2>8
    <3>4. \A h \in Goroutines : Letting(go'[h]) => IsAdmitted(Stamp(go[h]), KeyOf(h))'
      BY <2>6, <3>1, <3>2, <3>3 DEF KeyOf
    <3>5. \A f, h \in Goroutines : Letting(go'[f]) /\ Letting(go'[h]) /\ go'[f].n = go'[h].n => f = h
      BY <2>6, <3>2, <3>3 DEF CountInv, NumbersSound
    <3> QED
      BY <3>4, <3>5 DEF NumbersSound, Letting
  <2>13. Uncounted'
    <3>1. \A s, k : IsAdmitted(s, k) => s # Stamp(q)
      BY <2>6, <2>9 DEF Stamp
    <3> QED
      BY <1>2, <2>6, <2>8, <3>1 DEF CountInv, Uncounted, EntriesSound
  <2> QED
    BY <2>10, <2>11, <2>12, <2>13 DEF CountInv
<1> QED
  BY <1>3, <1>4 DEF CheckLimit

(* The other steps.                                                        *)
LEMMA IdleIsRequest ==
  ASSUME clock \in Nat, Len(admitted) \in Nat
  PROVE  Idle \in Request
BY DEF Idle, Request, Resting

LEMMA TickCounts ==
  ASSUME CountInv, Tick
  PROVE  CountInv'
<1>1. clock' \in 0..MaxTime /\ \A t \in 0..clock : t \in 0..clock'
  BY DEF Tick, CountInv, TypeOK
<1>2. UNCHANGED <<requests, go, admitted, started, raced>>
  BY DEF Tick
<1>3. Stamps \subseteq Stamps' /\ Request \subseteq Request'
  BY <1>1, <1>2 DEF Stamps, Request
<1>4. admitted \in Seq([conn : Connections, at : 0..clock'])
  <2>1. /\ admitted \in Seq([conn : Connections, at : 0..clock])
        /\ [conn : Connections, at : 0..clock] \subseteq [conn : Connections, at : 0..clock']
    BY <1>1 DEF CountInv, TypeOK
  <2> QED
    BY <2>1, SeqMonotonic
<1>5. requests \in [DOMAIN requests -> SUBSET Stamps']
  BY <1>3 DEF CountInv, TypeOK
<1>6. TypeOK'
  BY <1>1, <1>2, <1>3, <1>4, <1>5 DEF CountInv, TypeOK, ClientKeys
<1> QED
  BY <1>2, <1>6 DEF CountInv, EntriesSound, NumbersSound, Uncounted, IsAdmitted, KeyOf

\* Nothing is in the map, in progress or let through by this process.
Blank ==
    /\ clock \in 0..MaxTime /\ requests = [k \in {} |-> {}]
    /\ go = [g \in Goroutines |-> Idle] /\ raced = {}
    /\ admitted \in Seq([conn : Connections, at : 0..clock]) /\ started = Len(admitted)

LEMMA BlankCounts == Blank => CountInv
<1> SUFFICES ASSUME Blank PROVE CountInv
  OBVIOUS
<1> USE DEF Blank
<1>1. \A g \in Goroutines : go[g] = Idle
  OBVIOUS
<1>2. Idle.pc = "idle" /\ Idle.seen = {} /\ Idle.status = 0
  BY DEF Idle
<1>3. TypeOK
  <2>1. Idle \in Request
    BY IdleIsRequest
  <2>2. go \in [Goroutines -> Request]
    BY <2>1
  <2>3. DOMAIN requests = {} /\ requests \in [{} -> SUBSET Stamps]
    OBVIOUS
  <2>4. admitted \in Seq([conn : Connections, at : 0..clock])
    OBVIOUS
  <2> QED
    BY <1>1, <1>2, <2>2, <2>3, <2>4 DEF TypeOK, MapWrites, MapReads
<1> QED
  BY <1>1, <1>2, <1>3 DEF CountInv, EntriesSound, NumbersSound, Uncounted, Letting

LEMMA CountInvariance == Spec => []CountInv
<1>1. Init => CountInv
  BY BlankCounts DEF Init, Blank
<1>2. CountInv /\ [Next]_vars => CountInv'
  <2> SUFFICES ASSUME CountInv, [Next]_vars PROVE CountInv'
    OBVIOUS
  <2>1. ASSUME NEW g \in Goroutines,
               \/ Arrive(g) \/ Look(g) \/ Clean(g) \/ CheckLimit(g)
               \/ ReadEntry(g) \/ WriteEntry(g)
        PROVE  CountInv'
    BY <2>1, ArriveCounts, LookCounts, CleanCounts, CheckCounts, ReadCounts, WriteCounts
  <2>2. CASE ConcurrentMapAccess
    <3>1. Blank'
      BY <2>2 DEF ConcurrentMapAccess, Blank, CountInv, TypeOK
    <3> QED
      BY <3>1, BlankCounts, PTL
  <2>3. CASE UNCHANGED vars
    BY <2>3 DEF vars, CountInv, TypeOK, Stamps, Request, EntriesSound, NumbersSound, Uncounted,
                IsAdmitted, KeyOf, Letting, ClientKeys
  <2> QED
    BY <2>1, <2>2, <2>3, TickCounts DEF Next
<1> QED
  BY <1>1, <1>2, PTL DEF Spec
-----------------------------------------------------------------------------
LEMMA AdmittedTimes ==
  ASSUME TypeOK, NEW j \in Own
  PROVE  /\ j \in 1..Len(admitted)
         /\ admitted[j].conn \in Connections /\ admitted[j].at \in 0..clock
<1>1. j \in 1..Len(admitted)
  BY DEF TypeOK
<1>2. admitted[j] \in [conn : Connections, at : 0..clock]
  BY <1>1, ElementOfSeq DEF TypeOK
<1> QED
  BY <1>1, <1>2

\* A request with key k is counted by a goroutine in the limiter with that key.
Counters(k, j) == {g \in InLimiter(k) : Letting(go[g]) /\ go[g].n = j}
CountersInside == \A k : \A j \in Of(k) : Counting(j) <=> Counters(k, j) # {}

LEMMA CountingIsInside == CountInv => CountersInside
<1> SUFFICES ASSUME CountInv, NEW k, NEW j \in Of(k), NEW g \in Goroutines,
                    Letting(go[g]), go[g].n = j
             PROVE  g \in InLimiter(k)
  BY DEF CountersInside, Counters, Counting, InLimiter
<1>1. ClientKey(admitted[j].conn) = KeyOf(g)
  BY DEF CountInv, NumbersSound, IsAdmitted, Stamp
<1> QED
  BY <1>1 DEF Of, KeyOf, InLimiter, Letting, MapWrites, MapReads

(* A step that leaves the entry, the requests let through and the          *)
(* goroutines with key k alone; the clock may advance.                     *)
LEMMA Elsewhere ==
  ASSUME CountInv, CountInv', NEW k, KeySound(k),
         clock <= clock', Lookup(k)' = Lookup(k), Of(k)' = Of(k),
         \A j \in Of(k) : admitted'[j] = admitted[j],
         InLimiter(k)' = InLimiter(k), \A g \in InLimiter(k) : go'[g] = go[g],
         \A g \in Goroutines : go'[g].status = 429 /\ KeyOf(g)' = k => go'[g] = go[g]
  PROVE  KeySound(k)'
<1>1. \A j \in Of(k) : /\ StampOf(j)' = StampOf(j) /\ admitted'[j].at = admitted[j].at
                       /\ admitted[j].at \in Int
  BY AdmittedTimes DEF StampOf, Of, CountInv
<1>2. \A j \in Of(k) : Counting(j)' <=> Counting(j)
  <2>1. CountersInside /\ CountersInside'
    BY CountingIsInside, PTL
  <2>2. \A j : Counters(k, j)' = Counters(k, j)
    <3> TAKE j
    <3>1. \A g \in InLimiter(k) : Letting(go[g])' <=> Letting(go[g])
      BY DEF Letting
    <3> QED
      BY <3>1 DEF Counters
  <2>3. /\ \A j \in Of(k) : Counting(j) <=> Counters(k, j) # {}
        /\ \A j \in Of(k)' : Counting(j)' <=> Counters(k, j)' # {}
    BY <2>1 DEF CountersInside
  <2> QED
    BY <2>2, <2>3
<1>3. \A t : (Remembers(k, t)' <=> Remembers(k, t)) /\ RecentOf(k, t)' = RecentOf(k, t)
  BY <1>1, <1>2 DEF Remembers, RecentOf
<1>4. (InLimiter(k) = {} => Remembers(k, clock))'
  <2>1. PICK t, u : t = clock /\ u = clock' /\ t \in Int /\ u \in Int /\ t <= u
    BY DEF CountInv, TypeOK
  <2>2. Remembers(k, t) => Remembers(k, u)
    BY <1>1, <2>1 DEF Remembers
  <2>3. Remembers(k, u) => Remembers(k, clock)'
    BY <1>3, <2>1
  <2> QED
    BY <2>1, <2>2, <2>3 DEF KeySound
<1>5. (\A g \in InLimiter(k) : GoesAlone(g, k))'
  <2> SUFFICES ASSUME NEW g \in InLimiter(k)' PROVE GoesAlone(g, k)'
    OBVIOUS
  <2>1. GoesAlone(g, k) /\ go'[g] = go[g]
    BY DEF KeySound
  <2>2. PICK t : t = go[g].now
    OBVIOUS
  <2>3. Remembers(k, go[g].now)'
    BY <1>3, <2>1, <2>2 DEF GoesAlone
  <2> QED
    BY <1>1, <2>1, <2>3 DEF GoesAlone
<1>6. (\A j \in Of(k) : Cardinality(RecentOf(k, admitted[j].at)) <= Limit)'
  <2> SUFFICES ASSUME NEW j \in Of(k) PROVE Cardinality(RecentOf(k, admitted[j].at)') <= Limit
    OBVIOUS
  <2>1. PICK t : t = admitted[j].at /\ t = admitted'[j].at
    BY <1>1
  <2> QED
    BY <1>3, <2>1 DEF KeySound
<1>7. (\A g \in Goroutines : go[g].status = 429 /\ KeyOf(g) = k =>
          Cardinality(RecentOf(k, go[g].now)) >= Limit)'
  <2> SUFFICES ASSUME NEW g \in Goroutines, (go[g].status = 429 /\ KeyOf(g) = k)'
               PROVE  Cardinality(RecentOf(k, go[g].now)') >= Limit
    OBVIOUS
  <2>1. go'[g] = go[g] /\ go[g].status = 429 /\ KeyOf(g) = k
    BY DEF KeyOf
  <2>2. PICK t : t = go[g].now /\ t = go'[g].now
    BY <2>1
  <2> QED
    BY <1>3, <2>1, <2>2 DEF KeySound
<1> QED
  BY <1>4, <1>5, <1>6, <1>7 DEF KeySound

\* A step of g that has nothing to do with key k.
LEMMA StepElsewhere ==
  ASSUME CountInv, CountInv', NEW k, KeySound(k), NEW g \in Goroutines, NEW q,
         go' = [go EXCEPT ![g] = q], UNCHANGED clock, Lookup(k)' = Lookup(k),
         Of(k)' = Of(k), \A j \in Of(k) : admitted'[j] = admitted[j],
         ~(go[g].pc \in Inside /\ KeyOf(g) = k), ~(q.pc \in Inside /\ ClientKey(q.conn) = k),
         ~(q.status = 429 /\ ClientKey(q.conn) = k)
  PROVE  KeySound(k)'
<1>1. \A h \in Goroutines : go'[h] = IF h = g THEN q ELSE go[h]
  BY DEF CountInv, TypeOK
<1>2. InLimiter(k)' = InLimiter(k) /\ g \notin InLimiter(k)
  BY <1>1 DEF InLimiter, Inside, KeyOf
<1>3. clock <= clock'
  BY DEF CountInv, TypeOK
<1>4. \A h \in InLimiter(k) : go'[h] = go[h]
  BY <1>1, <1>2 DEF InLimiter
<1>5. \A h \in Goroutines : go'[h].status = 429 /\ KeyOf(h)' = k => go'[h] = go[h]
  BY <1>1 DEF KeyOf
<1> QED
  BY <1>2, <1>3, <1>4, <1>5, Elsewhere

\* A step of g, the only goroutine in the limiter with key k, but its admission.
LEMMA StepAlone ==
  ASSUME CountInv, CountInv', NEW k, KeySound(k), NEW g \in Goroutines, NEW q,
         go' = [go EXCEPT ![g] = q], UNCHANGED <<clock, admitted, started>>, InLimiter(k) \subseteq {g},
         ClientKey(q.conn) = k,
         IF q.pc \in Inside THEN GoesAlone(g, k)' ELSE Remembers(k, clock)',
         q.status = 429 => Cardinality(RecentOf(k, q.now)) >= Limit
  PROVE  KeySound(k)'
<1>1. \A h \in Goroutines : go'[h] = IF h = g THEN q ELSE go[h]
  BY DEF CountInv, TypeOK
<1>2. InLimiter(k)' = IF q.pc \in Inside THEN {g} ELSE {}
  BY <1>1 DEF InLimiter, Inside
<1>3. \A t : RecentOf(k, t)' = RecentOf(k, t)
  BY DEF RecentOf, Of
<1>4. (\A j \in Of(k) : Cardinality(RecentOf(k, admitted[j].at)) <= Limit)'
  BY DEF KeySound, RecentOf, Of
<1>5. (\A h \in Goroutines : go[h].status = 429 /\ KeyOf(h) = k =>
          Cardinality(RecentOf(k, go[h].now)) >= Limit)'
  <2> SUFFICES ASSUME NEW h \in Goroutines, (go[h].status = 429 /\ KeyOf(h) = k)'
               PROVE  Cardinality(RecentOf(k, go[h].now)') >= Limit
    OBVIOUS
  <2>1. PICK t : t = go'[h].now
    OBVIOUS
  <2>2. Cardinality(RecentOf(k, t)) >= Limit
    BY <1>1, <2>1 DEF KeySound, KeyOf
  <2> QED
    BY <1>3, <2>1, <2>2
<1>6. (InLimiter(k) = {} => Remembers(k, clock))'
  BY <1>2
<1>7. (\A h \in InLimiter(k) : GoesAlone(h, k))'
  BY <1>2
<1>8. (\A f, h \in InLimiter(k) : f = h)'
  BY <1>2
<1> QED
  BY <1>4, <1>5, <1>6, <1>7, <1>8 DEF KeySound

LEMMA OnlyInLimiter ==
  ASSUME NEW k, KeySound(k), NEW g \in Goroutines, go[g].pc \in Inside, KeyOf(g) = k
  PROVE  InLimiter(k) = {g} /\ GoesAlone(g, k)
<1>1. g \in InLimiter(k)
  BY DEF InLimiter, KeyOf, Inside
<1> QED
  BY <1>1 DEF KeySound

LEMMA OnlyCounting ==
  ASSUME CountInv, NEW k, NEW g \in Goroutines, InLimiter(k) \subseteq {g}, NEW j \in Of(k), Counting(j)
  PROVE  Letting(go[g]) /\ go[g].n = j
BY CountingIsInside DEF CountersInside, Counters

LEMMA TimesKnown ==
  ASSUME CountInv, NEW k
  PROVE  /\ clock \in Int
         /\ \A j \in Of(k) : admitted[j].at \in Int /\ admitted[j].at <= clock
         /\ \A g \in Goroutines : go[g].now \in Int /\ go[g].now <= clock
<1>1. clock \in Int
  BY DEF CountInv, TypeOK
<1>2. \A j \in Of(k) : admitted[j].at \in 0..clock
  BY AdmittedTimes DEF CountInv, Of
<1>3. \A g \in Goroutines : go[g].now \in 0..clock
  BY DEF CountInv, TypeOK, Request
<1> QED
  BY <1>1, <1>2, <1>3

(* The steps again: those with another key, and those with key k.          *)
LEMMA ArriveKeeps ==
  ASSUME CountInv, CountInv', NEW g \in Goroutines, Arrive(g),
         NEW k \in ClientKeys \ raced', k \notin raced => KeySound(k)
  PROVE  KeySound(k)'
<1>1. PICK c, q :
         /\ c \in Connections /\ go' = [go EXCEPT ![g] = q]
         /\ q.pc = "look" /\ q.conn = c /\ q.now = clock /\ q.status = 0
         /\ raced' = IF InLimiter(ClientKey(c)) = {} THEN raced ELSE raced \cup {ClientKey(c)}
  <2>1. PICK c \in Connections :
          /\ go' = [go EXCEPT ![g] = [Idle EXCEPT !.pc = "look", !.conn = c, !.now = clock]]
          /\ raced' = IF InLimiter(ClientKey(c)) = {} THEN raced ELSE raced \cup {ClientKey(c)}
    BY DEF Arrive
  <2> DEFINE q == [Idle EXCEPT !.pc = "look", !.conn = c, !.now = clock]
  <2>2. q.pc = "look" /\ q.conn = c /\ q.now = clock /\ q.status = 0
    BY DEF Idle
  <2> QED
    BY <2>1, <2>2
<1>2. k \notin raced /\ KeySound(k) /\ UNCHANGED <<clock, requests, admitted, started>>
  BY <1>1 DEF Arrive
<1>3. CASE ClientKey(c) # k
  <2>1. Lookup(k)' = Lookup(k) /\ Of(k)' = Of(k) /\ go[g].pc \notin Inside
    BY <1>2 DEF Lookup, Of, Arrive, Resting, Inside, MapWrites, MapReads
  <2> QED
    BY <1>1, <1>2, <1>3, <2>1, StepElsewhere
<1>4. CASE ClientKey(c) = k
  <2>1. InLimiter(k) = {} /\ InLimiter(k) \subseteq {g}
    BY <1>1, <1>4
  <2>2. go'[g] = q
    BY <1>1 DEF CountInv, TypeOK
  <2>3. Remembers(k, go[g].now)'
    <3>1. Remembers(k, clock)
      BY <1>2, <2>1 DEF KeySound
    <3>2. \A j \in Of(k) : ~Counting(j)
      BY <2>1, CountingIsInside DEF CountersInside, Counters
    <3> QED
      BY <1>1, <1>2, <2>2, <3>1, <3>2 DEF Remembers, Of, StampOf, Lookup
  <2>4. GoesAlone(g, k)'
    BY <1>1, <1>2, <2>2, <2>3, TimesKnown DEF GoesAlone, Of, MapWrites
  <2>5. q.pc \in Inside
    BY <1>1 DEF Inside, MapReads
  <2>6. /\ IF q.pc \in Inside THEN GoesAlone(g, k)' ELSE Remembers(k, clock)'
        /\ q.status = 429 => Cardinality(RecentOf(k, q.now)) >= Limit
        /\ ClientKey(q.conn) = k /\ go' = [go EXCEPT ![g] = q] /\ UNCHANGED <<clock, admitted, started>>
    BY <1>1, <1>2, <1>4, <2>4, <2>5
  <2> QED
    BY <1>2, <2>1, <2>6, StepAlone
<1> QED
  BY <1>3, <1>4

\* What g's record keeps until its request is answered.
SameClient(g, q) == q.conn = go[g].conn /\ q.now = go[g].now /\ q.status = go[g].status

LEMMA StepWithOtherKey ==
  ASSUME CountInv, CountInv', NEW g \in Goroutines, NEW q, go' = [go EXCEPT ![g] = q],
         UNCHANGED <<clock, admitted, started>>, NEW k, KeySound(k), KeyOf(g) # k, q.conn = go[g].conn,
         Lookup(k)' = Lookup(k)
  PROVE  KeySound(k)'
<1>1. Of(k)' = Of(k)
  BY DEF Of
<1> QED
  BY <1>1, StepElsewhere DEF KeyOf

LEMMA StepWithKey ==
  ASSUME CountInv, CountInv', NEW g \in Goroutines, NEW q, go' = [go EXCEPT ![g] = q],
         UNCHANGED <<clock, admitted, started>>, NEW k, KeySound(k), KeyOf(g) = k, go[g].pc \in Inside,
         SameClient(g, q), q.pc \in Inside, GoesAlone(g, k)'
  PROVE  KeySound(k)'
<1>1. InLimiter(k) \subseteq {g} /\ ClientKey(q.conn) = k
  <2>1. InLimiter(k) \subseteq {g}
    BY OnlyInLimiter
  <2> QED
    BY <2>1 DEF SameClient, KeyOf
<1>2. q.status = 429 => Cardinality(RecentOf(k, q.now)) >= Limit
  <2>1. /\ q.status = go[g].status /\ q.now = go[g].now
        /\ go[g].status = 429 /\ KeyOf(g) = k => Cardinality(RecentOf(k, go[g].now)) >= Limit
    BY DEF SameClient, KeySound
  <2> QED
    BY <2>1
<1> QED
  BY <1>1, <1>2, StepAlone

LEMMA AssignLookup ==
  ASSUME NEW key, NEW times, Assign(key, times)
  PROVE  Lookup(key)' = times /\ \A k : k # key => Lookup(k)' = Lookup(k)
BY DEF Assign, Lookup

LEMMA LookKeeps ==
  ASSUME CountInv, CountInv', NEW g \in Goroutines, Look(g), NEW k, KeySound(k)
  PROVE  KeySound(k)'
<1>1. go[g] \in Request /\ go[g].pc = "look" /\ UNCHANGED <<clock, requests, admitted, started>>
  BY DEF CountInv, TypeOK, Look
<1>2. PICK q : /\ go' = [go EXCEPT ![g] = q] /\ SameClient(g, q)
               /\ \/ q.pc = "clean" /\ q.seen = Lookup(KeyOf(g))
                  \/ q.pc = "check" /\ Lookup(KeyOf(g)) = {}
  <2>1. CASE /\ KeyOf(g) \in DOMAIN requests
             /\ go' = [go EXCEPT ![g].pc = "clean", ![g].seen = requests[KeyOf(g)]]
    <3>1. PICK q : q = [go[g] EXCEPT !.pc = "clean", !.seen = requests[KeyOf(g)]]
      OBVIOUS
    <3>2. q.pc = "clean" /\ q.seen = Lookup(KeyOf(g)) /\ SameClient(g, q)
      BY <1>1, <2>1, <3>1 DEF Request, Lookup, SameClient
    <3>3. go' = [go EXCEPT ![g] = q]
      BY <2>1, <3>1 DEF CountInv, TypeOK
    <3> QED
      BY <3>2, <3>3
  <2>2. CASE KeyOf(g) \notin DOMAIN requests /\ Goto(g, "check")
    <3>1. PICK q : q = [go[g] EXCEPT !.pc = "check"]
      OBVIOUS
    <3>2. q.pc = "check" /\ Lookup(KeyOf(g)) = {} /\ SameClient(g, q)
      BY <1>1, <2>2, <3>1 DEF Request, Lookup, SameClient
    <3>3. go' = [go EXCEPT ![g] = q]
      BY <2>2, <3>1 DEF CountInv, TypeOK, Goto
    <3> QED
      BY <3>2, <3>3
  <2> QED
    BY <2>1, <2>2 DEF Look, KeyOf
<1>3. CASE KeyOf(g) # k
  BY <1>1, <1>2, <1>3, StepWithOtherKey DEF SameClient, Lookup
<1>4. CASE KeyOf(g) = k
  <2>1. InLimiter(k) = {g} /\ GoesAlone(g, k)
    BY <1>1, <1>4, OnlyInLimiter DEF Inside, MapReads
  <2>2. go'[g] = q /\ Lookup(k)' = Lookup(k)
    BY <1>1, <1>2 DEF CountInv, TypeOK, Lookup
  <2>3. \A j \in Of(k) : ~Counting(j)
    BY <1>1, <2>1, OnlyCounting DEF Letting
  <2>4. Remembers(k, go[g].now)'
    BY <1>1, <1>2, <2>1, <2>2, <2>3 DEF GoesAlone, SameClient, Remembers, Of, StampOf
  <2>5. GoesAlone(g, k)'
    BY <1>1, <1>2, <1>4, <2>1, <2>2, <2>4 DEF GoesAlone, SameClient, Of, MapWrites
  <2> QED
    BY <1>1, <1>2, <1>4, <2>5, StepWithKey DEF Inside, MapWrites, MapReads
<1> QED
  BY <1>3, <1>4

LEMMA CleanKeeps ==
  ASSUME CountInv, CountInv', NEW g \in Goroutines, Clean(g), NEW k, KeySound(k)
  PROVE  KeySound(k)'
<1>1. /\ go[g] \in Request /\ go[g].pc = "clean" /\ UNCHANGED <<clock, admitted, started>>
      /\ Assign(KeyOf(g), Valid(go[g].seen, go[g].now))
  BY DEF CountInv, TypeOK, Clean, KeyOf
<1>2. PICK q : go' = [go EXCEPT ![g] = q] /\ SameClient(g, q) /\ q.pc = "check"
  <2>1. PICK q : q = [go[g] EXCEPT !.pc = "check", !.seen = {}]
    OBVIOUS
  <2>2. q.pc = "check" /\ SameClient(g, q)
    BY <1>1, <2>1 DEF Request, SameClient
  <2>3. go' = [go EXCEPT ![g] = q]
    BY <2>1 DEF Clean, CountInv, TypeOK
  <2> QED
    BY <2>2, <2>3
<1>3. CASE KeyOf(g) # k
  <2>1. Lookup(k)' = Lookup(k)
    BY <1>1, <1>3, AssignLookup
  <2> QED
    BY <1>1, <1>2, <1>3, <2>1, StepWithOtherKey DEF SameClient
<1>4. CASE KeyOf(g) = k
  <2>1. InLimiter(k) = {g} /\ GoesAlone(g, k)
    BY <1>1, <1>4, OnlyInLimiter DEF Inside, MapWrites
  <2>2. go'[g] = q /\ Lookup(k)' = Valid(Lookup(k), go[g].now)
    BY <1>1, <1>2, <1>4, <2>1, AssignLookup DEF CountInv, TypeOK, GoesAlone, MapWrites
  <2>3. \A j \in Of(k) : ~Counting(j)
    BY <1>1, <2>1, OnlyCounting DEF Letting
  <2>4. Remembers(k, go[g].now)'
    <3>1. \A j \in Of(k) : StampOf(j) \in Lookup(k)' \/ go[g].now - admitted[j].at >= Window
      BY <2>1, <2>2, <2>3, TimesKnown DEF GoesAlone, Remembers, Valid, StampOf
    <3> QED
      BY <1>1, <1>2, <2>2, <3>1 DEF SameClient, Remembers, Of, StampOf
  <2>5. GoesAlone(g, k)'
    BY <1>1, <1>2, <1>4, <2>1, <2>2, <2>4 DEF GoesAlone, SameClient, Of, MapWrites, Valid
  <2> QED
    BY <1>1, <1>2, <1>4, <2>5, StepWithKey DEF Inside, MapWrites, MapReads
<1> QED
  BY <1>3, <1>4

LEMMA ReadKeeps ==
  ASSUME CountInv, CountInv', NEW g \in Goroutines, ReadEntry(g), NEW k, KeySound(k)
  PROVE  KeySound(k)'
<1>1. go[g] \in Request /\ go[g].pc = "read" /\ UNCHANGED <<clock, requests, admitted, started>>
  BY DEF CountInv, TypeOK, ReadEntry
<1>2. PICK q : /\ go' = [go EXCEPT ![g] = q] /\ SameClient(g, q) /\ q.n = go[g].n
               /\ q.pc = "write" /\ q.seen = Lookup(KeyOf(g))
  <2>1. PICK q : q = [go[g] EXCEPT !.pc = "write", !.seen = Lookup(KeyOf(g))]
    OBVIOUS
  <2>2. q.pc = "write" /\ q.seen = Lookup(KeyOf(g)) /\ q.n = go[g].n /\ SameClient(g, q)
    BY <1>1, <2>1 DEF Request, SameClient
  <2>3. go' = [go EXCEPT ![g] = q]
    BY <2>1 DEF ReadEntry, CountInv, TypeOK, KeyOf
  <2> QED
    BY <2>2, <2>3
<1>3. CASE KeyOf(g) # k
  BY <1>1, <1>2, <1>3, StepWithOtherKey DEF SameClient, Lookup
<1>4. CASE KeyOf(g) = k
  <2>1. InLimiter(k) = {g} /\ GoesAlone(g, k)
    BY <1>1, <1>4, OnlyInLimiter DEF Inside, MapReads
  <2>2. go'[g] = q /\ Lookup(k)' = Lookup(k)
    BY <1>1, <1>2 DEF CountInv, TypeOK, Lookup
  <2>3. \A j \in Of(k) : Counting(j) => Counting(j)'
    <3> SUFFICES ASSUME NEW j \in Of(k), Counting(j) PROVE Counting(j)'
      OBVIOUS
    <3>1. go[g].n = j
      BY <2>1, OnlyCounting
    <3> QED
      BY <1>2, <2>2, <3>1 DEF Counting, Letting
  <2>4. Remembers(k, go[g].now)'
    BY <1>1, <1>2, <2>1, <2>2, <2>3 DEF GoesAlone, SameClient, Remembers, Of, StampOf
  <2>5. GoesAlone(g, k)'
    BY <1>1, <1>2, <1>4, <2>1, <2>2, <2>4 DEF GoesAlone, SameClient, Of, MapWrites
  <2> QED
    BY <1>1, <1>2, <1>4, <2>5, StepWithKey DEF Inside, MapWrites, MapReads
<1> QED
  BY <1>3, <1>4

LEMMA WriteKeeps ==
  ASSUME CountInv, CountInv', NEW g \in Goroutines, WriteEntry(g), NEW k, KeySound(k)
  PROVE  KeySound(k)'
<1>1. go[g] \in Request /\ go[g].pc = "write" /\ UNCHANGED <<clock, admitted, started>>
  BY DEF CountInv, TypeOK, WriteEntry
<1>2. PICK q : go' = [go EXCEPT ![g] = q] /\ SameClient(g, q) /\ q.pc = "done"
  <2>1. PICK q : q = [go[g] EXCEPT !.pc = "done", !.seen = {}]
    OBVIOUS
  <2>2. q.pc = "done" /\ SameClient(g, q)
    BY <1>1, <2>1 DEF Request, SameClient
  <2>3. go' = [go EXCEPT ![g] = q]
    BY <2>1 DEF WriteEntry, CountInv, TypeOK
  <2> QED
    BY <2>2, <2>3
<1>3. PICK h \in Appending(g) : Assign(KeyOf(g), Counted(go[g].seen, Stamp(go[h])))
  BY DEF WriteEntry, SlotTimes, KeyOf
<1>4. CASE KeyOf(g) # k
  <2>1. Lookup(k)' = Lookup(k)
    BY <1>3, <1>4, AssignLookup
  <2> QED
    BY <1>1, <1>2, <1>4, <2>1, StepWithOtherKey DEF SameClient
<1>5. CASE KeyOf(g) = k
  <2>1. InLimiter(k) = {g} /\ GoesAlone(g, k)
    BY <1>1, <1>5, OnlyInLimiter DEF Inside, MapWrites
  <2>2. h = g
    BY <1>5, <2>1 DEF Appending, InLimiter, KeyOf, MapWrites
  <2>3. Lookup(k)' = Lookup(k) \cup {StampOf(go[g].n)}
    <3>1. Stamp(go[g]) = StampOf(go[g].n)
      BY <1>1 DEF CountInv, NumbersSound, Letting, IsAdmitted, Stamp, StampOf
    <3> QED
      BY <1>1, <1>3, <1>5, <2>1, <2>2, <3>1, AssignLookup DEF Counted, GoesAlone, MapWrites
  <2>4. Remembers(k, clock)'
    <3>1. \A j \in Of(k) : StampOf(j) \in Lookup(k)' \/ clock - admitted[j].at >= Window
      <4> SUFFICES ASSUME NEW j \in Of(k), ~(clock - admitted[j].at >= Window)
                   PROVE  StampOf(j) \in Lookup(k)'
        OBVIOUS
      <4>1. ~(go[g].now - admitted[j].at >= Window)
        BY TimesKnown
      <4>2. StampOf(j) \in Lookup(k) \/ Counting(j)
        BY <2>1, <4>1 DEF GoesAlone, Remembers
      <4> QED
        BY <2>1, <2>3, <4>2, OnlyCounting
    <3> QED
      BY <1>1, <3>1 DEF Remembers, Of, StampOf
  <2>5. /\ InLimiter(k) \subseteq {g} /\ ClientKey(q.conn) = k /\ q.pc \notin Inside
        /\ q.status = 429 => Cardinality(RecentOf(k, q.now)) >= Limit
    BY <1>2, <1>5, <2>1 DEF SameClient, KeyOf, KeySound, Inside, MapWrites, MapReads
  <2> QED
    BY <1>1, <1>2, <2>4, <2>5, StepAlone
<1> QED
  BY <1>4, <1>5

LEMMA RecentFinite ==
  ASSUME CountInv, NEW k, NEW t
  PROVE  IsFiniteSet(RecentOf(k, t))
<1>1. Len(admitted) \in Int
  BY DEF CountInv, TypeOK
<1>2. IsFiniteSet(1..Len(admitted))
  BY <1>1, FS_Interval
<1>3. RecentOf(k, t) \subseteq 1..Len(admitted)
  BY AdmittedTimes DEF RecentOf, Of, CountInv
<1> QED
  BY <1>2, <1>3, FS_Subset

(* While g is alone in the check, what its client's entry holds is what    *)
(* was let through in the window that ends at g's time.                    *)
LEMMA EntryIsRecent ==
  ASSUME CountInv, NEW g \in Goroutines, go[g].pc = "check", NEW k, KeySound(k), KeyOf(g) = k
  PROVE  /\ IsFiniteSet(Lookup(k)) /\ IsFiniteSet(RecentOf(k, go[g].now))
         /\ Cardinality(Lookup(k)) = Cardinality(RecentOf(k, go[g].now))
<1> DEFINE R == RecentOf(k, go[g].now)
           E == Lookup(k)
<1>1. InLimiter(k) = {g} /\ GoesAlone(g, k)
  BY OnlyInLimiter DEF Inside, MapReads
<1>2. IsFiniteSet(R)
  BY RecentFinite
<1>3. \A j \in R : StampOf(j) \in E
  <2> SUFFICES ASSUME NEW j \in R PROVE StampOf(j) \in E
    OBVIOUS
  <2>1. j \in Of(k) /\ ~(go[g].now - admitted[j].at >= Window)
    BY TimesKnown DEF RecentOf
  <2>2. ~Counting(j)
    BY <1>1, <2>1, OnlyCounting DEF Letting
  <2> QED
    BY <1>1, <2>1, <2>2 DEF GoesAlone, Remembers
<1>4. \A s \in E : s.n \in R /\ s = StampOf(s.n)
  <2> SUFFICES ASSUME NEW s \in E PROVE s.n \in R /\ s = StampOf(s.n)
    OBVIOUS
  <2>1. IsAdmitted(s, k) /\ s \in Stamps
    BY DEF Lookup, CountInv, EntriesSound, TypeOK
  <2>2. s.n \in Of(k) /\ s.at = admitted[s.n].at /\ go[g].now - s.at < Window
    BY <1>1, <2>1 DEF IsAdmitted, Of, GoesAlone
  <2> QED
    BY <1>1, <2>1, <2>2 DEF RecentOf, GoesAlone, StampOf, Stamps
<1>5. PICK f : f = [j \in R |-> StampOf(j)]
  OBVIOUS
<1>6. f \in Bijection(R, E)
  <2>1. \A i, j \in R : StampOf(i) = StampOf(j) => i = j
    BY DEF StampOf
  <2> HIDE DEF R, E
  <2>2. f \in [R -> E] /\ \A i, j \in R : f[i] = f[j] => i = j
    BY <1>3, <1>5, <2>1
  <2>3. \A s \in E : \E j \in R : f[j] = s
    BY <1>4, <1>5
  <2> QED
    BY <2>2, <2>3 DEF Bijection, Injection, Surjection, IsInjective
<1>7. ExistsBijection(R, E)
  BY <1>6 DEF ExistsBijection
<1> QED
  BY <1>2, <1>7, FS_Bijection

LEMMA RefuseKeeps ==
  ASSUME CountInv, CountInv', NEW g \in Goroutines, go[g].pc = "check", AtLimit(KeyOf(g)),
         Refuse(g), UNCHANGED <<clock, requests, admitted, started>>, NEW k, KeySound(k)
  PROVE  KeySound(k)'
<1>1. PICK q \in Request : Refused(g, q)
  BY RefuseIs DEF CountInv
<1>2. go' = [go EXCEPT ![g] = q] /\ q.conn = go[g].conn /\ q.now = go[g].now /\ q.pc = "done"
  BY <1>1 DEF Refused
<1>3. CASE KeyOf(g) # k
  BY <1>2, <1>3, StepWithOtherKey DEF Lookup
<1>4. CASE KeyOf(g) = k
  <2>1. InLimiter(k) = {g} /\ GoesAlone(g, k)
    BY <1>4, OnlyInLimiter DEF Inside, MapReads
  <2>2. \A j \in Of(k) : ~Counting(j)
    BY <2>1, OnlyCounting DEF Letting
  <2>3. Remembers(k, clock)'
    <3>1. \A j \in Of(k) : StampOf(j) \in Lookup(k) \/ clock - admitted[j].at >= Window
      BY <2>1, <2>2, TimesKnown DEF GoesAlone, Remembers
    <3> QED
      BY <3>1 DEF Remembers, Of, StampOf, Lookup
  <2>4. Cardinality(RecentOf(k, q.now)) >= Limit
    BY <1>2, <1>4, EntryIsRecent DEF AtLimit
  <2>5. ClientKey(q.conn) = k /\ q.pc \notin Inside
    BY <1>2, <1>4 DEF KeyOf, Inside, MapWrites, MapReads
  <2> QED
    BY <1>2, <2>1, <2>3, <2>4, <2>5, StepAlone
<1> QED
  BY <1>3, <1>4

\* The branch of CheckLimit that lets a request through.
Admit(g) ==
    /\ ~AtLimit(KeyOf(g))
    /\ go' = [go EXCEPT ![g].pc = "read", ![g].n = Len(admitted) + 1]
    /\ admitted' = Append(admitted, [conn |-> go[g].conn, at |-> go[g].now])
    /\ UNCHANGED <<clock, requests, started>>

LEMMA AdmitKeeps ==
  ASSUME CountInv, CountInv', NEW g \in Goroutines, go[g].pc = "check", Admit(g), NEW k, KeySound(k)
  PROVE  KeySound(k)'
<1>0. PICK n : n = Len(admitted) + 1
  OBVIOUS
<1>1. go[g] \in Request /\ go \in [Goroutines -> Request]
  BY DEF CountInv, TypeOK
<1>2. PICK q : /\ go' = [go EXCEPT ![g] = q] /\ SameClient(g, q)
               /\ q.pc = "read" /\ q.n = n
  <2>1. PICK q : q = [go[g] EXCEPT !.pc = "read", !.n = n]
    OBVIOUS
  <2>2. q.pc = "read" /\ q.n = n /\ SameClient(g, q)
    BY <1>1, <2>1 DEF Request, SameClient
  <2>3. go' = [go EXCEPT ![g] = q]
    BY <1>0, <1>1, <2>1 DEF Admit
  <2> QED
    BY <2>2, <2>3
<1>3. /\ n \in Int /\ Len(admitted) \in Nat /\ Len(admitted') = n
      /\ Own' = Own \cup {n} /\ n \notin Own /\ Own \subseteq 1..Len(admitted)
      /\ admitted'[n].conn = go[g].conn /\ admitted'[n].at = go[g].now
      /\ \A j \in 1..Len(admitted) : admitted'[j] = admitted[j]
  BY <1>0 DEF CountInv, TypeOK, Admit
<1>4. \A h \in Goroutines : go'[h] = IF h = g THEN q ELSE go[h]
  BY <1>1, <1>2
<1>5. CASE KeyOf(g) # k
  <2>1. Of(k)' = Of(k) /\ Lookup(k)' = Lookup(k)
    BY <1>0, <1>3, <1>5 DEF Of, Lookup, KeyOf, Admit
  <2>2. \A j \in Of(k) : admitted'[j] = admitted[j]
    BY <1>3 DEF Of
  <2>3. /\ ~(go[g].pc \in Inside /\ KeyOf(g) = k) /\ ~(q.pc \in Inside /\ ClientKey(q.conn) = k)
        /\ ~(q.status = 429 /\ ClientKey(q.conn) = k)
    BY <1>2, <1>5 DEF SameClient, KeyOf
  <2>4. UNCHANGED clock
    BY DEF Admit
  <2> QED
    BY <1>2, <2>1, <2>4, <2>2, <2>3, StepElsewhere
<1>6. CASE KeyOf(g) = k
  <2>0. PICK R, now : now = go[g].now /\ R = RecentOf(k, now)
    OBVIOUS
  <2>1. InLimiter(k) = {g} /\ GoesAlone(g, k)
    BY <1>6, OnlyInLimiter DEF Inside, MapReads
  <2>2. /\ Of(k)' = Of(k) \cup {n} /\ n \notin Of(k) /\ Lookup(k)' = Lookup(k)
        /\ \A j \in Of(k) : admitted'[j] = admitted[j]
    BY <1>0, <1>3, <1>6 DEF Of, Lookup, KeyOf, Admit
  <2>3. /\ \A t : RecentOf(k, t) \subseteq RecentOf(k, t)' /\ RecentOf(k, t)' \subseteq RecentOf(k, t) \cup {n}
        /\ \A t : n \in RecentOf(k, t)' => now <= t
    BY <1>3, <2>0, <2>2 DEF RecentOf
  <2>4. \A t : RecentOf(k, t) \subseteq RecentOf(k, t)' /\ RecentOf(k, t)' \subseteq RecentOf(k, t) \cup {n}
    BY <2>3
  <2>5. Cardinality(R) + 1 <= Limit /\ IsFiniteSet(R)
    <3>1. IsFiniteSet(R) /\ Cardinality(R) = Cardinality(Lookup(k))
      BY <1>6, <2>0, EntryIsRecent
    <3>2. Cardinality(R) \in Nat
      BY <3>1, FS_CardinalityType
    <3> QED
      BY <1>6, <3>1, <3>2 DEF AtLimit, Admit
  <2>6. InLimiter(k)' = {g}
    BY <1>2, <1>4, <1>6, <2>1 DEF InLimiter, SameClient, KeyOf, MapReads
  <2>7. (\A j \in Of(k) : Cardinality(RecentOf(k, admitted[j].at)) <= Limit)'
    <3> SUFFICES ASSUME NEW j \in Of(k)'
                 PROVE  Cardinality(RecentOf(k, admitted[j].at)') <= Limit
      OBVIOUS
    <3>1. PICK t : t = admitted'[j].at
      OBVIOUS
    <3>2. CASE n \in RecentOf(k, t)'
      <4>1. t = now
        <5>1. now <= t /\ now \in Int
          BY <2>0, <2>3, <3>2, TimesKnown
        <5>2. t \in Int /\ t <= now
          BY <1>3, <2>0, <2>1, <2>2, <3>1, TimesKnown DEF GoesAlone
        <5> QED
          BY <5>1, <5>2
      <4>2. RecentOf(k, t)' \in SUBSET (R \cup {n})
        BY <2>0, <2>4, <4>1
      <4>3. /\ IsFiniteSet(R \cup {n}) /\ Cardinality(R \cup {n}) \in Nat
            /\ Cardinality(R \cup {n}) <= Limit
        <5>1. /\ IsFiniteSet(R \cup {n}) /\ Cardinality(R) \in Nat
              /\ Cardinality(R \cup {n}) \in {Cardinality(R), Cardinality(R) + 1}
          BY <2>5, FS_AddElement, FS_CardinalityType
        <5> QED
          BY <2>5, <5>1
      <4>4. Cardinality(RecentOf(k, t)') <= Cardinality(R \cup {n}) /\ Cardinality(RecentOf(k, t)') \in Nat
        BY <4>2, <4>3, FS_Subset, FS_CardinalityType
      <4> QED
        BY <3>1, <4>3, <4>4
    <3>3. CASE n \notin RecentOf(k, t)'
      <4>1. RecentOf(k, t)' = RecentOf(k, t)
        BY <2>4, <3>3
      <4>2. j # n => Cardinality(RecentOf(k, t)) <= Limit
        BY <2>2, <3>1 DEF KeySound
      <4>3. j = n => n \in RecentOf(k, t)'
        BY <1>3, <2>2, <3>1, TimesKnown DEF RecentOf
      <4> QED
        BY <3>1, <3>3, <4>1, <4>2, <4>3
    <3> QED
      BY <3>2, <3>3
  <2>8. (\A h \in Goroutines : go[h].status = 429 /\ KeyOf(h) = k =>
            Cardinality(RecentOf(k, go[h].now)) >= Limit)'
    <3> SUFFICES ASSUME NEW h \in Goroutines, (go[h].status = 429 /\ KeyOf(h) = k)'
                 PROVE  Cardinality(RecentOf(k, go[h].now)') >= Limit
      OBVIOUS
    <3>1. PICK t : t = go'[h].now
      OBVIOUS
    <3>2. go[h].status = 429 /\ KeyOf(h) = k /\ t = go[h].now
      BY <1>2, <1>4, <3>1 DEF SameClient, KeyOf
    <3>3. Cardinality(RecentOf(k, t)) >= Limit
      BY <3>2 DEF KeySound
    <3>4. IsFiniteSet(RecentOf(k, t)) /\ IsFiniteSet(RecentOf(k, t)')
      BY <2>4, RecentFinite, FS_AddElement, FS_Subset
    <3>5. /\ Cardinality(RecentOf(k, t)) <= Cardinality(RecentOf(k, t)')
          /\ Cardinality(RecentOf(k, t)) \in Nat /\ Cardinality(RecentOf(k, t)') \in Nat
      BY <2>4, <3>4, FS_Subset, FS_CardinalityType
    <3> QED
      BY <3>1, <3>3, <3>5
  <2>9. GoesAlone(g, k)'
    <3>1. \A j \in Of(k) : StampOf(j) \in Lookup(k) \/ go[g].now - admitted[j].at >= Window
      BY <2>1, OnlyCounting DEF GoesAlone, Remembers, Letting
    <3>2. Counting(n)'
      BY <1>2, <1>4 DEF Counting, Letting
    <3>3. Remembers(k, go[g].now)'
      BY <1>2, <1>4, <2>2, <3>1, <3>2 DEF Remembers, StampOf, SameClient
    <3> QED
      BY <1>2, <1>3, <1>4, <2>1, <2>2, <3>3, TimesKnown DEF GoesAlone, SameClient, MapWrites
  <2>10. (\A f, h \in InLimiter(k) : f = h)' /\ (InLimiter(k) = {} => Remembers(k, clock))'
        /\ (\A h \in InLimiter(k) : GoesAlone(h, k))'
    BY <2>6, <2>9
  <2> QED
    BY <2>7, <2>8, <2>10 DEF KeySound
<1> QED
  BY <1>5, <1>6

LEMMA CheckKeeps ==
  ASSUME CountInv, CountInv', NEW g \in Goroutines, CheckLimit(g), NEW k, KeySound(k)
  PROVE  KeySound(k)'
<1>1. go[g].pc = "check" /\ UNCHANGED <<clock, requests, started>>
  BY DEF CheckLimit
<1>2. CASE AtLimit(KeyOf(g)) /\ Refuse(g) /\ UNCHANGED admitted
  BY <1>1, <1>2, RefuseKeeps
<1>3. CASE Admit(g)
  BY <1>1, <1>3, AdmitKeeps
<1> QED
  BY <1>1, <1>2, <1>3 DEF CheckLimit, Admit, KeyOf

\* A step of the clock, or none.
LEMMA IdleKeeps ==
  ASSUME CountInv, CountInv', UNCHANGED <<requests, go, admitted, started>>, clock <= clock', NEW k, KeySound(k)
  PROVE  KeySound(k)'
<1>1. /\ Of(k)' = Of(k) /\ Lookup(k)' = Lookup(k) /\ InLimiter(k)' = InLimiter(k)
      /\ \A j \in Of(k) : admitted'[j] = admitted[j]
  BY DEF Of, Lookup, InLimiter
<1> QED
  BY <1>1, Elsewhere

KeysSound == \A k \in ClientKeys : KeySound(k)

LEMMA BlankKeeps == Blank => KeysSound
<1> SUFFICES ASSUME Blank, NEW k PROVE KeySound(k)
  BY DEF KeysSound
<1>1. Of(k) = {}
  BY DEF Blank, Of
<1>2. InLimiter(k) = {} /\ \A g \in Goroutines : go[g].status # 429
  BY DEF Blank, InLimiter, Idle, MapWrites, MapReads
<1> QED
  BY <1>1, <1>2 DEF KeySound, Remembers

LEMMA LimitInvariance == Spec => []LimitInv
<1>1. Init => LimitInv
  BY BlankCounts, BlankKeeps DEF Init, Blank, KeysSound, LimitInv
<1>2. LimitInv /\ CountInv' /\ [Next]_vars => LimitInv'
  <2> SUFFICES ASSUME LimitInv, CountInv', [Next]_vars, NEW k \in ClientKeys, k \notin raced'
               PROVE  KeySound(k)'
    BY DEF LimitInv, ClientKeys, ClientKey
  <2> USE DEF LimitInv
  <2>1. ASSUME NEW g \in Goroutines, Arrive(g)
        PROVE  KeySound(k)'
    BY <2>1, ArriveKeeps
  <2>2. ASSUME NEW g \in Goroutines,
               \/ Look(g) \/ Clean(g) \/ CheckLimit(g) \/ ReadEntry(g) \/ WriteEntry(g)
        PROVE  KeySound(k)'
    <3>1. UNCHANGED raced
      BY <2>2 DEF Look, Clean, CheckLimit, ReadEntry, WriteEntry
    <3>2. KeySound(k)
      BY <3>1
    <3> QED
      BY <2>2, <3>2, LookKeeps, CleanKeeps, CheckKeeps, ReadKeeps, WriteKeeps
  <2>3. CASE Tick \/ UNCHANGED vars
    <3>1. clock <= clock' /\ UNCHANGED <<requests, go, admitted, started, raced>>
      BY <2>3 DEF Tick, vars, CountInv, TypeOK
    <3> QED
      BY <3>1, IdleKeeps
  <2>4. CASE ConcurrentMapAccess
    <3>1. Blank'
      BY <2>4 DEF ConcurrentMapAccess, Blank, CountInv, TypeOK
    <3>2. KeysSound'
      BY <3>1, BlankKeeps, PTL
    <3> QED
      BY <3>2 DEF KeysSound, ClientKeys, ClientKey
  <2> QED
    BY <2>1, <2>2, <2>3, <2>4 DEF Next
<1> QED
  BY <1>1, <1>2, CountInvariance, PTL DEF Spec
-----------------------------------------------------------------------------
LEMMA RecentIs ==
  ASSUME CountInv, NEW conn, NEW t
  PROVE  Recent(SameKey(conn), t) = RecentOf(ClientKey(conn), t)
<1>1. \A j \in Own : admitted[j].conn \in Connections
  BY AdmittedTimes DEF CountInv
<1> QED
  BY <1>1 DEF Recent, SameKey, RecentOf, Of

(* The limiter's map and its goroutines keep their types: what an entry    *)
(* holds are stamps of requests already let through, of times not to come. *)
THEOREM LimiterTyped == Spec => []TypeOK
BY CountInvariance, PTL DEF CountInv

(* Whatever the races, the map holds only what was let through, each once. *)
THEOREM NothingInvented == Spec => []CountedWereAdmitted
<1>1. CountInv => CountedWereAdmitted
  <2> SUFFICES ASSUME CountInv PROVE CountedWereAdmitted
    OBVIOUS
  <2>1. ASSUME NEW g \in Goroutines, go[g].pc = "write", NEW s \in SlotTimes(g)
        PROVE  s \notin go[g].seen
    <3>1. PICK h \in Goroutines : go[h].pc = "write" /\ go[h].seen = go[g].seen /\ s = Stamp(go[h])
      BY DEF SlotTimes, Appending
    <3> QED
      BY <3>1 DEF CountInv, Uncounted
  <2> QED
    BY <2>1 DEF CountInv, EntriesSound, IsAdmitted, CountedWereAdmitted
<1> QED
  BY <1>1, CountInvariance, PTL

(* A client whose requests never met in the limiter of a process has at    *)
(* most Limit of them let through by that process in any window.  Other    *)
(* keys' races cannot loosen its count while the process lives; when they  *)
(* kill it, the next one counts from nothing.                              *)
THEOREM LimitKept == Spec => []WithinLimit
<1>1. LimitInv => WithinLimit
  <2> SUFFICES ASSUME LimitInv, NEW i \in Own, ClientKey(admitted[i].conn) \notin raced
               PROVE  Cardinality(Recent(SameKey(admitted[i].conn), admitted[i].at)) <= Limit
    BY DEF WithinLimit
  <2>1. PICK k \in ClientKeys : k = ClientKey(admitted[i].conn)
    BY AdmittedTimes DEF LimitInv, CountInv, ClientKeys
  <2>2. i \in Of(k) /\ KeySound(k)
    BY <2>1 DEF LimitInv, Of
  <2>3. Cardinality(RecentOf(k, admitted[i].at)) <= Limit
    BY <2>2 DEF KeySound
  <2> QED
    BY <2>1, <2>3, RecentIs DEF LimitInv
<1> QED
  BY <1>1, LimitInvariance, PTL

(* And it is refused only when the process let Limit of them through in    *)
(* the window that ends with the refused one.                              *)
THEOREM RefusalsJustified == Spec => []RefusalJustified
<1>1. LimitInv => RefusalJustified
  <2> SUFFICES ASSUME LimitInv, NEW g \in Goroutines, go[g].status = 429, KeyOf(g) \notin raced
               PROVE  Cardinality(Recent(SameKey(go[g].conn), go[g].now)) >= Limit
    BY DEF RefusalJustified, KeyOf
  <2>1. go[g].conn \in Connections
    BY DEF LimitInv, CountInv, TypeOK
  <2>2. KeyOf(g) \in ClientKeys
    BY <2>1 DEF ClientKeys, KeyOf
  <2>3. Cardinality(RecentOf(KeyOf(g), go[g].now)) >= Limit
    BY <2>2 DEF LimitInv, KeySound
  <2> QED
    BY <2>3, RecentIs DEF LimitInv, KeyOf
<1> QED
  BY <1>1, LimitInvariance, PTL
===============================================================================
