-------------------------- MODULE HttpServerProofs --------------------------
(***************************************************************************)
(* Proofs about HttpServer, for any number of workers, sockets, listeners  *)
(* and any limits of threads: every socket is in one place, and no thread  *)
(* too few or too many runs.                                               *)
(***************************************************************************)
EXTENDS HttpServer, FiniteSetTheorems, TLAPS

Places ==
  {"none", "check", "get", "got", "tell", "handle", "accepted", "serve", "commit",
   "quit", "ended"}

(* Where a worker has nothing in its hand, and where it has a socket; one  *)
(* that has just got something may have got None.                          *)
Empty   == {"none", "ended", "check", "get", "quit"}
Carries == {"tell", "handle", "accepted", "serve", "commit"}

Events ==
  [on : {"idle", "active", "timeout"}, x : Socket] \cup [on : {"terminated"}, x : Worker]
    \cup [on : {"start", "noWaiting"}, x : {0}]

Typing ==
  /\ queue \in Seq(Socket \cup {None}) /\ events \in Seq(Events)
  /\ asleep \subseteq Worker /\ awake \subseteq Worker
  /\ runmode \in {"stopped", "starting", "running", "terminating", "failed"}
  /\ terminatedThreads \subseteq Worker /\ idleSockets \subseteq Socket
  /\ pc \in [Worker -> Places] /\ hand \in [Worker -> Socket \cup {None}]
  /\ socket \in [Socket -> {"unused", "accepts", "open", "deleted"}]
  /\ loop \in {"events", "wait", "starting", "terminate", "waking", "joining",
               "waiting", "woken", "stopped"}
  /\ raced \in BOOLEAN /\ broken \in BOOLEAN

(* Where the workers are. *)
Working(w) == pc[w] \notin {"none", "ended"}
Staying == {w \in Worker : pc[w] \notin {"none", "ended", "quit"}}

Ended(w) == Event("terminated", w)

(* A number is used again only after its last thread has been joined. *)
WorkersSound ==
  /\ threads = {w \in Worker : Working(w)}
  /\ \A w \in Worker : pc[w] \in Empty => hand[w] = None
  /\ \A w \in Worker : pc[w] \in Carries => hand[w] \in Socket
  /\ \A w \in asleep \cup awake : pc[w] = "get"
  /\ \A w \in Worker :
       Times(Ended(w), events) + (IF w \in terminatedThreads THEN 1 ELSE 0)
         = IF pc[w] = "ended" THEN 1 ELSE 0

(* None is there when the server terminates only. *)
NoneSound ==
  /\ Times(None, queue) > 0 \/ (\E w \in Worker : pc[w] = "got" /\ hand[w] = None) =>
       loop \in {"joining", "waiting", "woken"}
  /\ loop \in {"waking", "joining", "waiting", "woken"} => runmode = "terminating"

(* The server is started once, before all else. *)
StartSound ==
  /\ Times(Event("start", 0), events) > 0 =>
       events = <<Event("start", 0)>> /\ threads = {} /\ loop \notin {"wait", "starting"}
  /\ runmode = "starting" <=> loop = "starting"
  /\ runmode = "starting" =>
       /\ Cardinality(threads) =< MinThreads
       /\ \A w \in Worker : pc[w] # "quit"

(* The threads that have not decided to end are enough. *)
StayingEnough ==
  runmode = "running" =>
    /\ Cardinality(Staying) >= MinThreads
    /\ Cardinality(threads) =< Max({MinThreads, MaxThreads})

Late(s) == Event("timeout", s)

(* The timers of the idle sockets only, once. *)
TimersSound ==
  /\ loop # "stopped" => \A s \in Socket : Times(Late(s), events) > 0 => s \in idleSockets
  /\ \A s \in Socket : Times(Late(s), events) =< 1
  /\ loop = "wait" => \A s \in Socket : Times(Late(s), events) = 0

Exists(s) == socket[s] \in {"accepts", "open"}

Owned == \A s \in Socket : Owners(s) = IF Exists(s) THEN 1 ELSE 0

IInv ==
  /\ Typing /\ WorkersSound /\ NoneSound /\ StartSound /\ StayingEnough
  /\ ~raced => ~broken /\ TimersSound /\ Owned

-----------------------------------------------------------------------------
(* How often something occurs in a sequence. *)

LEMMA Bijected ==
  ASSUME NEW S, NEW T, IsFiniteSet(S), NEW f \in [S -> T],
         \A x, y \in S : f[x] = f[y] => x = y, \A y \in T : \E x \in S : f[x] = y
  PROVE  IsFiniteSet(T) /\ Cardinality(T) = Cardinality(S)
<1>1. f \in Bijection(S, T)
  BY DEF Bijection, Injection, Surjection, IsInjective
<1> QED
  BY <1>1, FS_Bijection DEF ExistsBijection

LEMMA DisjointUnion ==
  ASSUME NEW S, IsFiniteSet(S), NEW T, IsFiniteSet(T), S \cap T = {}
  PROVE  /\ IsFiniteSet(S \cup T)
         /\ Cardinality(S \cup T) = Cardinality(S) + Cardinality(T)
<1>1. Cardinality(S \cap T) = 0
  BY FS_EmptySet
<1>2. Cardinality(S) \in Nat /\ Cardinality(T) \in Nat
  BY FS_CardinalityType
<1>3. /\ IsFiniteSet(S \cup T)
      /\ Cardinality(S \cup T) = Cardinality(S) + Cardinality(T) - Cardinality(S \cap T)
  BY FS_Union
<1> QED
  BY <1>1, <1>2, <1>3

LEMMA TimesType ==
  ASSUME NEW T, NEW q \in Seq(T), NEW s
  PROVE  /\ IsFiniteSet({i \in DOMAIN q : q[i] = s})
         /\ Times(s, q) \in Nat
         /\ Times(s, q) > 0 <=> \E i \in DOMAIN q : q[i] = s
<1> DEFINE S == {i \in DOMAIN q : q[i] = s}
<1>1. IsFiniteSet(DOMAIN q)
  BY FS_Interval
<1>2. IsFiniteSet(S) /\ Cardinality(S) \in Nat
  BY <1>1, FS_Subset, FS_CardinalityType
<1>3. Cardinality(S) = 0 <=> S = {}
  BY <1>2, FS_EmptySet
<1> QED
  BY <1>2, <1>3 DEF Times

LEMMA TimesEmpty == ASSUME NEW s PROVE Times(s, <<>>) = 0
<1>1. {i \in DOMAIN <<>> : <<>>[i] = s} = {}
  OBVIOUS
<1> QED
  BY <1>1, FS_EmptySet DEF Times

LEMMA TimesAppend ==
  ASSUME NEW T, NEW q \in Seq(T), NEW e \in T, NEW s
  PROVE  Times(s, Append(q, e)) = Times(s, q) + (IF e = s THEN 1 ELSE 0)
<1> DEFINE n == Len(q) + 1
           S == {i \in DOMAIN q : q[i] = s}
<1>1. Append(q, e) \in Seq(T) /\ DOMAIN Append(q, e) = 1 .. n /\ DOMAIN q = 1 .. Len(q)
      /\ Len(q) \in Nat
  OBVIOUS
<1>2. /\ e = s => {i \in DOMAIN Append(q, e) : Append(q, e)[i] = s} = S \cup {n}
      /\ e # s => {i \in DOMAIN Append(q, e) : Append(q, e)[i] = s} = S
  BY <1>1
<1>3. n \notin S
  BY <1>1
<1>4. IsFiniteSet(S) /\ Cardinality(S) \in Nat
  BY TimesType DEF Times
<1>5. Cardinality(S \cup {n}) = Cardinality(S) + 1
  BY <1>3, <1>4, FS_AddElement
<1>6. /\ Times(s, q) = Cardinality(S)
      /\ e = s => Times(s, Append(q, e)) = Cardinality(S \cup {n})
      /\ e # s => Times(s, Append(q, e)) = Cardinality(S)
  BY <1>2, Zenon DEF Times
<1> HIDE DEF S, n
<1> QED
  BY <1>4, <1>5, <1>6

LEMMA TimesConcat ==
  ASSUME NEW T, NEW q \in Seq(T), NEW r \in Seq(T), NEW s
  PROVE  Times(s, q \o r) = Times(s, q) + Times(s, r)
<1> DEFINE n == Len(q)
           Q == {i \in DOMAIN q : q[i] = s}
           R == {i \in DOMAIN r : r[i] = s}
           M == {i \in n + 1 .. n + Len(r) : r[i - n] = s}
           f == [i \in R |-> i + n]
<1>1. /\ n \in Nat /\ Len(r) \in Nat /\ DOMAIN q = 1 .. n /\ DOMAIN r = 1 .. Len(r)
      /\ DOMAIN (q \o r) = 1 .. n + Len(r)
      /\ \A i \in 1 .. n : (q \o r)[i] = q[i]
      /\ \A i \in n + 1 .. n + Len(r) : (q \o r)[i] = r[i - n]
  OBVIOUS
<1>2. IsFiniteSet(Q) /\ IsFiniteSet(R) /\ Cardinality(Q) \in Nat /\ Cardinality(R) \in Nat
  BY TimesType DEF Times
<1>3. IsFiniteSet(M) /\ Cardinality(M) = Cardinality(R)
  <2>1. f \in [R -> M]
    BY <1>1
  <2>2. \A x, y \in R : f[x] = f[y] => x = y
    BY <1>1
  <2>3. ASSUME NEW y \in M PROVE \E x \in R : f[x] = y
    <3>1. y - n \in R /\ f[y - n] = y
      BY <1>1
    <3> QED
      BY <3>1
  <2> HIDE DEF f
  <2> QED
    BY <1>2, <2>1, <2>2, <2>3, Bijected
<1>4. Q \cap M = {}
  BY <1>1
<1>5. {i \in DOMAIN (q \o r) : (q \o r)[i] = s} = Q \cup M
  BY <1>1
<1>6. Cardinality(Q \cup M) = Cardinality(Q) + Cardinality(M)
  BY <1>2, <1>3, <1>4, DisjointUnion
<1> QED
  BY <1>3, <1>5, <1>6 DEF Times

LEMMA TimesTail ==
  ASSUME NEW T, NEW q \in Seq(T), q # <<>>, NEW s
  PROVE  /\ Head(q) \in T /\ Tail(q) \in Seq(T)
         /\ Times(s, q) = Times(s, Tail(q)) + (IF Head(q) = s THEN 1 ELSE 0)
<1>1. Head(q) \in T /\ Tail(q) \in Seq(T) /\ <<Head(q)>> \in Seq(T) /\ <<>> \in Seq(T)
  OBVIOUS
<1>2. q = <<Head(q)>> \o Tail(q)
  <2>1. Len(<<Head(q)>> \o Tail(q)) = Len(q) /\ <<Head(q)>> \o Tail(q) \in Seq(T)
    BY <1>1
  <2>2. \A i \in 1 .. Len(q) : (<<Head(q)>> \o Tail(q))[i] = q[i]
    BY <1>1
  <2> QED
    BY <2>1, <2>2
<1>3. Times(s, q) = Times(s, <<Head(q)>>) + Times(s, Tail(q))
  BY <1>1, <1>2, TimesConcat
<1>4. Times(s, <<Head(q)>>) = 0 + (IF Head(q) = s THEN 1 ELSE 0)
  <2>1. <<Head(q)>> = Append(<<>>, Head(q))
    OBVIOUS
  <2>2. Times(s, Append(<<>>, Head(q))) = Times(s, <<>>) + (IF Head(q) = s THEN 1 ELSE 0)
    BY <1>1, TimesAppend
  <2> QED
    BY <2>1, <2>2, TimesEmpty
<1>5. Times(s, Tail(q)) \in Nat
  BY <1>1, TimesType
<1> QED
  BY <1>1, <1>3, <1>4, <1>5

LEMMA TimesOfSet ==
  ASSUME NEW S, IsFiniteSet(S), NEW s
  PROVE  /\ SetToSeq(S) \in Seq(S)
         /\ Times(s, SetToSeq(S)) = IF s \in S THEN 1 ELSE 0
<1> DEFINE n == Cardinality(S)
           q == SetToSeq(S)
<1>1. n \in Nat /\ ExistsBijection(1 .. n, S)
  BY FS_CardinalityType
<1>2. PICK f \in [1 .. n -> S] :
        (\A x, y \in 1 .. n : f[x] = f[y] => x = y) /\ \A y \in S : \E x \in 1 .. n : f[x] = y
  BY <1>1 DEF ExistsBijection, Bijection, Injection, Surjection, IsInjective
<1>3. q \in [1 .. n -> S] /\ \A x, y \in 1 .. n : q[x] = q[y] => x = y
  <2>1. IsInjective(f)
    BY <1>2 DEF IsInjective
  <2>2. q \in [1 .. n -> S] /\ IsInjective(q)
    BY <2>1, Zenon DEF SetToSeq
  <2> HIDE DEF q
  <2> QED
    BY <2>2 DEF IsInjective
<1> HIDE DEF q
<1>4. \A y \in S : \E x \in 1 .. n : q[x] = y
  <2>1. q \in Injection(1 .. n, S)
    BY <1>3 DEF Injection, IsInjective
  <2>2. Cardinality(1 .. n) = n
    BY <1>1, FS_Interval
  <2>3. q \in Surjection(1 .. n, S)
    BY <2>1, <2>2, FS_Injection
  <2> QED
    BY <2>3 DEF Surjection
<1>5. q \in Seq(S) /\ DOMAIN q = 1 .. n
  BY <1>1, <1>3
<1>6. CASE s \in S
  <2>1. PICK i \in 1 .. n : q[i] = s
    BY <1>4, <1>6
  <2>2. {j \in DOMAIN q : q[j] = s} = {i}
    BY <1>3, <1>5, <2>1
  <2> QED
    BY <1>5, <1>6, <2>2, FS_Singleton DEF Times, q
<1>7. CASE s \notin S
  <2>1. {j \in DOMAIN q : q[j] = s} = {}
    BY <1>3, <1>5, <1>7
  <2> QED
    BY <1>5, <1>7, <2>1, FS_EmptySet DEF Times, q
<1> QED
  BY <1>6, <1>7

-----------------------------------------------------------------------------
(* The places of a socket, counted. *)

Holders(s) == {w \in Worker : hand[w] = s}

LEMMA EventCounts ==
  ASSUME Typing, NEW e \in Events, events' = Append(events, e)
  PROVE  /\ events' \in Seq(Events)
         /\ \A x : Times(x, events') = Times(x, events) + (IF e = x THEN 1 ELSE 0)
<1>1. events \in Seq(Events)
  BY DEF Typing
<1>2. ASSUME NEW x PROVE Times(x, Append(events, e)) = Times(x, events) + (IF e = x THEN 1 ELSE 0)
  BY <1>1, TimesAppend
<1> QED
  BY <1>1, <1>2

LEMMA Next1Counts ==
  ASSUME Typing, NEW on, Next1(on)
  PROVE  /\ events' \in Seq(Events) /\ Head(events) \in Events /\ Head(events).on = on
         /\ \A x : Times(x, events) = Times(x, events') + (IF Head(events) = x THEN 1 ELSE 0)
<1>1. events \in Seq(Events) /\ events # <<>> /\ events' = Tail(events) /\ Head(events).on = on
  BY DEF Typing, Next1
<1>2. ASSUME NEW x
      PROVE  /\ Head(events) \in Events /\ Tail(events) \in Seq(Events)
             /\ Times(x, events) = Times(x, Tail(events)) + (IF Head(events) = x THEN 1 ELSE 0)
  BY <1>1, TimesTail
<1> QED
  BY <1>1, <1>2

LEMMA PutCounts ==
  ASSUME Typing, NEW e \in Socket \cup {None}, Put(e)
  PROVE  /\ queue' \in Seq(Socket \cup {None})
         /\ \A s : Times(s, queue') = Times(s, queue) + (IF e = s THEN 1 ELSE 0)
         /\ asleep' \cup awake' = asleep \cup awake
<1>1. queue \in Seq(Socket \cup {None}) /\ queue' = Append(queue, e)
  BY DEF Typing, Put
<1>2. ASSUME NEW s PROVE Times(s, Append(queue, e)) = Times(s, queue) + (IF e = s THEN 1 ELSE 0)
  BY <1>1, TimesAppend
<1>3. asleep' \cup awake' = asleep \cup awake
  BY DEF Put, Signal
<1> QED
  BY <1>1, <1>2, <1>3

LEMMA GetCounts ==
  ASSUME Typing, NEW w, Get(w)
  PROVE  /\ queue' \in Seq(Socket \cup {None}) /\ Head(queue) \in Socket \cup {None}
         /\ \A s : Times(s, queue) = Times(s, queue') + (IF Head(queue) = s THEN 1 ELSE 0)
         /\ asleep' \cup awake' = (asleep \cup awake) \ {w}
<1>1. /\ queue \in Seq(Socket \cup {None}) /\ queue' = Tail(queue) /\ queue # <<>>
  BY DEF Typing, Get
<1>2. ASSUME NEW s
      PROVE  /\ Head(queue) \in Socket \cup {None} /\ Tail(queue) \in Seq(Socket \cup {None})
             /\ Times(s, queue) = Times(s, Tail(queue)) + (IF Head(queue) = s THEN 1 ELSE 0)
  BY <1>1, TimesTail
<1>3. asleep' \cup awake' = (asleep \cup awake) \ {w}
  BY DEF Get, Signal
<1> QED
  BY <1>1, <1>2, <1>3

(* The places that Owners adds up.                                         *)
InQueue(s)  == Times(s, queue)
InIdle(s)   == Times(Event("idle", s), events)
InActive(s) == Times(Event("active", s), events)
InHands(s)  == Cardinality(Holders(s))
IsIdle(s)   == IF s \in idleSockets THEN 1 ELSE 0

LEMMA HoldersType ==
  ASSUME NEW s
  PROVE  IsFiniteSet(Holders(s)) /\ Cardinality(Holders(s)) \in Nat
         /\ (Cardinality(Holders(s)) > 0 <=> \E w \in Worker : hand[w] = s)
<1>1. IsFiniteSet(Worker) /\ Holders(s) \subseteq Worker
  BY ServerAssumption DEF Holders
<1>2. IsFiniteSet(Holders(s)) /\ Cardinality(Holders(s)) \in Nat
  BY <1>1, FS_Subset, FS_CardinalityType
<1>3. Cardinality(Holders(s)) = 0 <=> Holders(s) = {}
  BY <1>2, FS_EmptySet
<1> QED
  BY <1>2, <1>3 DEF Holders

LEMMA HoldCounts ==
  ASSUME Typing, NEW w \in Worker, NEW h, Hold(w, h), NEW s
  PROVE  /\ InHands(s) \in Nat
         /\ hand[w] = s => InHands(s) > 0
         /\ InHands(s)' =
              InHands(s) - (IF hand[w] = s THEN 1 ELSE 0) + (IF h = s THEN 1 ELSE 0)
<1>1. hand \in [Worker -> Socket \cup {None}] /\ hand' = [hand EXCEPT ![w] = h]
  BY DEF Typing, Hold
<1>2. Holders(s)' = IF h = s THEN (Holders(s) \ {w}) \cup {w} ELSE Holders(s) \ {w}
  BY <1>1 DEF Holders
<1>3. IsFiniteSet(Holders(s)) /\ Cardinality(Holders(s)) \in Nat
  BY HoldersType
<1>4. /\ IsFiniteSet(Holders(s) \ {w})
      /\ Cardinality(Holders(s) \ {w}) =
           Cardinality(Holders(s)) - (IF hand[w] = s THEN 1 ELSE 0)
  BY <1>3, FS_RemoveElement DEF Holders
<1>5. Cardinality((Holders(s) \ {w}) \cup {w}) = Cardinality(Holders(s) \ {w}) + 1
  BY <1>4, FS_AddElement
<1>6. h = s => Cardinality(Holders(s)') = Cardinality((Holders(s) \ {w}) \cup {w})
  BY <1>2
<1>7. h # s => Cardinality(Holders(s)') = Cardinality(Holders(s) \ {w})
  BY <1>2
<1>8. Cardinality(Holders(s)') =
        Cardinality(Holders(s)) - (IF hand[w] = s THEN 1 ELSE 0) + (IF h = s THEN 1 ELSE 0)
  BY <1>3, <1>4, <1>5, <1>6, <1>7
<1>9. hand[w] = s => Cardinality(Holders(s)) > 0
  BY HoldersType
<1> QED
  BY <1>3, <1>8, <1>9 DEF InHands

LEMMA OwnersType ==
  ASSUME Typing, NEW s
  PROVE  /\ Owners(s) = InQueue(s) + InIdle(s) + InActive(s) + InHands(s) + IsIdle(s)
         /\ InQueue(s) \in Nat /\ InIdle(s) \in Nat /\ InActive(s) \in Nat
         /\ InHands(s) \in Nat /\ IsIdle(s) \in Nat
<1>1. InQueue(s) \in Nat /\ InIdle(s) \in Nat /\ InActive(s) \in Nat
  BY TimesType DEF Typing, InQueue, InIdle, InActive
<1>2. InHands(s) \in Nat
  BY HoldersType DEF InHands
<1>3. IsIdle(s) \in Nat
  BY DEF IsIdle
<1>4. Owners(s) = InQueue(s) + InIdle(s) + InActive(s) + InHands(s) + IsIdle(s)
  BY DEF Owners, InQueue, InIdle, InActive, InHands, IsIdle, Holders
<1> QED
  BY <1>1, <1>2, <1>3, <1>4

LEMMA OwnersThen ==
  ASSUME NEW s
  PROVE  Owners(s)' = InQueue(s)' + InIdle(s)' + InActive(s)' + InHands(s)' + IsIdle(s)'
BY DEF Owners, InQueue, InIdle, InActive, InHands, IsIdle, Holders

LEMMA PlacesKept ==
  ASSUME NEW s
  PROVE  /\ UNCHANGED queue => InQueue(s)' = InQueue(s)
         /\ UNCHANGED events => InIdle(s)' = InIdle(s) /\ InActive(s)' = InActive(s)
         /\ UNCHANGED hand => InHands(s)' = InHands(s)
         /\ UNCHANGED idleSockets => IsIdle(s)' = IsIdle(s)
BY DEF InQueue, InIdle, InActive, InHands, IsIdle, Holders

(* Events that are different. *)
LEMMA EventsDiffer ==
  ASSUME NEW a, NEW b, NEW x, NEW y
  PROVE  Event(a, x) = Event(b, y) <=> a = b /\ x = y
BY DEF Event

-----------------------------------------------------------------------------
(* A step of a worker that goes on working: what keeps the invariant.      *)

Moves(w, to, h) ==
  /\ Working(w) /\ pc[w] # "quit"
  /\ to \in Places \ {"none", "ended"} /\ pc' = [pc EXCEPT ![w] = to]
  /\ h \in Socket \cup {None} /\ hand' = [hand EXCEPT ![w] = h]
  /\ to \in Empty => h = None
  /\ to \in Carries => h \in Socket
  /\ to = "got" /\ h = None => Times(None, queue) > 0
  /\ to = "quit" => /\ runmode # "starting"
                    /\ runmode = "running" => Cardinality(Staying \ {w}) >= MinThreads

QueueMoves(w, to) ==
  /\ asleep' \subseteq Worker /\ awake' \subseteq Worker
  /\ \A v \in asleep' \cup awake' : (v \in asleep \cup awake /\ v # w) \/ (v = w /\ to = "get")
  /\ queue' \in Seq(Socket \cup {None})
  /\ Times(None, queue') > 0 => Times(None, queue) > 0 \/ (pc[w] = "got" /\ hand[w] = None)

EventsMove ==
  /\ events' \in Seq(Events)
  /\ \A v \in Worker : Times(Ended(v), events') = Times(Ended(v), events)
  /\ Times(Event("start", 0), events') = Times(Event("start", 0), events)
  /\ \A s \in Socket : Times(Late(s), events') = Times(Late(s), events)

RestKept ==
  /\ socket' \in [Socket -> {"unused", "accepts", "open", "deleted"}]
  /\ UNCHANGED <<runmode, threads, terminatedThreads, idleSockets, loop, raced>>
  /\ broken' \in BOOLEAN

LEMMA WorkerMoves ==
  ASSUME IInv, NEW w \in Worker, NEW to, NEW h, Moves(w, to, h), QueueMoves(w, to),
         EventsMove, RestKept, ~raced => ~broken' /\ Owned'
  PROVE  IInv'
<1> USE DEF Moves, QueueMoves, EventsMove, RestKept
<1>1. /\ pc \in [Worker -> Places] /\ hand \in [Worker -> Socket \cup {None}]
      /\ pc' \in [Worker -> Places] /\ hand' \in [Worker -> Socket \cup {None}]
      /\ pc'[w] = to /\ hand'[w] = h
      /\ \A v \in Worker : v # w => pc'[v] = pc[v] /\ hand'[v] = hand[v]
  BY DEF IInv, Typing
<1>2. Typing'
  BY <1>1 DEF IInv, Typing
<1>3. WorkersSound'
  <2>1. threads' = {v \in Worker : Working(v)'}
    BY <1>1 DEF IInv, WorkersSound, Working
  <2>2. /\ \A v \in Worker : pc'[v] \in Empty => hand'[v] = None
        /\ \A v \in Worker : pc'[v] \in Carries => hand'[v] \in Socket
    BY <1>1 DEF IInv, WorkersSound
  <2>3. \A v \in asleep' \cup awake' : pc'[v] = "get"
    BY <1>1 DEF IInv, WorkersSound
  <2>4. \A v \in Worker :
          Times(Ended(v), events') + (IF v \in terminatedThreads' THEN 1 ELSE 0)
            = IF pc'[v] = "ended" THEN 1 ELSE 0
    <3> SUFFICES ASSUME NEW v \in Worker
                 PROVE  Times(Ended(v), events') + (IF v \in terminatedThreads' THEN 1 ELSE 0)
                          = IF pc'[v] = "ended" THEN 1 ELSE 0
      OBVIOUS
    <3>1. Times(Ended(v), events) + (IF v \in terminatedThreads THEN 1 ELSE 0)
            = IF pc[v] = "ended" THEN 1 ELSE 0
      BY DEF IInv, WorkersSound
    <3>2. pc'[v] = "ended" <=> pc[v] = "ended"
      BY <1>1 DEF Working
    <3> QED
      BY <3>1, <3>2
  <2> QED
    BY <2>1, <2>2, <2>3, <2>4 DEF WorkersSound, Ended
<1>4. NoneSound'
  <2>1. ASSUME Times(None, queue') > 0 \/ \E v \in Worker : pc'[v] = "got" /\ hand'[v] = None
        PROVE  Times(None, queue) > 0 \/ \E v \in Worker : pc[v] = "got" /\ hand[v] = None
    BY <1>1, <2>1
  <2> QED
    BY <2>1 DEF IInv, NoneSound
<1>5. StartSound'
  <2>1. w \in threads
    BY DEF IInv, WorkersSound
  <2>2. ~(Times(Event("start", 0), events') > 0)
    BY <2>1 DEF IInv, StartSound
  <2> QED
    BY <1>1, <2>2 DEF IInv, StartSound
<1>6. StayingEnough'
  <2>1. ASSUME runmode = "running" PROVE Cardinality(Staying') >= MinThreads
    <3>1. CASE to = "quit"
      <4>1. Staying' = Staying \ {w}
        BY <1>1, <3>1 DEF Staying
      <4> QED
        BY <2>1, <3>1, <4>1
    <3>2. CASE to # "quit"
      <4>1. Staying' = Staying
        BY <1>1, <3>2 DEF Staying, Working
      <4> QED
        BY <2>1, <4>1 DEF IInv, StayingEnough
    <3> QED
      BY <3>1, <3>2
  <2> QED
    BY <2>1 DEF IInv, StayingEnough
<1>7. ~raced => TimersSound'
  BY DEF IInv, TimersSound, Late
<1> QED
  BY <1>2, <1>3, <1>4, <1>5, <1>6, <1>7 DEF IInv

LEMMA MaxOfTwo ==
  LET m == Max({MinThreads, MaxThreads})
  IN  m \in Nat /\ m >= MinThreads /\ m >= MaxThreads
<1>1. \E m \in {MinThreads, MaxThreads} : \A n \in {MinThreads, MaxThreads} : m >= n
  BY ServerAssumption
<1> QED
  BY <1>1, ServerAssumption DEF Max

(* Most of them change nothing but pc.                                     *)
LEMMA PcMoves ==
  ASSUME IInv, NEW w \in Worker, pc[w] \notin {"none", "ended", "get", "quit"},
         NEW to \in Places \ {"none", "ended", "got"}, pc' = [pc EXCEPT ![w] = to],
         to \in Empty => hand[w] = None, to \in Carries => hand[w] \in Socket,
         to = "quit" => /\ runmode # "starting"
                        /\ runmode = "running" => Cardinality(Staying \ {w}) >= MinThreads,
         socket' \in [Socket -> {"unused", "accepts", "open", "deleted"}],
         \A s \in Socket : Exists(s)' <=> Exists(s),
         UNCHANGED <<queueVars, threadVars, idleSockets, hand, loop, events, raced, broken>>
  PROVE  IInv'
<1>1. /\ hand \in [Worker -> Socket \cup {None}] /\ Working(w)
      /\ queue \in Seq(Socket \cup {None}) /\ events \in Seq(Events)
      /\ asleep \subseteq Worker /\ awake \subseteq Worker /\ broken \in BOOLEAN
  BY DEF IInv, Typing, Working
<1>2. hand' = [hand EXCEPT ![w] = hand[w]] /\ hand[w] \in Socket \cup {None}
  BY <1>1
<1>3. w \notin asleep \cup awake
  BY DEF IInv, WorkersSound
<1>4. Owned => Owned'
  <2>1. \A s \in Socket : Owners(s)' = Owners(s)
    BY DEF Owners, queueVars
  <2> QED
    BY <2>1 DEF Owned
<1>5. ~raced => ~broken' /\ Owned'
  BY <1>4 DEF IInv
<1>6. UNCHANGED <<runmode, threads, terminatedThreads, queue, asleep, awake>>
  BY DEF threadVars, queueVars
<1>7. QueueMoves(w, to)
  BY <1>1, <1>3, <1>6 DEF QueueMoves
<1>8. EventsMove /\ RestKept
  BY <1>1, <1>6 DEF EventsMove, RestKept
<1>9. Moves(w, to, hand[w])
  BY <1>1, <1>2 DEF Moves
<1> QED
  BY <1>5, <1>7, <1>8, <1>9, WorkerMoves

-----------------------------------------------------------------------------
(* The steps of a worker.                                                  *)

(* Those that wait have not decided to end.                                *)
LEMMA WaitingStay ==
  ASSUME IInv, NEW w \in Worker, pc[w] = "check"
  PROVE  /\ NumWaiting \in Nat /\ NumWaiting =< Cardinality(Staying \ {w})
         /\ Cardinality(Staying \ {w}) \in Nat
         /\ runmode = "starting" => NumWaiting < MinThreads
<1> DEFINE W == asleep \cup awake
<1>1. /\ \A v \in W : pc[v] = "get"
      /\ W \subseteq Worker /\ threads = {v \in Worker : Working(v)}
      /\ IsFiniteSet(Worker) /\ MinThreads \in Nat
  BY ServerAssumption DEF IInv, Typing, WorkersSound
<1>2. W \subseteq Staying \ {w} /\ Staying \ {w} \subseteq threads \ {w} /\ w \in threads
  BY <1>1 DEF Staying, Working
<1>3. IsFiniteSet(threads) /\ Cardinality(threads) \in Nat
  BY <1>1, FS_Subset, FS_CardinalityType
<1>4. IsFiniteSet(threads \ {w}) /\ Cardinality(threads \ {w}) = Cardinality(threads) - 1
  BY <1>2, <1>3, FS_RemoveElement
<1>5. /\ IsFiniteSet(Staying \ {w}) /\ Cardinality(Staying \ {w}) \in Nat
      /\ Cardinality(Staying \ {w}) =< Cardinality(threads \ {w})
  BY <1>2, <1>4, FS_Subset, FS_CardinalityType
<1>6. Cardinality(W) \in Nat /\ Cardinality(W) =< Cardinality(Staying \ {w})
  BY <1>2, <1>5, FS_Subset, FS_CardinalityType
<1>7. runmode = "starting" => Cardinality(threads) =< MinThreads
  BY DEF IInv, StartSound
<1> HIDE DEF W
<1>8. NumWaiting = Cardinality(W)
  BY DEF NumWaiting, W
<1> QED
  BY <1>1, <1>3, <1>4, <1>5, <1>6, <1>7, <1>8

LEMMA CheckStep ==
  ASSUME IInv, NEW w \in Worker, Check(w)
  PROVE  IInv'
<1> USE DEF Check, Go, history
<1>1. hand[w] = None /\ pc[w] = "check"
  BY DEF IInv, WorkersSound, Empty
<1>2. CASE ~IsTerminating /\ Needed
  <2>1. pc' = [pc EXCEPT ![w] = "get"] /\ "get" \in Places \ {"none", "ended", "got"}
    BY <1>2 DEF Places
  <2> QED
    BY <1>1, <2>1, PcMoves DEF Carries, loopVars, socketVars, Exists, IInv, Typing
<1>3. CASE ~(~IsTerminating /\ Needed)
  <2>1. pc' = [pc EXCEPT ![w] = "quit"] /\ "quit" \in Places \ {"none", "ended", "got"}
    BY <1>3 DEF Places
  <2>2. runmode \in {"starting", "running"} => NumWaiting >= MinThreads
    <3>1. NumWaiting \in Nat /\ MinThreads \in Nat
      BY <1>1, WaitingStay, ServerAssumption
    <3>2. runmode \in {"starting", "running"} => ~IsTerminating
      BY DEF IsTerminating
    <3> HIDE DEF Check
    <3> QED
      BY <1>3, <3>1, <3>2 DEF Needed
  <2>3. /\ runmode # "starting"
        /\ runmode = "running" => Cardinality(Staying \ {w}) >= MinThreads
    BY <1>1, <2>2, WaitingStay, ServerAssumption
  <2> QED
    BY <1>1, <2>1, <2>3, PcMoves DEF Carries, loopVars, socketVars, Exists, IInv, Typing
<1> QED
  BY <1>2, <1>3

LEMMA GoOnStep ==
  ASSUME IInv, NEW w \in Worker, GoOn(w)
  PROVE  IInv'
<1> USE DEF GoOn, Go, history
<1>1. pc[w] = "got" /\ hand[w] \in Socket
  BY DEF IInv, NoneSound, Typing, IsTerminating
<1>2. PICK to \in {"tell", "handle"} : pc' = [pc EXCEPT ![w] = to]
  OBVIOUS
<1>3. to \in Places \ {"none", "ended", "got"} /\ to \notin Empty /\ to # "quit"
  BY DEF Places, Empty
<1> QED
  BY <1>1, <1>2, <1>3, PcMoves DEF loopVars, socketVars, Exists, IInv, Typing

(* Steps with a connection that go on with it.                             *)
LEMMA ServeStep ==
  ASSUME IInv, NEW w \in Worker, Serve(w) \/ AddIdle(w) \/ Accept(w)
  PROVE  IInv'
<1> USE DEF Serve, AddIdle, Accept, Go, history
<1>1. /\ pc[w] \in {"serve", "handle"} /\ hand[w] \in Socket
      /\ socket \in [Socket -> {"unused", "accepts", "open", "deleted"}]
  BY DEF IInv, WorkersSound, Serves, Carries, Typing
<1>2. PICK to \in {"serve", "commit", "accepted"} : pc' = [pc EXCEPT ![w] = to]
  OBVIOUS
<1>3. to \in Places \ {"none", "ended", "got"} /\ to \notin Empty /\ to # "quit"
  BY DEF Places, Empty
<1>4. /\ socket' \in [Socket -> {"unused", "accepts", "open", "deleted"}]
      /\ \A s \in Socket : Exists(s)' <=> Exists(s)
  <2>1. CASE Serve(w) \/ AddIdle(w)
    BY <1>1, <2>1 DEF socketVars, Exists
  <2>2. CASE Accept(w)
    <3>1. socket' = [socket EXCEPT ![hand[w]] = "open"] /\ socket[hand[w]] = "accepts"
      BY <2>2
    <3> HIDE DEF Accept
    <3> QED
      BY <1>1, <3>1 DEF Exists
  <2> QED
    BY <2>1, <2>2
<1>5. UNCHANGED <<queueVars, threadVars, idleSockets, hand, loop, events, raced, broken>>
  BY DEF loopVars
<1> HIDE DEF Serve, AddIdle, Accept
<1> QED
  BY <1>1, <1>2, <1>3, <1>4, <1>5, PcMoves

LEMMA SleepStep ==
  ASSUME IInv, NEW w \in Worker, SleepInGet(w)
  PROVE  IInv'
<1> USE DEF SleepInGet, Sleep, history
<1>1. /\ pc[w] = "get" /\ hand[w] = None /\ queue = <<>> /\ queue' = queue
      /\ queue \in Seq(Socket \cup {None}) /\ events \in Seq(Events) /\ broken \in BOOLEAN
      /\ pc \in [Worker -> Places] /\ hand \in [Worker -> Socket \cup {None}]
      /\ socket \in [Socket -> {"unused", "accepts", "open", "deleted"}]
  BY DEF IInv, WorkersSound, Empty, Typing
<1>2. Moves(w, "get", None)
  BY <1>1 DEF Moves, Working, Places, Carries
<1>3. QueueMoves(w, "get")
  BY <1>1 DEF QueueMoves, IInv, Typing
<1>4. EventsMove /\ RestKept
  BY <1>1 DEF EventsMove, RestKept, socketVars, threadVars, loopVars
<1>5. ~raced => ~broken' /\ Owned'
  BY DEF IInv, Owned, Owners, Exists, socketVars
<1> QED
  BY <1>2, <1>3, <1>4, <1>5, WorkerMoves

LEMMA GetStep ==
  ASSUME IInv, NEW w \in Worker, GetSocket(w)
  PROVE  IInv'
<1> DEFINE h == Head(queue)
<1>1. /\ pc[w] = "get" /\ hand[w] = None /\ Get(w)
      /\ Hold(w, h) /\ pc' = [pc EXCEPT ![w] = "got"]
      /\ UNCHANGED <<threadVars, idleSockets, loopVars, events, socketVars, raced, broken>>
  BY DEF IInv, WorkersSound, Empty, GetSocket, Go, history
<1>2. /\ events \in Seq(Events) /\ broken \in BOOLEAN /\ queue \in Seq(Socket \cup {None})
      /\ asleep \subseteq Worker /\ awake \subseteq Worker
      /\ socket \in [Socket -> {"unused", "accepts", "open", "deleted"}] /\ Typing
  BY DEF IInv, Typing
<1>3. /\ queue' \in Seq(Socket \cup {None}) /\ h \in Socket \cup {None}
      /\ \A s : Times(s, queue) = Times(s, queue') + (IF h = s THEN 1 ELSE 0)
      /\ asleep' \cup awake' = (asleep \cup awake) \ {w}
  BY <1>1, <1>2, GetCounts
<1> HIDE DEF h
<1>4. \A s : Times(s, queue') \in Nat
  BY <1>3, TimesType
<1>5. Moves(w, "got", h)
  BY <1>1, <1>3, <1>4 DEF Moves, Working, Places, Carries, Empty, Hold
<1>6. QueueMoves(w, "got")
  <2>1. asleep' \subseteq Worker /\ awake' \subseteq Worker
    BY <1>2, <1>3
  <2>2. Times(None, queue) >= Times(None, queue')
    BY <1>3, <1>4
  <2> QED
    BY <1>2, <1>3, <1>4, <2>1, <2>2, TimesType DEF QueueMoves
<1>7. EventsMove /\ RestKept
  BY <1>1, <1>2 DEF EventsMove, RestKept, socketVars, threadVars, loopVars
<1>8. ASSUME ~raced, NEW s \in Socket
      PROVE  Owners(s)' = IF Exists(s)' THEN 1 ELSE 0
  <2>1. Owners(s) = IF Exists(s) THEN 1 ELSE 0
    BY <1>8 DEF IInv, Owned
  <2>2. s # None /\ hand[w] # s
    BY <1>1, ServerAssumption
  <2>3. InHands(s)' = InHands(s) + (IF h = s THEN 1 ELSE 0)
    BY <1>1, <1>2, <2>2, HoldCounts
  <2>4. InQueue(s) = InQueue(s)' + (IF h = s THEN 1 ELSE 0) /\ InQueue(s)' \in Nat
    BY <1>3, <1>4 DEF InQueue
  <2>5. InIdle(s)' = InIdle(s) /\ InActive(s)' = InActive(s) /\ IsIdle(s)' = IsIdle(s)
    BY <1>1, PlacesKept
  <2>6. Owners(s)' = Owners(s)
    <3>1. /\ Owners(s) = InQueue(s) + InIdle(s) + InActive(s) + InHands(s) + IsIdle(s)
          /\ InQueue(s) \in Nat /\ InIdle(s) \in Nat /\ InActive(s) \in Nat
          /\ InHands(s) \in Nat /\ IsIdle(s) \in Nat
      BY <1>2, OwnersType
    <3>2. Owners(s)' = InQueue(s)' + InIdle(s)' + InActive(s)' + InHands(s)' + IsIdle(s)'
      BY OwnersThen
    <3> QED
      BY <2>3, <2>4, <2>5, <3>1, <3>2
  <2> QED
    BY <1>1, <2>1, <2>6 DEF Exists, socketVars
<1>9. ~raced => ~broken' /\ Owned'
  BY <1>1, <1>8 DEF IInv, Owned
<1> QED
  BY <1>5, <1>6, <1>7, <1>9, WorkerMoves

(* A worker puts what it has, be it None, into the queue.                  *)
LEMMA PutsStep ==
  ASSUME IInv, NEW w \in Worker, QuitWith(w) \/ PutClosed(w)
  PROVE  IInv'
<1> DEFINE h == hand[w]
<1>1. PICK to \in {"quit", "check"} :
        /\ pc' = [pc EXCEPT ![w] = to] /\ Hold(w, None)
        /\ pc[w] \in {"got", "accepted", "serve", "handle"} /\ IsTerminating /\ Put(h)
        /\ UNCHANGED <<threadVars, idleSockets, loopVars, events, socketVars, raced, broken>>
  BY DEF QuitWith, PutClosed, PutBack, Go, history, Serves
<1>2. /\ events \in Seq(Events) /\ broken \in BOOLEAN /\ queue \in Seq(Socket \cup {None})
      /\ asleep \subseteq Worker /\ awake \subseteq Worker /\ h \in Socket \cup {None}
      /\ pc \in [Worker -> Places]
      /\ socket \in [Socket -> {"unused", "accepts", "open", "deleted"}] /\ Typing
      /\ h = None => pc[w] = "got"
      /\ w \notin asleep \cup awake
  BY <1>1, ServerAssumption DEF IInv, Typing, WorkersSound, Carries
<1>3. /\ queue' \in Seq(Socket \cup {None})
      /\ \A s : Times(s, queue') = Times(s, queue) + (IF h = s THEN 1 ELSE 0)
      /\ asleep' \cup awake' = asleep \cup awake
  BY <1>1, <1>2, PutCounts
<1> HIDE DEF h
<1>4. \A s : Times(s, queue) \in Nat
  BY <1>2, TimesType
<1>5. Moves(w, to, None)
  BY <1>1, <1>2 DEF Moves, Working, Places, Carries, Empty, IsTerminating, Hold
<1>6. QueueMoves(w, to)
  <2>1. asleep' \subseteq Worker /\ awake' \subseteq Worker
    BY <1>2, <1>3
  <2>2. h # None => Times(None, queue') = Times(None, queue)
    BY <1>3, <1>4
  <2> QED
    BY <1>2, <1>3, <1>4, <2>1, <2>2 DEF QueueMoves, h
<1>7. EventsMove /\ RestKept
  BY <1>1, <1>2 DEF EventsMove, RestKept, socketVars, threadVars, loopVars
<1>8. ASSUME ~raced, NEW s \in Socket
      PROVE  Owners(s)' = IF Exists(s)' THEN 1 ELSE 0
  <2>1. Owners(s) = IF Exists(s) THEN 1 ELSE 0
    BY <1>8 DEF IInv, Owned
  <2>2. s # None
    BY ServerAssumption
  <2>3. InHands(s)' = InHands(s) - (IF h = s THEN 1 ELSE 0) /\ InHands(s) \in Nat
    BY <1>1, <1>2, <2>2, HoldCounts DEF h
  <2>4. InQueue(s)' = InQueue(s) + (IF h = s THEN 1 ELSE 0)
    BY <1>3 DEF InQueue
  <2>5. InIdle(s)' = InIdle(s) /\ InActive(s)' = InActive(s) /\ IsIdle(s)' = IsIdle(s)
    BY <1>1, PlacesKept
  <2>6. Owners(s)' = Owners(s)
    <3>1. /\ Owners(s) = InQueue(s) + InIdle(s) + InActive(s) + InHands(s) + IsIdle(s)
          /\ InQueue(s) \in Nat /\ InIdle(s) \in Nat /\ InActive(s) \in Nat
          /\ InHands(s) \in Nat /\ IsIdle(s) \in Nat
      BY <1>2, OwnersType
    <3>2. Owners(s)' = InQueue(s)' + InIdle(s)' + InActive(s)' + InHands(s)' + IsIdle(s)'
      BY OwnersThen
    <3> QED
      BY <2>3, <2>4, <2>5, <3>1, <3>2
  <2> QED
    BY <1>1, <2>1, <2>6 DEF Exists, socketVars
<1>9. ~raced => ~broken' /\ Owned'
  BY <1>1, <1>8 DEF IInv, Owned
<1> QED
  BY <1>5, <1>6, <1>7, <1>9, WorkerMoves

(* It deletes the socket that it has.                                      *)
LEMMA DropStep ==
  ASSUME IInv, NEW w \in Worker, Drop(w) \/ AcceptFails(w)
  PROVE  IInv'
<1> DEFINE h == hand[w]
<1>1. /\ pc' = [pc EXCEPT ![w] = "check"] /\ Hold(w, None)
      /\ pc[w] \in {"serve", "handle"}
      /\ socket' = [socket EXCEPT ![h] = "deleted"]
      /\ UNCHANGED <<queueVars, threadVars, idleSockets, loopVars, events, raced, broken>>
  BY DEF Drop, AcceptFails, Delete, Go, history, Serves
<1>2. /\ events \in Seq(Events) /\ broken \in BOOLEAN /\ queue \in Seq(Socket \cup {None})
      /\ asleep \subseteq Worker /\ awake \subseteq Worker /\ h \in Socket
      /\ pc \in [Worker -> Places]
      /\ socket \in [Socket -> {"unused", "accepts", "open", "deleted"}] /\ Typing
      /\ w \notin asleep \cup awake
  BY <1>1 DEF IInv, Typing, WorkersSound, Carries
<1>3. h # None
  BY <1>2, ServerAssumption
<1> HIDE DEF h
<1>5. Moves(w, "check", None)
  BY <1>1, <1>2 DEF Moves, Working, Places, Carries, Empty, Hold
<1>6. QueueMoves(w, "check")
  BY <1>1, <1>2 DEF QueueMoves, queueVars
<1>7. EventsMove /\ RestKept
  BY <1>1, <1>2 DEF EventsMove, RestKept, threadVars, loopVars
<1>8. ASSUME ~raced, NEW s \in Socket
      PROVE  Owners(s)' = IF Exists(s)' THEN 1 ELSE 0
  <2>1. Owners(s) = IF Exists(s) THEN 1 ELSE 0
    BY <1>8 DEF IInv, Owned
  <2>2. s # None
    BY ServerAssumption
  <2>3. InHands(s)' = InHands(s) - (IF h = s THEN 1 ELSE 0) /\ InHands(s) \in Nat
    BY <1>1, <1>2, <2>2, HoldCounts DEF h
  <2>4. h = s => InHands(s) > 0
    BY <1>1, <1>2, HoldCounts DEF h
  <2>5. /\ InQueue(s)' = InQueue(s) /\ IsIdle(s)' = IsIdle(s)
        /\ InIdle(s)' = InIdle(s) /\ InActive(s)' = InActive(s)
    BY <1>1, PlacesKept DEF queueVars
  <2>6. Owners(s)' = Owners(s) - (IF h = s THEN 1 ELSE 0) /\ (h = s => Owners(s) > 0)
    BY <1>2, <2>3, <2>4, <2>5, OwnersType, OwnersThen
  <2>7. Exists(s)' <=> Exists(s) /\ h # s
    BY <1>1, <1>2 DEF Exists
  <2> QED
    BY <2>1, <2>6, <2>7
<1>9. ~raced => ~broken' /\ Owned'
  BY <1>1, <1>8 DEF IInv, Owned
<1> QED
  BY <1>5, <1>6, <1>7, <1>9, WorkerMoves

(* A new socket goes into the queue.                                       *)
LEMMA AcceptedStep ==
  ASSUME IInv, NEW w \in Worker, Accepted(w)
  PROVE  IInv'
<1>1. PICK h \in Unused :
        /\ pc' = [pc EXCEPT ![w] = "serve"] /\ pc[w] = "accepted" /\ Put(h)
        /\ socket' = [socket EXCEPT ![h] = "accepts"]
        /\ UNCHANGED <<threadVars, idleSockets, hand, loopVars, events, raced, broken>>
  BY DEF Accepted, Go, history, AcceptsNext
<1>2. /\ events \in Seq(Events) /\ broken \in BOOLEAN /\ queue \in Seq(Socket \cup {None})
      /\ asleep \subseteq Worker /\ awake \subseteq Worker /\ h \in Socket
      /\ pc \in [Worker -> Places] /\ hand \in [Worker -> Socket \cup {None}]
      /\ socket \in [Socket -> {"unused", "accepts", "open", "deleted"}] /\ Typing
      /\ w \notin asleep \cup awake /\ hand[w] \in Socket
      /\ h # None /\ ~Exists(h)
  BY <1>1, ServerAssumption DEF IInv, Typing, WorkersSound, Carries, Unused, Exists
<1>3. /\ queue' \in Seq(Socket \cup {None})
      /\ \A s : Times(s, queue') = Times(s, queue) + (IF h = s THEN 1 ELSE 0)
      /\ asleep' \cup awake' = asleep \cup awake
  BY <1>1, <1>2, PutCounts
<1>4. \A s : Times(s, queue) \in Nat
  BY <1>2, TimesType
<1>5. Moves(w, "serve", hand[w])
  BY <1>1, <1>2 DEF Moves, Working, Places, Carries, Empty
<1>6. QueueMoves(w, "serve")
  <2>1. asleep' \subseteq Worker /\ awake' \subseteq Worker
    BY <1>2, <1>3
  <2>2. Times(None, queue') = Times(None, queue)
    BY <1>2, <1>3, <1>4
  <2> QED
    BY <1>2, <1>3, <2>1, <2>2 DEF QueueMoves
<1>7. EventsMove /\ RestKept
  BY <1>1, <1>2 DEF EventsMove, RestKept, threadVars, loopVars
<1>8. ASSUME ~raced, NEW s \in Socket
      PROVE  Owners(s)' = IF Exists(s)' THEN 1 ELSE 0
  <2>1. Owners(s) = IF Exists(s) THEN 1 ELSE 0
    BY <1>8 DEF IInv, Owned
  <2>2. Owners(s)' = Owners(s) + (IF h = s THEN 1 ELSE 0)
    <3>1. InQueue(s)' = InQueue(s) + (IF h = s THEN 1 ELSE 0)
      BY <1>3 DEF InQueue
    <3>2. /\ InIdle(s)' = InIdle(s) /\ InActive(s)' = InActive(s) /\ IsIdle(s)' = IsIdle(s)
          /\ InHands(s)' = InHands(s)
      BY <1>1, PlacesKept
    <3> QED
      BY <1>2, <3>1, <3>2, OwnersType, OwnersThen
  <2>3. Exists(s)' <=> Exists(s) \/ h = s
    BY <1>1, <1>2 DEF Exists
  <2> QED
    BY <1>2, <2>1, <2>2, <2>3
<1>9. ~raced => ~broken' /\ Owned'
  BY <1>1, <1>8 DEF IInv, Owned
<1> QED
  BY <1>5, <1>6, <1>7, <1>9, WorkerMoves

(* Events that say nothing of a thread that ends, a timer or the start.    *)
LEMMA EventsMoveBy ==
  ASSUME Typing, NEW e \in Events, e.on \in {"idle", "active", "noWaiting"},
         events' = Append(events, e)
  PROVE  EventsMove
<1>1. /\ events' \in Seq(Events)
      /\ \A x : Times(x, events') = Times(x, events) + (IF e = x THEN 1 ELSE 0)
  BY EventCounts
<1>2. \A x : Times(x, events) \in Nat
  BY TimesType DEF Typing
<1>3. /\ \A v \in Worker : e # Ended(v)
      /\ e # Event("start", 0)
      /\ \A s \in Socket : e # Late(s)
  BY DEF Ended, Late, Event
<1> QED
  BY <1>1, <1>2, <1>3 DEF EventsMove

LEMMA TellStep ==
  ASSUME IInv, NEW w \in Worker, Tell(w)
  PROVE  IInv'
<1> DEFINE e == Event("noWaiting", 0)
<1>1. /\ pc[w] = "tell" /\ pc' = [pc EXCEPT ![w] = "handle"]
      /\ events' = Append(events, e) \/ events' = events
      /\ UNCHANGED <<queueVars, threadVars, idleSockets, hand, loopVars, socketVars, raced, broken>>
  BY DEF Tell, Go, history
<1>2. /\ events \in Seq(Events) /\ broken \in BOOLEAN /\ queue \in Seq(Socket \cup {None})
      /\ asleep \subseteq Worker /\ awake \subseteq Worker
      /\ pc \in [Worker -> Places] /\ hand \in [Worker -> Socket \cup {None}]
      /\ socket \in [Socket -> {"unused", "accepts", "open", "deleted"}] /\ Typing
      /\ w \notin asleep \cup awake /\ hand[w] \in Socket
      /\ e \in Events /\ e.on = "noWaiting"
  BY <1>1 DEF IInv, Typing, WorkersSound, Carries, Event, Events
<1>3. \A s \in Socket : e # Event("idle", s) /\ e # Event("active", s)
  BY EventsDiffer
<1> HIDE DEF e
<1>4. hand' = [hand EXCEPT ![w] = hand[w]]
  BY <1>1, <1>2
<1>5. Moves(w, "handle", hand[w])
  BY <1>1, <1>2, <1>4 DEF Moves, Working, Places, Carries, Empty
<1>6. QueueMoves(w, "handle")
  BY <1>1, <1>2 DEF QueueMoves, queueVars
<1>7. EventsMove /\ RestKept
  <2>1. EventsMove
    <3>1. CASE events' = Append(events, e)
      BY <1>2, <3>1, EventsMoveBy
    <3>2. CASE events' = events
      BY <1>2, <3>2 DEF EventsMove
    <3> QED
      BY <1>1, <3>1, <3>2
  <2> QED
    BY <1>1, <1>2, <2>1 DEF RestKept, socketVars, threadVars, loopVars
<1>8. ASSUME ~raced, NEW s \in Socket
      PROVE  Owners(s)' = IF Exists(s)' THEN 1 ELSE 0
  <2>1. Owners(s) = IF Exists(s) THEN 1 ELSE 0
    BY <1>8 DEF IInv, Owned
  <2>2. InIdle(s)' = InIdle(s) /\ InActive(s)' = InActive(s)
    <3>1. CASE events' = Append(events, e)
      <4>1. \A x : Times(x, events') = Times(x, events) + (IF e = x THEN 1 ELSE 0)
        BY <1>2, <3>1, EventCounts
      <4>2. InIdle(s) \in Nat /\ InActive(s) \in Nat
        BY <1>2, OwnersType
      <4>3. /\ Times(Event("idle", s), events') = Times(Event("idle", s), events)
            /\ Times(Event("active", s), events') = Times(Event("active", s), events)
        BY <1>3, <4>1, <4>2 DEF InIdle, InActive
      <4> QED
        BY <4>3 DEF InIdle, InActive
    <3>2. CASE events' = events
      BY <3>2, PlacesKept
    <3> QED
      BY <1>1, <3>1, <3>2
  <2>3. InQueue(s)' = InQueue(s) /\ IsIdle(s)' = IsIdle(s) /\ InHands(s)' = InHands(s)
    BY <1>1, PlacesKept DEF queueVars
  <2> QED
    BY <1>1, <1>2, <2>1, <2>2, <2>3, OwnersType, OwnersThen DEF Exists, socketVars
<1>9. ~raced => ~broken' /\ Owned'
  BY <1>1, <1>8 DEF IInv, Owned
<1> QED
  BY <1>5, <1>6, <1>7, <1>9, WorkerMoves

(* It hands the socket over to the loop, whether that goes on or not.      *)
LEMMA CommitStep ==
  ASSUME IInv, NEW w \in Worker, Commit(w)
  PROVE  IInv'
<1> DEFINE h == hand[w]
           e == Event("idle", h)
<1>1. /\ pc[w] = "commit" /\ pc' = [pc EXCEPT ![w] = "check"] /\ Hold(w, None)
      /\ events' = Append(events, e)
      /\ UNCHANGED <<queueVars, threadVars, idleSockets, loopVars, socketVars, raced, broken>>
  BY DEF Commit, Go, history
<1>2. /\ events \in Seq(Events) /\ broken \in BOOLEAN /\ queue \in Seq(Socket \cup {None})
      /\ asleep \subseteq Worker /\ awake \subseteq Worker
      /\ pc \in [Worker -> Places] /\ hand \in [Worker -> Socket \cup {None}]
      /\ socket \in [Socket -> {"unused", "accepts", "open", "deleted"}] /\ Typing
      /\ w \notin asleep \cup awake /\ h \in Socket
  BY <1>1 DEF IInv, Typing, WorkersSound, Carries
<1>3. e \in Events /\ e.on = "idle"
  BY <1>2 DEF Event, Events
<1>4. \A s \in Socket : (e = Event("idle", s) <=> h = s) /\ e # Event("active", s)
  BY EventsDiffer
<1> HIDE DEF e, h
<1>5. Moves(w, "check", None)
  BY <1>1, <1>2 DEF Moves, Working, Places, Carries, Empty, Hold
<1>6. QueueMoves(w, "check")
  BY <1>1, <1>2 DEF QueueMoves, queueVars
<1>7. EventsMove /\ RestKept
  <2>1. EventsMove
    BY <1>1, <1>2, <1>3, EventsMoveBy
  <2> QED
    BY <1>1, <1>2, <2>1 DEF RestKept, socketVars, threadVars, loopVars
<1>8. ASSUME ~raced, NEW s \in Socket
      PROVE  Owners(s)' = IF Exists(s)' THEN 1 ELSE 0
  <2>1. Owners(s) = IF Exists(s) THEN 1 ELSE 0
    BY <1>8 DEF IInv, Owned
  <2>2. s # None
    BY ServerAssumption
  <2>3. InHands(s)' = InHands(s) - (IF h = s THEN 1 ELSE 0) /\ InHands(s) \in Nat
    BY <1>1, <1>2, <2>2, HoldCounts DEF h
  <2>4. InIdle(s)' = InIdle(s) + (IF h = s THEN 1 ELSE 0) /\ InActive(s)' = InActive(s)
    <3>1. \A x : Times(x, events') = Times(x, events) + (IF e = x THEN 1 ELSE 0)
      BY <1>1, <1>2, <1>3, EventCounts
    <3>2. InIdle(s) \in Nat /\ InActive(s) \in Nat
      BY <1>2, OwnersType
    <3> QED
      BY <1>4, <3>1, <3>2 DEF InIdle, InActive
  <2>5. InQueue(s)' = InQueue(s) /\ IsIdle(s)' = IsIdle(s)
    BY <1>1, PlacesKept DEF queueVars
  <2>6. Owners(s)' = Owners(s)
    <3>1. /\ Owners(s) = InQueue(s) + InIdle(s) + InActive(s) + InHands(s) + IsIdle(s)
          /\ InQueue(s) \in Nat /\ InIdle(s) \in Nat /\ InActive(s) \in Nat
          /\ InHands(s) \in Nat /\ IsIdle(s) \in Nat
      BY <1>2, OwnersType
    <3>2. Owners(s)' = InQueue(s)' + InIdle(s)' + InActive(s)' + InHands(s)' + IsIdle(s)'
      BY OwnersThen
    <3> QED
      BY <2>3, <2>4, <2>5, <3>1, <3>2
  <2> QED
    BY <1>1, <2>1, <2>6 DEF Exists, socketVars
<1>9. ~raced => ~broken' /\ Owned'
  BY <1>1, <1>8 DEF IInv, Owned
<1> QED
  BY <1>5, <1>6, <1>7, <1>9, WorkerMoves

(* Only a socket that raced has been deleted when a worker gets it.        *)
LEMMA CrashStep ==
  ASSUME IInv, NEW w \in Worker, Crash(w)
  PROVE  IInv'
<1>1. hand[w] \in Socket /\ socket[hand[w]] = "deleted" /\ Typing /\ raced \in BOOLEAN
  BY DEF IInv, WorkersSound, Carries, Typing, Crash
<1>2. raced
  <2>1. SUFFICES ASSUME ~raced PROVE FALSE
    OBVIOUS
  <2>2. Owners(hand[w]) = 0
    BY <1>1, <2>1 DEF IInv, Owned, Exists
  <2>3. InHands(hand[w]) > 0
    BY HoldersType DEF InHands
  <2> QED
    BY <1>1, <2>2, <2>3, OwnersType
<1>3. UNCHANGED <<queue, asleep, awake, runmode, threads, terminatedThreads, idleSockets,
                  pc, hand, loop, events, socket, raced>> /\ broken' = TRUE
  BY DEF Crash, queueVars, threadVars, loopVars, socketVars
<1> QED
  BY <1>2, <1>3 DEF IInv, Typing, WorkersSound, Working, Ended, NoneSound, StartSound,
                    StayingEnough, Staying

LEMMA QuitStep ==
  ASSUME IInv, NEW w \in Worker, Quit(w)
  PROVE  IInv'
<1> DEFINE e == Event("terminated", w)
<1>1. /\ pc[w] = "quit" /\ pc' = [pc EXCEPT ![w] = "ended"] /\ threads' = threads \ {w}
      /\ loop' = loop \/ (loop = "waiting" /\ loop' = "woken")
      /\ UNCHANGED <<queue, asleep, awake, runmode, idleSockets, hand, socket, raced, broken>>
  BY DEF Quit, Go, history, queueVars, socketVars
<1>2. \/ /\ runmode = "running"
         /\ events' = Append(events, e) /\ terminatedThreads' = terminatedThreads
      \/ /\ runmode # "running"
         /\ events' = events /\ terminatedThreads' = terminatedThreads \cup {w}
  BY DEF Quit
<1>3. /\ events \in Seq(Events) /\ pc \in [Worker -> Places] /\ Typing
      /\ w \notin asleep \cup awake /\ threads = {v \in Worker : Working(v)} /\ w \in threads
      /\ hand[w] = None
  BY <1>1 DEF IInv, Typing, WorkersSound, Working, Empty
<1>4. e \in Events
  BY DEF Event, Events
<1>5. /\ \A v : e = Ended(v) <=> v = w
      /\ \A s : e # Event("idle", s) /\ e # Event("active", s) /\ e # Late(s) /\ e # Event("start", s)
  BY EventsDiffer DEF Ended, Late
<1> HIDE DEF e
<1>6. \A x : Times(x, events) \in Nat
  BY <1>3, TimesType
<1>7. /\ events' \in Seq(Events)
      /\ \A x : x # e => Times(x, events') = Times(x, events)
      /\ Times(e, events') + (IF w \in terminatedThreads' THEN 1 ELSE 0) =
           IF events' = events /\ w \in terminatedThreads THEN Times(e, events) + 1
           ELSE Times(e, events) + (IF w \in terminatedThreads THEN 1 ELSE 0) + 1
  <2>1. CASE events' = events /\ terminatedThreads' = terminatedThreads \cup {w}
    BY <1>3, <1>6, <2>1
  <2>2. CASE events' = Append(events, e) /\ terminatedThreads' = terminatedThreads
    <3>1. /\ events' \in Seq(Events)
          /\ \A x : Times(x, events') = Times(x, events) + (IF e = x THEN 1 ELSE 0)
      BY <1>3, <1>4, <2>2, EventCounts
    <3>2. events' # events
      <4>1. Times(e, events') = Times(e, events) + 1
        BY <3>1
      <4> QED
        BY <4>1, <1>6
    <3> QED
      BY <1>6, <2>2, <3>1, <3>2
  <2> QED
    BY <1>2, <2>1, <2>2
<1>8. Times(e, events) + (IF w \in terminatedThreads THEN 1 ELSE 0) = 0
  BY <1>1, <1>5 DEF IInv, WorkersSound
<1>9. Typing'
  BY <1>1, <1>2, <1>3, <1>7 DEF IInv, Typing, Places
<1>10. WorkersSound'
  <2>1. threads' = {v \in Worker : Working(v)'}
    BY <1>1, <1>3 DEF Working
  <2>2. /\ \A v \in Worker : pc'[v] \in Empty => hand'[v] = None
        /\ \A v \in Worker : pc'[v] \in Carries => hand'[v] \in Socket
        /\ \A v \in asleep' \cup awake' : pc'[v] = "get"
    BY <1>1, <1>3 DEF IInv, WorkersSound, Carries, Typing
  <2>3. ASSUME NEW v \in Worker
        PROVE  Times(Ended(v), events') + (IF v \in terminatedThreads' THEN 1 ELSE 0)
                 = IF pc'[v] = "ended" THEN 1 ELSE 0
    <3>1. CASE v = w
      <4>1. w \notin terminatedThreads /\ Times(e, events) = 0
        BY <1>6, <1>8
      <4>2. pc'[v] = "ended" /\ Ended(v) = e
        BY <1>1, <1>3, <1>5, <3>1
      <4> QED
        BY <1>7, <1>6, <3>1, <4>1, <4>2
    <3>2. CASE v # w
      <4>1. Times(Ended(v), events') = Times(Ended(v), events)
        BY <1>5, <1>7, <3>2
      <4>2. v \in terminatedThreads' <=> v \in terminatedThreads
        BY <1>2, <3>2
      <4>3. pc'[v] = pc[v]
        BY <1>1, <1>3, <3>2
      <4> QED
        BY <4>1, <4>2, <4>3 DEF IInv, WorkersSound
    <3> QED
      BY <3>1, <3>2
  <2> QED
    BY <2>1, <2>2, <2>3 DEF WorkersSound, Ended
<1>11. NoneSound'
  <2>1. ASSUME NEW v \in Worker, pc'[v] = "got" PROVE pc[v] = "got"
    BY <1>1, <1>3, <2>1
  <2> QED
    BY <1>1, <2>1 DEF IInv, NoneSound
<1>12. StartSound'
  <2>1. ~(Times(Event("start", 0), events') > 0)
    BY <1>3, <1>5, <1>7 DEF IInv, StartSound
  <2> QED
    BY <1>1, <2>1 DEF IInv, StartSound
<1>13. StayingEnough'
  <2>1. Staying' = Staying
    BY <1>1, <1>3 DEF Staying
  <2>2. Cardinality(threads') =< Cardinality(threads)
    <3>1. IsFiniteSet(threads) /\ threads' \subseteq threads
      BY <1>1, <1>3, FS_Subset, ServerAssumption
    <3> QED
      BY <3>1, FS_Subset
  <2>3. Cardinality(threads') \in Nat /\ Cardinality(threads) \in Nat
    <3>1. IsFiniteSet(threads) /\ IsFiniteSet(threads')
      BY <1>1, <1>3, FS_Subset, ServerAssumption
    <3> QED
      BY <3>1, FS_CardinalityType
  <2>4. Max({MinThreads, MaxThreads}) \in Nat
    BY MaxOfTwo
  <2> QED
    BY <1>1, <2>1, <2>2, <2>3, <2>4 DEF IInv, StayingEnough
<1>14. ~raced => ~broken' /\ TimersSound' /\ Owned'
  <2>1. \A s \in Socket : Times(Late(s), events') = Times(Late(s), events)
    BY <1>5, <1>7
  <2>2. TimersSound => TimersSound'
    BY <1>1, <2>1 DEF TimersSound, Late
  <2>3. ASSUME NEW s \in Socket PROVE Owners(s)' = Owners(s)
    <3>1. /\ InQueue(s)' = InQueue(s) /\ IsIdle(s)' = IsIdle(s) /\ InHands(s)' = InHands(s)
      BY <1>1, PlacesKept
    <3>2. InIdle(s)' = InIdle(s) /\ InActive(s)' = InActive(s)
      BY <1>5, <1>7 DEF InIdle, InActive
    <3> QED
      BY <1>3, <3>1, <3>2, OwnersType, OwnersThen
  <2> QED
    BY <1>1, <2>2, <2>3 DEF IInv, Owned, Exists
<1> QED
  BY <1>1, <1>9, <1>10, <1>11, <1>12, <1>13, <1>14 DEF IInv

-----------------------------------------------------------------------------
(* Clients, and the steps of the loop.                                     *)

LEMMA Untouched ==
  ASSUME IInv, UNCHANGED <<queue, asleep, awake, runmode, threads, terminatedThreads,
                           idleSockets, pc, hand, loop, events, socket, raced, broken>>
  PROVE  IInv'
<1>1. Typing'
  BY DEF IInv, Typing
<1>2. WorkersSound' /\ NoneSound' /\ StartSound' /\ StayingEnough'
  BY DEF IInv, WorkersSound, Working, Ended, NoneSound, StartSound, StayingEnough, Staying
<1>3. ~raced => ~broken' /\ TimersSound' /\ Owned'
  BY DEF IInv, TimersSound, Late, Owned, Owners, Exists
<1> QED
  BY <1>1, <1>2, <1>3 DEF IInv

LEMMA ClientStep ==
  ASSUME IInv, Client \/ Exit \/ UNCHANGED vars
  PROVE  IInv'
<1>1. UNCHANGED <<queue, asleep, awake, runmode, threads, terminatedThreads,
                  idleSockets, pc, hand, loop, events, socket, raced, broken>>
  BY DEF Client, Exit, Connect, Send, HangUp, vars, queueVars, threadVars, loopVars,
         socketVars, history
<1> QED
  BY <1>1, Untouched

(* The loop does nothing to the workers.                                   *)
WorkersKept ==
  /\ UNCHANGED <<pc, hand, threads, terminatedThreads>>
  /\ asleep' \cup awake' = asleep \cup awake
  /\ \A v \in Worker : Times(Ended(v), events') = Times(Ended(v), events)

LEMMA WorkersStay ==
  ASSUME IInv, WorkersKept
  PROVE  WorkersSound' /\ (runmode' = runmode => StayingEnough')
BY DEF IInv, WorkersKept, WorkersSound, Working, Ended, StayingEnough, Staying

(* What the first event leaves behind it.                                  *)
LEMMA OtherEvents ==
  ASSUME IInv, NEW on, Next1(on)
  PROVE  /\ events' \in Seq(Events) /\ Head(events) \in Events /\ Head(events).on = on
         /\ Head(events) = Event(on, X)
         /\ Times(Head(events), events') = Times(Head(events), events) - 1
         /\ Times(Head(events), events) > 0
         /\ \A x : x # Head(events) => Times(x, events') = Times(x, events)
         /\ \A x : Times(x, events) \in Nat /\ Times(x, events') \in Nat
<1>1. /\ events' \in Seq(Events) /\ Head(events) \in Events /\ Head(events).on = on
      /\ \A x : Times(x, events) = Times(x, events') + (IF Head(events) = x THEN 1 ELSE 0)
  BY Next1Counts DEF IInv
<1>2. \A x : Times(x, events) \in Nat /\ Times(x, events') \in Nat
  BY <1>1, TimesType DEF IInv, Typing
<1>3. Head(events) = Event(on, X)
  BY <1>1 DEF X, Event, Events
<1> QED
  BY <1>1, <1>2, <1>3

LEMMA NoWorkersNoQuit ==
  ASSUME IInv, threads = {}
  PROVE  /\ \A w \in Worker : pc[w] \in {"none", "ended"} /\ hand[w] = None
         /\ Cardinality(threads) = 0
BY FS_EmptySet DEF IInv, WorkersSound, Working, Empty

LEMMA ServerStartStep ==
  ASSUME IInv, OnServerStart
  PROVE  IInv'
<1>1. /\ loop = "events" /\ runmode' = "starting" /\ loop' = "starting" /\ Next1("start")
      /\ UNCHANGED <<queue, asleep, awake, threads, terminatedThreads, idleSockets,
                     pc, hand, socket, raced, broken>>
  BY DEF OnServerStart, Next1, queueVars, socketVars, history
<1>2. /\ events' \in Seq(Events) /\ Head(events) = Event("start", 0)
      /\ Times(Head(events), events) > 0
      /\ \A x : x # Head(events) => Times(x, events') = Times(x, events)
  <2>1. /\ events' \in Seq(Events) /\ Head(events) \in Events /\ Head(events).on = "start"
        /\ Times(Head(events), events) > 0
        /\ \A x : x # Head(events) => Times(x, events') = Times(x, events)
    BY <1>1, OtherEvents
  <2>2. Head(events) = Event("start", 0)
    BY <2>1 DEF Events, Event
  <2> QED
    BY <2>1, <2>2
<1>3. /\ threads = {} /\ events = <<Event("start", 0)>>
  BY <1>2 DEF IInv, StartSound
<1>4. events' = <<>>
  BY <1>1, <1>3 DEF Next1
<1>5. /\ \A v : Ended(v) # Head(events)
      /\ \A s : /\ Event("idle", s) # Head(events) /\ Event("active", s) # Head(events)
                /\ Late(s) # Head(events)
  BY <1>2, EventsDiffer DEF Ended, Late
<1>6. Typing'
  BY <1>1, <1>2 DEF IInv, Typing
<1>7. WorkersSound'
  <2>1. WorkersKept
    BY <1>1, <1>2, <1>5 DEF WorkersKept
  <2> QED
    BY <2>1, WorkersStay
<1>8. NoneSound' /\ StartSound' /\ StayingEnough'
  <2>1. NoneSound'
    BY <1>1 DEF IInv, NoneSound
  <2>2. Times(Event("start", 0), events') = 0
    BY <1>4, TimesEmpty
  <2>3. StartSound'
    BY <1>1, <1>3, <2>2, NoWorkersNoQuit, ServerAssumption DEF StartSound
  <2> QED
    BY <1>1, <2>1, <2>3 DEF StayingEnough
<1>9. ~raced => ~broken' /\ TimersSound' /\ Owned'
  <2>1. TimersSound => TimersSound'
    BY <1>1, <1>2, <1>5 DEF TimersSound, Late
  <2>2. ASSUME NEW s \in Socket PROVE Owners(s)' = Owners(s)
    <3>1. /\ InQueue(s)' = InQueue(s) /\ IsIdle(s)' = IsIdle(s) /\ InHands(s)' = InHands(s)
      BY <1>1, PlacesKept
    <3>2. InIdle(s)' = InIdle(s) /\ InActive(s)' = InActive(s)
      BY <1>2, <1>5 DEF InIdle, InActive
    <3> QED
      BY <3>1, <3>2, OwnersType, OwnersThen DEF IInv
  <2> QED
    BY <1>1, <2>1, <2>2 DEF IInv, Owned, Exists
<1> QED
  BY <1>1, <1>6, <1>7, <1>8, <1>9 DEF IInv

(* A thread is started with a number that is not in use.                   *)
LEMMA ThreadStarts ==
  ASSUME IInv, StartThread, UNCHANGED <<hand, terminatedThreads, asleep, awake>>,
         \A v \in Worker : Times(Ended(v), events') = Times(Ended(v), events)
  PROVE  /\ pc' \in [Worker -> Places] /\ WorkersSound'
         /\ Cardinality(threads') = Cardinality(threads) + 1
         /\ Cardinality(threads) \in Nat
         /\ Cardinality(Staying') >= Cardinality(Staying)
         /\ Cardinality(Staying) \in Nat /\ Cardinality(Staying') \in Nat
         /\ \A v \in Worker : pc'[v] \in {"got", "quit"} <=> pc[v] \in {"got", "quit"}
         /\ \A v \in Worker : pc'[v] = "got" <=> pc[v] = "got"
<1>1. PICK w \in Worker : pc[w] = "none" /\ threads' = threads \cup {w} /\ pc' = [pc EXCEPT ![w] = "check"]
  BY DEF StartThread, Idle, Go
<1>2. /\ pc \in [Worker -> Places] /\ threads = {v \in Worker : Working(v)}
      /\ IsFiniteSet(Worker)
  BY ServerAssumption DEF IInv, Typing, WorkersSound
<1>3. /\ pc' \in [Worker -> Places] /\ pc'[w] = "check"
      /\ \A v \in Worker : v # w => pc'[v] = pc[v]
      /\ w \notin threads /\ hand[w] = None
  BY <1>1, <1>2 DEF Working, Places, IInv, WorkersSound, Empty
<1>4. WorkersSound'
  <2>1. threads' = {v \in Worker : Working(v)'}
    BY <1>1, <1>2, <1>3 DEF Working
  <2>2. /\ \A v \in Worker : pc'[v] \in Empty => hand'[v] = None
        /\ \A v \in Worker : pc'[v] \in Carries => hand'[v] \in Socket
        /\ \A v \in asleep' \cup awake' : pc'[v] = "get"
    BY <1>1, <1>3 DEF IInv, WorkersSound, Carries, Typing
  <2>3. ASSUME NEW v \in Worker
        PROVE  Times(Ended(v), events') + (IF v \in terminatedThreads' THEN 1 ELSE 0)
                 = IF pc'[v] = "ended" THEN 1 ELSE 0
    <3>1. pc'[v] = "ended" <=> pc[v] = "ended"
      BY <1>1, <1>3
    <3> QED
      BY <3>1 DEF IInv, WorkersSound
  <2> QED
    BY <2>1, <2>2, <2>3 DEF WorkersSound, Ended
<1>5. IsFiniteSet(threads) /\ Cardinality(threads) \in Nat
  BY <1>2, FS_Subset, FS_CardinalityType
<1>6. Cardinality(threads') = Cardinality(threads) + 1
  BY <1>1, <1>3, <1>5, FS_AddElement
<1>7. /\ Cardinality(Staying') >= Cardinality(Staying)
      /\ Cardinality(Staying) \in Nat /\ Cardinality(Staying') \in Nat
  <2>1. IsFiniteSet(Staying)
    BY <1>2, FS_Subset DEF Staying
  <2>2. IsFiniteSet(Staying') /\ Staying \subseteq Staying'
    <3>1. Staying' \subseteq Worker /\ Staying \subseteq Staying'
      BY <1>1, <1>3 DEF Staying
    <3> QED
      BY <1>2, <3>1, FS_Subset
  <2> QED
    BY <2>1, <2>2, FS_Subset, FS_CardinalityType
<1> QED
  BY <1>1, <1>3, <1>4, <1>5, <1>6, <1>7

LEMMA StartStep ==
  ASSUME IInv, Start
  PROVE  IInv'
<1>1. /\ loop = "starting"
      /\ UNCHANGED <<queue, asleep, awake, terminatedThreads, idleSockets,
                     hand, events, socket, raced, broken>>
  BY DEF Start, queueVars, socketVars, history
<1>2. /\ runmode = "starting" /\ Cardinality(threads) =< MinThreads
      /\ \A w \in Worker : pc[w] # "quit"
      /\ ~(Times(Event("start", 0), events) > 0)
      /\ MinThreads \in Nat
  BY <1>1, ServerAssumption DEF IInv, StartSound
<1>3. ~raced => ~broken' /\ Owned'
  <2>1. \A s \in Socket : Owners(s)' = Owners(s)
    BY <1>1 DEF Owners
  <2> QED
    BY <1>1, <2>1 DEF IInv, Owned, Exists
<1>4. CASE Cardinality(threads) < MinThreads
  <2>1. StartThread /\ UNCHANGED <<runmode, loop>>
    BY <1>4 DEF Start
  <2>2. /\ pc' \in [Worker -> Places] /\ WorkersSound'
        /\ Cardinality(threads') = Cardinality(threads) + 1 /\ Cardinality(threads) \in Nat
        /\ \A v \in Worker : pc'[v] \in {"got", "quit"} <=> pc[v] \in {"got", "quit"}
        /\ \A v \in Worker : pc'[v] = "got" <=> pc[v] = "got"
    BY <1>1, <2>1, ThreadStarts
  <2>3. Typing' /\ NoneSound'
    BY <1>1, <2>1, <2>2 DEF IInv, Typing, NoneSound
  <2>4. StartSound' /\ StayingEnough'
    BY <1>1, <1>2, <1>4, <2>1, <2>2 DEF StartSound, StayingEnough
  <2>5. TimersSound => TimersSound'
    BY <1>1, <2>1 DEF TimersSound, Late
  <2> QED
    BY <1>1, <1>3, <2>2, <2>3, <2>4, <2>5 DEF IInv
<1>5. CASE ~(Cardinality(threads) < MinThreads)
  <2>1. runmode' = "running" /\ loop' = "events" /\ UNCHANGED <<threads, pc>>
    BY <1>5 DEF Start
  <2>2. WorkersSound'
    BY <1>1, <2>1, WorkersStay DEF WorkersKept
  <2>3. Typing' /\ NoneSound' /\ StartSound'
    BY <1>1, <1>2, <2>1 DEF IInv, Typing, NoneSound, StartSound
  <2>4. StayingEnough'
    <3>1. Staying' = threads /\ threads' = threads
      BY <1>2, <2>1 DEF IInv, WorkersSound, Staying, Working
    <3>2. IsFiniteSet(threads) /\ Cardinality(threads) \in Nat
      <4>1. IsFiniteSet(threads)
        BY FS_Subset, ServerAssumption DEF IInv, WorkersSound
      <4> QED
        BY <4>1, FS_CardinalityType
    <3>3. Max({MinThreads, MaxThreads}) \in Nat /\ Max({MinThreads, MaxThreads}) >= MinThreads
      BY MaxOfTwo
    <3> QED
      BY <1>2, <1>5, <3>1, <3>2, <3>3 DEF StayingEnough
  <2>5. TimersSound => TimersSound'
    BY <1>1, <2>1 DEF TimersSound, Late
  <2> QED
    BY <1>1, <1>3, <2>2, <2>3, <2>4, <2>5 DEF IInv
<1> QED
  BY <1>4, <1>5

(* The first event is gone, and the workers are as they were.              *)
LEMMA EventGone ==
  ASSUME IInv, NEW on \in {"idle", "active", "timeout", "noWaiting"}, Next1(on),
         UNCHANGED <<pc, hand, threads, terminatedThreads, runmode, loop>>,
         asleep' \cup awake' = asleep \cup awake
  PROVE  /\ events' \in Seq(Events) /\ Head(events) \in Events /\ Head(events) = Event(on, X)
         /\ on # "noWaiting" => X \in Socket
         /\ WorkersSound' /\ StartSound' /\ StayingEnough' /\ loop = "events"
         /\ \A s : InIdle(s)' = InIdle(s) - (IF on = "idle" /\ X = s THEN 1 ELSE 0)
         /\ \A s : InActive(s)' = InActive(s) - (IF on = "active" /\ X = s THEN 1 ELSE 0)
         /\ \A s : Times(Late(s), events') =
                     Times(Late(s), events) - (IF on = "timeout" /\ X = s THEN 1 ELSE 0)
<1> DEFINE e == Head(events)
<1>1. /\ events' \in Seq(Events) /\ e \in Events /\ e.on = on /\ e = Event(on, X)
      /\ Times(e, events') = Times(e, events) - 1 /\ Times(e, events) > 0
      /\ \A x : x # e => Times(x, events') = Times(x, events)
      /\ \A x : Times(x, events) \in Nat /\ Times(x, events') \in Nat
  BY OtherEvents
<1>2. on # "noWaiting" => X \in Socket
  <2>1. e.x = X
    BY DEF X
  <2> QED
    BY <1>1, <2>1 DEF Events
<1> HIDE DEF e
<1>3. loop = "events"
  BY DEF Next1
<1>4. \A a, s : Event(a, s) = e <=> a = on /\ s = X
  BY <1>1, EventsDiffer
<1>5. WorkersSound' /\ StayingEnough'
  <2>1. \A v \in Worker : Times(Ended(v), events') = Times(Ended(v), events)
    BY <1>1, <1>4 DEF Ended
  <2> QED
    BY <2>1, WorkersStay DEF WorkersKept
<1>6. StartSound'
  <2>1. Times(Event("start", 0), events') = Times(Event("start", 0), events)
    BY <1>1, <1>4
  <2>2. ~(Times(Event("start", 0), events) > 0)
    <3>1. SUFFICES ASSUME events = <<Event("start", 0)>> PROVE FALSE
      BY DEF IInv, StartSound
    <3>2. e = Event("start", 0)
      BY <3>1 DEF e
    <3> QED
      BY <1>1, <3>2 DEF Event
  <2> QED
    BY <2>1, <2>2 DEF IInv, StartSound
<1>7. \A a, s : Times(Event(a, s), events') =
                  Times(Event(a, s), events) - (IF a = on /\ s = X THEN 1 ELSE 0)
  BY <1>1, <1>4
<1> QED
  BY <1>1, <1>2, <1>3, <1>5, <1>6, <1>7 DEF InIdle, InActive, Late, e

LEMMA IdleStep ==
  ASSUME IInv, OnIdleSocket
  PROVE  IInv'
<1>1. /\ Next1("idle") /\ idleSockets' = idleSockets \cup {X}
      /\ UNCHANGED <<queue, asleep, awake, runmode, threads, terminatedThreads, pc, hand,
                     loop, socket, raced, broken>>
  BY DEF OnIdleSocket, queueVars, threadVars, loopVars, socketVars, history
<1>2. /\ events' \in Seq(Events) /\ Head(events) = Event("idle", X) /\ X \in Socket
      /\ WorkersSound' /\ StartSound' /\ StayingEnough' /\ loop = "events"
      /\ \A s : InIdle(s)' = InIdle(s) - (IF X = s THEN 1 ELSE 0)
      /\ \A s : InActive(s)' = InActive(s)
      /\ \A s : Times(Late(s), events') = Times(Late(s), events)
  <2>1. \A s : /\ InActive(s) \in Nat /\ Times(Late(s), events) \in Nat
    BY OwnersType, TimesType DEF IInv, Typing
  <2> QED
    BY <1>1, <2>1, EventGone
<1>3. Typing' /\ NoneSound'
  BY <1>1, <1>2 DEF IInv, Typing, NoneSound
<1>4. InIdle(X) > 0
  BY <1>1, <1>2, OtherEvents DEF InIdle
<1>5. TimersSound => TimersSound'
  BY <1>1, <1>2 DEF TimersSound
<1>6. ASSUME ~raced, NEW s \in Socket PROVE Owners(s)' = Owners(s)
  <2>1. Owners(s) =< 1
    BY <1>6 DEF IInv, Owned
  <2>2. X \notin idleSockets
    <3>1. Owners(X) =< 1
      BY <1>2, <1>6 DEF IInv, Owned
    <3>2. SUFFICES ASSUME IsIdle(X) = 1 PROVE FALSE
      BY DEF IsIdle
    <3> QED
      BY <1>4, <3>1, <3>2, OwnersType DEF IInv
  <2>3. IsIdle(s)' = IsIdle(s) + (IF X = s THEN 1 ELSE 0)
    BY <1>1, <2>2 DEF IsIdle
  <2>4. InQueue(s)' = InQueue(s) /\ InHands(s)' = InHands(s)
    BY <1>1, PlacesKept
  <2> QED
    BY <1>2, <2>3, <2>4, OwnersType, OwnersThen DEF IInv
<1> QED
  BY <1>1, <1>2, <1>3, <1>5, <1>6 DEF IInv, Owned, Exists

LEMMA ActiveStep ==
  ASSUME IInv, OnActiveSocket
  PROVE  IInv'
<1>1. /\ Next1("active") /\ Put(X)
      /\ UNCHANGED <<runmode, threads, terminatedThreads, pc, hand, idleSockets,
                     loop, socket, raced, broken>>
  BY DEF OnActiveSocket, threadVars, loopVars, socketVars, history
<1>2. X \in Socket /\ X # None
  <2>1. Head(events) \in Events /\ Head(events).on = "active"
    BY <1>1, OtherEvents
  <2> QED
    BY <2>1, ServerAssumption DEF Events, X
<1>3. /\ queue' \in Seq(Socket \cup {None})
      /\ \A s : Times(s, queue') = Times(s, queue) + (IF X = s THEN 1 ELSE 0)
      /\ asleep' \cup awake' = asleep \cup awake
  BY <1>1, <1>2, PutCounts DEF IInv
<1>4. /\ events' \in Seq(Events)
      /\ WorkersSound' /\ StartSound' /\ StayingEnough' /\ loop = "events"
      /\ \A s : InIdle(s)' = InIdle(s)
      /\ \A s : InActive(s)' = InActive(s) - (IF X = s THEN 1 ELSE 0)
      /\ \A s : Times(Late(s), events') = Times(Late(s), events)
  <2>1. \A s : /\ InIdle(s) \in Nat /\ Times(Late(s), events) \in Nat
    BY OwnersType, TimesType DEF IInv, Typing
  <2> QED
    BY <1>1, <1>3, <2>1, EventGone
<1>5. Typing'
  BY <1>1, <1>3, <1>4 DEF IInv, Typing
<1>6. NoneSound'
  <2>1. Times(None, queue') = Times(None, queue)
    <3>1. Times(None, queue) \in Nat
      BY TimesType DEF IInv, Typing
    <3> QED
      BY <1>2, <1>3, <3>1
  <2> QED
    BY <1>1, <2>1 DEF IInv, NoneSound
<1>7. TimersSound => TimersSound'
  BY <1>1, <1>4 DEF TimersSound
<1>8. ASSUME NEW s \in Socket PROVE Owners(s)' = Owners(s)
  <2>1. InQueue(s)' = InQueue(s) + (IF X = s THEN 1 ELSE 0)
    BY <1>3 DEF InQueue
  <2>2. IsIdle(s)' = IsIdle(s) /\ InHands(s)' = InHands(s)
    BY <1>1, PlacesKept
  <2> QED
    BY <1>4, <2>1, <2>2, OwnersType, OwnersThen DEF IInv
<1> QED
  BY <1>1, <1>4, <1>5, <1>6, <1>7, <1>8 DEF IInv, Owned, Exists

(* A timer that has not raced is that of an idle socket, which is deleted. *)
LEMMA TimeoutStep ==
  ASSUME IInv, OnKeepAliveTimeout
  PROVE  IInv'
<1>1. /\ Next1("timeout") /\ idleSockets' = idleSockets \ {X}
      /\ broken' = (socket[X] = "deleted") /\ socket' = [socket EXCEPT ![X] = "deleted"]
      /\ UNCHANGED <<queue, asleep, awake, runmode, threads, terminatedThreads, pc, hand,
                     loop, raced>>
  BY DEF OnKeepAliveTimeout, Delete, queueVars, threadVars, loopVars
<1>2. /\ events' \in Seq(Events) /\ Head(events) = Event("timeout", X) /\ X \in Socket
      /\ WorkersSound' /\ StartSound' /\ StayingEnough' /\ loop = "events"
      /\ \A s : InIdle(s)' = InIdle(s) /\ InActive(s)' = InActive(s)
      /\ \A s : Times(Late(s), events') = Times(Late(s), events) - (IF X = s THEN 1 ELSE 0)
  <2>1. \A s : InActive(s) \in Nat /\ InIdle(s) \in Nat
    BY OwnersType DEF IInv
  <2> QED
    BY <1>1, <2>1, EventGone
<1>3. Typing' /\ NoneSound'
  BY <1>1, <1>2 DEF IInv, Typing, NoneSound
<1>4. /\ Times(Late(X), events) > 0 /\ \A s : Times(Late(s), events) \in Nat
      /\ \A s : Times(Late(s), events') \in Nat
  BY <1>1, <1>2, OtherEvents DEF Late
<1>5. ASSUME ~raced PROVE ~broken' /\ TimersSound' /\ Owned'
  <2>1. /\ X \in idleSockets /\ Times(Late(X), events') = 0
    BY <1>2, <1>4, <1>5 DEF IInv, TimersSound
  <2>2. IsIdle(X) = 1
    BY <2>1 DEF IsIdle
  <2>3. Exists(X) /\ Owners(X) = 1
    BY <1>2, <1>5, <2>2, OwnersType DEF IInv, Owned
  <2>4. TimersSound'
    <3>1. \A s \in Socket : Times(Late(s), events') > 0 => s # X /\ Times(Late(s), events) > 0
      BY <1>2, <1>4, <2>1
    <3>2. \A s \in Socket : Times(Late(s), events') =< 1
      BY <1>2, <1>4, <1>5 DEF IInv, TimersSound
    <3> QED
      BY <1>1, <1>2, <1>5, <3>1, <3>2 DEF IInv, TimersSound
  <2>5. ASSUME NEW s \in Socket PROVE Owners(s)' = IF Exists(s)' THEN 1 ELSE 0
    <3>1. IsIdle(s)' = IsIdle(s) - (IF X = s THEN 1 ELSE 0)
      BY <1>1, <2>1 DEF IsIdle
    <3>2. InQueue(s)' = InQueue(s) /\ InHands(s)' = InHands(s)
      BY <1>1, PlacesKept
    <3>3. Owners(s)' = Owners(s) - (IF X = s THEN 1 ELSE 0)
      BY <1>2, <3>1, <3>2, OwnersType, OwnersThen DEF IInv
    <3>4. Exists(s)' <=> Exists(s) /\ X # s
      BY <1>1, <1>2 DEF Exists, IInv, Typing
    <3>5. Owners(s) = IF Exists(s) THEN 1 ELSE 0
      BY <1>5 DEF IInv, Owned
    <3> QED
      BY <2>3, <3>3, <3>4, <3>5
  <2> QED
    BY <1>1, <2>3, <2>4, <2>5 DEF Owned, Exists
<1> QED
  BY <1>1, <1>2, <1>3, <1>5 DEF IInv

(* An event that has nothing to do with sockets leaves them alone.         *)
LEMMA SocketsKept ==
  ASSUME IInv, events' \in Seq(Events),
         UNCHANGED <<queue, idleSockets, hand, socket, raced, broken>>,
         loop' = loop \/ (loop = "events" /\ loop' # "wait"),
         \A s \in Socket : /\ Times(Event("idle", s), events') = Times(Event("idle", s), events)
                           /\ Times(Event("active", s), events') = Times(Event("active", s), events)
                           /\ Times(Late(s), events') = Times(Late(s), events)
  PROVE  ~raced => ~broken' /\ TimersSound' /\ Owned'
<1>1. TimersSound => TimersSound'
  BY DEF TimersSound
<1>2. ASSUME NEW s \in Socket PROVE Owners(s)' = Owners(s)
  <2>1. InQueue(s)' = InQueue(s) /\ InHands(s)' = InHands(s) /\ IsIdle(s)' = IsIdle(s)
    BY PlacesKept
  <2>2. InIdle(s)' = InIdle(s) /\ InActive(s)' = InActive(s)
    BY DEF InIdle, InActive
  <2> QED
    BY <2>1, <2>2, OwnersType, OwnersThen DEF IInv
<1> QED
  BY <1>1, <1>2 DEF IInv, Owned, Exists

LEMMA NoWaitingStep ==
  ASSUME IInv, OnNoWaitingThreads \/ ThreadFails
  PROVE  IInv'
<1>1. /\ Next1("noWaiting") /\ loop = "events"
      /\ UNCHANGED <<queue, asleep, awake, runmode, terminatedThreads, idleSockets, hand,
                     loop, socket, raced, broken>>
  BY DEF OnNoWaitingThreads, ThreadFails, Next1, queueVars, threadVars, loopVars, socketVars
<1>2. \/ UNCHANGED <<threads, pc>>
      \/ Cardinality(threads) < MaxThreads /\ StartThread
  <2>1. CASE OnNoWaitingThreads
    <3>1. CASE Cardinality(threads) >= MaxThreads
      BY <2>1, <3>1 DEF OnNoWaitingThreads
    <3>2. CASE ~(Cardinality(threads) >= MaxThreads)
      <4>1. IsFiniteSet(threads)
        BY FS_Subset, ServerAssumption DEF IInv, WorkersSound
      <4>2. Cardinality(threads) < MaxThreads
        BY <3>2, <4>1, FS_CardinalityType, ServerAssumption
      <4> QED
        BY <2>1, <3>2, <4>2 DEF OnNoWaitingThreads
    <3> QED
      BY <3>1, <3>2
  <2>2. CASE ThreadFails
    BY <2>2 DEF ThreadFails, threadVars
  <2> QED
    BY <2>1, <2>2
<1>3. CASE UNCHANGED <<threads, pc>>
  <2>1. /\ events' \in Seq(Events)
        /\ WorkersSound' /\ StartSound' /\ StayingEnough'
        /\ \A s : InIdle(s)' = InIdle(s) /\ InActive(s)' = InActive(s)
        /\ \A s : Times(Late(s), events') = Times(Late(s), events)
    <3>1. \A s : /\ InActive(s) \in Nat /\ InIdle(s) \in Nat /\ Times(Late(s), events) \in Nat
      BY OwnersType, TimesType DEF IInv, Typing
    <3> QED
      BY <1>1, <1>3, <3>1, EventGone
  <2>2. Typing' /\ NoneSound'
    BY <1>1, <1>3, <2>1 DEF IInv, Typing, NoneSound
  <2>3. ~raced => ~broken' /\ TimersSound' /\ Owned'
    BY <1>1, <2>1, SocketsKept DEF InIdle, InActive
  <2> QED
    BY <1>1, <2>1, <2>2, <2>3 DEF IInv
<1>4. CASE Cardinality(threads) < MaxThreads /\ StartThread
  <2>1. /\ events' \in Seq(Events) /\ Head(events) \in Events /\ Head(events).on = "noWaiting"
        /\ \A x : x # Head(events) => Times(x, events') = Times(x, events)
        /\ Times(Head(events), events) > 0
    BY <1>1, OtherEvents
  <2>2. /\ \A v : Ended(v) # Head(events) /\ Event("start", v) # Head(events)
        /\ \A s : /\ Event("idle", s) # Head(events) /\ Event("active", s) # Head(events)
                  /\ Late(s) # Head(events)
    BY <2>1 DEF Ended, Late, Event
  <2>3. /\ pc' \in [Worker -> Places] /\ WorkersSound'
        /\ Cardinality(threads') = Cardinality(threads) + 1 /\ Cardinality(threads) \in Nat
        /\ Cardinality(Staying') >= Cardinality(Staying)
        /\ Cardinality(Staying) \in Nat /\ Cardinality(Staying') \in Nat
        /\ \A v \in Worker : pc'[v] = "got" <=> pc[v] = "got"
    BY <1>1, <1>4, <2>1, <2>2, ThreadStarts
  <2>4. Typing' /\ NoneSound'
    BY <1>1, <2>1, <2>3 DEF IInv, Typing, NoneSound
  <2>5. StartSound'
    <3>1. ~(Times(Event("start", 0), events) > 0)
      <4>1. SUFFICES ASSUME events = <<Event("start", 0)>> PROVE FALSE
        BY DEF IInv, StartSound
      <4>2. Head(events) = Event("start", 0)
        BY <4>1
      <4> QED
        BY <2>2, <4>2
    <3> QED
      BY <1>1, <2>1, <2>2, <3>1 DEF IInv, StartSound
  <2>6. StayingEnough'
    <3>1. LET m == Max({MinThreads, MaxThreads}) IN m \in Nat /\ m >= MaxThreads
      BY MaxOfTwo
    <3> QED
      BY <1>1, <1>4, <2>3, <3>1, ServerAssumption DEF IInv, StayingEnough
  <2>7. ~raced => ~broken' /\ TimersSound' /\ Owned'
    BY <1>1, <2>1, <2>2, SocketsKept
  <2> QED
    BY <1>1, <2>3, <2>4, <2>5, <2>6, <2>7 DEF IInv
<1> QED
  BY <1>2, <1>3, <1>4

(* The number of a thread is free when it has been joined.                 *)
LEMMA ThreadTerminatedStep ==
  ASSUME IInv, OnThreadTerminated
  PROVE  IInv'
<1>1. /\ Next1("terminated") /\ loop = "events" /\ pc' = [pc EXCEPT ![X] = "none"]
      /\ UNCHANGED <<queue, asleep, awake, runmode, threads, terminatedThreads, idleSockets,
                     hand, loop, socket, raced, broken>>
  BY DEF OnThreadTerminated, Next1, Go, queueVars, threadVars, loopVars, socketVars, history
<1>2. /\ events' \in Seq(Events) /\ Head(events) \in Events /\ Head(events) = Event("terminated", X)
      /\ \A x : x # Head(events) => Times(x, events') = Times(x, events)
      /\ Times(Head(events), events') = Times(Head(events), events) - 1
      /\ Times(Head(events), events) > 0
      /\ \A x : Times(x, events) \in Nat /\ Times(x, events') \in Nat
      /\ Head(events).on = "terminated"
  BY <1>1, OtherEvents
<1>3. X \in Worker
  <2>1. Head(events).x = X
    BY DEF X
  <2> QED
    BY <1>2, <2>1 DEF Events
<1>4. /\ \A v : Head(events) = Ended(v) <=> v = X
      /\ \A s : /\ Event("idle", s) # Head(events) /\ Event("active", s) # Head(events)
                /\ Late(s) # Head(events) /\ Event("start", s) # Head(events)
  BY <1>2, EventsDiffer DEF Ended, Late
<1> DEFINE w == X
<1> HIDE DEF w
<1>5. w = X
  BY DEF w
<1>6. /\ pc[w] = "ended" /\ w \notin terminatedThreads
      /\ Times(Ended(w), events) = 1 /\ Times(Ended(w), events') = 0
  <2>1. Times(Ended(w), events) + (IF w \in terminatedThreads THEN 1 ELSE 0)
          = IF pc[w] = "ended" THEN 1 ELSE 0
    BY <1>3, <1>5 DEF IInv, WorkersSound
  <2>2. Ended(w) = Head(events)
    BY <1>4, <1>5
  <2> QED
    BY <1>2, <2>1, <2>2
<1>7. /\ pc \in [Worker -> Places] /\ pc' \in [Worker -> Places] /\ pc'[w] = "none"
      /\ \A v \in Worker : v # w => pc'[v] = pc[v]
      /\ hand[w] = None
  BY <1>1, <1>3, <1>5, <1>6 DEF IInv, Typing, Places, WorkersSound, Empty
<1>8. Typing'
  BY <1>1, <1>2, <1>7 DEF IInv, Typing
<1>9. WorkersSound'
  <2>1. threads' = {v \in Worker : Working(v)'}
    BY <1>1, <1>6, <1>7 DEF IInv, WorkersSound, Working
  <2>2. /\ \A v \in Worker : pc'[v] \in Empty => hand'[v] = None
        /\ \A v \in Worker : pc'[v] \in Carries => hand'[v] \in Socket
        /\ \A v \in asleep' \cup awake' : pc'[v] = "get"
    BY <1>1, <1>6, <1>7 DEF IInv, WorkersSound, Carries, Typing
  <2>3. ASSUME NEW v \in Worker
        PROVE  Times(Ended(v), events') + (IF v \in terminatedThreads' THEN 1 ELSE 0)
                 = IF pc'[v] = "ended" THEN 1 ELSE 0
    <3>1. CASE v = w
      BY <1>1, <1>6, <1>7, <3>1
    <3>2. CASE v # w
      BY <1>1, <1>2, <1>4, <1>5, <1>7, <3>2 DEF IInv, WorkersSound
    <3> QED
      BY <3>1, <3>2
  <2> QED
    BY <2>1, <2>2, <2>3 DEF WorkersSound, Ended
<1>10. NoneSound'
  <2>1. ASSUME NEW v \in Worker, pc'[v] = "got" PROVE pc[v] = "got"
    BY <1>7, <2>1
  <2> QED
    BY <1>1, <2>1 DEF IInv, NoneSound
<1>11. StartSound'
  <2>1. ~(Times(Event("start", 0), events) > 0)
    <3>1. SUFFICES ASSUME events = <<Event("start", 0)>> PROVE FALSE
      BY DEF IInv, StartSound
    <3>2. Head(events) = Event("start", 0)
      BY <3>1
    <3> QED
      BY <1>4, <3>2
  <2>2. Times(Event("start", 0), events') = Times(Event("start", 0), events)
    BY <1>2, <1>4
  <2> QED
    BY <1>1, <2>1, <2>2 DEF IInv, StartSound
<1>12. StayingEnough'
  <2>1. Staying' = Staying
    BY <1>6, <1>7 DEF Staying
  <2> QED
    BY <1>1, <2>1 DEF IInv, StayingEnough
<1>13. ~raced => ~broken' /\ TimersSound' /\ Owned'
  BY <1>1, <1>2, <1>4, SocketsKept
<1> QED
  BY <1>1, <1>8, <1>9, <1>10, <1>11, <1>12, <1>13 DEF IInv

LEMMA EventsDoneStep ==
  ASSUME IInv, EventsDone
  PROVE  IInv'
<1>1. /\ loop = "events" /\ loop' \in {"terminate", "wait"}
      /\ loop' = "wait" => events = <<>>
      /\ UNCHANGED <<queue, asleep, awake, runmode, threads, terminatedThreads, idleSockets,
                     pc, hand, events, socket, raced, broken>>
  BY DEF EventsDone, queueVars, threadVars, socketVars, history
<1>2. Typing' /\ NoneSound'
  BY <1>1 DEF IInv, Typing, NoneSound
<1>3. WorkersSound' /\ StayingEnough'
  BY <1>1, WorkersStay DEF WorkersKept
<1>4. loop' = "wait" => \A x : Times(x, events) = 0
  BY <1>1, TimesEmpty
<1>5. StartSound'
  BY <1>1, <1>4 DEF IInv, StartSound
<1>6. ~raced => ~broken' /\ TimersSound' /\ Owned'
  <2>1. TimersSound => TimersSound'
    BY <1>1, <1>4 DEF TimersSound
  <2>2. Owned => Owned'
    BY <1>1 DEF Owned, Owners, Exists
  <2> QED
    BY <1>1, <2>1, <2>2 DEF IInv
<1> QED
  BY <1>1, <1>2, <1>3, <1>5, <1>6 DEF IInv

(* Steps of terminate that only go on.                                     *)
LEMMA TerminateStep ==
  ASSUME IInv, Terminate \/ WakeFails \/ WaitForThreads
  PROVE  IInv'
<1>1. /\ \/ loop = "terminate" /\ loop' = "waking" /\ runmode' = "terminating"
         \/ loop = "waking" /\ loop' = "stopped" /\ runmode' = "failed"
         \/ loop = "joining" /\ loop' = "waiting" /\ runmode' = runmode
      /\ UNCHANGED <<queue, asleep, awake, threads, terminatedThreads, idleSockets,
                     pc, hand, events, socket, raced, broken>>
  BY DEF Terminate, WakeFails, WaitForThreads, queueVars, threadVars, socketVars, history
<1>2. Typing'
  BY <1>1 DEF IInv, Typing
<1>3. NoneSound' /\ StartSound'
  BY <1>1 DEF IInv, NoneSound, StartSound
<1>4. WorkersSound'
  BY <1>1, WorkersStay DEF WorkersKept
<1>5. StayingEnough'
  BY <1>1 DEF IInv, StayingEnough, Staying
<1>6. ~raced => ~broken' /\ TimersSound' /\ Owned'
  BY <1>1 DEF IInv, TimersSound, Owned, Owners, Exists, Late
<1> QED
  BY <1>1, <1>2, <1>3, <1>4, <1>5, <1>6 DEF IInv

LEMMA WakeAllStep ==
  ASSUME IInv, WakeAll
  PROVE  IInv'
<1>1. /\ loop = "waking" /\ loop' = "joining" /\ Put(None)
      /\ UNCHANGED <<runmode, threads, terminatedThreads, idleSockets,
                     pc, hand, events, socket, raced, broken>>
  BY DEF WakeAll, threadVars, socketVars, history
<1>2. /\ queue' \in Seq(Socket \cup {None})
      /\ \A s : Times(s, queue') = Times(s, queue) + (IF None = s THEN 1 ELSE 0)
      /\ asleep' \cup awake' = asleep \cup awake
  BY <1>1, PutCounts DEF IInv
<1>3. Typing'
  BY <1>1, <1>2 DEF IInv, Typing
<1>4. NoneSound' /\ StartSound'
  BY <1>1 DEF IInv, NoneSound, StartSound
<1>5. WorkersSound' /\ StayingEnough'
  BY <1>1, <1>2, WorkersStay DEF WorkersKept
<1>6. TimersSound => TimersSound'
  BY <1>1 DEF TimersSound, Late
<1>7. ASSUME NEW s \in Socket PROVE Owners(s)' = Owners(s)
  <2>1. s # None
    BY ServerAssumption
  <2>2. InQueue(s)' = InQueue(s)
    BY <1>2, <2>1, OwnersType DEF IInv, InQueue
  <2>3. /\ InHands(s)' = InHands(s) /\ IsIdle(s)' = IsIdle(s)
        /\ InIdle(s)' = InIdle(s) /\ InActive(s)' = InActive(s)
    BY <1>1, PlacesKept
  <2> QED
    BY <2>2, <2>3, OwnersType, OwnersThen DEF IInv
<1> QED
  BY <1>1, <1>3, <1>4, <1>5, <1>6, <1>7 DEF IInv, Owned, Exists

LEMMA JoinStep ==
  ASSUME IInv, Join
  PROVE  IInv'
<1>1. /\ loop \in {"woken", "joining"} /\ loop' = "joining" /\ terminatedThreads' = {}
      /\ pc' = [w \in Worker |-> IF w \in terminatedThreads THEN "none" ELSE pc[w]]
      /\ UNCHANGED <<queue, asleep, awake, runmode, threads, idleSockets,
                     hand, events, socket, raced, broken>>
  BY DEF Join, queueVars, socketVars, history
<1>2. /\ pc \in [Worker -> Places] /\ \A v \in Worker : Times(Ended(v), events) \in Nat
  BY TimesType DEF IInv, Typing
<1>3. \A v \in terminatedThreads : v \in Worker /\ pc[v] = "ended" /\ Times(Ended(v), events) = 0
  <2>1. ASSUME NEW v \in terminatedThreads
        PROVE  v \in Worker /\ pc[v] = "ended" /\ Times(Ended(v), events) = 0
    <3>1. v \in Worker
      BY DEF IInv, Typing
    <3>2. Times(Ended(v), events) + 1 = IF pc[v] = "ended" THEN 1 ELSE 0
      BY <3>1 DEF IInv, WorkersSound
    <3> QED
      BY <1>2, <3>1, <3>2
  <2> QED
    BY <2>1
<1>4. /\ pc' \in [Worker -> Places]
      /\ \A v \in Worker : v \in terminatedThreads => pc'[v] = "none" /\ pc[v] = "ended"
      /\ \A v \in Worker : v \notin terminatedThreads => pc'[v] = pc[v]
  BY <1>1, <1>2, <1>3 DEF Places
<1>5. Typing'
  BY <1>1, <1>4 DEF IInv, Typing
<1>6. WorkersSound'
  <2>1. threads' = {v \in Worker : Working(v)'}
    BY <1>1, <1>4 DEF IInv, WorkersSound, Working
  <2>2. /\ \A v \in Worker : pc'[v] \in Empty => hand'[v] = None
        /\ \A v \in Worker : pc'[v] \in Carries => hand'[v] \in Socket
    BY <1>1, <1>4 DEF IInv, WorkersSound, Carries, Empty
  <2>3. \A v \in asleep' \cup awake' : pc'[v] = "get"
    BY <1>1, <1>4 DEF IInv, WorkersSound, Typing
  <2>4. ASSUME NEW v \in Worker
        PROVE  Times(Ended(v), events') + (IF v \in terminatedThreads' THEN 1 ELSE 0)
                 = IF pc'[v] = "ended" THEN 1 ELSE 0
    <3>1. CASE v \in terminatedThreads
      BY <1>1, <1>3, <1>4, <3>1
    <3>2. CASE v \notin terminatedThreads
      BY <1>1, <1>4, <3>2 DEF IInv, WorkersSound
    <3> QED
      BY <3>1, <3>2
  <2> QED
    BY <2>1, <2>2, <2>3, <2>4 DEF WorkersSound, Ended
<1>7. NoneSound'
  <2>1. ASSUME NEW v \in Worker, pc'[v] = "got" PROVE pc[v] = "got"
    BY <1>4, <2>1
  <2> QED
    BY <1>1, <2>1 DEF IInv, NoneSound
<1>8. StartSound' /\ StayingEnough'
  <2>1. Staying' = Staying
    BY <1>4 DEF Staying
  <2> QED
    BY <1>1, <2>1 DEF IInv, StartSound, StayingEnough
<1>9. ~raced => ~broken' /\ TimersSound' /\ Owned'
  BY <1>1 DEF IInv, TimersSound, Owned, Owners, Exists, Late
<1> QED
  BY <1>1, <1>5, <1>6, <1>7, <1>8, <1>9 DEF IInv

(* What is left in the queue or idle is in no other place.                 *)
LEMMA CleanUpStep ==
  ASSUME IInv, CleanUp
  PROVE  IInv'
<1> DEFINE left == (ToSet(queue) \cup idleSockets) \ {None}
<1>1. /\ loop = "joining" /\ threads = {} /\ terminatedThreads = {}
      /\ socket' = [s \in Socket |-> IF s \in left THEN "deleted" ELSE socket[s]]
      /\ broken' = (broken \/ \E s \in left : socket[s] = "deleted")
      /\ queue' = <<>> /\ idleSockets' = {} /\ runmode' = "stopped" /\ loop' = "stopped"
      /\ UNCHANGED <<asleep, awake, threads, terminatedThreads, pc, hand, events, raced>>
  BY DEF CleanUp
<1>2. \A s \in Socket : s \in left <=> InQueue(s) > 0 \/ s \in idleSockets
  <2>1. ASSUME NEW s \in Socket PROVE s \in left <=> InQueue(s) > 0 \/ s \in idleSockets
    <3>1. s # None
      BY ServerAssumption
    <3>2. Times(s, queue) > 0 <=> \E i \in DOMAIN queue : queue[i] = s
      BY TimesType DEF IInv, Typing
    <3> QED
      BY <3>1, <3>2 DEF ToSet, InQueue
  <2> QED
    BY <2>1
<1>3. left \subseteq Socket
  BY DEF IInv, Typing, ToSet
<1> HIDE DEF left
<1>4. \A w \in Worker : pc[w] \in {"none", "ended"} /\ hand[w] = None
  BY <1>1, NoWorkersNoQuit
<1>5. Typing'
  <2>1. broken' \in BOOLEAN
    BY <1>1
  <2>2. socket' \in [Socket -> {"unused", "accepts", "open", "deleted"}]
    BY <1>1 DEF IInv, Typing
  <2> QED
    BY <1>1, <2>1, <2>2 DEF IInv, Typing
<1>6. WorkersSound'
  BY <1>1, WorkersStay DEF WorkersKept
<1>7. NoneSound' /\ StartSound' /\ StayingEnough'
  <2>1. ~(Times(None, queue') > 0)
    BY <1>1, TimesEmpty
  <2>2. NoneSound'
    BY <1>1, <1>4, <2>1 DEF NoneSound
  <2> QED
    BY <1>1, <2>2 DEF IInv, StartSound, StayingEnough
<1>8. ASSUME ~raced PROVE ~broken' /\ TimersSound' /\ Owned'
  <2>1. ASSUME NEW s \in Socket PROVE s \in left => Exists(s)
    <3>1. s \in left => InQueue(s) > 0 \/ IsIdle(s) = 1
      BY <1>2 DEF IsIdle
    <3>2. s \in left => Owners(s) > 0
      BY <3>1, OwnersType DEF IInv
    <3> QED
      BY <1>8, <3>2 DEF IInv, Owned
  <2>2. ~broken'
    BY <1>1, <1>3, <1>8, <2>1 DEF IInv, Exists
  <2>3. TimersSound'
    BY <1>1, <1>8 DEF IInv, TimersSound, Late
  <2>4. ASSUME NEW s \in Socket PROVE Owners(s)' = IF Exists(s)' THEN 1 ELSE 0
    <3>1. /\ InQueue(s)' = 0 /\ IsIdle(s)' = 0
          /\ InIdle(s)' = InIdle(s) /\ InActive(s)' = InActive(s) /\ InHands(s)' = InHands(s)
      BY <1>1, PlacesKept, TimesEmpty DEF InQueue, IsIdle
    <3>2. Exists(s)' <=> Exists(s) /\ s \notin left
      BY <1>1 DEF Exists
    <3>3. Owners(s) = IF Exists(s) THEN 1 ELSE 0
      BY <1>8 DEF IInv, Owned
    <3>4. CASE s \in left
      <4>1. Owners(s) = 1
        BY <2>1, <3>3, <3>4
      <4>2. InQueue(s) > 0 \/ IsIdle(s) = 1
        BY <1>2, <3>4 DEF IsIdle
      <4> QED
        BY <3>1, <3>2, <3>4, <4>1, <4>2, OwnersType, OwnersThen DEF IInv
    <3>5. CASE s \notin left
      <4>1. IsIdle(s) = 0 /\ ~(InQueue(s) > 0)
        BY <1>2, <3>5 DEF IsIdle
      <4> QED
        BY <3>1, <3>2, <3>3, <3>5, <4>1, OwnersType, OwnersThen DEF IInv
    <3> QED
      BY <3>4, <3>5
  <2> QED
    BY <2>2, <2>3, <2>4 DEF Owned, Exists
<1> QED
  BY <1>1, <1>5, <1>6, <1>7, <1>8 DEF IInv

(* A pass of the selector appends an event for each timer and each input.  *)
LEMMA EventsOf ==
  ASSUME NEW on \in {"timeout", "active"}, NEW S \in SUBSET Socket
  PROVE  LET q == SetToSeq({Event(on, s) : s \in S})
         IN  /\ q \in Seq(Events)
             /\ \A a, x : Times(Event(a, x), q) = IF a = on /\ x \in S THEN 1 ELSE 0
<1> DEFINE E == {Event(on, s) : s \in S}
           f == [s \in S |-> Event(on, s)]
<1>1. IsFiniteSet(S)
  BY FS_Subset, ServerAssumption
<1>2. f \in [S -> E] /\ \A x, y \in S : f[x] = f[y] => x = y
  BY EventsDiffer
<1>3. \A y \in E : \E x \in S : f[x] = y
  OBVIOUS
<1> HIDE DEF f
<1>4. IsFiniteSet(E)
  BY <1>1, <1>2, <1>3, Bijected
<1>5. E \subseteq Events
  BY DEF Event, Events
<1>6. \A a, x : Event(a, x) \in E <=> a = on /\ x \in S
  BY EventsDiffer
<1> HIDE DEF E
<1>7. SetToSeq(E) \in Seq(E) /\ \A e : Times(e, SetToSeq(E)) = IF e \in E THEN 1 ELSE 0
  BY <1>4, TimesOfSet
<1>8. SetToSeq(E) \in Seq(Events)
  BY <1>5, <1>7
<1> QED
  BY <1>6, <1>7, <1>8 DEF E

LEMMA TimesConcat4 ==
  ASSUME NEW T, NEW q \in Seq(T), NEW a \in Seq(T), NEW b \in Seq(T), NEW c \in Seq(T), NEW s
  PROVE  /\ q \o a \o b \o c \in Seq(T)
         /\ Times(s, q \o a \o b \o c) = Times(s, q) + Times(s, a) + Times(s, b) + Times(s, c)
<1>1. q \o a \in Seq(T) /\ q \o a \o b \in Seq(T) /\ q \o a \o b \o c \in Seq(T)
  OBVIOUS
<1>2. Times(s, q \o a) = Times(s, q) + Times(s, a)
  BY TimesConcat
<1>3. Times(s, q \o a \o b) = Times(s, q \o a) + Times(s, b)
  BY <1>1, TimesConcat
<1>4. Times(s, q \o a \o b \o c) = Times(s, q \o a \o b) + Times(s, c)
  BY <1>1, TimesConcat
<1> QED
  BY <1>1, <1>2, <1>3, <1>4

LEMMA WaitStep ==
  ASSUME IInv, Wait
  PROVE  IInv'
<1> DEFINE ready == {s \in idleSockets : peer[s] # "quiet"}
           InSet(s, S) == IF s \in S THEN 1 ELSE 0
<1>1. /\ loop = "wait" /\ loop' = "events" /\ idleSockets' = idleSockets \ ready
      /\ UNCHANGED <<queue, asleep, awake, runmode, threads, terminatedThreads,
                     pc, hand, socket, broken>>
  BY DEF Wait, NoLongerIdle, queueVars, threadVars, socketVars
<1>2. PICK elapsed \in SUBSET idleSockets, twice \in SUBSET idleSockets :
        /\ events' = events \o SetToSeq({Event("timeout", s) : s \in elapsed})
                            \o SetToSeq({Event("timeout", s) : s \in twice})
                            \o SetToSeq({Event("active", s) : s \in ready})
        /\ raced' = (raced \/ (elapsed \cap ready) \cup twice # {})
  BY DEF Wait
<1>3. /\ ready \subseteq idleSockets /\ elapsed \subseteq Socket /\ twice \subseteq Socket
      /\ ready \subseteq Socket /\ events \in Seq(Events) /\ Typing
  BY DEF IInv, Typing
<1> HIDE DEF ready
<1>4. /\ events' \in Seq(Events)
      /\ \A a, x : Times(Event(a, x), events') =
             Times(Event(a, x), events)
               + (IF a = "timeout" /\ x \in elapsed THEN 1 ELSE 0)
               + (IF a = "timeout" /\ x \in twice THEN 1 ELSE 0)
               + (IF a = "active" /\ x \in ready THEN 1 ELSE 0)
  <2> DEFINE a1 == SetToSeq({Event("timeout", s) : s \in elapsed})
             a2 == SetToSeq({Event("timeout", s) : s \in twice})
             a3 == SetToSeq({Event("active", s) : s \in ready})
  <2>1. /\ a1 \in Seq(Events)
        /\ \A a, x : Times(Event(a, x), a1) = IF a = "timeout" /\ x \in elapsed THEN 1 ELSE 0
    BY <1>3, EventsOf
  <2>2. /\ a2 \in Seq(Events)
        /\ \A a, x : Times(Event(a, x), a2) = IF a = "timeout" /\ x \in twice THEN 1 ELSE 0
    BY <1>3, EventsOf
  <2>3. /\ a3 \in Seq(Events)
        /\ \A a, x : Times(Event(a, x), a3) = IF a = "active" /\ x \in ready THEN 1 ELSE 0
    BY <1>3, EventsOf
  <2>4. events' = events \o a1 \o a2 \o a3
    BY <1>2
  <2> HIDE DEF a1, a2, a3
  <2>5. events' \in Seq(Events)
    BY <1>3, <2>1, <2>2, <2>3, <2>4
  <2>6. ASSUME NEW a, NEW x
        PROVE  Times(Event(a, x), events') =
                 Times(Event(a, x), events) + Times(Event(a, x), a1) + Times(Event(a, x), a2)
                   + Times(Event(a, x), a3)
    BY <1>3, <2>1, <2>2, <2>3, <2>4, TimesConcat4
  <2> QED
    BY <2>1, <2>2, <2>3, <2>5, <2>6
<1>5. \A e : Times(e, events) \in Nat
  BY <1>3, TimesType
<1>6. /\ \A v : Times(Ended(v), events') = Times(Ended(v), events)
      /\ \A s : Times(Event("start", s), events') = Times(Event("start", s), events)
      /\ \A s : InIdle(s)' = InIdle(s)
      /\ \A s : InActive(s)' = InActive(s) + (IF s \in ready THEN 1 ELSE 0)
      /\ \A s : Times(Late(s), events') =
                  Times(Late(s), events) + (IF s \in elapsed THEN 1 ELSE 0)
                    + (IF s \in twice THEN 1 ELSE 0)
  BY <1>4, <1>5 DEF Ended, Late, InIdle, InActive
<1>7. Typing'
  <2>1. raced' \in BOOLEAN
    BY <1>2
  <2> QED
    BY <1>1, <1>4, <2>1 DEF IInv, Typing
<1>8. WorkersSound' /\ StayingEnough'
  BY <1>1, <1>6, WorkersStay DEF WorkersKept
<1>9. NoneSound' /\ StartSound'
  BY <1>1, <1>6 DEF IInv, NoneSound, StartSound
<1>10. ASSUME ~raced' PROVE ~broken' /\ TimersSound' /\ Owned'
  <2>1. ~raced /\ elapsed \cap ready = {} /\ twice = {}
    BY <1>2, <1>10
  <2>2. \A s \in Socket : Times(Late(s), events') = IF s \in elapsed THEN 1 ELSE 0
    BY <1>1, <1>6, <2>1 DEF IInv, TimersSound
  <2>3. TimersSound'
    BY <1>1, <2>1, <2>2 DEF TimersSound, Late
  <2>4. ASSUME NEW s \in Socket PROVE Owners(s)' = Owners(s)
    <3>1. IsIdle(s)' = IsIdle(s) - (IF s \in ready THEN 1 ELSE 0)
      BY <1>1, <1>3 DEF IsIdle
    <3>2. InQueue(s)' = InQueue(s) /\ InHands(s)' = InHands(s)
      BY <1>1, PlacesKept
    <3> QED
      BY <1>3, <1>6, <3>1, <3>2, OwnersType, OwnersThen
  <2> QED
    BY <1>1, <2>1, <2>3, <2>4 DEF IInv, Owned, Exists
<1> QED
  BY <1>7, <1>8, <1>9, <1>10 DEF IInv

-----------------------------------------------------------------------------
LEMMA InitOK == Init => IInv
<1> SUFFICES ASSUME Init PROVE IInv
  OBVIOUS
<1> DEFINE n == Cardinality(Listener)
<1>1. n \in Nat /\ 1 .. n \subseteq Socket /\ DOMAIN SetToSeq(Listener) = 1 .. n
  <2>1. IsFiniteSet(Listener) /\ SetToSeq(Listener) \in Seq(Listener)
    BY TimesOfSet, ServerAssumption
  <2>2. n \in Nat /\ 1 .. n \subseteq Socket /\ ExistsBijection(1 .. n, Listener)
    BY <2>1, FS_CardinalityType, ServerAssumption
  <2>3. PICK f \in [1 .. n -> Listener] : IsInjective(f)
    BY <2>2 DEF ExistsBijection, Bijection, Injection, IsInjective
  <2>4. SetToSeq(Listener) \in [1 .. n -> Listener]
    BY <2>3, Zenon DEF SetToSeq
  <2> QED
    BY <2>2, <2>4
<1>2. /\ socket = [s \in Socket |-> IF s \in 1 .. n THEN "accepts" ELSE "unused"]
      /\ queue = [i \in 1 .. n |-> i]
      /\ asleep = {} /\ awake = {} /\ runmode = "stopped" /\ threads = {}
      /\ terminatedThreads = {} /\ idleSockets = {}
      /\ pc = [w \in Worker |-> "none"] /\ hand = [w \in Worker |-> None]
      /\ loop = "events" /\ events = <<Event("start", 0)>> /\ raced = FALSE /\ broken = FALSE
  BY <1>1 DEF Init
<1> HIDE DEF n
<1>3. \A s : Times(s, queue) = IF s \in 1 .. n THEN 1 ELSE 0
  <2>1. ASSUME NEW s, s \in 1 .. n PROVE Times(s, queue) = 1
    <3>1. {i \in DOMAIN queue : queue[i] = s} = {s}
      BY <1>2, <2>1
    <3> QED
      BY <3>1, FS_Singleton DEF Times
  <2>2. ASSUME NEW s, s \notin 1 .. n PROVE Times(s, queue) = 0
    <3>1. {i \in DOMAIN queue : queue[i] = s} = {}
      BY <1>2, <2>2
    <3> QED
      BY <3>1, FS_EmptySet DEF Times
  <2> QED
    BY <2>1, <2>2
<1>4. events \in Seq(Events)
  BY <1>2 DEF Event, Events
<1>5. \A e : Times(e, events) = IF e = Event("start", 0) THEN 1 ELSE 0
  <2>1. ASSUME NEW e PROVE Times(e, events) = IF e = Event("start", 0) THEN 1 ELSE 0
    <3>1. events = Append(<<>>, Event("start", 0)) /\ <<>> \in Seq({Event("start", 0)})
      BY <1>2
    <3>2. Times(e, Append(<<>>, Event("start", 0)))
            = Times(e, <<>>) + (IF Event("start", 0) = e THEN 1 ELSE 0)
      BY <3>1, TimesAppend
    <3> QED
      BY <3>1, <3>2, TimesEmpty
  <2> QED
    BY <2>1
<1>6. Typing
  <2>1. queue \in Seq(Socket \cup {None})
    BY <1>1, <1>2
  <2> QED
    BY <1>2, <1>4, <2>1 DEF Typing, Places
<1>7. WorkersSound
  BY <1>2, <1>5, EventsDiffer DEF WorkersSound, Working, Ended, Carries
<1>8. NoneSound
  <2>1. None \notin 1 .. n
    BY <1>1 DEF None
  <2> QED
    BY <1>2, <1>3, <2>1 DEF NoneSound
<1>9. StartSound /\ StayingEnough
  BY <1>2 DEF StartSound, StayingEnough
<1>10. TimersSound
  BY <1>2, <1>5, EventsDiffer DEF TimersSound, Late
<1>11. ASSUME NEW s \in Socket PROVE Owners(s) = IF Exists(s) THEN 1 ELSE 0
  <2>1. InIdle(s) = 0 /\ InActive(s) = 0 /\ IsIdle(s) = 0
    BY <1>2, <1>5, EventsDiffer DEF InIdle, InActive, IsIdle
  <2>2. InHands(s) = 0
    <3>1. Holders(s) = {}
      BY <1>2, ServerAssumption DEF Holders
    <3> QED
      BY <3>1, FS_EmptySet DEF InHands
  <2>3. InQueue(s) = IF s \in 1 .. n THEN 1 ELSE 0
    BY <1>3 DEF InQueue
  <2>4. Exists(s) <=> s \in 1 .. n
    BY <1>2 DEF Exists
  <2> QED
    BY <1>6, <2>1, <2>2, <2>3, <2>4, OwnersType
<1> QED
  BY <1>2, <1>6, <1>7, <1>8, <1>9, <1>10, <1>11 DEF IInv, Owned

LEMMA StepOK == IInv /\ [Next]_vars => IInv'
<1> SUFFICES ASSUME IInv, [Next]_vars PROVE IInv'
  OBVIOUS
<1>1. CASE Client \/ Exit \/ UNCHANGED vars
  BY <1>1, ClientStep
<1>2. CASE Fails
  BY <1>2, DropStep, NoWaitingStep, TerminateStep DEF Fails
<1>3. CASE Loop
  BY <1>3, WaitStep, ServerStartStep, StartStep, IdleStep, ActiveStep, TimeoutStep,
     NoWaitingStep, ThreadTerminatedStep, EventsDoneStep, TerminateStep, WakeAllStep,
     JoinStep, CleanUpStep DEF Loop
<1>4. ASSUME NEW w \in Worker, Run(w) PROVE IInv'
  BY <1>4, CheckStep, SleepStep, GetStep, PutsStep, GoOnStep, TellStep, ServeStep,
     DropStep, AcceptedStep, CommitStep, QuitStep, CrashStep DEF Run
<1> QED
  BY <1>1, <1>2, <1>3, <1>4 DEF Next, Alive

LEMMA Invariant == Spec => []IInv
  BY InitOK, StepOK, PTL DEF Spec

(* A socket that exists is in one place, however workers, the loop and     *)
(* clients interleave: neither forgotten nor served or deleted by two,     *)
(* unless its timer has elapsed twice, or with its input, in one pass.     *)
THEOREM OwnedTheorem == Spec => []OwnedOnce
<1>1. IInv => OwnedOnce
  <2> SUFFICES ASSUME IInv, ~raced PROVE OwnedOnce
    BY DEF OwnedOnce
  <2>1. ~broken
    BY DEF IInv
  <2>2. \A s \in Socket : Owners(s) = IF socket[s] \in {"unused", "deleted"} THEN 0 ELSE 1
    BY DEF IInv, Owned, Exists, Typing
  <2>3. ASSUME loop # "stopped", NEW i \in DOMAIN events, events[i].on = "timeout"
        PROVE  events[i].x \in idleSockets
    <3>1. events[i] \in Events
      BY DEF IInv, Typing
    <3>2. events[i].x \in Socket /\ events[i] = Late(events[i].x)
      BY <2>3, <3>1 DEF Events, Late, Event
    <3>3. Times(Late(events[i].x), events) > 0
      BY <3>2, TimesType DEF IInv, Typing
    <3> QED
      BY <2>3, <3>2, <3>3 DEF IInv, TimersSound
  <2> QED
    BY <2>1, <2>2, <2>3 DEF OwnedOnce
<1> QED
  BY <1>1, Invariant, PTL

(* While the server runs so many threads as are wanted run at least, and   *)
(* not more than the limit, however many look at the number of those that  *)
(* wait at once and decide to end.                                         *)
THEOREM ThreadsTheorem == Spec => []ThreadsEnough
<1>1. IInv => ThreadsEnough
  <2> SUFFICES ASSUME IInv, runmode = "running" PROVE ThreadsEnough
    BY DEF ThreadsEnough
  <2>1. Staying \subseteq threads /\ threads \subseteq Worker
    BY DEF IInv, WorkersSound, Working, Staying
  <2>2. IsFiniteSet(threads)
    BY <2>1, FS_Subset, ServerAssumption
  <2>3. Cardinality(Staying) =< Cardinality(threads) /\ Cardinality(threads) \in Nat
        /\ Cardinality(Staying) \in Nat
    BY <2>1, <2>2, FS_Subset, FS_CardinalityType
  <2>4. Max({MinThreads, MaxThreads}) \in Nat /\ MinThreads \in Nat
    BY MaxOfTwo, ServerAssumption
  <2> QED
    BY <2>3, <2>4 DEF IInv, StayingEnough, ThreadsEnough
<1> QED
  BY <1>1, Invariant, PTL
=============================================================================
