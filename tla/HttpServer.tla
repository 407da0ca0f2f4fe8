----------------------------- MODULE HttpServer -----------------------------
(***************************************************************************)
(* The http server of cxxtools (cxxtools/src/http): workers (worker.cpp)   *)
(* take sockets from a queue, accept connections and serve them while they *)
(* are busy; the event loop (eventloop.cpp, selector.cpp) has the idle     *)
(* ones, and the ServerImpl (serverimpl.cpp) that runs on it starts and    *)
(* ends workers.                                                           *)
(*                                                                         *)
(* A step is what a thread does between two looks at what others change;   *)
(* a look that commutes with the one before belongs to its step.  Reading  *)
(* a request, the responder and the reply are one step; all that matters   *)
(* here is whether the connection is kept.  The mutex _threadMutex is held *)
(* within steps, and by the loop while it starts or wakes all threads.     *)
(***************************************************************************)
EXTENDS Queue, Integers, SequencesExt, FiniteSetsExt

CONSTANTS
  Worker,         \* worker threads, numbered; a number is used again
  Socket,         \* sockets, numbered
  Listener,
  MinThreads, MaxThreads,
  MaxInputs,      \* bound: what a client sends on a connection
  Scenario        \* bound: sets of things that may happen in one behaviour

None == 0         \* no socket: what terminate() puts in the queue

(* There are two connections; a client hangs up; the loop is told to end;  *)
(* accept, a connect or the creation of a thread fails; the loop is late,  *)
(* so that the timer of a socket elapses twice, or when it has input.      *)
Happens ==
  {"two", "hang up", "exit", "accept fails", "wake fails", "thread fails", "late"}

ASSUME ServerAssumption ==
  /\ Worker \subseteq Nat /\ Socket \subseteq Nat \ {None}
  /\ IsFiniteSet(Worker) /\ IsFiniteSet(Socket) /\ IsFiniteSet(Listener)
  /\ 1 .. Cardinality(Listener) \subseteq Socket
  /\ MinThreads \in Nat \ {0} /\ MaxThreads \in Nat /\ MaxInputs \in Nat
  /\ Scenario \subseteq SUBSET Happens

VARIABLES
  may,            \* what may happen, of a scenario
  \* ServerImpl
  runmode, threads, terminatedThreads, idleSockets,
  \* the workers
  pc, hand,       \* the socket that a worker has
  \* the event loop
  loop, events, exitLoop,
  \* the sockets, and what their clients have done
  socket,         \* "unused", "accepts", "open", "deleted"
  listener,       \* the one that a socket belongs to
  peer,           \* "quiet", "input" to be read, "gone"
  inputs,         \* how much the client has sent
  backlog,        \* connections that wait to be accepted
  \* history
  raced,          \* a socket had a timeout and more in the same pass
  refused,        \* no thread was started, as one was still about to end
  failed,         \* a system call has failed
  broken          \* a deleted socket was used: anything may follow

threadVars == <<runmode, threads, terminatedThreads>>
loopVars   == <<loop, exitLoop>>
socketVars == <<socket, listener, peer, inputs>>
history    == <<raced, refused, failed, broken>>
vars == <<may, queueVars, threadVars, idleSockets, pc, hand, loopVars, events,
          socketVars, backlog, history>>

Event(on, x) == [on |-> on, x |-> x]

Unused == {s \in Socket : socket[s] = "unused"}
Idle   == {w \in Worker : pc[w] = "none"}

(* The server is constructed, listen() has been called for each listener,  *)
(* and the loop is about to start it.                                      *)
Init ==
  /\ may \in Scenario
  /\ LET of == SetToSeq(Listener)
     IN /\ socket = [s \in Socket |-> IF s \in DOMAIN of THEN "accepts" ELSE "unused"]
        /\ listener = [s \in Socket |-> IF s \in DOMAIN of THEN of[s] ELSE of[1]]
        /\ queue = [i \in DOMAIN of |-> i]
  /\ asleep = {} /\ awake = {}
  /\ runmode = "stopped" /\ threads = {} /\ terminatedThreads = {} /\ idleSockets = {}
  /\ pc = [w \in Worker |-> "none"] /\ hand = [w \in Worker |-> None]
  /\ loop = "events" /\ events = <<Event("start", 0)>> /\ exitLoop = FALSE
  /\ peer = [s \in Socket |-> "quiet"] /\ inputs = [s \in Socket |-> 0]
  /\ backlog = [l \in Listener |-> <<>>]
  /\ raced = FALSE /\ refused = FALSE /\ failed = FALSE /\ broken = FALSE

(* Some thread holds _threadMutex between two steps. *)
Locked == loop \in {"starting", "waking", "joining"}

IsTerminating == runmode = "terminating"

-----------------------------------------------------------------------------
(* Clients, and whoever stops the loop *)

(* Bound: a connection takes a socket that is not used yet, for the next   *)
(* one to be accepted with.                                                *)
Awaited ==
  MapThenSumSet(LAMBDA l : Len(SelectSeq(backlog[l], LAMBDA c : c = "client")), Listener)
    + Cardinality({w \in Worker : pc[w] = "accepted"})

Connect(l) ==
  /\ Awaited + (IF "two" \in may THEN 0 ELSE 1) < Cardinality(Unused)
  /\ loop # "stopped"
  /\ backlog' = [backlog EXCEPT ![l] = Append(@, "client")]
  /\ UNCHANGED <<queueVars, threadVars, idleSockets, pc, hand, loopVars, events,
                 socketVars, history>>

Send(s) ==
  /\ socket[s] = "open" /\ peer[s] = "quiet" /\ inputs[s] < MaxInputs
  /\ peer' = [peer EXCEPT ![s] = "input"]
  /\ inputs' = [inputs EXCEPT ![s] = @ + 1]
  /\ UNCHANGED <<queueVars, threadVars, idleSockets, pc, hand, loopVars, events,
                 socket, listener, backlog, history>>

HangUp(s) ==
  /\ "hang up" \in may
  /\ socket[s] = "open" /\ peer[s] # "gone"
  /\ peer' = [peer EXCEPT ![s] = "gone"]
  /\ UNCHANGED <<queueVars, threadVars, idleSockets, pc, hand, loopVars, events,
                 socket, listener, inputs, backlog, history>>

Exit ==
  /\ "exit" \in may /\ ~exitLoop
  /\ exitLoop' = TRUE
  /\ UNCHANGED <<queueVars, threadVars, idleSockets, pc, hand, loop, events,
                 socketVars, backlog, history>>

-----------------------------------------------------------------------------
(* Worker::run *)

Go(w, to) == pc' = [pc EXCEPT ![w] = to]
Hold(w, s) == hand' = [hand EXCEPT ![w] = s]

(* What its client does no longer matters. *)
Delete(s) ==
  /\ socket' = [socket EXCEPT ![s] = "deleted"]
  /\ peer' = [peer EXCEPT ![s] = "quiet"]
  /\ inputs' = [inputs EXCEPT ![s] = 0]

BugTooFew == NumWaiting + 1 < MinThreads

Needed == NumWaiting < MinThreads

Check(w) ==
  /\ pc[w] = "check"
  /\ Go(w, IF ~IsTerminating /\ Needed THEN "get" ELSE "quit")
  /\ UNCHANGED <<queueVars, threadVars, idleSockets, hand, loopVars, events,
                 socketVars, backlog, history>>

SleepInGet(w) ==
  /\ pc[w] = "get"
  /\ Sleep(w)
  /\ UNCHANGED <<threadVars, idleSockets, pc, hand, loopVars, events, socketVars,
                 backlog, history>>

GetSocket(w) ==
  /\ pc[w] = "get"
  /\ Get(w)
  /\ Hold(w, Head(queue))
  /\ Go(w, "got")
  /\ UNCHANGED <<threadVars, idleSockets, loopVars, events, socketVars, backlog, history>>

BugKeepsIt(s) == UNCHANGED queueVars

PutBack(s) == Put(s)

(* The server terminates: the socket goes back, for the next thread to see. *)
QuitWith(w) ==
  /\ pc[w] \in {"got", "accepted"}
  /\ IsTerminating
  /\ PutBack(hand[w])
  /\ Hold(w, None)
  /\ Go(w, "quit")
  /\ UNCHANGED <<threadVars, idleSockets, loopVars, events, socketVars, backlog, history>>

BugNever == FALSE

NoneWaits == NumWaiting = 0

GoOn(w) ==
  /\ pc[w] = "got"
  /\ ~IsTerminating
  /\ Go(w, IF NoneWaits THEN "tell" ELSE "handle")
  /\ UNCHANGED <<queueVars, threadVars, idleSockets, hand, loopVars, events,
                 socketVars, backlog, history>>

(* noWaitingThreads *)
Tell(w) ==
  /\ pc[w] = "tell" /\ ~Locked
  /\ events' = IF runmode = "running" THEN Append(events, Event("noWaiting", 0)) ELSE events
  /\ Go(w, "handle")
  /\ UNCHANGED <<queueVars, threadVars, idleSockets, hand, loopVars, socketVars,
                 backlog, history>>

(* The blocking accept, of a connection of the listener. *)
Accept(w) ==
  LET s == hand[w] l == listener[s] IN
  /\ pc[w] = "handle" /\ socket[s] = "accepts"
  /\ backlog[l] # <<>>
  /\ socket' = [socket EXCEPT ![s] = "open"]
  /\ peer' = [peer EXCEPT ![s] = IF Head(backlog[l]) = "wake" THEN "gone" ELSE "quiet"]
  /\ backlog' = [backlog EXCEPT ![l] = Tail(@)]
  /\ Go(w, "accepted")
  /\ UNCHANGED <<queueVars, threadVars, idleSockets, hand, loopVars, events,
                 listener, inputs, history>>

(* It throws; the socket is deleted, and no other one accepts. *)
AcceptFails(w) ==
  /\ "accept fails" \in may
  /\ pc[w] = "handle" /\ socket[hand[w]] = "accepts"
  /\ Delete(hand[w])
  /\ Hold(w, None)
  /\ Go(w, "check")
  /\ failed' = TRUE
  /\ UNCHANGED <<queueVars, threadVars, idleSockets, loopVars, events, listener, backlog, raced, refused, broken>>

BugForgets(s) == UNCHANGED queueVars

AcceptsNext(s) == Put(s)

(* A new socket accepts the next connection. *)
Accepted(w) ==
  /\ pc[w] = "accepted"
  /\ ~IsTerminating
  /\ Unused # {}     \* bound, as that of Connect
  /\ LET s == CHOOSE unused \in Unused : TRUE
     IN /\ socket' = [socket EXCEPT ![s] = "accepts"]
        /\ listener' = [listener EXCEPT ![s] = listener[hand[w]]]
        /\ AcceptsNext(s)
  /\ Go(w, "serve")
  /\ UNCHANGED <<threadVars, idleSockets, hand, loopVars, events, peer, inputs,
                 backlog, history>>

(* A new connection, or one that has had input while it was idle. *)
Serves(w) ==
  \/ pc[w] = "serve"
  \/ pc[w] = "handle" /\ socket[hand[w]] = "open"

(* onInput reads a piece of a request, or all of it and replies, and keeps *)
(* the connection.                                                         *)
Serve(w) ==
  /\ Serves(w) /\ peer[hand[w]] = "input"
  /\ peer' = [peer EXCEPT ![hand[w]] = "quiet"]
  /\ Go(w, "serve")
  /\ UNCHANGED <<queueVars, threadVars, idleSockets, hand, loopVars, events,
                 socket, listener, inputs, backlog, history>>

(* The client is gone, the connection is not kept after the reply, or an   *)
(* exception is caught; or there is nothing to read while the server does  *)
(* not run.  The socket is deleted.                                        *)
Drop(w) ==
  /\ Serves(w)
  /\ peer[hand[w]] = "quiet" => pc[w] = "serve" /\ runmode # "running"
  /\ Delete(hand[w])
  /\ Hold(w, None)
  /\ Go(w, "check")
  /\ UNCHANGED <<queueVars, threadVars, idleSockets, loopVars, events, listener, backlog, history>>

(* A socket that has been closed is left to terminate(). *)
PutClosed(w) ==
  /\ Serves(w) /\ peer[hand[w]] # "quiet" /\ IsTerminating
  /\ Put(hand[w])
  /\ Hold(w, None)
  /\ Go(w, "check")
  /\ UNCHANGED <<threadVars, idleSockets, loopVars, events, socketVars, backlog, history>>

(* Nothing has come for ten milliseconds: addIdleSocket looks at the       *)
(* runmode, and then tells the loop.                                       *)
AddIdle(w) ==
  /\ pc[w] = "serve" /\ peer[hand[w]] = "quiet"
  /\ runmode = "running"
  /\ Go(w, "commit")
  /\ UNCHANGED <<queueVars, threadVars, idleSockets, hand, loopVars, events,
                 socketVars, backlog, history>>

Commit(w) ==
  /\ pc[w] = "commit"
  /\ events' = Append(events, Event("idle", hand[w]))
  /\ Hold(w, None)
  /\ Go(w, "check")
  /\ UNCHANGED <<queueVars, threadVars, idleSockets, loopVars, socketVars, backlog, history>>

(* threadTerminated *)
Quit(w) ==
  /\ pc[w] = "quit" /\ ~Locked
  /\ threads' = threads \ {w}
  /\ IF runmode = "running"
     THEN /\ events' = Append(events, Event("terminated", w))
          /\ UNCHANGED <<terminatedThreads, loop>>
     ELSE /\ terminatedThreads' = terminatedThreads \cup {w}
          /\ loop' = IF loop = "waiting" THEN "woken" ELSE loop
          /\ UNCHANGED events
  /\ Go(w, "ended")
  /\ UNCHANGED <<queueVars, runmode, idleSockets, hand, exitLoop, socketVars,
                 backlog, history>>

(* A worker looks at a socket that has been deleted. *)
Crash(w) ==
  /\ pc[w] = "handle" /\ socket[hand[w]] = "deleted"
  /\ broken' = TRUE
  /\ UNCHANGED <<queueVars, threadVars, idleSockets, pc, hand, loopVars, events,
                 socketVars, backlog, raced, refused, failed>>

Run(w) ==
  \/ Check(w) \/ SleepInGet(w) \/ GetSocket(w) \/ QuitWith(w) \/ GoOn(w)
  \/ Tell(w) \/ Accept(w) \/ Accepted(w) \/ Serve(w) \/ Drop(w)
  \/ PutClosed(w) \/ AddIdle(w) \/ Commit(w) \/ Quit(w) \/ Crash(w)

-----------------------------------------------------------------------------
(* The event loop *)

(* Bound: there is a number left for the thread. *)
StartThread ==
  /\ Idle # {}
  /\ LET w == CHOOSE idle \in Idle : TRUE
     IN threads' = threads \cup {w} /\ Go(w, "check")

BugStays(ready) == idleSockets

NoLongerIdle(ready) == idleSockets \ ready

(* A pass of the selector: the timers of some sockets elapse, once or      *)
(* twice, and then the input of others is seen, or of the same ones.  The  *)
(* socket of a timeout stays in the selector, one with input is left to    *)
(* the workers.                                                            *)
Wait ==
  LET ready == {s \in idleSockets : peer[s] # "quiet"} IN
  /\ loop = "wait"
  /\ \E elapsed \in SUBSET idleSockets : \E twice \in SUBSET elapsed :
       /\ events' = events \o SetToSeq({Event("timeout", s) : s \in elapsed})
                           \o SetToSeq({Event("timeout", s) : s \in twice})
                           \o SetToSeq({Event("active", s) : s \in ready})
       /\ "late" \in may \/ (elapsed \cap ready) \cup twice = {}
       /\ raced' = (raced \/ (elapsed \cap ready) \cup twice # {})
       /\ events' # <<>> \/ exitLoop
  /\ idleSockets' = NoLongerIdle(ready)
  /\ loop' = "events"
  /\ UNCHANGED <<queueVars, threadVars, pc, hand, exitLoop, socketVars, backlog,
                 refused, failed, broken>>

(* The first event, if the loop is not to end. *)
Next1(on) ==
  /\ loop = "events" /\ ~exitLoop
  /\ events # <<>> /\ Head(events).on = on
  /\ events' = Tail(events)

X == Head(events).x

OnServerStart ==
  /\ Next1("start")
  /\ runmode' = "starting"
  /\ loop' = "starting"
  /\ UNCHANGED <<queueVars, threads, terminatedThreads, idleSockets, pc, hand,
                 exitLoop, socketVars, backlog, history>>

Start ==
  /\ loop = "starting"
  /\ IF Cardinality(threads) < MinThreads
     THEN StartThread /\ UNCHANGED <<runmode, loop>>
     ELSE runmode' = "running" /\ loop' = "events" /\ UNCHANGED <<threads, pc>>
  /\ UNCHANGED <<queueVars, terminatedThreads, idleSockets, hand, events, exitLoop,
                 socketVars, backlog, history>>

OnIdleSocket ==
  /\ Next1("idle")
  /\ idleSockets' = idleSockets \cup {X}
  /\ UNCHANGED <<queueVars, threadVars, pc, hand, loopVars, socketVars, backlog, history>>

OnActiveSocket ==
  /\ Next1("active")
  /\ Put(X)
  /\ UNCHANGED <<threadVars, idleSockets, pc, hand, loopVars, socketVars, backlog, history>>

OnKeepAliveTimeout ==
  /\ Next1("timeout")
  /\ idleSockets' = idleSockets \ {X}
  /\ broken' = (socket[X] = "deleted")
  /\ Delete(X)
  /\ UNCHANGED <<queueVars, threadVars, pc, hand, loopVars, listener, backlog,
                 raced, refused, failed>>

(* A thread that has decided to end still counts. *)
OnNoWaitingThreads ==
  /\ Next1("noWaiting")
  /\ IF Cardinality(threads) >= MaxThreads
     THEN /\ refused' = (refused \/ \E w \in threads : pc[w] = "quit")
          /\ UNCHANGED <<threads, pc>>
     ELSE StartThread /\ UNCHANGED refused
  /\ UNCHANGED <<queueVars, runmode, terminatedThreads, idleSockets, hand, loopVars,
                 socketVars, backlog, raced, failed, broken>>

(* The thread cannot be created: a warning is all. *)
ThreadFails ==
  /\ "thread fails" \in may
  /\ Next1("noWaiting")
  /\ Cardinality(threads) < MaxThreads
  /\ failed' = TRUE
  /\ UNCHANGED <<queueVars, threadVars, idleSockets, pc, hand, loopVars, socketVars,
                 backlog, raced, refused, broken>>

OnThreadTerminated ==
  /\ Next1("terminated")
  /\ Go(X, "none")
  /\ UNCHANGED <<queueVars, threadVars, idleSockets, hand, loopVars, socketVars,
                 backlog, history>>

EventsDone ==
  /\ loop = "events"
  /\ events = <<>> \/ exitLoop
  /\ loop' = IF exitLoop THEN "terminate" ELSE "wait"
  /\ UNCHANGED <<queueVars, threadVars, idleSockets, pc, hand, events, exitLoop,
                 socketVars, backlog, history>>

(* terminate(), when the loop has ended *)

Terminate ==
  /\ loop = "terminate"
  /\ runmode' = "terminating"
  /\ loop' = "waking"
  /\ UNCHANGED <<queueVars, threads, terminatedThreads, idleSockets, pc, hand,
                 events, exitLoop, socketVars, backlog, history>>

(* wakeConnect connects to the listener, and closes the connection. *)
WakeAll ==
  /\ loop = "waking"
  /\ backlog' = [l \in Listener |-> Append(backlog[l], "wake")]
  /\ Put(None)
  /\ loop' = "joining"
  /\ UNCHANGED <<threadVars, idleSockets, pc, hand, events, exitLoop, socketVars, history>>

(* It cannot connect. *)
WakeFails ==
  /\ "wake fails" \in may
  /\ loop = "waking"
  /\ runmode' = "failed" /\ failed' = TRUE
  /\ loop' = "stopped"
  /\ UNCHANGED <<queueVars, threads, terminatedThreads, idleSockets, pc, hand, events,
                 exitLoop, socketVars, backlog, raced, refused, broken>>

WaitForThreads ==
  /\ loop = "joining" /\ threads # {}
  /\ loop' = "waiting"
  /\ UNCHANGED <<queueVars, threadVars, idleSockets, pc, hand, events, exitLoop,
                 socketVars, backlog, history>>

Join ==
  /\ \/ loop = "woken"
     \/ loop = "joining" /\ threads = {} /\ terminatedThreads # {}
  /\ pc' = [w \in Worker |-> IF w \in terminatedThreads THEN "none" ELSE pc[w]]
  /\ terminatedThreads' = {}
  /\ loop' = "joining"
  /\ UNCHANGED <<queueVars, runmode, threads, idleSockets, hand, events, exitLoop,
                 socketVars, backlog, history>>

(* All threads have ended.  Sockets that are left in the queue or idle are *)
(* deleted, those in events are not.                                       *)
CleanUp ==
  LET left == (ToSet(queue) \cup idleSockets) \ {None} IN
  /\ loop = "joining" /\ threads = {} /\ terminatedThreads = {}
  /\ socket' = [s \in Socket |-> IF s \in left THEN "deleted" ELSE socket[s]]
  /\ broken' = (broken \/ \E s \in left : socket[s] = "deleted")
  /\ queue' = <<>> /\ idleSockets' = {}
  /\ runmode' = "stopped"
  /\ loop' = "stopped"
  /\ UNCHANGED <<asleep, awake, threads, terminatedThreads, pc, hand, events, exitLoop,
                 listener, peer, inputs, backlog, raced, refused, failed>>

Loop ==
  \/ Wait \/ OnServerStart \/ Start \/ OnIdleSocket \/ OnActiveSocket
  \/ OnKeepAliveTimeout \/ OnNoWaitingThreads \/ OnThreadTerminated \/ EventsDone
  \/ Terminate \/ WakeAll \/ WaitForThreads \/ Join \/ CleanUp

-----------------------------------------------------------------------------
Client ==
  \/ \E l \in Listener : Connect(l)
  \/ \E s \in Socket : Send(s) \/ HangUp(s)

(* A call of the system fails. *)
Fails == (\E w \in Worker : AcceptFails(w)) \/ ThreadFails \/ WakeFails

Alive == ~broken /\ UNCHANGED may

Next == Alive /\ (Client \/ Exit \/ Fails \/ Loop \/ \E w \in Worker : Run(w))

(* All threads run on; clients need do nothing, and calls need not fail.   *)
Spec ==
  Init /\ [][Next]_vars
    /\ WF_vars(Alive /\ Loop) /\ \A w \in Worker : WF_vars(Alive /\ Run(w))

-----------------------------------------------------------------------------
(* Where a socket is that somebody will look after. *)
Times(s, q) == Cardinality({i \in DOMAIN q : q[i] = s})

Owners(s) ==
  Times(s, queue) + Times(Event("idle", s), events) + Times(Event("active", s), events)
    + Cardinality({w \in Worker : hand[w] = s}) + (IF s \in idleSockets THEN 1 ELSE 0)

(* A socket that exists is in one place: in the queue, with a worker, with *)
(* the loop, or in an event on the way there; so it is neither forgotten   *)
(* nor served or deleted by two.  One that has been deleted is in none.    *)
(* Only where a timeout comes twice, or with the input that would have     *)
(* made it void, in the same pass of the selector, a socket is deleted     *)
(* twice, or deleted and passed on.                                        *)
OwnedOnce ==
  ~raced =>
    /\ ~broken
    /\ \A s \in Socket :
         Owners(s) = IF socket[s] \in {"unused", "deleted"} THEN 0 ELSE 1
    /\ loop # "stopped" =>
         \A i \in DOMAIN events : events[i].on = "timeout" => events[i].x \in idleSockets

(* While the server runs, so many threads as are wanted run at least, and  *)
(* not more than the limit, however many workers look at the number of     *)
(* those waiting at once, and end.                                         *)
ThreadsEnough ==
  runmode = "running" =>
    Cardinality(threads) \in MinThreads .. Max({MinThreads, MaxThreads})

Over == exitLoop \/ failed \/ broken

(* Input of a client is read, also if it comes while the connection is     *)
(* being passed on to the loop, and all others connect or send as well: a  *)
(* thread is there to take it, and does not sleep.  The limit must allow   *)
(* for a thread more than listeners; and if a thread was refused because   *)
(* one that was about to end still counted, none may be left but those     *)
(* that wait for a connection.                                             *)
InputServed ==
  \A s \in Socket :
    (socket[s] = "open" /\ peer[s] = "input") ~>
      (socket[s] # "open" \/ peer[s] # "input" \/ Over \/ refused)

(* A connection is accepted, also if all threads were busy, or about to    *)
(* end, when it came.                                                      *)
ConnectionAccepted ==
  \A l \in Listener : backlog[l] # <<>> ~> (backlog[l] = <<>> \/ Over)

(* When the loop is told to end, all threads end, those that wait for a    *)
(* socket or for a connection included, and the server stops.  If the      *)
(* connection that is to wake one of these cannot be made, it stops        *)
(* without them.                                                           *)
Terminates == exitLoop ~> (loop = "stopped" \/ broken)
=============================================================================
