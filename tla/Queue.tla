------------------------------- MODULE Queue -------------------------------
(***************************************************************************)
(* The Queue of cxxtools (cxxtools/include/cxxtools/queue.h) without a     *)
(* limit, as the http server uses it: a deque, a mutex and a condition     *)
(* _notEmpty.  What a thread does while it holds the mutex is a step.      *)
(***************************************************************************)
EXTENDS Naturals, Sequences, FiniteSets

VARIABLES
  queue,         \* _queue
  asleep,        \* the threads that wait for _notEmpty
  awake          \* those that have been woken, and have yet to see the queue

queueVars == <<queue, asleep, awake>>

QueueInit == queue = <<>> /\ asleep = {} /\ awake = {}

(* _numWaiting counts a thread from before it sleeps to when it has got    *)
(* an element.                                                             *)
NumWaiting == Cardinality(asleep \cup awake)

(* _notEmpty.signal(), with threads the ones that are still asleep: it     *)
(* wakes any of them, or is lost.                                          *)
Signal(threads, woken) ==
  IF threads = {} THEN asleep' = {} /\ awake' = woken
  ELSE \E t \in threads : asleep' = threads \ {t} /\ awake' = woken \cup {t}

Put(element) ==
  /\ queue' = Append(queue, element)
  /\ Signal(asleep, awake)

(* get() finds the queue empty: its thread sleeps. *)
Sleep(t) ==
  /\ t \notin asleep /\ queue = <<>>
  /\ asleep' = asleep \cup {t} /\ awake' = awake \ {t}
  /\ UNCHANGED queue

(* get() returns the first element, and wakes a thread for the next one.   *)
Get(t) ==
  /\ t \notin asleep /\ queue # <<>>
  /\ queue' = Tail(queue)
  /\ IF Tail(queue) # <<>> THEN Signal(asleep, awake \ {t})
     ELSE asleep' = asleep /\ awake' = awake \ {t}
=============================================================================
