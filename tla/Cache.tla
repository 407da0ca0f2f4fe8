------------------------------- MODULE Cache -------------------------------
(***************************************************************************)
(* zim::Cache (zimlib/include/zim/cache.h): the cache of directory entries,*)
(* of clusters and of open files.                                          *)
(*                                                                         *)
(* The entries stand in a queue.  A hit moves its entry to the front; a    *)
(* new entry goes to the middle, so that a scan over many keys pushes out  *)
(* others that were put once, never those that were asked for again.       *)
(***************************************************************************)
EXTENDS Integers, Sequences, SequencesExt

CONSTANTS
  Key, Value,
  Limit        \* the values of maxElements

ASSUME LimitAssumption == Limit \subseteq Nat

VARIABLES
  data,          \* the entries, front first
  maxElements,
  call,          \* history: the last call
  answer,        \* what it found, <<>> for nothing
  hot            \* history: the keys moved to the front last, at most as
                 \* many as half the limit, the last one first

cacheVars == <<data, maxElements, call, answer, hot>>

Entry == [key : Key, value : Value]

CacheInit ==
  /\ data = <<>>
  /\ maxElements \in Limit
  /\ call = [op |-> "none"] /\ answer = <<>>
  /\ hot = <<>>

Positions(k) == {i \in DOMAIN data : data[i].key = k}

Cut(s, n) == IF Len(s) > n THEN SubSeq(s, 1, n) ELSE s

Without(s, k) ==
  IF \E i \in DOMAIN s : s[i] = k
  THEN RemoveAt(s, CHOOSE i \in DOMAIN s : s[i] = k)
  ELSE s

(* The key has been moved to the front. *)
Heat(k) == hot' = Cut(<<k>> \o Without(hot, k), maxElements \div 2)

-----------------------------------------------------------------------------
BugToFrontStays(i, e) == <<e>> \o data
BugOldValue(i, e) == <<data[i]>> \o RemoveAt(data, i)

(* erase(it) and push_front *)
ToFront(i, e) == <<e>> \o RemoveAt(data, i)

(* put finds the key. *)
PutAgain(k, v) ==
  \E i \in Positions(k) :
    /\ data' = ToFront(i, [key |-> k, value |-> v])
    /\ Heat(k)
    /\ answer' = <<>>
    /\ UNCHANGED maxElements

BugAtFront == 1

(* Where a new entry goes, counted from 1: push_back into the first half,  *)
(* or insert behind it.                                                    *)
Place ==
  IF Len(data) < maxElements \div 2 THEN Len(data) + 1 ELSE maxElements \div 2 + 1

BugNoLimit(s) == s

(* pop_back *)
Limited(s) == IF Len(s) > maxElements THEN SubSeq(s, 1, Len(s) - 1) ELSE s

PutNew(k, v) ==
  /\ Positions(k) = {}
  /\ data' = Limited(InsertAt(data, Place, [key |-> k, value |-> v]))
  /\ answer' = <<>>
  /\ UNCHANGED <<maxElements, hot>>

Put(k, v) ==
  /\ call' = [op |-> "put", key |-> k, value |-> v]
  /\ PutAgain(k, v) \/ PutNew(k, v)

Hit(k) ==
  \E i \in Positions(k) :
    /\ data' = ToFront(i, data[i])
    /\ Heat(k)
    /\ answer' = <<data[i].value>>
    /\ UNCHANGED maxElements

Miss(k) ==
  /\ Positions(k) = {}
  /\ answer' = <<>>
  /\ UNCHANGED <<data, maxElements, hot>>

getx(k) == call' = [op |-> "get", key |-> k] /\ (Hit(k) \/ Miss(k))

erase(k) ==
  /\ call' = [op |-> "erase", key |-> k]
  /\ IF Positions(k) = {} THEN UNCHANGED data
     ELSE \E i \in Positions(k) : data' = RemoveAt(data, i)
  /\ hot' = Without(hot, k)
  /\ answer' = <<>>
  /\ UNCHANGED maxElements

setMaxElements(n) ==
  /\ call' = [op |-> "setMaxElements"]
  /\ maxElements' = n
  /\ data' = Cut(data, n)
  /\ hot' = Cut(hot, n \div 2)
  /\ answer' = <<>>

CacheNext ==
  \/ \E k \in Key : getx(k) \/ erase(k) \/ \E v \in Value : Put(k, v)
  \/ \E n \in Limit : setMaxElements(n)

CacheSpec == CacheInit /\ [][CacheNext]_cacheVars

-----------------------------------------------------------------------------
(* The queue never outgrows the limit, whatever it is set to. *)
CacheTypeOK ==
  /\ data \in Seq(Entry)
  /\ maxElements \in Limit
  /\ answer \in Seq(Value)
  /\ hot \in Seq(Key)
  /\ Len(data) =< maxElements

(* No key has two entries, of which a search would find the first and an   *)
(* erase would leave the second.                                           *)
KeysOnce == \A i, j \in DOMAIN data : data[i].key = data[j].key => i = j

(* The keys hit last, up to half the limit of them, lead the queue in that *)
(* order: no number of new keys pushes them out.                           *)
HotStay ==
  /\ Len(hot) =< Len(data) /\ Len(hot) =< maxElements \div 2
  /\ \A i \in DOMAIN hot : data[i].key = hot[i]

(* An entry that was put is there for the next call, unless nothing fits:  *)
(* it is not the one that put drops.                                       *)
PutStays ==
  [][\A k \in Key, v \in Value :
       Put(k, v) /\ maxElements > 0 =>
         \E i \in DOMAIN data' : data'[i] = [key |-> k, value |-> v]]_cacheVars

(* The cache is a map that forgets. *)
Contents(d) ==
  [k \in {d[i].key : i \in DOMAIN d} |->
     d[CHOOSE i \in DOMAIN d : d[i].key = k].value]

Store == Contents(data)

Map == INSTANCE LossyMap WITH store <- Store

ImplementsMap == Map!Spec
=============================================================================
