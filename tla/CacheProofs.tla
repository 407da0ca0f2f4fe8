---------------------------- MODULE CacheProofs ----------------------------
(***************************************************************************)
(* Proofs about Cache, for any keys, values and limits, and about its      *)
(* user ZimStream, for any parts of any sizes, any number of them in the   *)
(* cache and any buffer.                                                   *)
(*                                                                         *)
(* The invariants of the cache are inductive together: that the hot keys   *)
(* stay needs that no key has two entries, and both need the limit.        *)
(* ZimStream implements FlatStream, and few descriptors are open.          *)
(***************************************************************************)
EXTENDS Cache, ZimStream, FiniteSetTheorems, SequenceTheorems, WellFoundedInduction, TLAPS

(* What the helpers do to a sequence, element by element. *)

LEMMA RemoveAtLemma ==
  ASSUME NEW S, NEW s \in Seq(S), NEW i \in 1 .. Len(s)
  PROVE  /\ RemoveAt(s, i) \in Seq(S)
         /\ Len(RemoveAt(s, i)) = Len(s) - 1
         /\ \A j \in 1 .. Len(s) - 1 :
              RemoveAt(s, i)[j] = IF j < i THEN s[j] ELSE s[j + 1]
<1> DEFINE a == SubSeq(s, 1, i - 1)
           b == SubSeq(s, i + 1, Len(s))
<1>1. Len(s) \in Nat /\ \A j \in 1 .. Len(s) : s[j] \in S
  BY ElementOfSeq
<1>2. /\ a \in Seq(S) /\ Len(a) = i - 1
      /\ \A j \in 1 .. i - 1 : a[j] = s[j]
  BY <1>1, SubSeqProperties
<1>3. /\ b \in Seq(S) /\ Len(b) = Len(s) - i
      /\ \A j \in 1 .. Len(s) - i : b[j] = s[i + j]
  <2>1. \A j \in i + 1 .. Len(s) : s[j] \in S
    BY <1>1
  <2>2. /\ b \in Seq(S)
        /\ Len(b) = IF i + 1 <= Len(s) THEN Len(s) - (i + 1) + 1 ELSE 0
        /\ \A j \in 1 .. Len(s) - (i + 1) + 1 : b[j] = s[i + 1 + j - 1]
    BY <1>1, <2>1, SubSeqProperties
  <2>3. QED
    BY <1>1, <2>2
<1>4. RemoveAt(s, i) = a \o b
  BY DEF RemoveAt
<1> HIDE DEF a, b
<1>5. /\ a \o b \in Seq(S) /\ Len(a \o b) = Len(a) + Len(b)
      /\ \A j \in 1 .. Len(a) + Len(b) :
           (a \o b)[j] = IF j <= Len(a) THEN a[j] ELSE b[j - Len(a)]
  BY <1>2, <1>3, ConcatProperties
<1>6. QED
  BY <1>1, <1>2, <1>3, <1>4, <1>5

LEMMA InsertAtLemma ==
  ASSUME NEW S, NEW s \in Seq(S), NEW i \in 1 .. Len(s) + 1, NEW e \in S
  PROVE  /\ InsertAt(s, i, e) \in Seq(S)
         /\ Len(InsertAt(s, i, e)) = Len(s) + 1
         /\ \A j \in 1 .. i - 1 : InsertAt(s, i, e)[j] = s[j]
         /\ InsertAt(s, i, e)[i] = e
         /\ \A j \in i + 1 .. Len(s) + 1 : InsertAt(s, i, e)[j] = s[j - 1]
<1> DEFINE a == SubSeq(s, 1, i - 1)
           b == SubSeq(s, i, Len(s))
           ae == a \o <<e>>
<1>1. Len(s) \in Nat /\ \A j \in 1 .. Len(s) : s[j] \in S
  BY ElementOfSeq
<1>2. /\ a \in Seq(S) /\ Len(a) = i - 1
      /\ \A j \in 1 .. i - 1 : a[j] = s[j]
  BY <1>1, SubSeqProperties
<1>3. /\ b \in Seq(S) /\ Len(b) = Len(s) - i + 1
      /\ \A j \in 1 .. Len(s) - i + 1 : b[j] = s[i + j - 1]
  BY <1>1, SubSeqProperties
<1>4. /\ <<e>> \in Seq(S) /\ Len(<<e>>) = 1 /\ <<e>>[1] = e
  OBVIOUS
<1>5. InsertAt(s, i, e) = ae \o b
  BY DEF InsertAt
<1> HIDE DEF a, b
<1>6. /\ ae \in Seq(S) /\ Len(ae) = i
      /\ \A j \in 1 .. i : ae[j] = IF j < i THEN a[j] ELSE e
  <2>1. /\ ae \in Seq(S) /\ Len(ae) = Len(a) + Len(<<e>>)
        /\ \A j \in 1 .. Len(a) + Len(<<e>>) :
             ae[j] = IF j <= Len(a) THEN a[j] ELSE <<e>>[j - Len(a)]
    BY <1>2, <1>4, ConcatProperties
  <2> HIDE DEF ae
  <2>2. QED
    BY <1>2, <1>4, <2>1
<1> HIDE DEF ae
<1>7. /\ ae \o b \in Seq(S) /\ Len(ae \o b) = Len(ae) + Len(b)
      /\ \A j \in 1 .. Len(ae) + Len(b) :
           (ae \o b)[j] = IF j <= Len(ae) THEN ae[j] ELSE b[j - Len(ae)]
  BY <1>3, <1>6, ConcatProperties
<1>8. ASSUME NEW j \in 1 .. i
      PROVE  (ae \o b)[j] = IF j < i THEN s[j] ELSE e
  BY <1>1, <1>2, <1>3, <1>6, <1>7
<1>9. ASSUME NEW j \in i + 1 .. Len(s) + 1
      PROVE  (ae \o b)[j] = s[j - 1]
  <2>1. (ae \o b)[j] = b[j - i] /\ j - i \in 1 .. Len(s) - i + 1
    BY <1>1, <1>3, <1>6, <1>7
  <2>2. QED
    BY <1>3, <2>1
<1>10. QED
  BY <1>1, <1>3, <1>5, <1>6, <1>7, <1>8, <1>9

LEMMA ConsLemma ==
  ASSUME NEW S, NEW s \in Seq(S), NEW e \in S
  PROVE  /\ <<e>> \o s \in Seq(S)
         /\ Len(<<e>> \o s) = Len(s) + 1
         /\ \A j \in 1 .. Len(s) + 1 :
              (<<e>> \o s)[j] = IF j = 1 THEN e ELSE s[j - 1]
  OBVIOUS

LEMMA CutLemma ==
  ASSUME NEW S, NEW s \in Seq(S), NEW n \in Nat
  PROVE  /\ Cut(s, n) \in Seq(S)
         /\ Len(Cut(s, n)) = IF Len(s) > n THEN n ELSE Len(s)
         /\ \A j \in 1 .. Len(Cut(s, n)) : Cut(s, n)[j] = s[j]
  BY DEF Cut

LEMMA ToFrontLemma ==
  ASSUME data \in Seq(Entry), NEW i \in DOMAIN data, NEW e \in Entry
  PROVE  /\ ToFront(i, e) \in Seq(Entry)
         /\ Len(ToFront(i, e)) = Len(data)
         /\ \A j \in 1 .. Len(data) :
              ToFront(i, e)[j] = IF j = 1 THEN e
                                 ELSE IF j =< i THEN data[j - 1] ELSE data[j]
<1> DEFINE r == RemoveAt(data, i)
<1>1. /\ r \in Seq(Entry) /\ Len(r) = Len(data) - 1
      /\ \A j \in 1 .. Len(data) - 1 : r[j] = IF j < i THEN data[j] ELSE data[j + 1]
  <2>1. i \in 1 .. Len(data)
    OBVIOUS
  <2> QED
    BY <2>1, RemoveAtLemma, Zenon
<1>2. ToFront(i, e) = <<e>> \o r
  BY DEF ToFront
<1> HIDE DEF r
<1>3. /\ <<e>> \o r \in Seq(Entry)
      /\ Len(<<e>> \o r) = Len(r) + 1
      /\ \A j \in 1 .. Len(r) + 1 : (<<e>> \o r)[j] = IF j = 1 THEN e ELSE r[j - 1]
  BY <1>1, ConsLemma
<1>4. QED
  BY <1>1, <1>2, <1>3

-----------------------------------------------------------------------------
CacheInv == CacheTypeOK /\ KeysOnce /\ HotStay

Half == maxElements \div 2

LEMMA HalfLemma ==
  ASSUME CacheTypeOK
  PROVE  Half \in Nat /\ Half =< maxElements /\ (maxElements > 0 => Half < maxElements)
  BY LimitAssumption DEF Half, CacheTypeOK

(* The queue after a key has been moved to the front. *)
LEMMA FrontKeepsKeys ==
  ASSUME CacheInv, NEW k \in Key, NEW i \in Positions(k), NEW v \in Value,
         data' = ToFront(i, [key |-> k, value |-> v]), UNCHANGED maxElements
  PROVE  /\ data' \in Seq(Entry) /\ Len(data') = Len(data)
         /\ KeysOnce'
<1>1. i \in DOMAIN data /\ data[i].key = k
  BY DEF Positions
<1>2. [key |-> k, value |-> v] \in Entry
  BY DEF Entry
<1>3. data \in Seq(Entry)
  BY DEF CacheInv, CacheTypeOK
<1>4. /\ data' \in Seq(Entry) /\ Len(data') = Len(data)
      /\ \A j \in 1 .. Len(data) :
           data'[j] = IF j = 1 THEN [key |-> k, value |-> v]
                      ELSE IF j =< i THEN data[j - 1] ELSE data[j]
  BY <1>1, <1>2, <1>3, ToFrontLemma
<1>5. KeysOnce
  BY DEF CacheInv
<1> DEFINE From(j) == IF j = 1 THEN i ELSE IF j =< i THEN j - 1 ELSE j
<1>6. \A j \in 1 .. Len(data) : From(j) \in 1 .. Len(data) /\ data'[j].key = data[From(j)].key
  BY <1>1, <1>3, <1>4
<1>7. \A a, b \in 1 .. Len(data) : From(a) = From(b) => a = b
  BY <1>1, <1>3
<1> HIDE DEF From
<1>8. ASSUME NEW a \in DOMAIN data', NEW b \in DOMAIN data', data'[a].key = data'[b].key
      PROVE  a = b
  <2>1. a \in 1 .. Len(data) /\ b \in 1 .. Len(data)
    BY <1>4
  <2>2. /\ From(a) \in DOMAIN data /\ From(b) \in DOMAIN data
        /\ data[From(a)].key = data[From(b)].key
    BY <1>3, <1>6, <1>8, <2>1
  <2>3. From(a) = From(b)
    BY <1>5, <2>2 DEF KeysOnce
  <2>4. QED
    BY <1>7, <2>1, <2>3
<1>9. QED
  BY <1>4, <1>8 DEF KeysOnce

LEMMA WithoutLemma ==
  ASSUME NEW S, NEW s \in Seq(S), NEW k
  PROVE  \/ Without(s, k) = s /\ \A i \in DOMAIN s : s[i] # k
         \/ \E i \in DOMAIN s : s[i] = k /\ Without(s, k) = RemoveAt(s, i)
  BY DEF Without

(* The hot keys after a key has been moved to the front. *)
LEMMA FrontKeepsHot ==
  ASSUME CacheInv, NEW k \in Key, NEW i \in Positions(k), NEW v \in Value,
         data' = ToFront(i, [key |-> k, value |-> v]), UNCHANGED maxElements,
         Heat(k)
  PROVE  hot' \in Seq(Key) /\ HotStay'
<1> DEFINE w == Without(hot, k)
           c == <<k>> \o w
<1>1. /\ i \in DOMAIN data /\ data[i].key = k
      /\ data \in Seq(Entry) /\ hot \in Seq(Key)
      /\ Half \in Nat
  BY HalfLemma DEF Positions, CacheInv, CacheTypeOK
<1>2. [key |-> k, value |-> v] \in Entry
  BY DEF Entry
<1>3. /\ data' \in Seq(Entry) /\ Len(data') = Len(data)
      /\ \A j \in 1 .. Len(data) :
           data'[j] = IF j = 1 THEN [key |-> k, value |-> v]
                      ELSE IF j =< i THEN data[j - 1] ELSE data[j]
  <2> DEFINE e == [key |-> k, value |-> v]
  <2>1. e \in Entry /\ data' = ToFront(i, e)
    BY <1>2
  <2> HIDE DEF e
  <2>2. /\ ToFront(i, e) \in Seq(Entry) /\ Len(ToFront(i, e)) = Len(data)
        /\ \A j \in 1 .. Len(data) :
             ToFront(i, e)[j] = IF j = 1 THEN e
                                ELSE IF j =< i THEN data[j - 1] ELSE data[j]
    BY <1>1, <2>1, ToFrontLemma, Zenon
  <2> QED
    BY <2>1, <2>2 DEF e
<1> DEFINE After(j) == IF j < i THEN data[j] ELSE data[j + 1]
<1>a. /\ Len(data') = Len(data) /\ data'[1].key = k
      /\ \A j \in 1 .. Len(data) - 1 : data'[j + 1] = After(j)
  BY <1>1, <1>3
<1>4. /\ Len(hot) =< Len(data) /\ Len(hot) =< Half
      /\ \A j \in 1 .. Len(hot) : data[j].key = hot[j]
  BY <1>1 DEF CacheInv, HotStay, Half
<1>5. /\ w \in Seq(Key) /\ Len(w) + 1 =< Len(data)
      /\ \A j \in 1 .. Len(w) : w[j] = data'[j + 1].key
  <2>1. CASE w = hot /\ \A j \in DOMAIN hot : hot[j] # k
    <3>1. \A j \in 1 .. Len(hot) : j # i
      BY <1>1, <1>4, <2>1
    <3>2. Len(hot) < i
      BY <1>1, <1>4, <3>1
    <3>3. \A j \in 1 .. Len(hot) : j \in 1 .. Len(data) - 1 /\ After(j) = data[j]
      BY <1>1, <1>4, <3>2
    <3>4. QED
      BY <1>1, <1>a, <1>4, <2>1, <3>2, <3>3
  <2>2. ASSUME NEW p \in DOMAIN hot, hot[p] = k, w = RemoveAt(hot, p)
        PROVE  <1>5
    <3>1. p = i
      BY <1>1, <1>4, <2>2 DEF CacheInv, KeysOnce
    <3> HIDE DEF w, After
    <3>2. i \in 1 .. Len(hot) /\ w = RemoveAt(hot, i)
      BY <1>1, <2>2, <3>1
    <3>3. /\ w \in Seq(Key) /\ Len(w) = Len(hot) - 1
          /\ \A j \in 1 .. Len(hot) - 1 : w[j] = IF j < i THEN hot[j] ELSE hot[j + 1]
      <4>1. /\ RemoveAt(hot, i) \in Seq(Key) /\ Len(RemoveAt(hot, i)) = Len(hot) - 1
            /\ \A j \in 1 .. Len(hot) - 1 :
                 RemoveAt(hot, i)[j] = IF j < i THEN hot[j] ELSE hot[j + 1]
        BY <1>1, <3>2, RemoveAtLemma
      <4>2. QED
        BY <3>2, <4>1
    <3>4. ASSUME NEW j \in 1 .. Len(w)
          PROVE  j \in 1 .. Len(data) - 1 /\ w[j] = After(j).key
      <4>1. /\ i \in 1 .. Len(hot) /\ Len(hot) \in Nat
            /\ j \in 1 .. Len(hot) - 1 /\ j \in 1 .. Len(data) - 1
        BY <1>1, <1>4, <3>2, <3>3
      <4>2. CASE j < i
        <5>1. w[j] = hot[j] /\ After(j) = data[j] /\ j \in 1 .. Len(hot)
          BY <3>3, <4>1, <4>2 DEF After
        <5>2. QED
          BY <1>4, <4>1, <5>1
      <4>3. CASE ~(j < i)
        <5>1. w[j] = hot[j + 1] /\ After(j) = data[j + 1] /\ j + 1 \in 1 .. Len(hot)
          BY <3>3, <4>1, <4>3 DEF After
        <5>2. QED
          BY <1>4, <4>1, <5>1
      <4>4. QED
        BY <4>2, <4>3
    <3>5. QED
      BY <1>1, <1>a, <1>4, <3>3, <3>4
  <2>3. QED
    BY <1>1, <2>1, <2>2, WithoutLemma
<1>6. Heat(k) <=> hot' = Cut(c, Half)
  BY DEF Heat, Half
<1> HIDE DEF w
<1>7. /\ c \in Seq(Key) /\ Len(c) = Len(w) + 1
      /\ \A j \in 1 .. Len(w) + 1 : c[j] = IF j = 1 THEN k ELSE w[j - 1]
  BY <1>5, ConsLemma
<1> HIDE DEF c
<1>b. /\ Cut(c, Half) \in Seq(Key)
      /\ Len(Cut(c, Half)) = IF Len(c) > Half THEN Half ELSE Len(c)
      /\ \A j \in 1 .. Len(Cut(c, Half)) : Cut(c, Half)[j] = c[j]
  BY <1>1, <1>7, CutLemma
<1>8. /\ hot' \in Seq(Key) /\ Len(hot') =< Half /\ Len(hot') =< Len(c)
      /\ \A j \in 1 .. Len(hot') : hot'[j] = c[j]
  BY <1>1, <1>6, <1>7, <1>b
<1> HIDE DEF After
<1>9. ASSUME NEW j \in 1 .. Len(hot')
      PROVE  data'[j].key = hot'[j]
  <2>1. CASE j = 1
    BY <1>a, <1>7, <1>8, <2>1
  <2>2. CASE j # 1
    <3>1. j - 1 \in 1 .. Len(w) /\ hot'[j] = w[j - 1]
      BY <1>5, <1>7, <1>8, <2>2
    <3>2. w[j - 1] = data'[(j - 1) + 1].key
      BY <1>5, <3>1
    <3>3. (j - 1) + 1 = j
      BY <1>8
    <3>4. QED
      BY <3>1, <3>2, <3>3
  <2>3. QED
    BY <2>1, <2>2
<1>c. Len(hot') =< Len(data') /\ Half' = Half
  BY <1>1, <1>3, <1>5, <1>7, <1>8 DEF Half
<1>10. QED
  BY <1>8, <1>9, <1>c DEF HotStay, Half

(* The queue after a new entry has been put. *)
LEMMA PutNewLemma ==
  ASSUME CacheInv, NEW k \in Key, NEW v \in Value, PutNew(k, v)
  PROVE  /\ data' \in Seq(Entry) /\ Len(data') =< maxElements
         /\ KeysOnce' /\ HotStay'
         /\ maxElements > 0 =>
              \E j \in DOMAIN data' : data'[j] = [key |-> k, value |-> v]
         /\ \A j \in 1 .. Len(data') :
              \/ data'[j] = [key |-> k, value |-> v]
              \/ \E i \in 1 .. Len(data) : data'[j] = data[i] /\ data[i].key # k
<1> DEFINE e == [key |-> k, value |-> v]
           d == InsertAt(data, Place, e)
<1>1. /\ data \in Seq(Entry) /\ Len(data) =< maxElements /\ maxElements \in Nat
      /\ Half \in Nat /\ Half =< maxElements /\ (maxElements > 0 => Half < maxElements)
  BY HalfLemma, LimitAssumption DEF CacheInv, CacheTypeOK
<1>2. e \in Entry /\ e.key = k
  BY DEF Entry
<1> HIDE DEF e
<1>3. Place \in 1 .. Len(data) + 1 /\ Place =< Half + 1
      /\ (Len(data) < Half => Place = Len(data) + 1)
      /\ (Len(data) >= Half => Place = Half + 1)
  BY <1>1 DEF Place, Half
<1>4. /\ d \in Seq(Entry) /\ Len(d) = Len(data) + 1
      /\ \A j \in 1 .. Len(data) + 1 :
           d[j] = IF j < Place THEN data[j] ELSE IF j = Place THEN e ELSE data[j - 1]
  <2>1. /\ data \in Seq(Entry) /\ Place \in 1 .. Len(data) + 1 /\ e \in Entry
    BY <1>1, <1>2, <1>3
  <2>2. ASSUME NEW p \in 1 .. Len(data) + 1
        PROVE  LET x == InsertAt(data, p, e)
               IN /\ x \in Seq(Entry) /\ Len(x) = Len(data) + 1
                  /\ \A j \in 1 .. p - 1 : x[j] = data[j]
                  /\ x[p] = e
                  /\ \A j \in p + 1 .. Len(data) + 1 : x[j] = data[j - 1]
    BY <2>1, InsertAtLemma
  <2>a. /\ d \in Seq(Entry) /\ Len(d) = Len(data) + 1
        /\ \A j \in 1 .. Place - 1 : d[j] = data[j]
        /\ d[Place] = e
        /\ \A j \in Place + 1 .. Len(data) + 1 : d[j] = data[j - 1]
    BY <2>1, <2>2
  <2> HIDE DEF d
  <2>3. QED
    BY <1>1, <2>1, <2>a
<1>5. data' = Limited(d)
  BY DEF PutNew, e
<1> HIDE DEF d
<1>6. /\ data' \in Seq(Entry) /\ Len(data') =< maxElements
      /\ Len(data') = IF Len(data) = maxElements THEN Len(data) ELSE Len(data) + 1
      /\ \A j \in 1 .. Len(data') : data'[j] = d[j]
  BY <1>1, <1>4, <1>5 DEF Limited
<1>7. \A j \in 1 .. Len(data) : data[j].key # k
  BY <1>1 DEF PutNew, Positions
<1>8. ASSUME NEW a \in 1 .. Len(data'), NEW b \in 1 .. Len(data'), a < b
      PROVE  data'[a].key # data'[b].key
  <2>1. data'[a] = d[a] /\ data'[b] = d[b] /\ a \in 1 .. Len(d) /\ b \in 1 .. Len(d)
    BY <1>1, <1>4, <1>6, <1>8
  <2>2. CASE b < Place
    BY <1>1, <1>3, <1>4, <1>8, <2>1, <2>2 DEF CacheInv, KeysOnce
  <2>3. CASE b = Place
    BY <1>1, <1>2, <1>3, <1>4, <1>7, <1>8, <2>1, <2>3
  <2>a. ASSUME NEW x \in 1 .. Len(d), x > Place
        PROVE  x - 1 \in 1 .. Len(data) /\ d[x] = data[x - 1]
    BY <1>1, <1>3, <1>4, <2>a
  <2>b. \A x, y \in 1 .. Len(data) : data[x].key = data[y].key => x = y
    BY <1>1 DEF CacheInv, KeysOnce
  <2>4. CASE b > Place /\ a = Place
    BY <1>2, <1>4, <1>7, <2>1, <2>4, <2>a
  <2>5. CASE b > Place /\ a < Place
    <3>1. d[a] = data[a] /\ a \in 1 .. Len(data) /\ a # b - 1
      BY <1>1, <1>3, <1>4, <1>8, <2>1, <2>5
    <3>2. QED
      BY <2>1, <2>5, <2>a, <2>b, <3>1
  <2>6. CASE b > Place /\ a > Place
    <3>1. a - 1 # b - 1
      BY <1>8
    <3>2. QED
      BY SMTT(40), <2>1, <2>6, <2>a, <2>b, <3>1
  <2>7. QED
    BY <1>1, <1>3, <1>8, <2>2, <2>3, <2>4, <2>5, <2>6
<1>9. KeysOnce'
  BY <1>6, <1>8 DEF KeysOnce
<1>10. /\ hot' = hot /\ maxElements' = maxElements /\ hot \in Seq(Key)
       /\ Len(hot) =< Len(data) /\ Len(hot) =< Half
       /\ \A j \in 1 .. Len(hot) : data[j].key = hot[j]
  BY <1>1 DEF PutNew, CacheInv, HotStay, CacheTypeOK, Half
<1>11. \A j \in 1 .. Len(hot) : j < Place
  BY <1>1, <1>3, <1>10
<1>12. HotStay'
  <2>1. Len(hot') =< Len(data') /\ Len(hot') =< Half
    BY <1>1, <1>6, <1>10
  <2>2. \A j \in 1 .. Len(hot) : data'[j].key = hot[j]
    <3>1. \A j \in 1 .. Len(hot) : j \in 1 .. Len(data') /\ j \in 1 .. Len(data) + 1
      BY <1>1, <1>6, <1>10, <2>1
    <3>2. \A j \in 1 .. Len(hot) : data'[j] = data[j]
      BY <1>4, <1>6, <1>11, <3>1
    <3>3. QED
      BY <1>10, <3>2
  <2>3. QED
    BY <1>10, <2>1, <2>2 DEF HotStay, Half
<1>13. ASSUME maxElements > 0
       PROVE  \E j \in DOMAIN data' : data'[j] = e
  <2>1. Place =< Len(data')
    BY <1>1, <1>3, <1>6, <1>13
  <2>2. Place \in DOMAIN data' /\ data'[Place] = e
    BY <1>1, <1>3, <1>4, <1>6, <2>1
  <2>3. QED
    BY <2>2
<1>14. ASSUME NEW j \in 1 .. Len(data')
       PROVE  data'[j] = e \/ \E i \in 1 .. Len(data) : data'[j] = data[i] /\ data[i].key # k
  <2>1. data'[j] = d[j] /\ j \in 1 .. Len(data) + 1
    BY <1>1, <1>6
  <2>2. CASE j = Place
    BY <1>4, <2>1, <2>2
  <2>3. CASE j < Place
    <3>1. j \in 1 .. Len(data) /\ d[j] = data[j]
      BY <1>1, <1>3, <1>4, <2>1, <2>3
    <3>2. QED
      BY <1>7, <2>1, <3>1
  <2>4. CASE j > Place
    <3>1. j - 1 \in 1 .. Len(data) /\ d[j] = data[j - 1]
      BY <1>1, <1>3, <1>4, <2>1, <2>4
    <3>2. QED
      BY <1>7, <2>1, <3>1
  <2>5. QED
    BY <1>3, <2>2, <2>3, <2>4
<1>15. QED
  BY <1>6, <1>9, <1>12, <1>13, <1>14 DEF e

LEMMA EraseLemma ==
  ASSUME CacheInv, NEW k \in Key, erase(k)
  PROVE  CacheInv'
<1> DEFINE w == Without(hot, k)
<1>1. /\ data \in Seq(Entry) /\ Len(data) =< maxElements /\ maxElements \in Nat
      /\ Half \in Nat /\ hot \in Seq(Key)
      /\ maxElements' = maxElements /\ maxElements \in Limit
      /\ answer' = <<>> /\ hot' = w
  BY HalfLemma, LimitAssumption DEF CacheInv, CacheTypeOK, erase
<1>2. /\ Len(hot) =< Len(data) /\ Len(hot) =< Half
      /\ \A j \in 1 .. Len(hot) : data[j].key = hot[j]
  BY <1>1 DEF CacheInv, HotStay, Half
<1>3. \/ w = hot /\ \A j \in DOMAIN hot : hot[j] # k
      \/ \E p \in DOMAIN hot : hot[p] = k /\ w = RemoveAt(hot, p)
  BY <1>1, WithoutLemma
<1> HIDE DEF w
<1>4. CASE Positions(k) = {}
  <2>1. data' = data
    BY <1>4 DEF erase
  <2>2. \A j \in 1 .. Len(data) : data[j].key # k
    BY <1>1, <1>4 DEF Positions
  <2>3. w = hot
    BY <1>1, <1>2, <1>3, <2>2
  <2>4. QED
    BY <1>1, <2>1, <2>3 DEF CacheInv, CacheTypeOK, KeysOnce, HotStay
<1>5. CASE Positions(k) # {}
  <2>1. PICK i \in Positions(k) : data' = RemoveAt(data, i)
    BY <1>5 DEF erase
  <2>2. i \in 1 .. Len(data) /\ data[i].key = k
    BY <1>1 DEF Positions
  <2>3. /\ data' \in Seq(Entry) /\ Len(data') = Len(data) - 1
        /\ \A j \in 1 .. Len(data) - 1 : data'[j] = IF j < i THEN data[j] ELSE data[j + 1]
    BY <1>1, <2>1, <2>2, RemoveAtLemma
  <2> DEFINE From(j) == IF j < i THEN j ELSE j + 1
  <2>a. \A j \in 1 .. Len(data') : From(j) \in 1 .. Len(data) /\ data'[j] = data[From(j)]
    <3>1. Len(data) \in Nat /\ Len(data') = Len(data) - 1
      BY <1>1, <2>3
    <3>2. \A j \in 1 .. Len(data') : From(j) \in 1 .. Len(data)
      BY <2>2, <3>1
    <3>3. \A j \in 1 .. Len(data') : data'[j] = data[From(j)]
      BY <2>3, <3>1
    <3>4. QED
      BY <3>2, <3>3
  <2>b. \A a, b \in 1 .. Len(data') : From(a) = From(b) => a = b
    BY <2>2, <2>3
  <2> HIDE DEF From
  <2>4. KeysOnce'
    <3>1. \A x, y \in 1 .. Len(data) : data[x].key = data[y].key => x = y
      BY <1>1 DEF CacheInv, KeysOnce
    <3>2. \A x, y \in 1 .. Len(data') : data'[x].key = data'[y].key => x = y
      BY <2>a, <2>b, <3>1
    <3>3. QED
      BY <2>3, <3>2 DEF KeysOnce
  <2>5. /\ w \in Seq(Key) /\ Len(w) =< Len(data') /\ Len(w) =< Half
        /\ \A j \in 1 .. Len(w) : data'[j].key = w[j]
    <3>1. CASE w = hot /\ \A j \in DOMAIN hot : hot[j] # k
      <4>1. Len(hot) < i
        BY <1>1, <1>2, <2>2, <3>1
      <4>2. QED
        BY SMTT(40), <1>1, <1>2, <2>2, <2>3, <3>1, <4>1
    <3>2. ASSUME NEW p \in DOMAIN hot, hot[p] = k, w = RemoveAt(hot, p)
          PROVE  <2>5
      <4>1. p = i
        BY <1>1, <1>2, <2>2, <3>2 DEF CacheInv, KeysOnce
      <4>2. /\ w \in Seq(Key) /\ Len(w) = Len(hot) - 1
            /\ \A j \in 1 .. Len(hot) - 1 : w[j] = IF j < i THEN hot[j] ELSE hot[j + 1]
        <5>1. i \in 1 .. Len(hot) /\ w = RemoveAt(hot, i)
          BY <1>1, <3>2, <4>1
        <5>2. QED
          BY <1>1, <5>1, RemoveAtLemma
      <4>3. Len(w) =< Len(data') /\ Len(w) =< Half
        BY <1>1, <1>2, <2>3, <4>2
      <4>4. ASSUME NEW j \in 1 .. Len(w) PROVE data'[j].key = w[j]
        <5>a. j \in 1 .. Len(data) - 1 /\ j \in 1 .. Len(hot) - 1
          BY <1>1, <1>2, <2>3, <4>2, <4>3
        <5>1. CASE j < i
          <6>1. w[j] = hot[j] /\ data'[j] = data[j] /\ j \in 1 .. Len(hot)
            BY <1>1, <2>3, <4>2, <5>a, <5>1
          <6>2. QED
            BY <1>2, <6>1
        <5>2. CASE j >= i
          <6>1. w[j] = hot[j + 1] /\ data'[j] = data[j + 1] /\ j + 1 \in 1 .. Len(hot)
            BY <1>1, <2>2, <2>3, <4>2, <5>a, <5>2
          <6>2. QED
            BY <1>2, <6>1
        <5>3. QED
          BY <2>2, <5>1, <5>2
      <4>5. QED
        BY <4>2, <4>3, <4>4
    <3>3. QED
      BY <1>3, <3>1, <3>2
  <2>6. CacheTypeOK'
    BY <1>1, <2>3, <2>5 DEF CacheTypeOK
  <2>7. HotStay'
    <3>1. /\ hot' = w /\ DOMAIN w = 1 .. Len(w)
          /\ maxElements' \div 2 = maxElements \div 2
      BY <1>1, <2>5
    <3> QED
      BY <2>5, <3>1 DEF HotStay, Half
  <2> QED
    BY <2>4, <2>6, <2>7 DEF CacheInv
<1>6. QED
  BY <1>4, <1>5

LEMMA CutsKeep ==
  ASSUME CacheInv, NEW n \in Limit, setMaxElements(n)
  PROVE  CacheInv'
<1>1. /\ data \in Seq(Entry) /\ hot \in Seq(Key)
      /\ n \in Nat /\ n \div 2 \in Nat /\ n \div 2 =< n
      /\ maxElements' = n /\ answer' = <<>>
      /\ data' = Cut(data, n) /\ hot' = Cut(hot, n \div 2)
  BY LimitAssumption DEF CacheInv, CacheTypeOK, setMaxElements
<1>2. /\ data' \in Seq(Entry) /\ Len(data') = (IF Len(data) > n THEN n ELSE Len(data))
      /\ \A j \in 1 .. Len(data') : data'[j] = data[j]
  BY <1>1, CutLemma
<1>3. /\ hot' \in Seq(Key)
      /\ Len(hot') = (IF Len(hot) > n \div 2 THEN n \div 2 ELSE Len(hot))
      /\ \A j \in 1 .. Len(hot') : hot'[j] = hot[j]
  BY <1>1, CutLemma
<1>4. /\ Len(hot) =< Len(data)
      /\ \A j \in 1 .. Len(hot) : data[j].key = hot[j]
  BY <1>1 DEF CacheInv, HotStay
<1>5. CacheTypeOK'
  BY <1>1, <1>2, <1>3 DEF CacheTypeOK
<1>6. KeysOnce'
  BY SMTT(40), <1>1, <1>2 DEF CacheInv, KeysOnce
<1>7. HotStay'
  <2>1. Len(hot') =< Len(data') /\ Len(hot') =< n \div 2
    BY <1>1, <1>2, <1>3, <1>4
  <2>2. \A j \in 1 .. Len(hot') : data'[j].key = hot'[j]
    <3>1. \A j \in 1 .. Len(hot') : j \in 1 .. Len(hot) /\ j \in 1 .. Len(data')
      BY <1>1, <1>2, <1>3, <2>1
    <3>2. QED
      BY <1>2, <1>3, <1>4, <3>1
  <2>3. DOMAIN hot' = 1 .. Len(hot')
    BY <1>3
  <2>4. QED
    BY <1>1, <2>1, <2>2, <2>3 DEF HotStay
<1>8. QED
  BY <1>5, <1>6, <1>7 DEF CacheInv

THEOREM CacheInvariant == CacheSpec => []CacheInv
<1>1. CacheInit => CacheInv
  BY LimitAssumption DEF CacheInit, CacheInv, CacheTypeOK, KeysOnce, HotStay
<1>2. CacheInv /\ [CacheNext]_cacheVars => CacheInv'
  <2> SUFFICES ASSUME CacheInv, [CacheNext]_cacheVars PROVE CacheInv'
    OBVIOUS
  <2>1. ASSUME NEW k \in Key, NEW v \in Value, PutAgain(k, v) PROVE CacheInv'
    <3>1. PICK i \in Positions(k) : data' = ToFront(i, [key |-> k, value |-> v])
      BY <2>1 DEF PutAgain
    <3>2. UNCHANGED maxElements /\ Heat(k) /\ answer' = <<>>
      BY <2>1 DEF PutAgain
    <3>3. data' \in Seq(Entry) /\ Len(data') = Len(data) /\ KeysOnce'
      BY <3>1, <3>2, FrontKeepsKeys
    <3>4. hot' \in Seq(Key) /\ HotStay'
      BY <3>1, <3>2, FrontKeepsHot
    <3>5. QED
      BY <3>2, <3>3, <3>4 DEF CacheInv, CacheTypeOK
  <2>2. ASSUME NEW k \in Key, NEW v \in Value, PutNew(k, v) PROVE CacheInv'
    <3>1. data' \in Seq(Entry) /\ Len(data') =< maxElements /\ KeysOnce' /\ HotStay'
      BY <2>2, PutNewLemma
    <3>2. QED
      BY <2>2, <3>1 DEF CacheInv, CacheTypeOK, PutNew
  <2>3. ASSUME NEW k \in Key, Hit(k) PROVE CacheInv'
    <3>1. PICK i \in Positions(k) :
            data' = ToFront(i, data[i]) /\ answer' = <<data[i].value>>
      BY <2>3 DEF Hit
    <3>2. UNCHANGED maxElements /\ Heat(k)
      BY <2>3 DEF Hit
    <3>3. data[i] = [key |-> k, value |-> data[i].value] /\ data[i].value \in Value
      <4>1. data[i] \in Entry /\ data[i].key = k
        BY ElementOfSeq DEF Positions, CacheInv, CacheTypeOK
      <4>2. QED
        BY <4>1 DEF Entry
    <3>4. data' = ToFront(i, [key |-> k, value |-> data[i].value])
      BY <3>1, <3>3
    <3>5. data' \in Seq(Entry) /\ Len(data') = Len(data) /\ KeysOnce'
      BY <3>2, <3>3, <3>4, FrontKeepsKeys
    <3>6. hot' \in Seq(Key) /\ HotStay'
      BY <3>2, <3>3, <3>4, FrontKeepsHot
    <3>7. QED
      BY <3>1, <3>2, <3>3, <3>5, <3>6 DEF CacheInv, CacheTypeOK
  <2>4. ASSUME NEW k \in Key, Miss(k) PROVE CacheInv'
    BY <2>4 DEF Miss, CacheInv, CacheTypeOK, KeysOnce, HotStay
  <2>5. ASSUME NEW k \in Key, erase(k) PROVE CacheInv'
    BY <2>5, EraseLemma
  <2>6. ASSUME NEW n \in Limit, setMaxElements(n) PROVE CacheInv'
    BY <2>6, CutsKeep
  <2>7. CASE UNCHANGED cacheVars
    BY <2>7 DEF cacheVars, CacheInv, CacheTypeOK, KeysOnce, HotStay
  <2>8. QED
    BY <2>1, <2>2, <2>3, <2>4, <2>5, <2>6, <2>7 DEF CacheNext, Put, getx
<1>3. QED
  BY <1>1, <1>2, PTL DEF CacheSpec

(* The queue keeps its type and its limit. *)
THEOREM TypeCorrect == CacheSpec => []CacheTypeOK
  BY CacheInvariant, PTL DEF CacheInv

(* No key ever has two entries. *)
THEOREM NoDuplicates == CacheSpec => []KeysOnce
  BY CacheInvariant, PTL DEF CacheInv

(* What was hit last is never pushed out by what was put once. *)
THEOREM ScanResistant == CacheSpec => []HotStay
  BY CacheInvariant, PTL DEF CacheInv

-----------------------------------------------------------------------------
(* What was put is there afterwards, as the first of the queue or behind   *)
(* its first half, and never the one that is dropped.                      *)
LEMMA PutKept ==
  ASSUME CacheInv, NEW k \in Key, NEW v \in Value, Put(k, v), maxElements > 0
  PROVE  \E j \in DOMAIN data' : data'[j] = [key |-> k, value |-> v]
<1>1. CASE PutAgain(k, v)
  <2>1. PICK i \in Positions(k) : data' = ToFront(i, [key |-> k, value |-> v])
    BY <1>1 DEF PutAgain
  <2>2. [key |-> k, value |-> v] \in Entry
    BY DEF Entry
  <2>3. i \in DOMAIN data /\ data \in Seq(Entry)
    BY DEF Positions, CacheInv, CacheTypeOK
  <2>4. /\ data' \in Seq(Entry) /\ Len(data') = Len(data)
        /\ data'[1] = [key |-> k, value |-> v]
    <3> DEFINE e == [key |-> k, value |-> v]
    <3>1. e \in Entry /\ data' = ToFront(i, e)
      BY <2>1, <2>2
    <3> HIDE DEF e
    <3>2. /\ data' \in Seq(Entry) /\ Len(data') = Len(data)
          /\ \A j \in 1 .. Len(data) :
               data'[j] = IF j = 1 THEN e
                          ELSE IF j =< i THEN data[j - 1] ELSE data[j]
      BY <2>3, <3>1, ToFrontLemma
    <3>3. 1 \in 1 .. Len(data)
      BY <2>3
    <3>4. data'[1] = e
      BY <3>2, <3>3
    <3>5. QED
      BY <3>2, <3>4 DEF e
  <2>5. 1 \in DOMAIN data'
    BY <2>3, <2>4
  <2>6. QED
    BY <2>4, <2>5
<1>2. CASE PutNew(k, v)
  BY <1>2, PutNewLemma
<1>3. QED
  BY <1>1, <1>2 DEF Put

THEOREM PutsStay == CacheSpec => PutStays
<1>1. CacheInv /\ [CacheNext]_cacheVars =>
        [\A k \in Key, v \in Value :
           Put(k, v) /\ maxElements > 0 =>
             \E i \in DOMAIN data' : data'[i] = [key |-> k, value |-> v]]_cacheVars
  BY PutKept
<1>2. QED
  BY <1>1, CacheInvariant, PTL DEF CacheSpec, PutStays

-----------------------------------------------------------------------------
(* The cache as a map.  The entries determine the map, and every call      *)
(* keeps, drops or replaces entries.                                       *)

Holds(s, d) ==
  /\ DOMAIN s = {d[i].key : i \in 1 .. Len(d)}
  /\ \A i \in 1 .. Len(d) : s[d[i].key] = d[i].value
  /\ s = [k \in DOMAIN s |-> s[k]]

LEMMA ContentsHold ==
  ASSUME NEW d \in Seq(Entry),
         \A i, j \in DOMAIN d : d[i].key = d[j].key => i = j
  PROVE  Holds(Contents(d), d)
<1>1. DOMAIN d = 1 .. Len(d)
  OBVIOUS
<1>2. DOMAIN Contents(d) = {d[i].key : i \in 1 .. Len(d)}
  BY <1>1 DEF Contents
<1>3. ASSUME NEW i \in 1 .. Len(d)
      PROVE  Contents(d)[d[i].key] = d[i].value
  <2> DEFINE j == CHOOSE j \in DOMAIN d : d[j].key = d[i].key
  <2>1. j \in DOMAIN d /\ d[j].key = d[i].key
    BY <1>1
  <2>2. j = i
    BY <1>1, <2>1
  <2>3. Contents(d)[d[i].key] = d[j].value
    BY <1>1 DEF Contents
  <2>4. QED
    BY <2>2, <2>3
<1>4. Contents(d) = [k \in DOMAIN Contents(d) |-> Contents(d)[k]]
  BY DEF Contents
<1>5. QED
  BY <1>2, <1>3, <1>4 DEF Holds

LEMMA StoreHolds ==
  ASSUME CacheInv, CacheInv'
  PROVE  Holds(Store, data) /\ Holds(Store', data')
<1>1. /\ data \in Seq(Entry)
      /\ \A i, j \in DOMAIN data : data[i].key = data[j].key => i = j
  BY DEF CacheInv, CacheTypeOK, KeysOnce
<1>2. /\ data' \in Seq(Entry)
      /\ \A i, j \in DOMAIN data' : data'[i].key = data'[j].key => i = j
  BY DEF CacheInv, CacheTypeOK, KeysOnce, Entry
<1>3. Holds(Contents(data), data)
  BY <1>1, ContentsHold
<1>4. Holds(Contents(data'), data')
  BY <1>2, ContentsHold
<1>5. QED
  BY <1>3, <1>4 DEF Store

(* A step that only drops entries. *)
LEMMA DropStep ==
  ASSUME NEW s, NEW d, NEW t, NEW e, Holds(s, d), Holds(t, e),
         \A j \in 1 .. Len(e) : \E i \in 1 .. Len(d) : e[j] = d[i]
  PROVE  DOMAIN t \subseteq DOMAIN s /\ t = [x \in DOMAIN t |-> s[x]]
<1>1. \A x \in DOMAIN t : x \in DOMAIN s /\ t[x] = s[x]
  <2> TAKE x \in DOMAIN t
  <2>1. PICK j \in 1 .. Len(e) : x = e[j].key
    BY DEF Holds
  <2>2. PICK i \in 1 .. Len(d) : e[j] = d[i]
    OBVIOUS
  <2>3. x \in DOMAIN s
    BY <2>1, <2>2 DEF Holds
  <2>4. t[e[j].key] = e[j].value
    BY DEF Holds
  <2>5. s[d[i].key] = d[i].value
    BY DEF Holds
  <2>6. QED
    BY <2>1, <2>2, <2>3, <2>4, <2>5
<1>2. t = [x \in DOMAIN t |-> t[x]]
  BY DEF Holds
<1>3. QED
  BY <1>1, <1>2

(* A step that puts a value, and may drop entries. *)
LEMMA PutStep ==
  ASSUME NEW s, NEW d, NEW t, NEW e, Holds(s, d), Holds(t, e), NEW k, NEW v,
         \A j \in 1 .. Len(e) :
           \/ e[j] = [key |-> k, value |-> v]
           \/ \E i \in 1 .. Len(d) : e[j] = d[i] /\ d[i].key # k
  PROVE  /\ DOMAIN t \subseteq DOMAIN s \cup {k}
         /\ t = [x \in DOMAIN t |-> IF x = k THEN v ELSE s[x]]
<1>1. \A x \in DOMAIN t : /\ x \in DOMAIN s \cup {k}
                          /\ t[x] = IF x = k THEN v ELSE s[x]
  <2> TAKE x \in DOMAIN t
  <2>1. PICK j \in 1 .. Len(e) : x = e[j].key
    BY DEF Holds
  <2>2. CASE e[j] = [key |-> k, value |-> v]
    <3>1. e[j].key = k /\ e[j].value = v
      BY <2>2
    <3>2. QED
      BY <2>1, <3>1 DEF Holds
  <2>3. ASSUME NEW i \in 1 .. Len(d), e[j] = d[i], d[i].key # k
        PROVE  x \in DOMAIN s \cup {k} /\ t[x] = IF x = k THEN v ELSE s[x]
    BY <2>1, <2>3 DEF Holds
  <2>4. QED
    BY <2>2, <2>3
<1>2. t = [x \in DOMAIN t |-> t[x]]
  BY DEF Holds
<1>3. QED
  BY <1>1, <1>2

(* What moving an entry to the front does to the other entries. *)
LEMMA FrontEntries ==
  ASSUME CacheInv, NEW k, NEW i \in Positions(k), NEW e \in Entry, data' = ToFront(i, e)
  PROVE  /\ \A j \in 1 .. Len(data') :
              \/ data'[j] = e
              \/ \E n \in 1 .. Len(data) : data'[j] = data[n] /\ data[n].key # k
         /\ \A n \in 1 .. Len(data) :
              n = i \/ \E j \in 1 .. Len(data') : data[n] = data'[j]
         /\ 1 \in 1 .. Len(data') /\ data'[1] = e
<1>1. /\ data \in Seq(Entry) /\ i \in 1 .. Len(data) /\ data[i].key = k
      /\ \A a, b \in 1 .. Len(data) : data[a].key = data[b].key => a = b
  BY DEF CacheInv, CacheTypeOK, KeysOnce, Positions
<1>2. /\ data' \in Seq(Entry) /\ Len(data') = Len(data)
      /\ \A j \in 1 .. Len(data) :
           data'[j] = IF j = 1 THEN e ELSE IF j =< i THEN data[j - 1] ELSE data[j]
  <2>1. i \in DOMAIN data
    BY <1>1
  <2>2. QED
    BY <1>1, <2>1, ToFrontLemma
<1>3. ASSUME NEW j \in 1 .. Len(data'), j # 1
      PROVE  \E n \in 1 .. Len(data) : data'[j] = data[n] /\ data[n].key # k
  <2>1. CASE j =< i
    <3>1. j - 1 \in 1 .. Len(data) /\ j - 1 # i /\ data'[j] = data[j - 1]
      BY <1>1, <1>2, <1>3, <2>1
    <3>2. QED
      BY <1>1, <3>1
  <2>2. CASE j > i
    <3>1. j \in 1 .. Len(data) /\ j # i /\ data'[j] = data[j]
      BY <1>1, <1>2, <1>3, <2>2
    <3>2. QED
      BY <1>1, <3>1
  <2>3. QED
    BY <1>1, <2>1, <2>2
<1>4. 1 \in 1 .. Len(data') /\ data'[1] = e
  BY <1>1, <1>2
<1>5. ASSUME NEW n \in 1 .. Len(data), n # i
      PROVE  \E j \in 1 .. Len(data') : data[n] = data'[j]
  <2>1. CASE n < i
    <3>1. n + 1 \in 1 .. Len(data') /\ data'[n + 1] = data[n]
      BY <1>1, <1>2, <2>1
    <3>2. QED
      BY <3>1
  <2>2. CASE n > i
    <3>1. n \in 1 .. Len(data') /\ data'[n] = data[n]
      BY <1>1, <1>2, <2>2
    <3>2. QED
      BY <3>1
  <2>3. QED
    BY <1>1, <1>5, <2>1, <2>2
<1>6. QED
  BY <1>3, <1>4, <1>5

LEMMA MapPut ==
  ASSUME CacheInv, CacheInv', NEW k \in Key, NEW v \in Value, Put(k, v)
  PROVE  Map!Put(k, v)
<1>1. Holds(Store, data) /\ Holds(Store', data')
  BY StoreHolds
<1>2. \A j \in 1 .. Len(data') :
        \/ data'[j] = [key |-> k, value |-> v]
        \/ \E i \in 1 .. Len(data) : data'[j] = data[i] /\ data[i].key # k
  <2>1. CASE PutAgain(k, v)
    <3>1. PICK i \in Positions(k) : data' = ToFront(i, [key |-> k, value |-> v])
      BY <2>1 DEF PutAgain
    <3>2. [key |-> k, value |-> v] \in Entry
      BY DEF Entry
    <3>3. QED
      BY <3>1, <3>2, FrontEntries
  <2>2. CASE PutNew(k, v)
    BY <2>2, PutNewLemma
  <2>3. QED
    BY <2>1, <2>2 DEF Put
<1>3. /\ DOMAIN Store' \subseteq DOMAIN Store \cup {k}
      /\ Store' = [x \in DOMAIN Store' |-> IF x = k THEN v ELSE Store[x]]
  BY <1>1, <1>2, PutStep
<1>4. call' = [op |-> "put", key |-> k, value |-> v] /\ answer' = <<>>
  BY DEF Put, PutAgain, PutNew
<1>5. QED
  BY <1>3, <1>4 DEF Map!Put

LEMMA MapGet ==
  ASSUME CacheInv, CacheInv', NEW k \in Key, getx(k)
  PROVE  Map!Get(k)
<1>1. Holds(Store, data) /\ Holds(Store', data')
  BY StoreHolds
<1>2. DOMAIN data = 1 .. Len(data) /\ call' = [op |-> "get", key |-> k]
  BY DEF CacheInv, CacheTypeOK, getx
<1>3. CASE Hit(k)
  <2>1. PICK i \in Positions(k) : data' = ToFront(i, data[i]) /\ answer' = <<data[i].value>>
    BY <1>3 DEF Hit
  <2>2. i \in 1 .. Len(data) /\ data[i].key = k /\ data[i] \in Entry
    BY <1>2, ElementOfSeq DEF Positions, CacheInv, CacheTypeOK
  <2>3. /\ \A j \in 1 .. Len(data') : \E n \in 1 .. Len(data) : data'[j] = data[n]
        /\ \A n \in 1 .. Len(data) : \E j \in 1 .. Len(data') : data[n] = data'[j]
    <3>1. /\ \A j \in 1 .. Len(data') :
               \/ data'[j] = data[i]
               \/ \E n \in 1 .. Len(data) : data'[j] = data[n] /\ data[n].key # k
          /\ \A n \in 1 .. Len(data) :
               n = i \/ \E j \in 1 .. Len(data') : data[n] = data'[j]
          /\ 1 \in 1 .. Len(data') /\ data'[1] = data[i]
      BY <2>1, <2>2, FrontEntries
    <3>2. QED
      BY <2>2, <3>1
  <2>4. DOMAIN Store' \subseteq DOMAIN Store
    BY <1>1, <2>3, DropStep
  <2>5. DOMAIN Store \subseteq DOMAIN Store' /\ Store = [x \in DOMAIN Store |-> Store'[x]]
    BY <1>1, <2>3, DropStep
  <2>6. Store' = [x \in DOMAIN Store' |-> Store'[x]]
    BY <1>1 DEF Holds
  <2>7. Store' = Store
    BY <2>4, <2>5, <2>6
  <2>8. k \in DOMAIN Store /\ Store[k] = data[i].value
    BY <1>1, <2>2 DEF Holds
  <2>9. QED
    BY <1>2, <2>1, <2>7, <2>8 DEF Map!Get
<1>4. CASE Miss(k)
  <2>1. k \notin DOMAIN Store
    BY <1>1, <1>2, <1>4 DEF Miss, Positions, Holds
  <2>2. Store' = Store /\ answer' = <<>>
    BY <1>4 DEF Miss, Store, Contents
  <2>3. QED
    BY <1>2, <2>1, <2>2 DEF Map!Get
<1>5. QED
  BY <1>3, <1>4 DEF getx

LEMMA MapErase ==
  ASSUME CacheInv, CacheInv', NEW k \in Key, erase(k)
  PROVE  Map!Erase(k)
<1>1. Holds(Store, data) /\ Holds(Store', data')
  BY StoreHolds
<1>2. /\ data \in Seq(Entry) /\ DOMAIN data = 1 .. Len(data)
      /\ \A a, b \in 1 .. Len(data) : data[a].key = data[b].key => a = b
  BY DEF CacheInv, CacheTypeOK, KeysOnce
<1>3. call' = [op |-> "erase", key |-> k] /\ answer' = <<>>
  BY DEF erase
<1>4. /\ \A j \in 1 .. Len(data') :
           \E n \in 1 .. Len(data) : data'[j] = data[n] /\ data[n].key # k
      /\ \A n \in 1 .. Len(data) :
           data[n].key = k \/ \E j \in 1 .. Len(data') : data[n] = data'[j]
  <2>1. CASE Positions(k) = {}
    BY <1>2, <2>1 DEF erase, Positions
  <2>2. CASE Positions(k) # {}
    <3>1. PICK i \in Positions(k) : data' = RemoveAt(data, i)
      BY <2>2 DEF erase
    <3>2. i \in 1 .. Len(data) /\ data[i].key = k
      BY <1>2 DEF Positions
    <3>3. /\ Len(data') = Len(data) - 1
          /\ \A j \in 1 .. Len(data) - 1 : data'[j] = IF j < i THEN data[j] ELSE data[j + 1]
      BY <1>2, <3>1, <3>2, RemoveAtLemma
    <3>4. ASSUME NEW j \in 1 .. Len(data')
          PROVE  \E n \in 1 .. Len(data) : data'[j] = data[n] /\ data[n].key # k
      <4>1. CASE j < i
        <5>1. j \in 1 .. Len(data) /\ j # i /\ data'[j] = data[j]
          BY <1>2, <3>2, <3>3, <4>1
        <5>2. QED
          BY <1>2, <3>2, <5>1
      <4>2. CASE j >= i
        <5>1. j + 1 \in 1 .. Len(data) /\ j + 1 # i /\ data'[j] = data[j + 1]
          BY <1>2, <3>2, <3>3, <4>2
        <5>2. QED
          BY <1>2, <3>2, <5>1
      <4>3. QED
        BY <3>2, <4>1, <4>2
    <3>5. ASSUME NEW n \in 1 .. Len(data), data[n].key # k
          PROVE  \E j \in 1 .. Len(data') : data[n] = data'[j]
      <4>1. CASE n < i
        <5>1. n \in 1 .. Len(data') /\ data'[n] = data[n]
          BY <1>2, <3>2, <3>3, <4>1
        <5>2. QED
          BY <5>1
      <4>2. CASE n > i
        <5>1. n - 1 \in 1 .. Len(data') /\ data'[n - 1] = data[n]
          BY <1>2, <3>2, <3>3, <4>2
        <5>2. QED
          BY <5>1
      <4>3. QED
        BY <3>2, <3>5, <4>1, <4>2
    <3>6. QED
      BY <3>4, <3>5
  <2>3. QED
    BY <2>1, <2>2
<1>5. DOMAIN Store' = DOMAIN Store \ {k}
  <2>1. ASSUME NEW x \in DOMAIN Store' PROVE x \in DOMAIN Store /\ x # k
    BY <1>1, <1>4, <2>1 DEF Holds
  <2>2. ASSUME NEW x \in DOMAIN Store, x # k PROVE x \in DOMAIN Store'
    <3>1. PICK n \in 1 .. Len(data) : x = data[n].key
      BY <1>1 DEF Holds
    <3>2. PICK j \in 1 .. Len(data') : data[n] = data'[j]
      BY <1>4, <2>2, <3>1
    <3>3. QED
      BY <1>1, <3>1, <3>2 DEF Holds
  <2>3. QED
    BY <2>1, <2>2
<1>6. Store' = [x \in DOMAIN Store' |-> Store[x]]
  BY <1>1, <1>4, DropStep
<1>7. QED
  BY <1>3, <1>5, <1>6 DEF Map!Erase, Map!Keep

LEMMA MapSetMax ==
  ASSUME CacheInv, CacheInv', NEW n \in Limit, setMaxElements(n)
  PROVE  Map!SetMaxElements
<1>1. Holds(Store, data) /\ Holds(Store', data')
  BY StoreHolds
<1>2. /\ data \in Seq(Entry) /\ n \in Nat /\ data' = Cut(data, n)
      /\ call' = [op |-> "setMaxElements"] /\ answer' = <<>>
  BY LimitAssumption DEF CacheInv, CacheTypeOK, setMaxElements
<1>3. Len(data') =< Len(data) /\ \A j \in 1 .. Len(data') : data'[j] = data[j]
  <2>1. /\ Len(data') = IF Len(data) > n THEN n ELSE Len(data)
        /\ \A j \in 1 .. Len(data') : data'[j] = data[j]
    BY <1>2, CutLemma
  <2>2. QED
    BY <1>2, <2>1
<1>4. \A j \in 1 .. Len(data') : \E i \in 1 .. Len(data) : data'[j] = data[i]
  <2>1. \A j \in 1 .. Len(data') : j \in 1 .. Len(data)
    BY <1>2, <1>3
  <2>2. QED
    BY <1>3, <2>1
<1>5. /\ DOMAIN Store' \subseteq DOMAIN Store
      /\ Store' = [x \in DOMAIN Store' |-> Store[x]]
  BY <1>1, <1>4, DropStep
<1>6. QED
  BY <1>2, <1>5 DEF Map!SetMaxElements, Map!Keep

(* The cache answers with nothing but the value last put for a key. *)
THEOREM CacheImplementsMap == CacheSpec => ImplementsMap
<1>1. CacheInit => Map!Init
  <2> SUFFICES ASSUME CacheInit PROVE Map!Init
    OBVIOUS
  <2>1. DOMAIN data = {}
    BY DEF CacheInit
  <2>2. Store = [k \in {} |-> k]
    BY <2>1 DEF Store, Contents
  <2>3. QED
    BY <2>2 DEF CacheInit, Map!Init
<1>2. CacheInv /\ CacheInv' /\ [CacheNext]_cacheVars => [Map!Next]_<<Store, call, answer>>
  <2> SUFFICES ASSUME CacheInv, CacheInv', [CacheNext]_cacheVars
               PROVE  Map!Next \/ UNCHANGED <<Store, call, answer>>
    OBVIOUS
  <2>1. ASSUME NEW k \in Key, NEW v \in Value, Put(k, v) PROVE Map!Next
    BY <2>1, MapPut DEF Map!Next
  <2>2. ASSUME NEW k \in Key, getx(k) PROVE Map!Next
    BY <2>2, MapGet DEF Map!Next
  <2>3. ASSUME NEW k \in Key, erase(k) PROVE Map!Next
    BY <2>3, MapErase DEF Map!Next
  <2>4. ASSUME NEW n \in Limit, setMaxElements(n) PROVE Map!Next
    BY <2>4, MapSetMax DEF Map!Next
  <2>5. CASE UNCHANGED cacheVars
    BY <2>5 DEF cacheVars, Store, Contents
  <2>6. QED
    BY <2>1, <2>2, <2>3, <2>4, <2>5 DEF CacheNext
<1>3. QED
  BY <1>1, <1>2, CacheInvariant, PTL DEF CacheSpec, ImplementsMap, Map!Spec

-----------------------------------------------------------------------------
(* ZimStream *)

-----------------------------------------------------------------------------
(* The elements of a sequence, and of one that an entry of the cache is    *)
(* taken to the front of or comes into.                                    *)

Elements(s) == {s[i] : i \in DOMAIN s}

LEMMA ElementsConcat ==
  ASSUME NEW S, NEW s \in Seq(S), NEW t \in Seq(S)
  PROVE  /\ s \o t \in Seq(S) /\ Len(s \o t) = Len(s) + Len(t)
         /\ Elements(s \o t) = Elements(s) \cup Elements(t)
<1>1. /\ s \o t \in Seq(S) /\ Len(s \o t) = Len(s) + Len(t)
      /\ Len(s) \in Nat /\ Len(t) \in Nat
      /\ \A j \in 1 .. Len(s) + Len(t) :
           (s \o t)[j] = IF j <= Len(s) THEN s[j] ELSE t[j - Len(s)]
  BY ConcatProperties
<1>2. ASSUME NEW j \in DOMAIN (s \o t) PROVE (s \o t)[j] \in Elements(s) \cup Elements(t)
  <2>1. j =< Len(s) => j \in DOMAIN s /\ (s \o t)[j] = s[j]
    BY <1>1
  <2>2. j > Len(s) => j - Len(s) \in DOMAIN t /\ (s \o t)[j] = t[j - Len(s)]
    BY <1>1
  <2> QED
    BY <1>1, <2>1, <2>2 DEF Elements
<1>3. ASSUME NEW j \in DOMAIN s PROVE s[j] \in Elements(s \o t)
  <2>1. j \in DOMAIN (s \o t) /\ (s \o t)[j] = s[j]
    BY <1>1
  <2> QED
    BY <2>1 DEF Elements
<1>4. ASSUME NEW j \in DOMAIN t PROVE t[j] \in Elements(s \o t)
  <2>1. j + Len(s) \in DOMAIN (s \o t) /\ (s \o t)[j + Len(s)] = t[j]
    BY <1>1
  <2> QED
    BY <2>1 DEF Elements
<1> QED
  BY <1>1, <1>2, <1>3, <1>4 DEF Elements

LEMMA ElementsSubSeq ==
  ASSUME NEW S, NEW s \in Seq(S), NEW m \in 1 .. Len(s) + 1, NEW n \in 0 .. Len(s)
  PROVE  /\ SubSeq(s, m, n) \in Seq(S)
         /\ Len(SubSeq(s, m, n)) = IF m =< n THEN n - m + 1 ELSE 0
         /\ Elements(SubSeq(s, m, n)) = {s[k] : k \in m .. n}
<1> DEFINE t == SubSeq(s, m, n)
<1>1. \A k \in m .. n : s[k] \in S
  OBVIOUS
<1>2. /\ t \in Seq(S) /\ Len(t) = IF m =< n THEN n - m + 1 ELSE 0
      /\ \A j \in 1 .. n - m + 1 : t[j] = s[m + j - 1]
  BY <1>1, SubSeqProperties
<1> HIDE DEF t
<1>3. ASSUME NEW j \in DOMAIN t PROVE t[j] \in {s[k] : k \in m .. n}
  <2>1. m + j - 1 \in m .. n /\ t[j] = s[m + j - 1]
    BY <1>2
  <2> QED
    BY <2>1
<1>4. ASSUME NEW k \in m .. n PROVE s[k] \in Elements(t)
  <2>1. k - m + 1 \in DOMAIN t /\ t[k - m + 1] = s[k]
    BY <1>2
  <2> QED
    BY <2>1 DEF Elements
<1>5. Elements(t) = {s[k] : k \in m .. n}
  BY <1>3, <1>4 DEF Elements
<1> QED
  BY <1>2, <1>5 DEF t

LEMMA ElementsOne ==
  ASSUME NEW S, NEW e \in S
  PROVE  <<e>> \in Seq(S) /\ Len(<<e>>) = 1 /\ Elements(<<e>>) = {e}
  BY DEF Elements

LEMMA Fronted ==
  ASSUME NEW S, NEW s \in Seq(S), NEW i \in DOMAIN s
  PROVE  LET t == <<s[i]>> \o RemoveAt(s, i)
         IN t \in Seq(S) /\ Len(t) = Len(s) /\ Elements(t) = Elements(s)
<1> DEFINE a == SubSeq(s, 1, i - 1)
           b == SubSeq(s, i + 1, Len(s))
           one == <<s[i]>>
           rest == a \o b
           t == one \o rest
<1>1. i \in 1 .. Len(s) /\ Len(s) \in Nat /\ s[i] \in S
  OBVIOUS
<1>2. a \in Seq(S) /\ Len(a) = i - 1 /\ Elements(a) = {s[k] : k \in 1 .. i - 1}
  BY SMTT(40), <1>1, ElementsSubSeq
<1>3. b \in Seq(S) /\ Len(b) = Len(s) - i /\ Elements(b) = {s[k] : k \in i + 1 .. Len(s)}
  BY SMTT(40), <1>1, ElementsSubSeq
<1>4. one \in Seq(S) /\ Len(one) = 1 /\ Elements(one) = {s[i]}
  BY <1>1, ElementsOne
<1>5. RemoveAt(s, i) = rest
  BY DEF RemoveAt
<1> HIDE DEF a, b, one
<1>6. /\ rest \in Seq(S) /\ Len(rest) = Len(a) + Len(b)
      /\ Elements(rest) = Elements(a) \cup Elements(b)
  BY SMTT(40), <1>2, <1>3, ElementsConcat
<1> HIDE DEF rest
<1>7. /\ t \in Seq(S) /\ Len(t) = Len(one) + Len(rest)
      /\ Elements(t) = Elements(one) \cup Elements(rest)
  <2>1. one \in Seq(S) /\ rest \in Seq(S)
    BY <1>4, <1>6
  <2> QED
    BY <2>1, ElementsConcat
<1>8. one \o rest = t
  OBVIOUS
<1> HIDE DEF t
<1>9. Len(t) = Len(s)
  BY SMTT(40), <1>1, <1>2, <1>3, <1>4, <1>6, <1>7
<1>10. Elements(t) = Elements(s)
  <2>1. \A k : k \in DOMAIN s <=> k = i \/ k \in 1 .. i - 1 \/ k \in i + 1 .. Len(s)
    BY <1>1
  <2> QED
    BY <1>2, <1>3, <1>4, <1>6, <1>7, <2>1 DEF Elements
<1> QED
  BY <1>5, <1>7, <1>8, <1>9, <1>10, Zenon DEF one

LEMMA Inserted ==
  ASSUME NEW S, NEW s \in Seq(S), NEW i \in 1 .. Len(s) + 1, NEW e \in S, NEW max \in Nat,
         Len(s) =< max
  PROVE  LET long == InsertAt(s, i, e)
             t == IF Len(long) > max THEN SubSeq(long, 1, Len(long) - 1) ELSE long
         IN t \in Seq(S) /\ Len(t) =< max /\ Elements(t) \subseteq Elements(s) \cup {e}
<1> DEFINE a == SubSeq(s, 1, i - 1)
           b == SubSeq(s, i, Len(s))
           one == <<e>>
           front == a \o one
           long == front \o b
           t == IF Len(long) > max THEN SubSeq(long, 1, Len(long) - 1) ELSE long
<1>1. i - 1 \in 0 .. Len(s) /\ Len(s) \in Nat
  OBVIOUS
<1>2. a \in Seq(S) /\ Len(a) = i - 1 /\ Elements(a) = {s[k] : k \in 1 .. i - 1}
  BY SMTT(40), <1>1, ElementsSubSeq
<1>3. b \in Seq(S) /\ Len(b) = Len(s) - i + 1 /\ Elements(b) = {s[k] : k \in i .. Len(s)}
  <2>1. i \in 1 .. Len(s) + 1 /\ Len(s) \in 0 .. Len(s)
    BY <1>1
  <2>2. /\ b \in Seq(S) /\ Len(b) = IF i =< Len(s) THEN Len(s) - i + 1 ELSE 0
        /\ Elements(b) = {s[k] : k \in i .. Len(s)}
    BY SMTT(40), <2>1, ElementsSubSeq
  <2> QED
    BY <1>1, <2>2
<1>4. one \in Seq(S) /\ Len(one) = 1 /\ Elements(one) = {e}
  BY ElementsOne
<1>5. InsertAt(s, i, e) = long
  BY DEF InsertAt
<1> HIDE DEF a, b, one
<1>6. /\ front \in Seq(S) /\ Len(front) = Len(a) + Len(one)
      /\ Elements(front) = Elements(a) \cup Elements(one)
  BY <1>2, <1>4, ElementsConcat
<1> HIDE DEF front
<1>7. /\ long \in Seq(S) /\ Len(long) = Len(front) + Len(b)
      /\ Elements(long) = Elements(front) \cup Elements(b)
  BY <1>3, <1>6, ElementsConcat
<1> HIDE DEF long
<1>8. Len(long) = Len(s) + 1
  BY <1>1, <1>2, <1>3, <1>4, <1>6, <1>7
<1>9. Elements(long) \subseteq Elements(s) \cup {e}
  <2>1. \A k : k \in 1 .. i - 1 \/ k \in i .. Len(s) => k \in DOMAIN s
    BY <1>1
  <2> QED
    BY <1>2, <1>3, <1>4, <1>6, <1>7, <2>1 DEF Elements
<1>10. t \in Seq(S) /\ Len(t) =< max /\ Elements(t) \subseteq Elements(long)
  <2>1. CASE Len(long) > max
    <3> DEFINE n == Len(long) - 1
               u == SubSeq(long, 1, n)
    <3>1. n = Len(s) /\ n \in 0 .. Len(long) /\ 1 \in 1 .. Len(long) + 1
      BY <1>1, <1>8
    <3>2. t = u
      BY <2>1
    <3> HIDE DEF n
    <3>3. /\ u \in Seq(S) /\ Len(u) = IF 1 =< n THEN n - 1 + 1 ELSE 0
          /\ Elements(u) = {long[k] : k \in 1 .. n}
      <4>1. long \in Seq(S)
        BY <1>7
      <4> QED
        BY <3>1, <4>1, ElementsSubSeq
    <3>4. \A k \in 1 .. n : k \in DOMAIN long
      BY <1>7, <1>8, <3>1
    <3> HIDE DEF u, t
    <3>5. Elements(u) \subseteq Elements(long)
      BY <3>3, <3>4 DEF Elements
    <3> QED
      BY <1>1, <3>1, <3>2, <3>3, <3>5
  <2>2. CASE ~(Len(long) > max)
    BY <1>1, <1>7, <1>8, <2>2
  <2> QED
    BY <2>1, <2>2
<1> HIDE DEF t
<1> QED
  BY <1>5, <1>9, <1>10 DEF t

-----------------------------------------------------------------------------
(* Where parts begin.  A sum over the parts is a recursive definition; a   *)
(* set of numbers without a least one is empty, which does for induction.  *)

LEMMA Least ==
  ASSUME NEW S, S \subseteq Nat, S # {}
  PROVE  \E n \in S : \A m \in S : n =< m
<1> DEFINE R == {ss \in Nat \X Nat : ss[1] < ss[2]}
<1>1. IsWellFoundedOn(R, Nat)
  BY NatLessThanWellFounded DEF OpToRel
<1>2. \A x, y \in Nat : <<x, y>> \in R <=> x < y
  OBVIOUS
<1> HIDE DEF R
<1>3. \E x \in S : \A y \in S : <<y, x>> \notin R
  BY <1>1, WFMin, Zenon
<1>4. PICK x \in S : \A y \in S : <<y, x>> \notin R
  BY <1>3
<1>5. ASSUME NEW y \in S PROVE x =< y
  <2>1. x \in Nat /\ y \in Nat /\ ~(y < x)
    BY <1>2, <1>4
  <2> QED
    BY <2>1
<1> QED
  BY <1>5

SumsUpTo(n, f) ==
  f \in [1 .. n + 1 -> Nat] /\ f[1] = 0 /\ \A p \in 1 .. n : f[p + 1] = f[p] + files[p]

LEMMA SumsExist ==
  ASSUME files \in Seq(Nat)
  PROVE  \A n \in 0 .. Len(files) : \E f : SumsUpTo(n, f)
<1> DEFINE Missing == {n \in 0 .. Len(files) : ~ \E f : SumsUpTo(n, f)}
<1> SUFFICES ASSUME Missing # {} PROVE FALSE
  OBVIOUS
<1>1. Missing \subseteq Nat
  OBVIOUS
<1>2. PICK n \in Missing : \A m \in Missing : n =< m
  BY <1>1, Least
<1>3. n \in 0 .. Len(files) /\ Len(files) \in Nat /\ ~ \E f : SumsUpTo(n, f)
  OBVIOUS
<1>4. n # 0
  <2> SUFFICES SumsUpTo(0, [p \in 1 .. 1 |-> 0])
    BY <1>3
  <2> QED
    BY DEF SumsUpTo
<1>5. n - 1 \in 0 .. Len(files) /\ n - 1 \notin Missing
  <2>1. n - 1 \in 0 .. Len(files) /\ ~(n =< n - 1)
    BY <1>3, <1>4
  <2> QED
    BY <1>2, <2>1, Zenon
<1>6. PICK f : SumsUpTo(n - 1, f)
  BY <1>5
<1> DEFINE g == [p \in 1 .. n + 1 |-> IF p = n + 1 THEN f[n] + files[n] ELSE f[p]]
<1>7. /\ f \in [1 .. n -> Nat] /\ f[1] = 0
      /\ \A p \in 1 .. n - 1 : f[p + 1] = f[p] + files[p]
  BY <1>3, <1>4, <1>6 DEF SumsUpTo
<1>8. files[n] \in Nat
  BY <1>3, <1>4
<1>9. SumsUpTo(n, g)
  <2>1. g \in [1 .. n + 1 -> Nat]
    BY <1>3, <1>4, <1>7, <1>8
  <2>2. g[1] = 0
    BY <1>3, <1>4, <1>7
  <2>3. ASSUME NEW p \in 1 .. n PROVE g[p + 1] = g[p] + files[p]
    <3>1. CASE p = n
      BY <1>3, <1>4, <3>1
    <3>2. CASE p # n
      BY <1>3, <1>4, <1>7, <3>2
    <3> QED
      BY <3>1, <3>2
  <2> QED
    BY <2>1, <2>2, <2>3 DEF SumsUpTo
<1> QED
  BY <1>3, <1>9

LEMMA StartsSum ==
  ASSUME files \in Seq(Nat)
  PROVE  SumsUpTo(Len(files), Starts)
<1> DEFINE n == Len(files)
           Is(f) == f = [p \in 1 .. n + 1 |-> IF p = 1 THEN 0 ELSE f[p - 1] + files[p - 1]]
<1>1. n \in Nat /\ \E f : SumsUpTo(n, f)
  BY SumsExist
<1>2. PICK f : SumsUpTo(n, f)
  BY <1>1
<1>3. Is(f)
  BY <1>1, <1>2 DEF SumsUpTo
<1>4. Starts = CHOOSE g : Is(g)
  BY DEF Starts
<1>5. Is(Starts)
  <2> HIDE DEF Is
  <2> QED
    BY <1>3, <1>4, Zenon
<1>6. /\ Starts = [p \in 1 .. n + 1 |-> Starts[p]]
      /\ \A p \in 1 .. n + 1 : Starts[p] = IF p = 1 THEN 0 ELSE Starts[p - 1] + files[p - 1]
  BY <1>5
<1>7. \A p \in 1 .. n + 1 : Starts[p] = f[p]
  <2> DEFINE Other == {p \in 1 .. n + 1 : Starts[p] # f[p]}
  <2> SUFFICES ASSUME Other # {} PROVE FALSE
    OBVIOUS
  <2>1. Other \subseteq Nat
    OBVIOUS
  <2>2. PICK p \in Other : \A q \in Other : p =< q
    BY <2>1, Least
  <2>3. p \in 1 .. n + 1 /\ Starts[p] # f[p]
    OBVIOUS
  <2>4. p # 1
    BY <1>1, <1>2, <1>6, <2>3 DEF SumsUpTo
  <2>5. p - 1 \in 1 .. n /\ p - 1 \notin Other
    BY <1>1, <2>2, <2>3, <2>4
  <2>6. Starts[p - 1] = f[p - 1]
    <3>1. p - 1 \in 1 .. n + 1
      BY <1>1, <2>5
    <3> QED
      BY <2>5, <3>1
  <2>7. Starts[p] = Starts[p - 1] + files[p - 1]
    BY <1>6, <2>3, <2>4
  <2>8. f[(p - 1) + 1] = f[p - 1] + files[p - 1] /\ (p - 1) + 1 = p
    BY <1>2, <2>3, <2>5 DEF SumsUpTo
  <2> QED
    BY <2>3, <2>6, <2>7, <2>8
<1>8. Starts = f
  <2>1. f = [p \in 1 .. n + 1 |-> f[p]]
    BY <1>2 DEF SumsUpTo
  <2> QED
    BY <1>6, <1>7, <2>1
<1> QED
  BY <1>2, <1>8, Zenon

LEMMA StartsGrow ==
  ASSUME files \in Seq(Nat), NEW p \in 1 .. Len(files)
  PROVE  /\ Start(p) \in Nat /\ Start(p + 1) = Start(p) + files[p] /\ files[p] \in Nat
         /\ Start(1) = 0 /\ Start(p + 1) =< Size /\ Size \in Nat
<1> DEFINE n == Len(files)
           Less == {q \in p + 1 .. n + 1 : Starts[q] < Starts[p + 1]}
<1>1. SumsUpTo(n, Starts) /\ n \in Nat /\ p \in Nat
  BY StartsSum
<1>2. \A q \in 1 .. n : Starts[q + 1] = Starts[q] + files[q]
  BY <1>1 DEF SumsUpTo
<1>3. Starts[1] = 0 /\ \A q \in 1 .. n + 1 : Starts[q] \in Nat
  BY <1>1 DEF SumsUpTo
<1>4. Less = {}
  <2> SUFFICES ASSUME Less # {} PROVE FALSE
    OBVIOUS
  <2>1. Less \subseteq Nat
    BY <1>1
  <2>2. PICK q \in Less : \A r \in Less : q =< r
    BY <2>1, Least
  <2>3. q \in p + 1 .. n + 1 /\ Starts[q] < Starts[p + 1]
    OBVIOUS
  <2>4. q # p + 1
    BY <1>1, <1>3, <2>3
  <2>5. q - 1 \in p + 1 .. n + 1 /\ q - 1 \in 1 .. n /\ q - 1 \notin Less
    BY <1>1, <2>2, <2>3, <2>4
  <2>6. ~(Starts[q - 1] < Starts[p + 1])
    BY <2>5
  <2>7. Starts[q] = Starts[q - 1] + files[q - 1]
    BY <1>1, <1>2, <2>5
  <2>8. files[q - 1] \in Nat /\ Starts[q] \in Nat /\ Starts[q - 1] \in Nat /\ Starts[p + 1] \in Nat
    BY SMTT(40), <1>1, <1>3, <2>3, <2>5
  <2> HIDE DEF Less
  <2> QED
    BY SMTT(40), <2>3, <2>6, <2>7, <2>8
<1>5. ~(Starts[n + 1] < Starts[p + 1])
  BY <1>1, <1>4
<1> QED
  BY <1>1, <1>2, <1>3, <1>5 DEF Start, Size

(* Seeking finds a part, and a place in it. *)
LEMMA PartFound ==
  ASSUME files \in Seq(Nat), NEW off \in Nat, Reaching(off) # {}
  PROVE  /\ PartOf(off) \in 1 .. Len(files)
         /\ InPart(off) \in 0 .. files[PartOf(off)]
         /\ Start(PartOf(off)) + InPart(off) = off
         /\ off =< Size
<1> DEFINE p == PartOf(off)
           Is(q) == q \in Reaching(off) /\ \A r \in Reaching(off) : q =< r
<1>1. Reaching(off) \subseteq Nat
  BY DEF Reaching
<1>2. \E q : Is(q)
  BY <1>1, Least
<1>3. p = CHOOSE q \in Reaching(off) : \A r \in Reaching(off) : q =< r
  BY DEF PartOf
<1>4. p \in Reaching(off) /\ \A r \in Reaching(off) : p =< r
  <2> HIDE DEF p
  <2> QED
    BY <1>2, <1>3, Zenon
<1> HIDE DEF p
<1>5. p \in 1 .. Len(files) /\ Len(files) \in Nat /\ off =< Start(p + 1)
  BY <1>4 DEF Reaching
<1>6. /\ Start(p) \in Nat /\ Start(p + 1) = Start(p) + files[p] /\ files[p] \in Nat
      /\ Start(1) = 0 /\ Start(p + 1) =< Size /\ Size \in Nat
  BY <1>5, StartsGrow
<1>7. Start(p) =< off
  <2>1. CASE p = 1
    BY <1>6, <2>1
  <2>2. CASE p # 1
    <3>1. p - 1 \in 1 .. Len(files) /\ p - 1 \notin Reaching(off) /\ (p - 1) + 1 = p
      BY <1>4, <1>5, <2>2
    <3>2. ~(off =< Start(p))
      BY <3>1 DEF Reaching
    <3> QED
      BY <1>6, <3>2
  <2> QED
    BY <2>1, <2>2
<1>8. InPart(off) = off - Start(p)
  BY DEF InPart, p
<1> QED
  BY SMTT(40), <1>5, <1>6, <1>7, <1>8 DEF p

-----------------------------------------------------------------------------
(* The inductive invariant.                                                *)

Cached == Elements(openFiles)

OpenFile == [key : 1 .. Len(files), value : Nat]

Typing ==
  /\ disk \in Disk /\ files \in Seq(Nat) /\ Len(files) =< Len(disk)
  /\ openFiles \in Seq(OpenFile) /\ Len(openFiles) =< MaxOpen
  /\ current \in [part : 0 .. Len(files), fd : Nat]
  /\ area \in Nat \X Nat
  /\ pc \in {"opening", "ready", "underflow"} /\ status \in {"good", "lost", "failed"}

(* The descriptors that are open, and the parts that they are of. *)
Descriptors ==
  /\ offset = [f \in DOMAIN offset |-> offset[f]]
  /\ DOMAIN offset = {e.value : e \in Cached} \cup
                     (IF current.part = 0 THEN {} ELSE {current.fd})
  /\ \A d, e \in Cached : d.value = e.value => d.key = e.key
  /\ \A e \in Cached : current.part # 0 /\ e.value = current.fd => e.key = current.part
  /\ \A e \in Cached : offset[e.value] \in 0 .. files[e.key]
  /\ current.part # 0 => offset[current.fd] \in 0 .. files[current.part]

(* The get area ends where the current descriptor stands. *)
Reading ==
  /\ pc = "opening" => area = None /\ status = "good" /\ last = [op |-> "none"]
  /\ pc # "opening" => current.part # 0
  /\ pc = "underflow" => status = "good" /\ area[1] = area[2]
  /\ area[1] =< area[2]
  /\ area[1] < area[2] =>
       pc = "ready" /\ area[2] = Start(current.part) + offset[current.fd]

StreamInv == Typing /\ Descriptors /\ Reading

(* Descriptors *)

LEMMA FewOpen ==
  ASSUME Typing, Descriptors
  PROVE  IsFiniteSet(DOMAIN offset) /\ Cardinality(DOMAIN offset) =< MaxOpen + 1
<1> DEFINE n == Len(openFiles)
           V == {e.value : e \in Cached}
           f == [i \in 1 .. n |-> openFiles[i].value]
<1>1. n \in Nat /\ n =< MaxOpen /\ MaxOpen \in Nat /\ DOMAIN openFiles = 1 .. n
  BY StreamAssumption DEF Typing
<1>2. V = {openFiles[i].value : i \in 1 .. n}
  BY <1>1 DEF Cached, Elements
<1>3. f \in Surjection(1 .. n, V)
  BY <1>2 DEF Surjection
<1>4. IsFiniteSet(1 .. n) /\ Cardinality(1 .. n) = n
  <2> HIDE DEF n
  <2>1. 1 \in Int /\ n \in Int
    BY <1>1
  <2>2. IsFiniteSet(1 .. n) /\ Cardinality(1 .. n) = IF 1 > n THEN 0 ELSE n - 1 + 1
    BY <2>1, FS_Interval
  <2> QED
    BY <1>1, <2>2
<1>5. IsFiniteSet(V) /\ Cardinality(V) =< n /\ Cardinality(V) \in Nat
  BY <1>3, <1>4, FS_Surjection, FS_CardinalityType
<1>6. DOMAIN offset = V \/ DOMAIN offset = V \cup {current.fd}
  BY DEF Descriptors
<1> HIDE DEF V, n
<1>7. /\ IsFiniteSet(V \cup {current.fd})
      /\ Cardinality(V \cup {current.fd}) =< Cardinality(V) + 1
      /\ Cardinality(V \cup {current.fd}) \in Nat
  <2>1. /\ IsFiniteSet(V \cup {current.fd})
        /\ Cardinality(V \cup {current.fd})
             = IF current.fd \in V THEN Cardinality(V) ELSE Cardinality(V) + 1
    BY <1>5, FS_AddElement
  <2> QED
    BY <1>5, <2>1
<1> QED
  BY <1>1, <1>5, <1>6, <1>7

LEMMA NewFdFree ==
  ASSUME Typing, Descriptors
  PROVE  NewFd \in Nat /\ NewFd \notin DOMAIN offset
<1> DEFINE D == DOMAIN offset
           n == Cardinality(D)
           Is(f) == f \in 1 .. n + 1 /\ f \notin D /\ \A g \in 1 .. f - 1 : g \in D
           Free == {f \in 1 .. n + 1 : f \notin D}
<1>1. IsFiniteSet(D) /\ n \in Nat
  BY FewOpen, FS_CardinalityType
<1>2. Free # {}
  <2> SUFFICES ASSUME Free = {} PROVE FALSE
    OBVIOUS
  <2>1. 1 .. n + 1 \in SUBSET D
    OBVIOUS
  <2>2. Cardinality(1 .. n + 1) =< n
    BY <1>1, <2>1, FS_Subset
  <2>3. Cardinality(1 .. n + 1) = n + 1
    BY <1>1, FS_Interval
  <2> QED
    BY <1>1, <2>2, <2>3
<1>3. Free \subseteq Nat
  BY <1>1
<1>4. PICK f \in Free : \A g \in Free : f =< g
  BY <1>2, <1>3, Least
<1>5. Is(f)
  <2>1. f \in 1 .. n + 1 /\ f \notin D
    OBVIOUS
  <2>2. ASSUME NEW g \in 1 .. f - 1, g \notin D PROVE FALSE
    <3>1. g \in Free /\ g < f
      BY <1>1, <2>1, <2>2
    <3> QED
      BY <1>4, <2>1, <3>1
  <2> QED
    BY <2>1, <2>2
<1>6. NewFd = CHOOSE g : Is(g)
  BY DEF NewFd
<1>7. Is(NewFd)
  <2> HIDE DEF Is
  <2> QED
    BY <1>5, <1>6, Zenon
<1> QED
  BY <1>1, <1>7

(* What any change of the current file leaves. *)
After(p, off) ==
  /\ openFiles' \in Seq([key : 1 .. Len(files'), value : Nat]) /\ Len(openFiles') =< MaxOpen
  /\ current' \in [part : 0 .. Len(files'), fd : Nat]
  /\ current'.part = p /\ offset'[current'.fd] = off
  /\ Descriptors'

LEMMA UseKeeps ==
  ASSUME Typing, Descriptors,
         files' \in Seq(Nat),
         \A q \in 1 .. Len(files) : q \in 1 .. Len(files') /\ files'[q] = files[q],
         NEW p \in 1 .. Len(files'), NEW f \in Nat, NEW off \in 0 .. files'[p],
         openFiles' \in Seq([key : 1 .. Len(files'), value : Nat]), Len(openFiles') =< MaxOpen,
         Elements(openFiles') \subseteq Cached \cup {[key |-> p, value |-> f]},
         f \notin DOMAIN offset \/ [key |-> p, value |-> f] \in Cached,
         Use(p, f, off)
  PROVE  After(p, off)
<1> DEFINE new == [key |-> p, value |-> f]
           C == Elements(openFiles')
<1>1. /\ current' = [part |-> p, fd |-> f]
      /\ offset' = [g \in {f} \cup {e.value : e \in C} |-> IF g = f THEN off ELSE offset[g]]
  <2>1. {openFiles'[i].value : i \in DOMAIN openFiles'} = {e.value : e \in C}
    BY DEF Elements
  <2> HIDE DEF C
  <2> QED
    BY <2>1 DEF Use
<1>2. \A e \in Cached : e.value \in DOMAIN offset /\ e.key \in 1 .. Len(files)
  <2>1. \A i \in DOMAIN openFiles : openFiles[i] \in OpenFile
    BY DEF Typing
  <2> QED
    BY <2>1 DEF Descriptors, Cached, Elements, OpenFile
<1>3. ASSUME NEW e \in C, e.value = f PROVE e.key = p
  <2>1. e \in Cached \/ e = new
    OBVIOUS
  <2>2. CASE e = new
    BY <2>2
  <2>3. CASE e \in Cached
    <3>1. new \in Cached
      BY <1>2, <1>3, <2>3
    <3>2. e.value = new.value => e.key = new.key
      BY <2>3, <3>1 DEF Descriptors
    <3> QED
      BY <1>3, <3>2
  <2> QED
    BY <2>1, <2>2, <2>3
<1>4. ASSUME NEW e \in C, e.value # f PROVE e \in Cached
  BY <1>4
<1>5. DOMAIN offset' = {f} \cup {e.value : e \in C}
  BY <1>1
<1>6. current'.part = p /\ current'.fd = f /\ p # 0
  BY <1>1
<1>7. offset'[f] = off /\ \A e \in C : e.value # f => offset'[e.value] = offset[e.value]
  BY <1>1
<1> HIDE DEF C
<1>8. \A d, e \in C : d.value = e.value => d.key = e.key
  <2> SUFFICES ASSUME NEW d \in C, NEW e \in C, d.value = e.value PROVE d.key = e.key
    OBVIOUS
  <2>1. CASE d.value = f
    BY <1>3, <2>1
  <2>2. CASE d.value # f
    BY <1>4, <2>2 DEF Descriptors
  <2> QED
    BY <2>1, <2>2
<1>9. \A e \in C : offset'[e.value] \in 0 .. files'[e.key]
  <2> SUFFICES ASSUME NEW e \in C PROVE offset'[e.value] \in 0 .. files'[e.key]
    OBVIOUS
  <2>1. CASE e.value = f
    BY <1>3, <1>7, <2>1
  <2>2. CASE e.value # f
    <3>1. e \in Cached /\ offset'[e.value] = offset[e.value]
      BY <1>4, <1>7, <2>2
    <3>2. offset[e.value] \in 0 .. files[e.key] /\ files'[e.key] = files[e.key]
      BY <1>2, <3>1 DEF Descriptors
    <3> QED
      BY <3>1, <3>2
  <2> QED
    BY <2>1, <2>2
<1>10. offset' = [g \in DOMAIN offset' |-> offset'[g]]
  BY <1>1
<1>11. Descriptors'
  BY <1>3, <1>5, <1>6, <1>7, <1>8, <1>9, <1>10 DEF Descriptors, Cached, C
<1> QED
  BY <1>1, <1>6, <1>7, <1>11 DEF After

(* A part is opened, and put into the cache. *)
LEMMA PutKeeps ==
  ASSUME Typing, Descriptors,
         files' \in Seq(Nat),
         \A q \in 1 .. Len(files) : q \in 1 .. Len(files') /\ files'[q] = files[q],
         NEW p \in 1 .. Len(files'), NEW off \in 0 .. files'[p],
         PutFile(p, NewFd), Use(p, NewFd, off)
  PROVE  After(p, off)
<1> DEFINE e == [key |-> p, value |-> NewFd]
           S == [key : 1 .. Len(files'), value : Nat]
           place == OpenFilesCache!Place
<1>1. NewFd \in Nat /\ NewFd \notin DOMAIN offset
  BY NewFdFree
<1>2. e \in S
  BY <1>1
<1>3. openFiles \in Seq(S) /\ Len(openFiles) =< MaxOpen /\ MaxOpen \in Nat
  <2>1. /\ openFiles \in Seq(OpenFile) /\ Len(openFiles) =< MaxOpen /\ MaxOpen \in Nat
    BY StreamAssumption DEF Typing
  <2>2. OpenFile \subseteq S
    BY DEF OpenFile
  <2> HIDE DEF S
  <2>3. openFiles \in Seq(S)
    BY <2>1, <2>2, SeqMonotonic
  <2> QED
    BY <2>1, <2>3
<1>4. place \in 1 .. Len(openFiles) + 1
  <2>1. place = IF Len(openFiles) < MaxOpen \div 2 THEN Len(openFiles) + 1 ELSE MaxOpen \div 2 + 1
    BY DEF OpenFilesCache!Place
  <2>2. MaxOpen \div 2 \in Nat /\ Len(openFiles) \in Nat
    BY <1>3
  <2> QED
    BY <2>1, <2>2
<1>5. openFiles' = IF Len(InsertAt(openFiles, place, e)) > MaxOpen
                   THEN SubSeq(InsertAt(openFiles, place, e), 1,
                               Len(InsertAt(openFiles, place, e)) - 1)
                   ELSE InsertAt(openFiles, place, e)
  BY DEF PutFile, OpenFilesCache!Limited
<1> HIDE DEF e, S, place
<1>6. /\ openFiles' \in Seq(S) /\ Len(openFiles') =< MaxOpen
      /\ Elements(openFiles') \subseteq Elements(openFiles) \cup {e}
  BY <1>2, <1>3, <1>4, <1>5, Inserted
<1> QED
  BY <1>1, <1>6, UseKeeps DEF Cached, S, e

LEMMA SetCurrentFileKeeps ==
  ASSUME Typing, Descriptors, UNCHANGED files,
         NEW p \in 1 .. Len(files), NEW off \in 0 .. files[p],
         SetCurrentFile(p, off)
  PROVE  After(p, off)
<1>1. CASE PutFile(p, NewFd) /\ Use(p, NewFd, SeekTo(FALSE, 0, off))
  <2>1. SeekTo(FALSE, 0, off) = off
    BY DEF SeekTo, Typing
  <2> QED
    BY <1>1, <2>1, PutKeeps DEF Typing
<1>2. ASSUME NEW i \in OpenFilesCache!Positions(p),
             openFiles' = OpenFilesCache!ToFront(i, openFiles[i]),
             Use(p, openFiles[i].value, SeekTo(TRUE, offset[openFiles[i].value], off))
      PROVE  After(p, off)
  <2> DEFINE e == openFiles[i]
  <2>1. i \in DOMAIN openFiles /\ openFiles[i].key = p
    BY DEF OpenFilesCache!Positions
  <2>2. SeekTo(TRUE, offset[openFiles[i].value], off) = off
    BY DEF SeekTo
  <2>3. openFiles' = <<openFiles[i]>> \o RemoveAt(openFiles, i)
    BY <1>2 DEF OpenFilesCache!ToFront, OpenFilesCache!RemoveAt, RemoveAt
  <2>4. /\ openFiles' \in Seq(OpenFile) /\ Len(openFiles') = Len(openFiles)
        /\ Elements(openFiles') = Elements(openFiles)
    BY <2>1, <2>3, Fronted DEF Typing
  <2>5. e \in OpenFile /\ e \in Cached
    BY <2>1 DEF Typing, Cached, Elements
  <2>6. [key |-> p, value |-> e.value] = e /\ e.value \in Nat
    BY <2>1, <2>5 DEF OpenFile
  <2>7. Use(p, e.value, off)
    BY <1>2, <2>2
  <2> HIDE DEF e
  <2>8. Elements(openFiles') \subseteq Cached \cup {[key |-> p, value |-> e.value]}
    BY <2>4 DEF Cached
  <2>9. /\ openFiles' \in Seq([key : 1 .. Len(files'), value : Nat])
        /\ Len(openFiles') =< MaxOpen /\ files' \in Seq(Nat)
    BY <2>4 DEF Typing, OpenFile
  <2> QED
    BY <2>5, <2>6, <2>7, <2>8, <2>9, UseKeeps
<1> QED
  BY <1>1, <1>2 DEF SetCurrentFile

-----------------------------------------------------------------------------
(* Steps keep the invariant, and are steps of FlatStream or none.          *)

FlatStep == [Flat!Next]_(Flat!vars)

LEMMA StreamNatural ==
  ASSUME StreamInv, pc # "opening"
  PROVE  /\ current.part \in 1 .. Len(files) /\ current.fd \in DOMAIN offset
         /\ offset[current.fd] \in 0 .. files[current.part]
         /\ files[current.part] \in Nat
         /\ Start(current.part) \in Nat /\ Size \in Nat
         /\ Start(current.part) + files[current.part] =< Size
         /\ Pos \in 0 .. Size
<1>1. current.part \in 1 .. Len(files)
  BY DEF StreamInv, Typing, Reading
<1>2. current.fd \in DOMAIN offset /\ offset[current.fd] \in 0 .. files[current.part]
  BY <1>1 DEF StreamInv, Descriptors
<1>3. /\ files[current.part] \in Nat /\ Start(current.part) \in Nat /\ Size \in Nat
      /\ Start(current.part) + files[current.part] =< Size
  BY <1>1, StartsGrow DEF StreamInv, Typing
<1>4. area[1] \in Nat /\ area[2] \in Nat
  BY DEF StreamInv, Typing
<1>5. Pos \in 0 .. Size
  BY <1>2, <1>3, <1>4 DEF StreamInv, Reading, Pos
<1> QED
  BY <1>1, <1>2, <1>3, <1>5

LEMMA OpenPartStep ==
  ASSUME StreamInv, OpenPart
  PROVE  StreamInv' /\ FlatStep
<1> DEFINE p == Len(files) + 1
<1>1. /\ pc = "opening" /\ Len(files) < Len(disk) /\ files' = Append(files, disk[p])
      /\ PutFile(p, NewFd) /\ Use(p, NewFd, disk[p])
      /\ UNCHANGED <<disk, area, pc, status, last>>
  BY DEF OpenPart
<1>2. files \in Seq(Nat) /\ disk \in Seq(Nat) /\ disk \in Disk /\ Len(files) =< Len(disk)
  BY StreamAssumption DEF StreamInv, Typing
<1>3. /\ files' \in Seq(Nat) /\ Len(files') = p /\ Len(files') =< Len(disk)
      /\ files'[p] = disk[p] /\ disk[p] \in Nat
      /\ \A q \in 1 .. Len(files) : q \in 1 .. Len(files') /\ files'[q] = files[q]
  BY <1>1, <1>2
<1>4. p \in 1 .. Len(files') /\ disk[p] \in 0 .. files'[p]
  BY <1>2, <1>3
<1> HIDE DEF p
<1>5. After(p, disk[p])
  BY <1>1, <1>3, <1>4, PutKeeps DEF StreamInv
<1>6. Typing' /\ Descriptors' /\ Reading'
  <2>1. Descriptors'
    BY <1>5 DEF After
  <2>2. Typing'
    BY <1>1, <1>2, <1>3, <1>5 DEF StreamInv, Typing, After, OpenFile
  <2>3. Reading'
    BY <1>1 DEF StreamInv, Reading, None
  <2> QED
    BY <2>1, <2>2, <2>3
<1>7. UNCHANGED Flat!vars
  BY <1>1 DEF Flat!vars, Pos
<1> QED
  BY <1>6, <1>7 DEF StreamInv, FlatStep

LEMMA OpenedStep ==
  ASSUME StreamInv, Opened
  PROVE  StreamInv' /\ FlatStep
<1>1. /\ pc = "opening" /\ files # <<>> /\ SetCurrentFile(1, 0) /\ pc' = "ready"
      /\ UNCHANGED <<disk, files, area, status, last>>
  BY DEF Opened
<1>2. files \in Seq(Nat) /\ 1 \in 1 .. Len(files) /\ 0 \in 0 .. files[1]
  BY <1>1 DEF StreamInv, Typing
<1>3. After(1, 0)
  BY <1>1, <1>2, SetCurrentFileKeeps DEF StreamInv
<1>4. Typing' /\ Descriptors' /\ Reading'
  BY <1>1, <1>3 DEF StreamInv, Typing, After, OpenFile, Reading, None
<1>5. Start(1) = 0 /\ Size \in Nat
  BY <1>2, StartsGrow
<1>6. Size' \in Nat /\ Pos' = 0
  <2>1. Size' = Size /\ Start(1)' = Start(1)
    BY <1>1 DEF Size, Start, Starts
  <2>2. Pos' = Start(1)' + 0
    BY <1>1, <1>3, <1>4 DEF Pos, StreamInv, Reading, None, After
  <2> QED
    BY <1>5, <2>1, <2>2
<1>7. Flat!Open
  BY <1>1, <1>6 DEF Flat!Open, StreamInv, Reading
<1> QED
  BY <1>4, <1>7 DEF StreamInv, FlatStep, Flat!Next

LEMMA TakeStep ==
  ASSUME StreamInv, Take
  PROVE  StreamInv' /\ FlatStep
<1>1. /\ pc = "ready" /\ status = "good" /\ area[1] < area[2]
      /\ last' = [op |-> "read", at |-> area[1]]
      /\ area' = <<area[1] + 1, area[2]>>
      /\ UNCHANGED <<disk, files, openFiles, current, offset, pc, status>>
  BY DEF Take
<1>2. area[1] \in Nat /\ area[2] \in Nat
  BY DEF StreamInv, Typing
<1>3. area'[1] = area[1] + 1 /\ area'[2] = area[2] /\ area' \in Nat \X Nat
  BY <1>1, <1>2
<1>4. Size' = Size /\ Start(current.part)' = Start(current.part)
  BY <1>1 DEF Size, Start, Starts
<1>5. area[2] = Start(current.part) + offset[current.fd]
  BY <1>1 DEF StreamInv, Reading
<1>6. Typing' /\ Descriptors'
  BY <1>1, <1>3 DEF StreamInv, Typing, Descriptors, OpenFile, Cached
<1>7. Reading'
  BY <1>1, <1>2, <1>3, <1>4, <1>5 DEF StreamInv, Reading
<1>8. Pos = area[1] /\ Pos' = area[1] + 1
  BY <1>1, <1>2, <1>3, <1>4, <1>5 DEF Pos
<1>9. area[1] < Size
  BY <1>1, <1>2, <1>5, StreamNatural
<1>10. Flat!Read
  BY <1>1, <1>4, <1>8, <1>9 DEF Flat!Read
<1> QED
  BY <1>6, <1>7, <1>10 DEF StreamInv, FlatStep, Flat!Next

LEMMA UnderflowStep ==
  ASSUME StreamInv, Underflow
  PROVE  StreamInv' /\ FlatStep
<1>1. /\ pc = "ready" /\ status = "good" /\ area[1] = area[2] /\ pc' = "underflow"
      /\ UNCHANGED <<disk, files, openFiles, current, offset, area, status, last>>
  BY DEF Underflow
<1>2. Typing' /\ Descriptors'
  BY <1>1 DEF StreamInv, Typing, Descriptors, OpenFile, Cached
<1>3. Reading'
  BY <1>1 DEF StreamInv, Reading, Typing
<1>4. UNCHANGED Flat!vars
  BY <1>1 DEF Flat!vars, Pos, Size, Start, Starts
<1> QED
  BY <1>2, <1>3, <1>4 DEF StreamInv, FlatStep

LEMMA FillStep ==
  ASSUME StreamInv, Fill
  PROVE  StreamInv' /\ FlatStep
<1> DEFINE at == Start(current.part) + offset[current.fd]
<1>1. PICK n \in 1 .. BufSize :
        n =< Rest /\ area' = <<at, at + n>>
          /\ offset' = [offset EXCEPT ![current.fd] = @ + n]
  BY DEF Fill
<1>2. /\ pc = "underflow" /\ pc' = "ready"
      /\ UNCHANGED <<disk, files, openFiles, current, status, last>>
  BY DEF Fill
<1>3. /\ current.part \in 1 .. Len(files) /\ current.fd \in DOMAIN offset
      /\ offset[current.fd] \in 0 .. files[current.part] /\ files[current.part] \in Nat
      /\ Start(current.part) \in Nat
  BY <1>2, StreamNatural
<1>4. n \in Nat /\ n > 0 /\ offset[current.fd] + n \in 0 .. files[current.part]
  <2>1. n \in Nat /\ n > 0
    BY <1>1, StreamAssumption
  <2>2. n =< files[current.part] - offset[current.fd]
    BY <1>1 DEF Rest
  <2> QED
    BY <1>3, <2>1, <2>2
<1>5. /\ DOMAIN offset' = DOMAIN offset
      /\ offset' = [f \in DOMAIN offset' |-> offset'[f]]
      /\ offset'[current.fd] = offset[current.fd] + n
      /\ \A f \in DOMAIN offset : f # current.fd => offset'[f] = offset[f]
  BY <1>1, <1>3 DEF StreamInv, Descriptors
<1>6. Typing'
  <2>1. at \in Nat /\ at + n \in Nat
    BY <1>3, <1>4
  <2>2. area' \in Nat \X Nat
    BY <1>1, <2>1
  <2> QED
    BY <1>2, <2>2 DEF StreamInv, Typing, OpenFile
<1>7. Descriptors'
  <2>1. ASSUME NEW e \in Cached PROVE offset'[e.value] \in 0 .. files[e.key]
    <3>1. e.value \in DOMAIN offset
      BY DEF StreamInv, Descriptors
    <3>2. CASE e.value = current.fd
      <4>1. e.key = current.part
        BY <1>3, <3>2 DEF StreamInv, Descriptors
      <4> QED
        BY <1>4, <1>5, <3>2, <4>1
    <3>3. CASE e.value # current.fd
      BY <1>5, <3>1, <3>3 DEF StreamInv, Descriptors
    <3> QED
      BY <3>2, <3>3
  <2>2. Cached' = Cached
    BY <1>2 DEF Cached
  <2> QED
    BY <1>2, <1>3, <1>4, <1>5, <2>1, <2>2 DEF StreamInv, Descriptors
<1>8. Size' = Size /\ Start(current.part)' = Start(current.part)
  BY <1>2 DEF Size, Start, Starts
<1>9. area'[1] = at /\ area'[2] = at + n
  BY <1>1
<1>10. Reading'
  BY <1>2, <1>3, <1>4, <1>5, <1>8, <1>9 DEF StreamInv, Reading
<1>11. Pos = at /\ Pos' = at
  <2>1. Pos = at
    BY <1>2 DEF Pos, StreamInv, Reading, Typing
  <2>2. area'[1] < area'[2]
    BY <1>3, <1>4, <1>9
  <2> QED
    BY <1>2, <1>9, <2>1, <2>2 DEF Pos
<1>12. UNCHANGED Flat!vars
  BY <1>2, <1>8, <1>11 DEF Flat!vars
<1> QED
  BY <1>6, <1>7, <1>10, <1>12 DEF StreamInv, FlatStep

LEMMA NextPartStep ==
  ASSUME StreamInv, NextPart
  PROVE  StreamInv' /\ FlatStep
<1> PICK p : p = current.part
  OBVIOUS
<1>1. /\ pc = "underflow" /\ Rest = 0 /\ p < Len(files)
      /\ SetCurrentFile(p + 1, 0)
      /\ UNCHANGED <<disk, files, area, pc, status, last>>
  BY DEF NextPart, Following
<1>2. /\ p \in 1 .. Len(files) /\ files \in Seq(Nat)
      /\ offset[current.fd] \in 0 .. files[p] /\ files[p] \in Nat
  BY <1>1, StreamNatural DEF StreamInv, Typing
<1>3. p + 1 \in 1 .. Len(files) /\ 0 \in 0 .. files[p + 1]
  BY <1>1, <1>2
<1>4. After(p + 1, 0)
  BY <1>1, <1>3, SetCurrentFileKeeps DEF StreamInv
<1>5. Typing' /\ Descriptors'
  BY <1>1, <1>4 DEF StreamInv, Typing, After, OpenFile
<1>6. area[1] = area[2]
  BY <1>1 DEF StreamInv, Reading
<1>7. Reading'
  BY <1>1, <1>2, <1>4, <1>6 DEF StreamInv, Reading, After, Typing
<1>8. /\ Size' = Size /\ Start(p + 1)' = Start(p + 1)
      /\ Start(p + 1) = Start(p) + files[p] /\ Start(p) \in Nat
  <2>1. Size' = Size /\ Start(p + 1)' = Start(p + 1)
    BY <1>1 DEF Size, Start, Starts
  <2>2. Start(p + 1) = Start(p) + files[p] /\ Start(p) \in Nat
    BY <1>2, StartsGrow
  <2> QED
    BY <2>1, <2>2
<1>9. Pos = Start(p) + offset[current.fd] /\ Pos' = Start(p + 1)' + 0
  <2>1. Pos = Start(p) + offset[current.fd]
    BY <1>1, <1>6 DEF Pos, StreamInv, Typing
  <2>2. current'.part = p + 1 /\ offset'[current'.fd] = 0
    BY <1>4 DEF After
  <2>3. pc' = "underflow" /\ ~(area'[1] < area'[2])
    BY <1>1, <1>6 DEF StreamInv, Typing
  <2> QED
    BY <2>1, <2>2, <2>3 DEF Pos, Start
<1>10. offset[current.fd] = files[p]
  BY <1>1, <1>2 DEF Rest
<1>11. Pos' = Pos
  BY <1>2, <1>8, <1>9, <1>10
<1>12. UNCHANGED Flat!vars
  BY <1>1, <1>8, <1>11 DEF Flat!vars
<1> QED
  BY <1>5, <1>7, <1>12 DEF StreamInv, FlatStep

LEMMA FailsStep ==
  ASSUME StreamInv, Eof \/ ReadFails
  PROVE  StreamInv' /\ FlatStep
<1>1. /\ pc = "underflow" /\ pc' = "ready" /\ status' = "failed"
      /\ UNCHANGED <<disk, files, openFiles, current, offset, area, last>>
  BY DEF Eof, ReadFails
<1>2. Typing' /\ Descriptors'
  BY <1>1 DEF StreamInv, Typing, Descriptors, OpenFile, Cached
<1>3. Reading'
  BY <1>1 DEF StreamInv, Reading, Typing
<1>4. Pos' = Pos /\ Size' = Size
  BY <1>1 DEF Pos, Size, Start, Starts
<1>5. Flat!ReadFails
  BY <1>1, <1>4 DEF Flat!ReadFails, StreamInv, Reading
<1> QED
  BY <1>2, <1>3, <1>5 DEF StreamInv, FlatStep, Flat!Next

LEMMA SeekStep ==
  ASSUME StreamInv, NEW off \in Nat, Seek(off)
  PROVE  StreamInv' /\ FlatStep
<1>1. /\ pc = "ready" /\ Reaching(off) # {} /\ area' = None
      /\ SetCurrentFile(PartOf(off), InPart(off))
      /\ status' = (IF status = "failed" THEN "failed" ELSE "good")
      /\ last' = [op |-> "seek", to |-> off]
      /\ UNCHANGED <<disk, files, pc>>
  BY DEF Seek
<1>2. /\ PartOf(off) \in 1 .. Len(files) /\ InPart(off) \in 0 .. files[PartOf(off)]
      /\ Start(PartOf(off)) + InPart(off) = off /\ off =< Size
  BY <1>1, PartFound DEF StreamInv, Typing
<1>3. After(PartOf(off), InPart(off))
  BY <1>1, <1>2, SetCurrentFileKeeps DEF StreamInv
<1>4. area' \in Nat \X Nat /\ area'[1] = 0 /\ area'[2] = 0
  BY <1>1 DEF None
<1>5. Typing' /\ Descriptors'
  BY <1>1, <1>3, <1>4 DEF StreamInv, Typing, After, OpenFile
<1>6. Reading'
  BY <1>1, <1>2, <1>3, <1>4 DEF StreamInv, Reading, After, Typing
<1>7. \A p : Start(p)' = Start(p)
  BY <1>1 DEF Start, Starts
<1>8. Size' = Size /\ Pos' = off
  BY <1>1, <1>2, <1>3, <1>4, <1>7 DEF Pos, After, Size
<1>9. Flat!Seek(off)
  BY <1>1, <1>2, <1>8 DEF Flat!Seek, StreamInv, Typing
<1>10. Size \in Nat /\ off \in 0 .. Size
  BY <1>1, <1>2, StreamNatural
<1> QED
  BY <1>1, <1>5, <1>6, <1>9, <1>10 DEF StreamInv, FlatStep, Flat!Next

LEMMA SeekFailsStep ==
  ASSUME StreamInv, NEW off \in Nat, SeekFails(off)
  PROVE  StreamInv' /\ FlatStep
<1>1. /\ pc = "ready" /\ area' = None
      /\ status' = (IF status = "failed" THEN "failed" ELSE "lost")
      /\ last' = [op |-> "seek"]
      /\ UNCHANGED <<disk, files, pc, openFiles, current, offset>>
  BY DEF SeekFails, CannotOpen
<1>2. area' \in Nat \X Nat /\ area'[1] = 0 /\ area'[2] = 0
  BY <1>1 DEF None
<1>3. Typing' /\ Descriptors'
  BY <1>1, <1>2 DEF StreamInv, Typing, Descriptors, OpenFile, Cached
<1>4. Reading'
  BY <1>1, <1>2 DEF StreamInv, Reading, Typing
<1>5. Size' = Size /\ Pos' \in 0 .. Size
  <2>1. StreamInv'
    BY <1>3, <1>4 DEF StreamInv
  <2>2. Size' = Size
    BY <1>1 DEF Size, Start, Starts
  <2>3. Pos' = Start(current.part) + offset[current.fd]
    BY <1>1, <1>2 DEF Pos, Start, Starts
  <2>4. Start(current.part) + offset[current.fd] \in 0 .. Size
    BY <1>1, StreamNatural
  <2> QED
    BY <2>2, <2>3, <2>4
<1>6. Flat!SeekFails
  BY <1>1, <1>5 DEF Flat!SeekFails, StreamInv, Typing
<1> QED
  BY <1>3, <1>4, <1>6 DEF StreamInv, FlatStep, Flat!Next

-----------------------------------------------------------------------------
LEMMA InitOK == Init => StreamInv /\ Flat!Init
<1> SUFFICES ASSUME Init PROVE StreamInv /\ Flat!Init
  OBVIOUS
<1>1. /\ disk \in Disk /\ files = <<>> /\ openFiles = <<>>
      /\ current = [part |-> 0, fd |-> 0] /\ DOMAIN offset = {}
      /\ offset = [f \in DOMAIN offset |-> offset[f]]
      /\ area = <<0, 0>> /\ pc = "opening" /\ status = "good" /\ last = [op |-> "none"]
  BY DEF Init, None
<1>2. Cached = {}
  BY <1>1 DEF Cached, Elements
<1>3. disk \in Seq(Nat) /\ MaxOpen \in Nat
  BY <1>1, StreamAssumption
<1>4. Typing
  BY <1>1, <1>3 DEF Typing
<1>5. Descriptors
  BY <1>1, <1>2 DEF Descriptors
<1>6. Reading
  BY <1>1 DEF Reading, None
<1>7. Flat!Init
  BY <1>1 DEF Flat!Init, Pos
<1> QED
  BY <1>4, <1>5, <1>6, <1>7 DEF StreamInv

LEMMA StepOK == StreamInv /\ [Next]_vars => StreamInv' /\ FlatStep
<1> SUFFICES ASSUME StreamInv, [Next]_vars PROVE StreamInv' /\ FlatStep
  OBVIOUS
<1>1. CASE UNCHANGED vars
  <2>1. StreamInv'
    BY <1>1 DEF vars, StreamInv, Typing, Descriptors, Reading, OpenFile, Cached, Start, Starts
  <2>2. UNCHANGED Flat!vars
    BY <1>1 DEF vars, Flat!vars, Pos, Size, Start, Starts
  <2> QED
    BY <2>1, <2>2 DEF FlatStep
<1>2. CASE OpenPart \/ Opened \/ Take \/ Underflow \/ Fill \/ NextPart \/ Eof \/ ReadFails
  BY <1>2, OpenPartStep, OpenedStep, TakeStep, UnderflowStep, FillStep, NextPartStep, FailsStep
<1>3. ASSUME NEW off \in 0 .. Size + 1, Seek(off) \/ SeekFails(off)
      PROVE  StreamInv' /\ FlatStep
  <2>1. pc = "ready"
    BY <1>3 DEF Seek, SeekFails
  <2>2. off \in Nat
    BY <2>1, StreamNatural
  <2> QED
    BY <1>3, <2>2, SeekStep, SeekFailsStep
<1> QED
  BY <1>1, <1>2, <1>3 DEF Next

LEMMA StreamInvariant == Spec => []StreamInv
<1>1. Init => StreamInv
  BY InitOK
<1>2. StreamInv /\ [Next]_vars => StreamInv'
  BY StepOK
<1> QED
  BY <1>1, <1>2, PTL DEF Spec

(* No more descriptors are open than the cache may hold and the current    *)
(* one, each of them is in the cache or current, and none stands behind    *)
(* the end of its part, however many parts were closed and opened again.   *)
THEOREM DescriptorsTheorem == Spec => []DescriptorsSound
<1>1. StreamInv => DescriptorsSound
  <2> SUFFICES ASSUME StreamInv PROVE DescriptorsSound
    OBVIOUS
  <2>1. DescriptorsBounded
    BY FewOpen DEF StreamInv, DescriptorsBounded
  <2>2. {openFiles[i].value : i \in DOMAIN openFiles} = {e.value : e \in Cached}
    BY DEF Cached, Elements
  <2>3. \A i \in DOMAIN openFiles : openFiles[i] \in Cached
    BY DEF Cached, Elements
  <2>4. \A i \in DOMAIN openFiles :
          offset[openFiles[i].value] \in 0 .. files[openFiles[i].key]
    BY <2>3 DEF StreamInv, Descriptors
  <2>5. current.part > 0 => offset[current.fd] \in 0 .. files[current.part]
    BY DEF StreamInv, Descriptors, Typing
  <2>6. TypeOK
    BY <2>2, <2>4, <2>5 DEF TypeOK, StreamInv, Typing, Descriptors, Reading
  <2> QED
    BY <2>1, <2>6 DEF DescriptorsSound
<1> QED
  BY <1>1, StreamInvariant, PTL

(* The parts read like one flat file: from whatever descriptor of whatever *)
(* part a byte comes, it is the one where the last seek and the bytes read *)
(* since lead to.                                                          *)
THEOREM StreamImplementsFlat == Spec => ImplementsFlat
<1>1. Init => Flat!Init
  BY InitOK
<1>2. StreamInv /\ [Next]_vars => [Flat!Next]_(Flat!vars)
  BY StepOK DEF FlatStep
<1> QED
  BY <1>1, <1>2, StreamInvariant, PTL DEF Spec, ImplementsFlat, Flat!Spec
=============================================================================
