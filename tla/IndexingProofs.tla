--------------------------- MODULE IndexingProofs ---------------------------
(***************************************************************************)
(* Proofs about Indexing, for any articles in any order, any bytes and any *)
(* width of them.                                                          *)
(*                                                                         *)
(* The first part is about what the model is built from: recursion and     *)
(* folding have a result, powers and remainders, and so what Zint writes   *)
(* is read again.  ReadersInv says what is packed of a word and how far    *)
(* its readers are; Sound what the members of a parser are to each other   *)
(* and where the words it tells of lie; ParserInv adds the words that the  *)
(* indexer has.  The theorems are at the end.                              *)
(***************************************************************************)
EXTENDS Indexing, FiniteSetTheorems, SequenceTheorems, WellFoundedInduction, TLAPS

LEMMA Least ==
  ASSUME NEW S, S \subseteq Nat, S # {}
  PROVE  \E n \in S : \A m \in S : n =< m
<1> DEFINE R == {ss \in Nat \X Nat : ss[1] < ss[2]}
<1>1. IsWellFoundedOn(R, Nat)
  BY NatLessThanWellFounded DEF OpToRel
<1>2. \A x, y \in Nat : <<x, y>> \in R <=> x < y
  OBVIOUS
<1> HIDE DEF R
<1>3. \E x \in S : \A y \in S : <<y, x>> \notin R
  BY <1>1, WFMin, Zenon
<1>4. PICK x \in S : \A y \in S : <<y, x>> \notin R
  BY <1>3
<1>5. ASSUME NEW y \in S PROVE x =< y
  <2>1. x \in Nat /\ y \in Nat /\ ~(y < x)
    BY <1>2, <1>4
  <2> QED
    BY <2>1
<1> QED
  BY <1>5

(* Recursion: the value at x in Base is given, the one at another x is     *)
(* made by F of x and the value at d[x], which is of a smaller size.       *)

Shrinks(D, size, Base, d) ==
  /\ \A x \in D : size[x] \in Nat
  /\ \A x \in D : x \notin Base => d[x] \in D /\ size[d[x]] < size[x]

Makes(D, V, Base, z, F) ==
  /\ \A x \in D : x \in Base => z[x] \in V
  /\ \A x \in D : x \notin Base => \A v \in V : F[<<x, v>>] \in V

UpTo(D, size, n) == {x \in D : size[x] =< n}

Solves(f, D, V, Base, z, d, F) ==
  /\ f = [x \in D |-> f[x]]
  /\ \A x \in D : f[x] \in V /\ f[x] = IF x \in Base THEN z[x] ELSE F[<<x, f[d[x]]>>]

LEMMA SolvedUpTo ==
  ASSUME NEW D, NEW V, NEW size, NEW Base, NEW z, NEW d, NEW F,
         Shrinks(D, size, Base, d), Makes(D, V, Base, z, F)
  PROVE  \A n \in Nat : \E f : Solves(f, UpTo(D, size, n), V, Base, z, d, F)
<1> DEFINE U(n) == UpTo(D, size, n)
           Missing == {n \in Nat : ~ \E f : Solves(f, U(n), V, Base, z, d, F)}
<1> SUFFICES ASSUME Missing # {} PROVE FALSE
  OBVIOUS
<1>1. PICK n \in Missing : \A m \in Missing : n =< m
  <2>1. Missing \subseteq Nat
    OBVIOUS
  <2> HIDE DEF Missing
  <2> QED
    BY <2>1, Least
<1>2. n \in Nat /\ ~ \E f : Solves(f, U(n), V, Base, z, d, F)
  OBVIOUS
<1>3. \A x \in U(n) : /\ x \in D /\ size[x] \in Nat /\ size[x] =< n
                      /\ x \notin Base => d[x] \in D /\ size[d[x]] \in Nat /\ size[d[x]] < size[x]
  BY DEF UpTo, Shrinks
<1>4. CASE n = 0
  <2> DEFINE f == [x \in U(n) |-> z[x]]
  <2>1. ASSUME NEW x \in U(n) PROVE x \in Base
    BY <1>3, <1>4
  <2>2. ASSUME NEW x \in U(n)
        PROVE  f[x] \in V /\ f[x] = IF x \in Base THEN z[x] ELSE F[<<x, f[d[x]]>>]
    BY <1>3, <2>1 DEF Makes
  <2>3. f = [x \in U(n) |-> f[x]]
    OBVIOUS
  <2> HIDE DEF f
  <2>4. Solves(f, U(n), V, Base, z, d, F)
    BY <2>2, <2>3 DEF Solves
  <2> QED
    BY <1>2, <2>4
<1>5. CASE n # 0
  <2>1. n - 1 \in Nat /\ ~(n =< n - 1)
    BY <1>2, <1>5
  <2>2. PICK g : Solves(g, U(n - 1), V, Base, z, d, F)
    BY <1>1, <2>1
  <2>3. \A x \in U(n - 1) :
          g[x] \in V /\ g[x] = IF x \in Base THEN z[x] ELSE F[<<x, g[d[x]]>>]
    BY <2>2 DEF Solves
  <2>4. \A x \in U(n) : x \notin Base => d[x] \in U(n - 1)
    BY <1>2, <1>3 DEF UpTo
  <2> DEFINE f == [x \in U(n) |-> IF x \in Base THEN z[x] ELSE F[<<x, g[d[x]]>>]]
  <2>5. U(n - 1) \subseteq U(n)
    <3>1. ASSUME NEW x \in U(n - 1) PROVE x \in U(n)
      <4>1. x \in D /\ size[x] \in Nat /\ size[x] =< n - 1
        BY DEF UpTo, Shrinks
      <4> QED
        BY <1>2, <4>1 DEF UpTo
    <3> QED
      BY <3>1
  <2>6. \A x \in U(n - 1) : f[x] = g[x]
    BY <2>3, <2>5
  <2>7. ASSUME NEW x \in U(n)
        PROVE  f[x] \in V /\ f[x] = IF x \in Base THEN z[x] ELSE F[<<x, f[d[x]]>>]
    <3>1. CASE x \in Base
      BY <1>3, <3>1 DEF Makes
    <3>2. CASE x \notin Base
      <4>1. d[x] \in U(n - 1) /\ f[d[x]] = g[d[x]] /\ g[d[x]] \in V
        BY <2>3, <2>4, <2>6, <3>2
      <4>2. f[x] = F[<<x, g[d[x]]>>]
        BY <3>2
      <4>3. F[<<x, g[d[x]]>>] \in V
        BY <1>3, <3>2, <4>1 DEF Makes
      <4> HIDE DEF f
      <4> QED
        BY <3>2, <4>1, <4>2, <4>3
    <3> QED
      BY <3>1, <3>2
  <2>8. f = [x \in U(n) |-> f[x]]
    OBVIOUS
  <2> HIDE DEF f
  <2>9. Solves(f, U(n), V, Base, z, d, F)
    BY <2>7, <2>8 DEF Solves
  <2> QED
    BY <1>2, <2>9
<1> QED
  BY <1>4, <1>5

LEMMA SolutionsAgree ==
  ASSUME NEW D, NEW V, NEW size, NEW Base, NEW z, NEW d, NEW F,
         Shrinks(D, size, Base, d), NEW m \in Nat, NEW n \in Nat, m =< n,
         NEW f, Solves(f, UpTo(D, size, m), V, Base, z, d, F),
         NEW g, Solves(g, UpTo(D, size, n), V, Base, z, d, F)
  PROVE  \A x \in UpTo(D, size, m) : f[x] = g[x]
<1> DEFINE U(k) == UpTo(D, size, k)
           Sizes == {size[x] : x \in {y \in U(m) : f[y] # g[y]}}
<1> SUFFICES ASSUME Sizes # {} PROVE FALSE
  OBVIOUS
<1>1. \A x \in U(m) : /\ x \in D /\ size[x] \in Nat /\ size[x] =< m
                      /\ x \notin Base => d[x] \in D /\ size[d[x]] \in Nat /\ size[d[x]] < size[x]
  BY DEF UpTo, Shrinks
<1>2. PICK k \in Sizes : \A l \in Sizes : k =< l
  <2>1. Sizes \subseteq Nat
    BY <1>1
  <2> HIDE DEF Sizes
  <2> QED
    BY <2>1, Least
<1>3. PICK x \in U(m) : f[x] # g[x] /\ k = size[x]
  OBVIOUS
<1>4. x \in U(n)
  BY <1>1 DEF UpTo
<1>5. f[x] = IF x \in Base THEN z[x] ELSE F[<<x, f[d[x]]>>]
  BY DEF Solves
<1>6. g[x] = IF x \in Base THEN z[x] ELSE F[<<x, g[d[x]]>>]
  BY <1>4 DEF Solves
<1>7. x \notin Base
  BY <1>3, <1>5, <1>6
<1>8. d[x] \in U(m) /\ ~(k =< size[d[x]])
  BY <1>1, <1>3, <1>7 DEF UpTo
<1>9. f[d[x]] = g[d[x]]
  BY <1>2, <1>8
<1> QED
  BY <1>3, <1>5, <1>6, <1>7, <1>9

LEMMA Recursion ==
  ASSUME NEW D, NEW V, NEW size, NEW Base, NEW z, NEW d, NEW F,
         Shrinks(D, size, Base, d), Makes(D, V, Base, z, F)
  PROVE  \E f : Solves(f, D, V, Base, z, d, F)
<1> DEFINE Of(g, n) == Solves(g, UpTo(D, size, n), V, Base, z, d, F)
           h(n) == CHOOSE g : Of(g, n)
           f == [x \in D |-> h(size[x])[x]]
<1>1. \A n \in Nat : Of(h(n), n)
  <2>1. \A n \in Nat : \E g : Of(g, n)
    BY SolvedUpTo
  <2> HIDE DEF Of
  <2> QED
    BY <2>1, Zenon
<1> HIDE DEF h
<1>2. ASSUME NEW x \in D
      PROVE  f[x] \in V /\ f[x] = IF x \in Base THEN z[x] ELSE F[<<x, f[d[x]]>>]
  <2> DEFINE n == size[x]
  <2>1. n \in Nat /\ x \in UpTo(D, size, n) /\ f[x] = h(n)[x]
    BY DEF UpTo, Shrinks
  <2>2. h(n)[x] \in V /\ h(n)[x] = IF x \in Base THEN z[x] ELSE F[<<x, h(n)[d[x]]>>]
    BY <1>1, <2>1 DEF Solves
  <2>3. CASE x \in Base
    BY <2>1, <2>2, <2>3
  <2>4. CASE x \notin Base
    <3> DEFINE y == d[x]
               m == size[y]
    <3>1. y \in D /\ m \in Nat /\ m < n
      BY <2>4 DEF Shrinks
    <3>2. y \in UpTo(D, size, m) /\ f[y] = h(m)[y]
      BY <3>1 DEF UpTo
    <3>3. Of(h(m), m) /\ Of(h(n), n) /\ m =< n
      BY <1>1, <2>1, <3>1
    <3> HIDE DEF f, m, n
    <3>4. h(m)[y] = h(n)[y]
      BY <2>1, <3>1, <3>2, <3>3, SolutionsAgree
    <3> QED
      BY <2>1, <2>2, <2>4, <3>2, <3>4
  <2> QED
    BY <2>3, <2>4
<1>3. f = [x \in D |-> f[x]]
  OBVIOUS
<1> HIDE DEF f
<1> QED
  BY <1>2, <1>3 DEF Solves

-----------------------------------------------------------------------------
(* Powers of 2: a set with n elements has 2 ^ n subsets.                   *)

LEMMA PowerZero == 2 ^ 0 = 1
  OBVIOUS

LEMMA PowerNat ==
  ASSUME NEW n \in Nat
  PROVE  /\ IsFiniteSet(SUBSET (1 .. n)) /\ Cardinality(SUBSET (1 .. n)) = 2 ^ n
         /\ 2 ^ n \in Nat /\ 2 ^ n > 0
<1>1. IsFiniteSet(1 .. n) /\ Cardinality(1 .. n) = n
  <2>1. IsFiniteSet(1 .. n) /\ Cardinality(1 .. n) = IF 1 > n THEN 0 ELSE n - 1 + 1
    BY FS_Interval
  <2> QED
    BY <2>1
<1>2. IsFiniteSet(SUBSET (1 .. n)) /\ Cardinality(SUBSET (1 .. n)) = 2 ^ Cardinality(1 .. n)
  BY <1>1, FS_SUBSET
<1>3. Cardinality(SUBSET (1 .. n)) \in Nat
  BY <1>2, FS_CardinalityType
<1>4. Cardinality(SUBSET (1 .. n)) # 0
  <2>1. SUBSET (1 .. n) # {}
    OBVIOUS
  <2> QED
    BY <1>2, <2>1, FS_EmptySet
<1>5. 2 ^ Cardinality(1 .. n) = 2 ^ n
  BY <1>1
<1> QED
  BY <1>2, <1>3, <1>4, <1>5

LEMMA PowerDoubles ==
  ASSUME NEW n \in Nat
  PROVE  2 ^ (n + 1) = 2 * 2 ^ n
<1> DEFINE S == SUBSET (1 .. n)
           T == {s \cup {n + 1} : s \in S}
           f == [s \in S |-> s \cup {n + 1}]
<1>1. IsFiniteSet(S) /\ Cardinality(S) = 2 ^ n /\ 2 ^ n \in Nat
  BY PowerNat
<1>2. n + 1 \in Nat /\ Cardinality(SUBSET (1 .. n + 1)) = 2 ^ (n + 1)
                   /\ 2 ^ (n + 1) \in Nat
  <2>1. n + 1 \in Nat
    OBVIOUS
  <2> QED
    BY <2>1, PowerNat, Zenon
<1>3. \A s \in S : n + 1 \notin s
  OBVIOUS
<1>4. f \in Bijection(S, T)
  <2>1. f \in [S -> T] /\ \A t \in T : \E s \in S : f[s] = t
    OBVIOUS
  <2>2. ASSUME NEW s \in S, NEW t \in S, f[s] = f[t] PROVE s = t
    <3>1. s \cup {n + 1} = t \cup {n + 1}
      BY <2>2
    <3> QED
      BY <1>3, <3>1
  <2> QED
    BY <2>1, <2>2 DEF Bijection, Injection, Surjection, IsInjective
<1>5. IsFiniteSet(T) /\ Cardinality(T) = Cardinality(S)
  <2>1. ExistsBijection(S, T)
    BY <1>4 DEF ExistsBijection
  <2> HIDE DEF S, T
  <2> QED
    BY <1>1, <2>1, FS_Bijection
<1>6. S \cap T = {}
  BY <1>3
<1>7. S \cup T = SUBSET (1 .. n + 1)
  <2>1. ASSUME NEW s \in SUBSET (1 .. n + 1) PROVE s \in S \cup T
    <3>1. s \ {n + 1} \in S
      <4>1. \A i \in 1 .. n + 1 : i # n + 1 => i \in 1 .. n
        OBVIOUS
      <4> QED
        BY <4>1
    <3>2. n + 1 \in s => s = (s \ {n + 1}) \cup {n + 1}
      OBVIOUS
    <3>3. n + 1 \notin s => s = s \ {n + 1}
      OBVIOUS
    <3> HIDE DEF S
    <3> QED
      BY <3>1, <3>2, <3>3
  <2>2. \A s \in S : s \in SUBSET (1 .. n + 1) /\ s \cup {n + 1} \in SUBSET (1 .. n + 1)
    OBVIOUS
  <2>3. \A s \in T : s \in SUBSET (1 .. n + 1)
    BY <2>2
  <2> HIDE DEF S, T
  <2>4. \A s \in S : s \in SUBSET (1 .. n + 1)
    BY <2>2
  <2>5. \A s : s \in S \cup T <=> s \in SUBSET (1 .. n + 1)
    BY <2>1, <2>3, <2>4, Zenon
  <2> QED
    BY <2>5, Zenon
<1>8. Cardinality(S \cup T) = Cardinality(S) + Cardinality(T) - Cardinality(S \cap T)
  <2> HIDE DEF S, T
  <2> QED
    BY <1>1, <1>5, FS_Union
<1>9. Cardinality(S \cap T) = 0
  BY <1>6, FS_EmptySet
<1> HIDE DEF S, T
<1>10. 2 ^ (n + 1) = Cardinality(S) + Cardinality(T) - 0
  BY <1>2, <1>7, <1>8, <1>9, Zenon
<1>11. 2 ^ (n + 1) = 2 ^ n + 2 ^ n - 0
  BY <1>1, <1>5, <1>10, Zenon
<1> PICK p, q \in Nat : p = 2 ^ n /\ q = 2 ^ (n + 1)
  BY <1>1, <1>2, Zenon
<1>12. q = p + p - 0 /\ (q = 2 * p => 2 ^ (n + 1) = 2 * 2 ^ n)
  BY <1>11, Zenon
<1>13. q = 2 * p
  BY <1>12
<1> QED
  BY <1>12, <1>13

LEMMA PowerSum ==
  ASSUME NEW a \in Nat, NEW b \in Nat
  PROVE  2 ^ (a + b) = 2 ^ a * 2 ^ b
<1> DEFINE Bad == {n \in Nat : 2 ^ (a + n) # 2 ^ a * 2 ^ n}
<1> SUFFICES ASSUME Bad # {} PROVE FALSE
  OBVIOUS
<1>1. PICK n \in Bad : \A m \in Bad : n =< m
  <2>1. Bad \subseteq Nat
    OBVIOUS
  <2> HIDE DEF Bad
  <2> QED
    BY <2>1, Least
<1>2. n \in Nat /\ 2 ^ (a + n) # 2 ^ a * 2 ^ n
  OBVIOUS
<1>3. 2 ^ a \in Nat /\ 2 ^ n \in Nat
  BY <1>2, PowerNat
<1>4. n # 0
  <2> SUFFICES ASSUME n = 0 PROVE FALSE
    OBVIOUS
  <2>1. a + n = a /\ 2 ^ n = 1
    BY PowerZero
  <2>2. 2 ^ (a + n) = 2 ^ a
    BY <2>1
  <2> QED
    BY <1>2, <1>3, <2>1, <2>2
<1> DEFINE m == n - 1
<1>5. m \in Nat /\ m \notin Bad /\ n = m + 1 /\ a + n = (a + m) + 1 /\ a + m \in Nat
  BY <1>1, <1>2, <1>4
<1>6. 2 ^ (a + m) = 2 ^ a * 2 ^ m
  BY <1>5
<1> HIDE DEF m, Bad
<1>7. 2 ^ n = 2 * 2 ^ m /\ 2 ^ (a + n) = 2 * 2 ^ (a + m) /\ 2 ^ m \in Nat
  <2>1. 2 ^ (m + 1) = 2 * 2 ^ m /\ 2 ^ ((a + m) + 1) = 2 * 2 ^ (a + m) /\ 2 ^ m \in Nat
    BY <1>5, PowerDoubles, PowerNat
  <2> QED
    BY <1>5, <2>1
<1>8. \A x, y \in Nat : 2 * (x * y) = x * (2 * y)
  OBVIOUS
<1> QED
  BY <1>2, <1>3, <1>6, <1>7, <1>8

LEMMA PowerGrows ==
  ASSUME NEW a \in Nat, NEW b \in Nat, a =< b
  PROVE  2 ^ a =< 2 ^ b
<1>1. b - a \in Nat /\ a + (b - a) = b
  OBVIOUS
<1>2. 2 ^ (a + (b - a)) = 2 ^ a * 2 ^ (b - a)
  BY <1>1, PowerSum
<1>3. 2 ^ a \in Nat /\ 2 ^ (b - a) \in Nat /\ 2 ^ (b - a) > 0
  BY <1>1, PowerNat
<1>4. \A x, y \in Nat : y > 0 => x =< x * y
  OBVIOUS
<1>5. 2 ^ b = 2 ^ a * 2 ^ (b - a)
  BY <1>1, <1>2
<1> QED
  BY <1>3, <1>4, <1>5

-----------------------------------------------------------------------------
(* Division *)

LEMMA Divided ==
  ASSUME NEW x \in Int, NEW c \in Nat \ {0}
  PROVE  /\ x \div c \in Int /\ x % c \in 0 .. c - 1 /\ x = c * (x \div c) + (x % c)
         /\ x >= 0 => x \div c \in Nat
  OBVIOUS

LEMMA QuotientInt ==
  ASSUME NEW x \in Int, NEW c \in Nat \ {0}
  PROVE  x \div c \in Int
  OBVIOUS

LEMMA RemainderInt ==
  ASSUME NEW x \in Int, NEW c \in Nat \ {0}
  PROVE  x % c \in 0 .. c - 1 /\ x % c \in Int
  OBVIOUS

LEMMA DivisionUnique ==
  ASSUME NEW c \in Nat \ {0}, NEW y \in Int, NEW r \in 0 .. c - 1
  PROVE  (c * y + r) \div c = y /\ (c * y + r) % c = r
  OBVIOUS

LEMMA DividedTwice ==
  ASSUME NEW x \in Int, NEW a \in Nat \ {0}, NEW b \in Nat \ {0}
  PROVE  x \div (a * b) = (x \div a) \div b
<1>1. PICK u \in Int, r \in 0 .. a - 1 : u = x \div a /\ x = a * u + r
  BY Divided
<1>2. PICK v \in Int, s \in 0 .. b - 1 : v = u \div b /\ u = b * v + s
  BY Divided
<1>3. a * b \in Nat \ {0}
  OBVIOUS
<1>4. x = (a * b) * v + (a * s + r)
  <2>1. \A i, j, k, l \in Int : i * (j * k + l) = (i * j) * k + i * l
    OBVIOUS
  <2>2. a * (b * v + s) = (a * b) * v + a * s
    BY <2>1
  <2>3. x = a * (b * v + s) + r
    BY <1>1, <1>2
  <2>4. a * b \in Int /\ (a * b) * v \in Int /\ a * s \in Int
    BY <1>3
  <2> QED
    BY <2>2, <2>3, <2>4
<1>5. a * s + r \in 0 .. (a * b) - 1
  <2>1. a * s =< a * (b - 1)
    OBVIOUS
  <2>2. a * (b - 1) = a * b - a
    OBVIOUS
  <2>3. a * s \in Nat
    OBVIOUS
  <2> QED
    BY <1>3, <2>1, <2>2, <2>3
<1>6. ((a * b) * v + (a * s + r)) \div (a * b) = v
  BY <1>3, <1>5, DivisionUnique
<1> QED
  BY <1>1, <1>2, <1>4, <1>6

LEMMA SmallQuotient ==
  ASSUME NEW x \in Nat, NEW c \in Nat \ {0}, NEW b \in Nat, x < b * c
  PROVE  x \div c < b
<1>1. PICK q \in Nat, r \in 0 .. c - 1 : q = x \div c /\ x = c * q + r
  BY Divided
<1>2. ASSUME q >= b PROVE FALSE
  <2>1. c * q >= c * b
    BY <1>2
  <2> QED
    BY <1>1, <2>1
<1> QED
  BY <1>1, <1>2

LEMMA NoQuotient ==
  ASSUME NEW x \in Nat, NEW c \in Nat \ {0}, x < c
  PROVE  x \div c = 0
  OBVIOUS

-----------------------------------------------------------------------------
(* Compressed integers.  Numbers that n bytes follow on begin at Fewer[n]. *)

LEMMA WidthNat ==
  /\ Width \in Nat /\ Width >= 2 /\ Width - 1 \in Nat \ {0} /\ Word \in Nat
  /\ 2 ^ Word \in Nat \ {0} /\ 2 ^ Width \in Nat \ {0}
<1>1. Width \in Nat /\ Width >= 2 /\ Word \in Nat
  BY WidthAssumption
<1>2. 2 ^ Word \in Nat /\ 2 ^ Word > 0 /\ 2 ^ Width \in Nat /\ 2 ^ Width > 0
  BY <1>1, PowerNat
<1> QED
  BY <1>1, <1>2

LEMMA BoundNat ==
  ASSUME NEW n \in Nat
  PROVE  ZInt!Bound(n) \in Nat /\ ZInt!Bound(n) > 0
<1>1. PICK k \in Nat : k = (Width - 1) * (n + 1)
  BY WidthNat
<1>2. 2 ^ k \in Nat /\ 2 ^ k > 0
  BY PowerNat
<1> QED
  BY <1>1, <1>2 DEF ZInt!Bound

LEMMA FewerIs ==
  /\ ZInt!Fewer[0] = 0
  /\ \A n \in Nat : ZInt!Fewer[n] \in Nat
  /\ \A n \in Nat : ZInt!Fewer[n + 1] = ZInt!Fewer[n] + ZInt!Bound(n)
<1> DEFINE size == [n \in Nat |-> n]
           z == [n \in {0} |-> 0]
           d == [n \in Nat |-> n - 1]
           F == [p \in (Nat \ {0}) \X Nat |-> p[2] + ZInt!Bound(p[1] - 1)]
           Is(f) == f = [n \in Nat |-> IF n = 0 THEN 0 ELSE f[n - 1] + ZInt!Bound(n - 1)]
<1>1. Shrinks(Nat, size, {0}, d)
  BY DEF Shrinks
<1>2. \A n \in Nat : n # 0 => \A v \in Nat : F[<<n, v>>] = v + ZInt!Bound(n - 1) /\ F[<<n, v>>] \in Nat
  <2> SUFFICES ASSUME NEW n \in Nat, n # 0, NEW v \in Nat
               PROVE  F[<<n, v>>] = v + ZInt!Bound(n - 1) /\ F[<<n, v>>] \in Nat
    OBVIOUS
  <2>1. n - 1 \in Nat /\ <<n, v>> \in (Nat \ {0}) \X Nat
    OBVIOUS
  <2>2. ZInt!Bound(n - 1) \in Nat
    BY <2>1, BoundNat
  <2>3. F[<<n, v>>] = v + ZInt!Bound(n - 1)
    BY <2>1
  <2> QED
    BY <2>2, <2>3
<1>3. Makes(Nat, Nat, {0}, z, F)
  <2> HIDE DEF F
  <2> QED
    BY <1>2 DEF Makes
<1>4. PICK f : Solves(f, Nat, Nat, {0}, z, d, F)
  <2> HIDE DEF F, z, d, size
  <2> QED
    BY <1>1, <1>3, Recursion
<1>5. Is(f)
  <2>1. \A n \in Nat : f[n] \in Nat /\ f[n] = IF n \in {0} THEN z[n] ELSE F[<<n, f[d[n]]>>]
    BY <1>4 DEF Solves
  <2> HIDE DEF F
  <2>2. ASSUME NEW n \in Nat PROVE f[n] = IF n = 0 THEN 0 ELSE f[n - 1] + ZInt!Bound(n - 1)
    <3>1. n # 0 => n - 1 \in Nat /\ d[n] = n - 1
      OBVIOUS
    <3>2. n # 0 => f[n - 1] \in Nat
      BY <2>1, <3>1
    <3> HIDE DEF d
    <3> QED
      BY <1>2, <2>1, <3>1, <3>2
  <2>3. f = [n \in Nat |-> f[n]]
    BY <1>4 DEF Solves
  <2>4. [n \in Nat |-> f[n]] = [n \in Nat |-> IF n = 0 THEN 0 ELSE f[n - 1] + ZInt!Bound(n - 1)]
    BY <2>2
  <2> QED
    BY <2>3, <2>4
<1>6. ZInt!Fewer = CHOOSE g : Is(g)
  BY DEF ZInt!Fewer
<1>7. Is(ZInt!Fewer)
  <2> HIDE DEF Is
  <2> QED
    BY <1>5, <1>6, Zenon
<1>8. PICK fewer : fewer = ZInt!Fewer
  OBVIOUS
<1>9. \A n \in Nat : fewer[n] = IF n = 0 THEN 0 ELSE fewer[n - 1] + ZInt!Bound(n - 1)
  BY <1>7, <1>8
<1>10. fewer[0] = 0 /\ \A n \in Nat : fewer[n + 1] = fewer[n] + ZInt!Bound(n)
  <2>1. \A n \in Nat : n + 1 \in Nat /\ n + 1 # 0 /\ (n + 1) - 1 = n
    OBVIOUS
  <2> QED
    BY <1>9, <2>1
<1>11. \A n \in Nat : fewer[n] \in Nat
  <2> DEFINE Bad == {n \in Nat : fewer[n] \notin Nat}
  <2> SUFFICES ASSUME Bad # {} PROVE FALSE
    OBVIOUS
  <2>1. PICK n \in Bad : \A m \in Bad : n =< m
    <3>1. Bad \subseteq Nat
      OBVIOUS
    <3> HIDE DEF Bad
    <3> QED
      BY <3>1, Least
  <2>2. n \in Nat /\ fewer[n] \notin Nat /\ n # 0
    BY <1>10
  <2>3. n - 1 \in Nat /\ fewer[n - 1] \in Nat
    BY <2>1, <2>2
  <2>4. fewer[n] = fewer[n - 1] + ZInt!Bound(n - 1) /\ ZInt!Bound(n - 1) \in Nat
    BY <1>9, <2>2, <2>3, BoundNat
  <2> QED
    BY <2>2, <2>3, <2>4
<1> QED
  BY <1>8, <1>10, <1>11

-----------------------------------------------------------------------------
(* Zint: the bytes of a number. *)

LEMMA FollowingIs ==
  ASSUME NEW value \in ZInt!Number
  PROVE  /\ ZInt!Following(value) \in 0 .. Width - 2
         /\ ZInt!Fewer[ZInt!Following(value)] =< value
         /\ value < ZInt!Fewer[ZInt!Following(value)] + ZInt!Bound(ZInt!Following(value))
<1> DEFINE Fits(n) == n \in 0 .. Width - 1 /\ ZInt!Fewer[n] =< value /\ value < ZInt!Fewer[n + 1]
           Above == {n \in Nat : value < ZInt!Fewer[n + 1]}
<1>1. value \in Nat /\ value < 2 ^ Word
  BY WidthNat DEF ZInt!Number
<1>2. PICK u \in Nat : u = Width - 2
  BY WidthNat
<1>3. value < ZInt!Fewer[u + 1]
  <2>1. Word =< (Width - 1) * (u + 1) /\ (Width - 1) * (u + 1) \in Nat
    BY <1>2, WidthNat, WidthAssumption
  <2>2. 2 ^ Word =< ZInt!Bound(u)
    <3>1. PICK k \in Nat : k = (Width - 1) * (u + 1)
      BY <2>1
    <3>2. 2 ^ Word =< 2 ^ k
      BY <2>1, <3>1, WidthNat, PowerGrows
    <3> QED
      BY <3>1, <3>2 DEF ZInt!Bound
  <2>3. /\ ZInt!Fewer[u + 1] = ZInt!Fewer[u] + ZInt!Bound(u)
        /\ ZInt!Fewer[u] \in Nat /\ ZInt!Bound(u) \in Nat /\ 2 ^ Word \in Nat
    BY FewerIs, BoundNat, WidthNat
  <2> QED
    BY <1>1, <2>2, <2>3
<1>4. PICK n \in Above : \A m \in Above : n =< m
  <2>1. Above \subseteq Nat /\ u \in Above
    BY <1>3
  <2> HIDE DEF Above
  <2> QED
    BY <2>1, Least
<1>5. n \in Nat /\ n =< u /\ value < ZInt!Fewer[n + 1]
  BY <1>3, <1>4
<1>6. ZInt!Fewer[n] =< value
  <2>1. CASE n = 0
    BY <1>1, <2>1, FewerIs
  <2>2. CASE n # 0
    <3>1. n - 1 \in Nat /\ n - 1 \notin Above /\ (n - 1) + 1 = n
      BY <1>4, <1>5, <2>2
    <3>2. ~(value < ZInt!Fewer[n]) /\ ZInt!Fewer[n] \in Nat
      BY <1>5, <3>1, FewerIs
    <3> QED
      BY <1>1, <3>2
  <2> QED
    BY <2>1, <2>2
<1>7. Fits(n)
  BY <1>2, <1>5, <1>6, WidthNat
<1>8. ZInt!Following(value) = CHOOSE k : Fits(k)
  BY DEF ZInt!Following
<1>9. Fits(ZInt!Following(value))
  <2> HIDE DEF Fits
  <2> QED
    BY <1>7, <1>8, Zenon
<1>10. PICK k : k = ZInt!Following(value)
  OBVIOUS
<1>11. k \in 0 .. Width - 1 /\ ZInt!Fewer[k] =< value /\ value < ZInt!Fewer[k + 1]
  BY <1>9, <1>10
<1>12. k # u + 1
  <2>1. ZInt!Fewer[u + 1] \in Nat
    BY FewerIs
  <2> QED
    BY <1>1, <1>3, <1>11, <2>1
<1>13. k \in 0 .. Width - 2 /\ k \in Nat
  BY <1>2, <1>11, <1>12, WidthNat
<1>14. ZInt!Fewer[k + 1] = ZInt!Fewer[k] + ZInt!Bound(k)
  BY <1>13, FewerIs
<1> QED
  BY <1>10, <1>11, <1>13, <1>14

LEMMA MaskIs ==
  ASSUME NEW n \in 0 .. Width
  PROVE  /\ ZInt!Mask(n) \in ZInt!Byte
         /\ ZInt!Mask(n) = 2 ^ Width - 2 ^ (Width - n) /\ 2 ^ (Width - n) \in Nat
         /\ n < Width => /\ ZInt!Left(n) \in Nat /\ 2 ^ ZInt!Left(n) \in Nat \ {0}
                         /\ 2 ^ (Width - n) = 2 * 2 ^ ZInt!Left(n)
                         /\ ZInt!Mask(n + 1) = ZInt!Mask(n) + 2 ^ ZInt!Left(n)
<1>1. PICK w, k \in Nat : w = Width /\ k = Width - n
  BY WidthNat
<1>2. k =< w /\ 2 ^ k \in Nat /\ 2 ^ k > 0 /\ 2 ^ w \in Nat /\ 2 ^ k =< 2 ^ w
  <2>1. k =< w
    BY <1>1, WidthNat
  <2> QED
    BY <2>1, PowerNat, PowerGrows
<1>3. ZInt!Mask(n) = 2 ^ w - 2 ^ k
  BY <1>1 DEF ZInt!Mask
<1>4. ZInt!Mask(n) \in ZInt!Byte
  <2>1. PICK p, q \in Nat : p = 2 ^ w /\ q = 2 ^ k
    BY <1>2
  <2>2. p - q \in 0 .. p - 1
    BY <1>2, <2>1
  <2> QED
    BY <1>1, <1>3, <2>1, <2>2 DEF ZInt!Byte
<1>5. ASSUME n < Width
      PROVE  /\ ZInt!Left(n) \in Nat /\ 2 ^ ZInt!Left(n) \in Nat \ {0}
             /\ 2 ^ (Width - n) = 2 * 2 ^ ZInt!Left(n)
             /\ ZInt!Mask(n + 1) = ZInt!Mask(n) + 2 ^ ZInt!Left(n)
  <2>1. PICK l \in Nat : l = ZInt!Left(n) /\ k = l + 1 /\ Width - (n + 1) = l
    BY <1>1, <1>5, WidthNat DEF ZInt!Left
  <2>2. 2 ^ (l + 1) = 2 * 2 ^ l /\ 2 ^ l \in Nat /\ 2 ^ l > 0
    BY PowerDoubles, PowerNat
  <2>3. 2 ^ k = 2 * 2 ^ l
    BY <2>1, <2>2
  <2>4. ZInt!Mask(n + 1) = 2 ^ w - 2 ^ l
    BY <1>1, <2>1 DEF ZInt!Mask
  <2>5. PICK p, q \in Nat : p = 2 ^ w /\ q = 2 ^ l
    BY <1>2, <2>2
  <2>6. p - q = (p - 2 * q) + q
    OBVIOUS
  <2>7. ZInt!Mask(n + 1) = ZInt!Mask(n) + 2 ^ l
    BY <1>3, <2>3, <2>4, <2>5, <2>6
  <2> QED
    BY <1>1, <2>1, <2>2, <2>3, <2>7
<1> QED
  BY <1>1, <1>2, <1>3, <1>4, <1>5

LEMMA MaskGrows ==
  ASSUME NEW m \in 0 .. Width, NEW n \in 0 .. Width, m =< n
  PROVE  ZInt!Mask(m) =< ZInt!Mask(n)
<1>1. PICK w, j, k \in Nat : w = Width /\ j = Width - n /\ k = Width - m /\ j =< k
  BY WidthNat
<1>2. 2 ^ j =< 2 ^ k /\ 2 ^ j \in Nat /\ 2 ^ k \in Nat /\ 2 ^ w \in Nat
  BY <1>1, PowerGrows, PowerNat
<1>3. ZInt!Mask(m) = 2 ^ w - 2 ^ k /\ ZInt!Mask(n) = 2 ^ w - 2 ^ j
  BY <1>1 DEF ZInt!Mask
<1>4. PICK p, q, r \in Nat : p = 2 ^ w /\ q = 2 ^ k /\ r = 2 ^ j
  BY <1>2
<1>5. r =< q => p - q =< p - r
  OBVIOUS
<1> QED
  BY <1>2, <1>3, <1>4, <1>5

HasOnes(byte, n) ==
  n \in 0 .. Width /\ ZInt!Mask(n) =< byte /\ (n < Width => byte < ZInt!Mask(n + 1))

LEMMA OnesIs ==
  ASSUME NEW byte \in ZInt!Byte
  PROVE  HasOnes(byte, ZInt!Ones(byte)) /\ ZInt!Ones(byte) \in 0 .. Width
<1> DEFINE Enough == {n \in 0 .. Width : n < Width => byte < ZInt!Mask(n + 1)}
<1>1. Width \in Nat /\ byte \in Nat
  BY WidthNat DEF ZInt!Byte
<1>2. PICK n \in Enough : \A m \in Enough : n =< m
  <2>1. Enough \subseteq Nat /\ Width \in Enough
    BY <1>1
  <2> HIDE DEF Enough
  <2> QED
    BY <2>1, Least
<1>3. n \in 0 .. Width /\ (n < Width => byte < ZInt!Mask(n + 1))
  OBVIOUS
<1>4. ZInt!Mask(n) =< byte
  <2>1. CASE n = 0
    <3>1. ZInt!Mask(0) = 2 ^ Width - 2 ^ (Width - 0) /\ Width - 0 = Width /\ 2 ^ Width \in Nat
      BY <1>1, <2>1, MaskIs, WidthNat
    <3>2. ZInt!Mask(0) = 2 ^ Width - 2 ^ Width
      BY <3>1
    <3>3. PICK p \in Nat : p = 2 ^ Width
      BY <3>1
    <3>4. ZInt!Mask(0) = 0
      BY <3>2, <3>3
    <3> QED
      BY <1>1, <2>1, <3>4
  <2>2. CASE n # 0
    <3>1. n - 1 \in 0 .. Width /\ n - 1 < Width /\ n - 1 \notin Enough /\ (n - 1) + 1 = n
      BY <1>1, <1>2, <1>3, <2>2
    <3>2. ~(byte < ZInt!Mask(n))
      BY <3>1
    <3>3. ZInt!Mask(n) \in Nat
      BY <1>3, MaskIs, WidthNat DEF ZInt!Byte
    <3> QED
      BY <1>1, <3>2, <3>3
  <2> QED
    BY <2>1, <2>2
<1>5. HasOnes(byte, n)
  BY <1>3, <1>4 DEF HasOnes
<1>6. ZInt!Ones(byte) = CHOOSE k : HasOnes(byte, k)
  BY DEF ZInt!Ones, HasOnes
<1>7. HasOnes(byte, ZInt!Ones(byte))
  BY <1>5, <1>6, Zenon
<1> QED
  BY <1>7 DEF HasOnes

LEMMA OnesUnique ==
  ASSUME NEW byte \in ZInt!Byte, NEW m, NEW n, HasOnes(byte, m), HasOnes(byte, n)
  PROVE  m = n
<1>1. byte \in Nat /\ Width \in Nat
  BY WidthNat DEF ZInt!Byte
<1>2. /\ m \in 0 .. Width /\ ZInt!Mask(m) =< byte /\ (m < Width => byte < ZInt!Mask(m + 1))
      /\ n \in 0 .. Width /\ ZInt!Mask(n) =< byte /\ (n < Width => byte < ZInt!Mask(n + 1))
  BY DEF HasOnes
<1>3. \A k \in 0 .. Width : ZInt!Mask(k) \in Nat
  BY MaskIs, WidthNat DEF ZInt!Byte
<1>4. ~(m < n)
  <2> SUFFICES ASSUME m < n PROVE FALSE
    OBVIOUS
  <2>1. m + 1 \in 0 .. Width /\ m + 1 =< n /\ m < Width
    BY <1>1, <1>2
  <2>2. ZInt!Mask(m + 1) =< ZInt!Mask(n)
    BY <1>2, <2>1, MaskGrows
  <2>3. ZInt!Mask(m + 1) \in Nat /\ ZInt!Mask(n) \in Nat
    BY <1>2, <1>3, <2>1
  <2> QED
    BY <1>1, <1>2, <2>1, <2>2, <2>3
<1>5. ~(n < m)
  <2> SUFFICES ASSUME n < m PROVE FALSE
    OBVIOUS
  <2>1. n + 1 \in 0 .. Width /\ n + 1 =< m /\ n < Width
    BY <1>1, <1>2
  <2>2. ZInt!Mask(n + 1) =< ZInt!Mask(m)
    BY <1>2, <2>1, MaskGrows
  <2>3. ZInt!Mask(n + 1) \in Nat /\ ZInt!Mask(m) \in Nat
    BY <1>2, <1>3, <2>1
  <2> QED
    BY <1>1, <1>2, <2>1, <2>2, <2>3
<1> QED
  BY <1>1, <1>2, <1>4, <1>5

(* What a number is made of: the bytes that follow, what is in the first   *)
(* byte beside the ones, and what the others hold.                         *)
Made(value, n, r, q) ==
  /\ n \in 0 .. Width - 2 /\ r \in 0 .. 2 ^ ZInt!Left(n) - 1 /\ q \in Nat
  /\ q < 2 ^ (Width * n)
  /\ value = ZInt!Fewer[n] + 2 ^ ZInt!Left(n) * q + r
  /\ ZInt!Put(value) = <<ZInt!Mask(n) + r>> \o ZInt!LowBytes(q, n)

LEMMA PutMakes ==
  ASSUME NEW value \in ZInt!Number
  PROVE  \E n, r, q : Made(value, n, r, q)
<1>1. PICK n : n = ZInt!Following(value)
  OBVIOUS
<1>2. n \in 0 .. Width - 2 /\ ZInt!Fewer[n] =< value /\ value < ZInt!Fewer[n] + ZInt!Bound(n)
  BY <1>1, FollowingIs
<1>3. /\ n \in Nat /\ n \in 0 .. Width /\ n < Width
      /\ Width \in Nat /\ ZInt!Fewer[n] \in Nat /\ ZInt!Bound(n) \in Nat /\ value \in Nat
  BY <1>2, WidthNat, FewerIs, BoundNat DEF ZInt!Number
<1>4. PICK l, p : l = ZInt!Left(n) /\ p = 2 ^ l /\ l \in Nat /\ p \in Nat \ {0}
  BY <1>3, MaskIs
<1>5. PICK rest : rest = value - ZInt!Fewer[n]
  OBVIOUS
<1>6. rest \in Nat /\ rest < ZInt!Bound(n)
  <2>1. PICK few, bound \in Nat : few = ZInt!Fewer[n] /\ bound = ZInt!Bound(n)
    BY <1>3
  <2> QED
    BY <1>2, <1>3, <1>5, <2>1
<1>7. ZInt!Bound(n) = 2 ^ (Width * n) * p /\ 2 ^ (Width * n) \in Nat
  <2>1. PICK j, k \in Nat : j = Width * n /\ k = (Width - 1) * (n + 1)
    BY <1>3, WidthNat
  <2>2. k = j + l
    BY <1>3, <1>4, <2>1 DEF ZInt!Left
  <2>3. 2 ^ k = 2 ^ j * 2 ^ l /\ 2 ^ j \in Nat
    BY <1>4, <2>1, <2>2, PowerSum, PowerNat
  <2> QED
    BY <1>4, <2>1, <2>3 DEF ZInt!Bound
<1>8. PICK r, q : r = rest % p /\ q = rest \div p
  OBVIOUS
<1>9. r \in 0 .. p - 1 /\ q \in Nat /\ rest = p * q + r
  <2>1. p \in Nat \ {0} /\ rest \in Int /\ rest >= 0
    BY <1>4, <1>6
  <2>2. rest % p \in 0 .. p - 1 /\ rest \div p \in Nat /\ rest = p * (rest \div p) + (rest % p)
    BY ONLY <2>1, Divided
  <2> QED
    BY ONLY <1>8, <2>2
<1>10. q < 2 ^ (Width * n)
  <2>1. PICK b \in Nat : b = 2 ^ (Width * n)
    BY <1>7
  <2>2. rest < b * p
    BY <1>6, <1>7, <2>1
  <2>3. rest \div p < b
    BY <1>4, <1>6, <2>1, <2>2, SmallQuotient
  <2> QED
    BY <1>8, <2>1, <2>3
<1>11. value = ZInt!Fewer[n] + p * q + r
  <2>1. PICK few \in Nat : few = ZInt!Fewer[n]
    BY <1>3
  <2>2. PICK pq \in Nat : pq = p * q
    BY <1>4, <1>9
  <2> QED
    BY <1>3, <1>5, <1>9, <2>1, <2>2
<1>12. ZInt!Put(value) = <<ZInt!Mask(n) + r>> \o ZInt!LowBytes(q, n)
  BY <1>1, <1>4, <1>5, <1>8 DEF ZInt!Put
<1> QED
  BY <1>2, <1>4, <1>9, <1>10, <1>11, <1>12 DEF Made

LEMMA FirstByte ==
  ASSUME NEW n \in 0 .. Width - 2, NEW r \in 0 .. 2 ^ ZInt!Left(n) - 1
  PROVE  /\ ZInt!Mask(n) + r \in ZInt!Byte
         /\ ZInt!Ones(ZInt!Mask(n) + r) = n
         /\ (ZInt!Mask(n) + r) % 2 ^ ZInt!Left(n) = r
<1>1. n \in Nat /\ n \in 0 .. Width /\ n + 1 \in 0 .. Width /\ n < Width /\ Width \in Nat
  BY WidthNat
<1>2. PICK l, p : l = ZInt!Left(n) /\ p = 2 ^ l /\ l \in Nat /\ p \in Nat \ {0}
  BY <1>1, MaskIs
<1>3. PICK mask, first : mask = ZInt!Mask(n) /\ first = mask + r
  OBVIOUS
<1>4. ZInt!Mask(n + 1) = mask + p /\ mask \in ZInt!Byte /\ mask + p \in ZInt!Byte
  BY <1>1, <1>2, <1>3, MaskIs
<1>5. mask \in Nat /\ r \in Nat /\ r < p
  BY <1>2, <1>4, WidthNat DEF ZInt!Byte
<1>6. first \in ZInt!Byte
  <2>1. PICK w \in Nat : w = 2 ^ Width
    BY WidthNat
  <2>2. mask + p =< w - 1
    BY <1>4, <2>1 DEF ZInt!Byte
  <2> QED
    BY <1>2, <1>3, <1>5, <2>1, <2>2 DEF ZInt!Byte
<1>7. HasOnes(first, n)
  <2>1. mask =< first /\ first < mask + p
    BY <1>2, <1>3, <1>5
  <2> QED
    BY <1>1, <1>3, <1>4, <2>1 DEF HasOnes
<1>8. ZInt!Ones(first) = n
  BY <1>6, <1>7, OnesIs, OnesUnique
<1>9. first % p = r
  <2>1. PICK k \in Nat : k = n + 1 /\ Width = l + k
    BY <1>1, <1>2 DEF ZInt!Left
  <2>2. 2 ^ (l + k) = 2 ^ l * 2 ^ k /\ 2 ^ k \in Nat
    BY <1>2, <2>1, PowerSum, PowerNat
  <2>3. PICK c \in Nat : c = 2 ^ k
    BY <2>2
  <2>4. 2 ^ Width = p * c
    BY <1>2, <2>1, <2>2, <2>3
  <2>5. mask = p * c - 2 * p
    BY <1>1, <1>2, <1>3, <2>4, MaskIs
  <2>6. p * (c - 2) = p * c - 2 * p
    BY <1>2, <2>3
  <2>7. first = p * (c - 2) + r
    BY <1>3, <2>5, <2>6
  <2>8. (p * (c - 2) + r) % p = r
    <3>1. c - 2 \in Int /\ r \in 0 .. p - 1
      BY <1>2, <2>3
    <3> QED
      BY <1>2, <3>1, DivisionUnique
  <2> QED
    BY <2>7, <2>8
<1> QED
  BY <1>2, <1>3, <1>6, <1>8, <1>9

LEMMA LowBytesAre ==
  ASSUME NEW q \in Nat, NEW n \in Nat
  PROVE  /\ ZInt!LowBytes(q, n) \in Seq(ZInt!Byte) /\ Len(ZInt!LowBytes(q, n)) = n
         /\ \A i \in 1 .. n : ZInt!LowBytes(q, n)[i] = (q \div 2 ^ (Width * (i - 1))) % 2 ^ Width
<1>1. ASSUME NEW i \in 1 .. n
      PROVE  (q \div 2 ^ (Width * (i - 1))) % 2 ^ Width \in ZInt!Byte
  <2>1. PICK k \in Nat : k = Width * (i - 1)
    BY WidthNat
  <2>2. PICK c \in Nat \ {0} : c = 2 ^ k
    <3>1. 2 ^ k \in Nat /\ 2 ^ k > 0
      BY PowerNat
    <3> QED
      BY <3>1
  <2>3. q \div c \in Int
    BY <2>2, Divided
  <2>4. PICK w : w = 2 ^ Width /\ w \in Nat \ {0}
    BY WidthNat
  <2>5. (q \div c) % w \in 0 .. w - 1
    BY <2>3, <2>4, Divided
  <2> QED
    BY <2>1, <2>2, <2>4, <2>5 DEF ZInt!Byte
<1>2. ZInt!LowBytes(q, n) = [i \in 1 .. n |-> (q \div 2 ^ (Width * (i - 1))) % 2 ^ Width]
  BY DEF ZInt!LowBytes
<1>3. ZInt!LowBytes(q, n) \in [1 .. n -> ZInt!Byte]
  BY <1>1, <1>2
<1> QED
  BY <1>2, <1>3, SeqDef

LEMMA SumIs ==
  /\ ZInt!Sum[<<>>] = 0
  /\ \A s \in Seq(Int) : ZInt!Sum[s] \in Int
  /\ \A s \in Seq(Int) : s # <<>> => ZInt!Sum[s] = Head(s) + ZInt!Sum[Tail(s)]
<1> DEFINE D == Seq(Int)
           size == [s \in D |-> Len(s)]
           Base == {<<>>}
           z == [s \in Base |-> 0]
           d == [s \in D |-> Tail(s)]
           F == [p \in D \X Int |-> Head(p[1]) + p[2]]
           Is(f) == f = [s \in D |-> IF s = <<>> THEN 0 ELSE Head(s) + f[Tail(s)]]
<1>1. \A s \in D : s # <<>> => /\ Head(s) \in Int /\ Tail(s) \in D
                               /\ Len(s) \in Nat /\ Len(Tail(s)) = Len(s) - 1
  BY HeadTailProperties, LenProperties
<1>2. Shrinks(D, size, Base, d)
  <2>1. ASSUME NEW s \in D PROVE size[s] \in Nat
    BY LenProperties
  <2>2. ASSUME NEW s \in D, s \notin Base PROVE d[s] \in D /\ size[d[s]] < size[s]
    <3>1. d[s] = Tail(s) /\ Tail(s) \in D /\ Len(s) \in Nat /\ Len(Tail(s)) = Len(s) - 1
      BY <1>1, <2>2
    <3>2. size[s] = Len(s) /\ size[Tail(s)] = Len(Tail(s))
      BY <3>1
    <3> QED
      BY <3>1, <3>2
  <2> QED
    BY <2>1, <2>2 DEF Shrinks
<1>3. \A s \in D : s # <<>> => \A v \in Int : F[<<s, v>>] = Head(s) + v /\ F[<<s, v>>] \in Int
  <2> SUFFICES ASSUME NEW s \in D, s # <<>>, NEW v \in Int
               PROVE  F[<<s, v>>] = Head(s) + v /\ F[<<s, v>>] \in Int
    OBVIOUS
  <2>1. Head(s) \in Int
    BY <1>1
  <2>2. F[<<s, v>>] = Head(s) + v
    OBVIOUS
  <2> QED
    BY <2>1, <2>2
<1>4. Makes(D, Int, Base, z, F)
  <2> HIDE DEF F, D
  <2> QED
    BY <1>3 DEF Makes
<1>5. PICK f : Solves(f, D, Int, Base, z, d, F)
  <2> HIDE DEF F, z, d, size, D, Base
  <2> QED
    BY <1>2, <1>4, Recursion
<1>6. Is(f)
  <2>1. \A s \in D : f[s] \in Int /\ f[s] = IF s \in Base THEN z[s] ELSE F[<<s, f[d[s]]>>]
    BY <1>5 DEF Solves
  <2>2. \A s \in D : d[s] = Tail(s)
    OBVIOUS
  <2>3. z[<<>>] = 0
    OBVIOUS
  <2> HIDE DEF F, D, d, z
  <2>4. ASSUME NEW s \in D PROVE f[s] = IF s = <<>> THEN 0 ELSE Head(s) + f[Tail(s)]
    <3>1. s # <<>> => f[Tail(s)] \in Int
      BY <1>1, <2>1
    <3>2. CASE s = <<>>
      BY <2>1, <2>3, <3>2
    <3>3. CASE s # <<>>
      BY <1>3, <2>1, <2>2, <3>1, <3>3
    <3> QED
      BY <3>2, <3>3
  <2>5. f = [s \in D |-> f[s]]
    BY <1>5 DEF Solves
  <2>6. [s \in D |-> f[s]] = [s \in D |-> IF s = <<>> THEN 0 ELSE Head(s) + f[Tail(s)]]
    BY <2>4
  <2> QED
    BY <2>5, <2>6
<1>7. ZInt!Sum = CHOOSE g : Is(g)
  BY DEF ZInt!Sum
<1>8. Is(ZInt!Sum)
  <2> HIDE DEF Is
  <2> QED
    BY <1>6, <1>7, Zenon
<1>9. PICK sum : sum = ZInt!Sum
  OBVIOUS
<1>10. \A s \in Seq(Int) : sum[s] = IF s = <<>> THEN 0 ELSE Head(s) + sum[Tail(s)]
  BY <1>8, <1>9
<1>11. \A s \in Seq(Int) : sum[s] \in Int
  <2> DEFINE Bad == {n \in Nat : \E s \in Seq(Int) : Len(s) = n /\ sum[s] \notin Int}
  <2> SUFFICES ASSUME NEW s0 \in Seq(Int), sum[s0] \notin Int PROVE FALSE
    OBVIOUS
  <2>1. PICK n \in Bad : \A m \in Bad : n =< m
    <3>1. Bad \subseteq Nat /\ Len(s0) \in Bad
      BY LenProperties
    <3> HIDE DEF Bad
    <3> QED
      BY <3>1, Least
  <2>2. PICK s \in Seq(Int) : Len(s) = n /\ sum[s] \notin Int
    OBVIOUS
  <2>3. s # <<>>
    BY <1>10, <2>2
  <2>4. Tail(s) \in Seq(Int) /\ Head(s) \in Int /\ Len(Tail(s)) \in Nat /\ Len(Tail(s)) < n
    BY <1>1, <2>2, <2>3, LenProperties
  <2>5. Len(Tail(s)) \notin Bad
    BY <2>1, <2>4
  <2>6. sum[Tail(s)] \in Int
    BY <2>4, <2>5
  <2>7. sum[s] = Head(s) + sum[Tail(s)]
    BY <1>10, <2>3
  <2> QED
    BY <2>2, <2>4, <2>6, <2>7
<1> QED
  BY <1>9, <1>10, <1>11, EmptySeq

LEMMA HighIs ==
  ASSUME NEW n \in 0 .. Width - 2, NEW q \in Nat, q < 2 ^ (Width * n), NEW bytes,
         \A i \in 1 .. n : bytes[i + 1] = ZInt!LowBytes(q, n)[i]
  PROVE  ZInt!Sum[[i \in 1 .. n |-> ZInt!Part(bytes, n, i)]] = 2 ^ ZInt!Left(n) * q
<1>1. n \in Nat /\ n \in 0 .. Width /\ n < Width /\ Width \in Nat
  BY WidthNat
<1>2. PICK l, p : l = ZInt!Left(n) /\ p = 2 ^ l /\ l \in Nat /\ p \in Nat \ {0}
  BY <1>1, MaskIs
<1>3. PICK w \in Nat \ {0} : w = 2 ^ Width
  BY WidthNat
<1> DEFINE parts == [i \in 1 .. n |-> ZInt!Part(bytes, n, i)]
           at(k) == 2 ^ (Width * (k - 1))
           Rest(k) == ZInt!Sum[SubSeq(parts, k, n)] = (q \div at(k)) * (p * at(k))
<1>4. ASSUME NEW k \in 1 .. n + 1 PROVE at(k) \in Nat \ {0}
  <2>1. PICK j \in Nat : j = Width * (k - 1)
    BY <1>1
  <2>2. 2 ^ j \in Nat /\ 2 ^ j > 0
    BY PowerNat
  <2> QED
    BY <2>1, <2>2
<1>5. ASSUME NEW k \in 1 .. n PROVE at(k + 1) = at(k) * w
  <2>1. PICK i, j \in Nat : i = Width * (k - 1) /\ j = Width * ((k + 1) - 1) /\ j = i + Width
    BY <1>1
  <2>2. 2 ^ (i + Width) = 2 ^ i * 2 ^ Width
    BY <1>1, <2>1, PowerSum
  <2> QED
    BY <1>3, <2>1, <2>2
<1>6. ASSUME NEW k \in 1 .. n
      PROVE  parts[k] = ((q \div at(k)) % w) * (p * at(k)) /\ parts[k] \in Int
  <2>1. bytes[k + 1] = (q \div at(k)) % w
    BY <1>1, <1>3, LowBytesAre
  <2>2. PICK j \in Nat : j = Width * (k - 1)
    BY <1>1
  <2>3. 2 ^ (l + j) = p * 2 ^ j
    BY <1>2, <2>2, PowerSum
  <2>4. parts[k] = bytes[k + 1] * 2 ^ (l + j)
    BY <1>2, <2>2 DEF ZInt!Part
  <2>5. parts[k] = ((q \div at(k)) % w) * (p * at(k))
    BY <2>1, <2>2, <2>3, <2>4
  <2>6. PICK a \in Nat \ {0} : a = at(k)
    BY <1>4
  <2> HIDE DEF at, parts
  <2>7. q \div a \in Int
    BY ONLY q \in Nat, <2>6, QuotientInt
  <2>8. (q \div a) % w \in Int
    BY ONLY <1>3, <2>7, RemainderInt
  <2>9. ((q \div a) % w) * (p * a) \in Int
    BY <1>2, <2>6, <2>8
  <2> QED
    BY <2>5, <2>6, <2>9
<1> HIDE DEF at
<1>7. parts \in Seq(Int) /\ Len(parts) = n /\ DOMAIN parts = 1 .. n
  <2>1. parts \in [1 .. n -> Int]
    <3>1. DOMAIN parts = 1 .. n /\ parts = [i \in DOMAIN parts |-> parts[i]]
      OBVIOUS
    <3> HIDE DEF parts
    <3> QED
      BY <1>6, <3>1
  <2>2. DOMAIN parts = 1 .. n
    OBVIOUS
  <2> HIDE DEF parts
  <2> QED
    BY <1>1, <2>1, <2>2, SeqDef
<1> HIDE DEF parts
<1>8. Rest(n + 1)
  <2>1. SubSeq(parts, n + 1, n) = <<>>
    BY <1>1, SubSeqEmpty
  <2>2. ZInt!Sum[SubSeq(parts, n + 1, n)] = 0
    BY <2>1, SumIs
  <2>3. q \div at(n + 1) = 0
    <3>1. at(n + 1) = 2 ^ (Width * n) /\ at(n + 1) \in Nat \ {0}
      <4>1. (n + 1) - 1 = n /\ n + 1 \in 1 .. n + 1
        BY <1>1
      <4> QED
        BY <1>4, <4>1 DEF at
    <3>2. PICK c \in Nat \ {0} : c = at(n + 1)
      BY <3>1
    <3>3. q < c
      BY <3>1, <3>2
    <3> QED
      BY <3>2, <3>3, NoQuotient
  <2>4. PICK c \in Nat \ {0} : c = at(n + 1)
    <3>1. n + 1 \in 1 .. n + 1
      BY <1>1
    <3> QED
      BY <1>4, <3>1
  <2>5. 0 * (p * c) = 0
    BY <1>2
  <2> QED
    BY <2>2, <2>3, <2>4, <2>5
<1>9. ASSUME NEW k \in 1 .. n, Rest(k + 1) PROVE Rest(k)
  <2>1. /\ Head(SubSeq(parts, k, n)) = parts[k]
        /\ Tail(SubSeq(parts, k, n)) = SubSeq(parts, k + 1, n)
    <3>1. k \in 1 .. Len(parts) /\ n \in k .. Len(parts)
      BY <1>1, <1>7
    <3> QED
      BY <1>7, <3>1, HeadTailOfSubSeq
  <2>2. SubSeq(parts, k, n) \in Seq(Int) /\ SubSeq(parts, k, n) # <<>>
    <3>1. \A i \in k .. n : parts[i] \in Int
      BY <1>6
    <3>2. /\ SubSeq(parts, k, n) \in Seq(Int)
          /\ Len(SubSeq(parts, k, n)) = IF k <= n THEN n - k + 1 ELSE 0
      <4>1. k \in Int /\ n \in Int
        BY <1>1
      <4> QED
        BY <3>1, <4>1, SubSeqProperties
    <3>3. Len(SubSeq(parts, k, n)) # 0
      BY <1>1, <3>2
    <3>4. Len(<<>>) = 0
      OBVIOUS
    <3> QED
      BY <3>2, <3>3, <3>4, Zenon
  <2>3. ZInt!Sum[SubSeq(parts, k, n)] = parts[k] + ZInt!Sum[SubSeq(parts, k + 1, n)]
    BY <2>1, <2>2, SumIs
  <2>4. PICK a \in Nat \ {0} : a = at(k) /\ at(k + 1) = a * w
    BY <1>4, <1>5
  <2>5. PICK u, v \in Int, s \in 0 .. w - 1 :
          u = q \div a /\ v = u \div w /\ s = u % w /\ u = w * v + s
    <3>1. q \div a \in Int
      BY ONLY q \in Nat, <2>4, QuotientInt
    <3>2. PICK u \in Int : u = q \div a
      BY <3>1
    <3>3. u \div w \in Int /\ u % w \in 0 .. w - 1 /\ u = w * (u \div w) + (u % w)
      BY ONLY <1>3, <3>2, Divided
    <3> QED
      BY <3>2, <3>3
  <2>6. q \div (a * w) = v
    <3>1. q \div (a * w) = (q \div a) \div w
      BY ONLY q \in Nat, <1>3, <2>4, DividedTwice
    <3> QED
      BY <2>5, <3>1
  <2>7. parts[k] = s * (p * a)
    BY <1>6, <2>4, <2>5
  <2>8. ZInt!Sum[SubSeq(parts, k + 1, n)] = v * (p * (a * w))
    BY <1>9, <2>4, <2>6
  <2>9. s * (p * a) + v * (p * (a * w)) = (w * v + s) * (p * a)
    <3>1. \A x, y, i, j \in Int : x * (i * j) + y * (i * (j * w)) = (w * y + x) * (i * j)
      BY <1>3
    <3> QED
      BY <1>2, <2>4, <2>5, <3>1
  <2> QED
    BY <2>3, <2>4, <2>5, <2>7, <2>8, <2>9
<1>10. Rest(1)
  <2> DEFINE Bad == {j \in 0 .. n : ~Rest(n + 1 - j)}
  <2> HIDE DEF Rest
  <2> SUFFICES ASSUME Bad # {} PROVE FALSE
    <3>1. n \in 0 .. n /\ n + 1 - n = 1
      BY <1>1
    <3> QED
      BY <3>1
  <2>1. PICK j \in Bad : \A m \in Bad : j =< m
    <3>1. Bad \subseteq Nat
      BY <1>1
    <3> HIDE DEF Bad
    <3> QED
      BY <3>1, Least
  <2>2. j \in 0 .. n /\ ~Rest(n + 1 - j)
    OBVIOUS
  <2>3. j # 0
    <3> SUFFICES ASSUME j = 0 PROVE FALSE
      OBVIOUS
    <3>1. n + 1 - j = n + 1
      BY <1>1
    <3> QED
      BY <1>8, <2>2, <3>1
  <2>4. j - 1 \in 0 .. n /\ j - 1 \notin Bad
    BY <1>1, <2>1, <2>2, <2>3
  <2>5. Rest(n + 1 - (j - 1))
    BY <2>4
  <2>6. n + 1 - j \in 1 .. n /\ n + 1 - (j - 1) = (n + 1 - j) + 1
    BY <1>1, <2>2, <2>3
  <2>7. Rest((n + 1 - j) + 1)
    BY <2>5, <2>6
  <2> QED
    BY <1>9, <2>2, <2>6, <2>7
<1>11. SubSeq(parts, 1, n) = parts
  BY <1>7, SubSeqFull
<1>12. at(1) = 1
  <2>1. Width * (1 - 1) = 0
    BY <1>1
  <2> QED
    BY <2>1, PowerZero DEF at
<1>13. (q \div 1) * (p * 1) = p * q
  BY <1>2
<1> QED
  BY <1>2, <1>10, <1>11, <1>12, <1>13 DEF parts

(* get returns what put wrote, and leaves what comes behind. *)
THEOREM GetPut ==
  ASSUME NEW value \in ZInt!Number, NEW s \in Seq(ZInt!Byte)
  PROVE  /\ ZInt!Put(value) \in Seq(ZInt!Byte)
         /\ Len(ZInt!Put(value)) \in 1 .. Width - 1
         /\ ZInt!CanGet(ZInt!Put(value) \o s)
         /\ ZInt!Get(ZInt!Put(value) \o s) = value
         /\ ZInt!After(ZInt!Put(value) \o s) = s
<1>1. PICK n, r, q : Made(value, n, r, q)
  BY PutMakes
<1>2. /\ n \in 0 .. Width - 2 /\ r \in 0 .. 2 ^ ZInt!Left(n) - 1 /\ q \in Nat
      /\ q < 2 ^ (Width * n)
      /\ value = ZInt!Fewer[n] + 2 ^ ZInt!Left(n) * q + r
      /\ ZInt!Put(value) = <<ZInt!Mask(n) + r>> \o ZInt!LowBytes(q, n)
  BY <1>1 DEF Made
<1>3. PICK first, low : first = ZInt!Mask(n) + r /\ low = ZInt!LowBytes(q, n)
  OBVIOUS
<1>4. n \in Nat /\ Width \in Nat /\ n < Width
  BY <1>2, WidthNat
<1>5. first \in ZInt!Byte /\ ZInt!Ones(first) = n /\ first % 2 ^ ZInt!Left(n) = r
  BY <1>2, <1>3, FirstByte
<1>6. low \in Seq(ZInt!Byte) /\ Len(low) = n
  BY <1>2, <1>3, <1>4, LowBytesAre
<1>7. <<first>> \in Seq(ZInt!Byte) /\ Len(<<first>>) = 1 /\ <<first>>[1] = first
  BY <1>5
<1>8. PICK put : put = ZInt!Put(value) /\ put = <<first>> \o low
  BY <1>2, <1>3
<1>9. /\ put \in Seq(ZInt!Byte) /\ Len(put) = n + 1 /\ put[1] = first
      /\ \A i \in 1 .. n : put[i + 1] = low[i]
  <2>1. /\ put \in Seq(ZInt!Byte) /\ Len(put) = 1 + n
        /\ \A i \in 1 .. 1 + n : put[i] = IF i =< 1 THEN <<first>>[i] ELSE low[i - 1]
    BY <1>6, <1>7, <1>8, ConcatProperties
  <2>2. \A i \in 1 .. n : i + 1 \in 1 .. 1 + n /\ ~(i + 1 =< 1) /\ (i + 1) - 1 = i
    BY <1>4
  <2> QED
    BY <1>4, <1>7, <2>1, <2>2
<1>10. PICK bytes : bytes = put \o s
  OBVIOUS
<1>11. /\ bytes \in Seq(ZInt!Byte) /\ Len(bytes) = n + 1 + Len(s) /\ Len(s) \in Nat
       /\ \A i \in 1 .. n + 1 : bytes[i] = put[i]
       /\ \A i \in 1 .. Len(s) : bytes[n + 1 + i] = s[i]
  <2>1. Len(s) \in Nat
    BY LenProperties
  <2>2. /\ bytes \in Seq(ZInt!Byte) /\ Len(bytes) = n + 1 + Len(s)
        /\ \A i \in 1 .. n + 1 + Len(s) : bytes[i] = IF i =< n + 1 THEN put[i] ELSE s[i - (n + 1)]
    <3>1. /\ put \o s \in Seq(ZInt!Byte) /\ Len(put \o s) = Len(put) + Len(s)
          /\ \A i \in 1 .. Len(put) + Len(s) :
               (put \o s)[i] = IF i <= Len(put) THEN put[i] ELSE s[i - Len(put)]
      BY <1>9, ConcatProperties, Zenon
    <3> QED
      BY <1>9, <1>10, <3>1
  <2>3. \A i \in 1 .. n + 1 : i \in 1 .. n + 1 + Len(s) /\ i =< n + 1
    BY <1>4, <2>1
  <2>4. \A i \in 1 .. Len(s) :
          n + 1 + i \in 1 .. n + 1 + Len(s) /\ ~(n + 1 + i =< n + 1) /\ (n + 1 + i) - (n + 1) = i
    BY <1>4, <2>1
  <2> QED
    BY <2>1, <2>2, <2>3, <2>4
<1>12. /\ bytes[1] = first /\ bytes # <<>>
       /\ \A i \in 1 .. n : bytes[i + 1] = low[i]
  <2>1. 1 \in 1 .. n + 1 /\ \A i \in 1 .. n : i + 1 \in 1 .. n + 1
    BY <1>4
  <2>2. Len(bytes) # 0
    BY <1>4, <1>11
  <2> QED
    BY <1>9, <1>11, <2>1, <2>2, EmptySeq
<1>13. ZInt!CanGet(bytes)
  BY <1>4, <1>5, <1>11, <1>12 DEF ZInt!CanGet
<1>14. ZInt!Get(bytes) = value
  <2>1. ZInt!Sum[[i \in 1 .. n |-> ZInt!Part(bytes, n, i)]] = 2 ^ ZInt!Left(n) * q
    BY <1>2, <1>3, <1>12, HighIs
  <2>2. ZInt!Get(bytes) = (r + 2 ^ ZInt!Left(n) * q + ZInt!Fewer[n]) % 2 ^ Word
    BY <1>5, <1>12, <2>1 DEF ZInt!Get
  <2>3. PICK p \in Nat \ {0} : p = 2 ^ ZInt!Left(n)
    <3>1. n \in 0 .. Width
      BY <1>4
    <3> QED
      BY <1>4, <3>1, MaskIs
  <2>4. PICK few \in Nat : few = ZInt!Fewer[n]
    BY <1>4, FewerIs
  <2>5. PICK all \in Nat \ {0} : all = 2 ^ Word
    BY WidthNat
  <2>6. value \in 0 .. all - 1
    BY <2>5 DEF ZInt!Number
  <2>7. value = few + p * q + r /\ p * q \in Nat /\ r \in Nat
    <3>1. value = few + p * q + r
      BY <1>2, <2>3, <2>4, Zenon
    <3>2. r \in 0 .. p - 1 /\ q \in Nat
      BY <1>2, <2>3, Zenon
    <3> QED
      BY <2>3, <3>1, <3>2
  <2>8. r + p * q + few = value
    BY <2>4, <2>7
  <2>9. value % all = value
    BY <2>5, <2>6
  <2> QED
    BY <2>2, <2>3, <2>4, <2>5, <2>8, <2>9
<1>15. ZInt!After(bytes) = s
  <2> DEFINE t == SubSeq(bytes, n + 2, Len(bytes))
  <2>1. ZInt!After(bytes) = t
    BY <1>5, <1>12 DEF ZInt!After
  <2>2. \A i \in n + 2 .. Len(bytes) : bytes[i] \in ZInt!Byte
    <3>1. \A i \in n + 2 .. Len(bytes) : i \in 1 .. Len(bytes)
      BY <1>4, <1>11
    <3> QED
      BY <1>11, <3>1, ElementOfSeq
  <2>3. /\ t \in Seq(ZInt!Byte)
        /\ Len(t) = IF n + 2 =< Len(bytes) THEN Len(bytes) - (n + 2) + 1 ELSE 0
        /\ \A i \in 1 .. Len(bytes) - (n + 2) + 1 : t[i] = bytes[n + 2 + i - 1]
    <3>1. n + 2 \in Int /\ Len(bytes) \in Int
      BY <1>4, <1>11
    <3> QED
      BY <2>2, <3>1, SubSeqProperties
  <2>4. Len(bytes) - (n + 2) + 1 = Len(s) /\ \A i \in Nat : n + 2 + i - 1 = n + 1 + i
    BY <1>4, <1>11
  <2> HIDE DEF t
  <2>5. Len(t) = Len(s)
    BY <1>4, <1>11, <2>3
  <2>6. ASSUME NEW i \in 1 .. Len(s) PROVE t[i] = s[i]
    <3>1. i \in 1 .. Len(bytes) - (n + 2) + 1 /\ n + 2 + i - 1 = n + 1 + i
      BY <1>11, <2>4
    <3>2. t[i] = bytes[n + 2 + i - 1]
      BY <2>3, <3>1
    <3> QED
      BY <1>11, <3>1, <3>2
  <2>7. t = s
    BY <2>3, <2>5, <2>6, SeqEqual
  <2> QED
    BY <2>1, <2>7
<1>16. Len(put) \in 1 .. Width - 1
  BY <1>2, <1>4, <1>9
<1> QED
  BY <1>8, <1>9, <1>10, <1>13, <1>14, <1>15, <1>16

-----------------------------------------------------------------------------
(* Folding: the definition of FoldLeft recurs over sets of places, from    *)
(* the greatest one.                                                       *)

Greatest(s) == CHOOSE x \in s : \A y \in s : x >= y

LEMMA GreatestIs ==
  ASSUME NEW n \in Nat, NEW s \in SUBSET (1 .. n), s # {}
  PROVE  Greatest(s) \in s /\ \A y \in s : y =< Greatest(s)
<1> DEFINE Above == {m \in Nat : \A y \in s : y =< m}
           Is(x) == x \in s /\ \A y \in s : x >= y
<1>1. n \in Above /\ Above \subseteq Nat
  OBVIOUS
<1>2. PICK m \in Above : \A k \in Above : m =< k
  <2> HIDE DEF Above
  <2> QED
    BY <1>1, Least
<1>3. m \in Nat /\ \A y \in s : y =< m /\ y \in Nat /\ y >= 1
  OBVIOUS
<1>4. m \in s
  <2> SUFFICES ASSUME m \notin s PROVE FALSE
    OBVIOUS
  <2>1. m >= 1
    <3>1. PICK y : y \in s
      OBVIOUS
    <3>2. y =< m /\ y \in Nat /\ y >= 1
      BY <1>3, <3>1
    <3> QED
      BY <1>3, <3>2
  <2>2. \A y \in s : y =< m - 1
    BY <1>3
  <2>3. m - 1 \in Above /\ ~(m =< m - 1)
    BY <1>3, <2>1, <2>2
  <2> QED
    BY <1>2, <2>3
<1>5. Is(m)
  BY <1>3, <1>4
<1>6. Greatest(s) = CHOOSE x : Is(x)
  BY DEF Greatest
<1>7. Is(Greatest(s))
  <2> HIDE DEF Is
  <2> QED
    BY <1>5, <1>6, Zenon
<1> QED
  BY <1>3, <1>7

LEMMA GreatestOfRange ==
  ASSUME NEW n \in Nat, NEW i \in 1 .. n
  PROVE  Greatest(1 .. i) = i /\ (1 .. i) \ {i} = 1 .. i - 1 /\ 1 .. i # {}
<1>1. (1 .. i) \in SUBSET (1 .. n) /\ 1 .. i # {} /\ i \in 1 .. i
  OBVIOUS
<1>2. Greatest(1 .. i) \in 1 .. i /\ \A y \in 1 .. i : y =< Greatest(1 .. i)
  BY <1>1, GreatestIs
<1> QED
  BY <1>1, <1>2

Folding(g, n, W, base, F) ==
  /\ g = [s \in SUBSET (1 .. n) |-> g[s]]
  /\ \A s \in SUBSET (1 .. n) : g[s] \in W
  /\ g[{}] = base
  /\ \A s \in SUBSET (1 .. n) : s # {} => g[s] = F[<<g[s \ {Greatest(s)}], Greatest(s)>>]

LEMMA Unfolded ==
  ASSUME NEW n \in Nat, NEW W, NEW base \in W, NEW F,
         \A w \in W, i \in 1 .. n : F[<<w, i>>] \in W
  PROVE  \E g : Folding(g, n, W, base, F)
<1> DEFINE D == SUBSET (1 .. n)
           size == [s \in D |-> IF s = {} THEN 0 ELSE Greatest(s)]
           Base == {{}}
           z == [s \in Base |-> base]
           d == [s \in D |-> s \ {Greatest(s)}]
           H == [p \in D \X W |-> F[<<p[2], Greatest(p[1])>>]]
<1>1. \A s \in D : s # {} => Greatest(s) \in s /\ Greatest(s) \in 1 .. n
                             /\ \A y \in s : y =< Greatest(s)
  BY GreatestIs
<1>2. \A s \in D : s \ {Greatest(s)} \in D
  OBVIOUS
<1>3. Shrinks(D, size, Base, d)
  <2>1. ASSUME NEW s \in D PROVE size[s] \in Nat
    BY <1>1
  <2>2. ASSUME NEW s \in D, s # {} PROVE d[s] \in D /\ size[d[s]] < size[s]
    <3>1. PICK t \in D : t = d[s] /\ t = s \ {Greatest(s)}
      BY <1>2
    <3>2. t = {} => size[t] < size[s]
      BY <1>1, <2>2
    <3>3. t # {} => size[t] < size[s]
      BY <1>1, <2>2, <3>1
    <3> QED
      BY <3>1, <3>2, <3>3
  <2> HIDE DEF D, size, d
  <2> QED
    BY <2>1, <2>2 DEF Shrinks
<1>4. \A s \in D : s # {} => \A w \in W : H[<<s, w>>] = F[<<w, Greatest(s)>>] /\ H[<<s, w>>] \in W
  BY <1>1
<1>5. Makes(D, W, Base, z, H)
  <2> HIDE DEF H, D
  <2> QED
    BY <1>4 DEF Makes
<1>6. PICK g : Solves(g, D, W, Base, z, d, H)
  <2> HIDE DEF H, z, d, size, D, Base
  <2> QED
    BY <1>3, <1>5, Recursion
<1>7. g = [s \in D |-> g[s]]
      /\ \A s \in D : g[s] \in W /\ g[s] = IF s \in Base THEN z[s] ELSE H[<<s, g[d[s]]>>]
  BY <1>6 DEF Solves
<1>8. g[{}] = base
  <2>1. {} \in D
    OBVIOUS
  <2> HIDE DEF D, H
  <2> QED
    BY <1>7, <2>1
<1>9. ASSUME NEW s \in D, s # {} PROVE g[s] = F[<<g[s \ {Greatest(s)}], Greatest(s)>>]
  <2>1. d[s] = s \ {Greatest(s)} /\ d[s] \in D
    BY <1>2
  <2> HIDE DEF D, H, d
  <2>2. g[d[s]] \in W
    BY <1>7, <2>1
  <2> QED
    BY <1>4, <1>7, <1>9, <2>1, <2>2
<1>10. Folding(g, n, W, base, F)
  <2>1. g = [s \in SUBSET (1 .. n) |-> g[s]] /\ \A s \in SUBSET (1 .. n) : g[s] \in W
    BY <1>7
  <2> HIDE DEF H, z, d, size, Base
  <2> QED
    BY <1>8, <1>9, <2>1 DEF Folding
<1> QED
  BY <1>10

(* What holds of the first result and goes from each to the next holds of  *)
(* all.                                                                    *)
LEMMA Climb ==
  ASSUME NEW n \in Nat, NEW S, 0 \in S, \A i \in 1 .. n : i - 1 \in S => i \in S
  PROVE  \A i \in 0 .. n : i \in S
<1> DEFINE Bad == {i \in 0 .. n : i \notin S}
<1> SUFFICES ASSUME Bad # {} PROVE FALSE
  OBVIOUS
<1>1. PICK i \in Bad : \A j \in Bad : i =< j
  <2>1. Bad \subseteq Nat
    OBVIOUS
  <2> HIDE DEF Bad
  <2> QED
    BY <2>1, Least
<1>2. i \in 1 .. n
  OBVIOUS
<1>3. i - 1 \in 0 .. n /\ ~(i =< i - 1)
  BY <1>2
<1> QED
  BY <1>1, <1>2, <1>3

BytesFold(base, items) == P!FoldLeft(P!Byte, base, items)

BytesRuns(c, n, base, items) ==
  /\ c[0] = base /\ BytesFold(base, items) = c[n]
  /\ \A i \in 1 .. n : c[i] = P!Byte(c[i - 1], items[i])

LEMMA BytesRun ==
  ASSUME NEW W, NEW base \in W, NEW n \in Nat, NEW items, DOMAIN items = 1 .. n,
         \A w \in W, i \in 1 .. n : P!Byte(w, items[i]) \in W
  PROVE  \E c : BytesRuns(c, n, base, items)
<1> DEFINE F == [p \in W \X (1 .. n) |-> P!Byte(p[1], items[p[2]])]
           Is(h) == h = [s \in SUBSET DOMAIN items |->
                           IF s = {} THEN base
                           ELSE P!Byte(h[s \ {Greatest(s)}], items[Greatest(s)])]
           h == CHOOSE g : Is(g)
           c == [i \in 0 .. n |-> h[1 .. i]]
<1>1. \A w \in W, i \in 1 .. n : F[<<w, i>>] = P!Byte(w, items[i]) /\ F[<<w, i>>] \in W
  OBVIOUS
<1>2. PICK g : Folding(g, n, W, base, F)
  <2> HIDE DEF F
  <2> QED
    BY <1>1, Unfolded
<1>3. ASSUME NEW s \in SUBSET DOMAIN items
      PROVE  g[s] = IF s = {} THEN base ELSE P!Byte(g[s \ {Greatest(s)}], items[Greatest(s)])
  <2>1. s # {} => Greatest(s) \in 1 .. n /\ g[s \ {Greatest(s)}] \in W
    <3>1. s \ {Greatest(s)} \in SUBSET (1 .. n)
      OBVIOUS
    <3>2. s # {} => Greatest(s) \in s
      BY GreatestIs
    <3> QED
      BY <1>2, <3>1, <3>2 DEF Folding
  <2> HIDE DEF F
  <2> QED
    BY <1>1, <1>2, <2>1 DEF Folding
<1>4. Is(g)
  <2>1. g = [s \in SUBSET DOMAIN items |-> g[s]]
    BY <1>2 DEF Folding
  <2> QED
    BY <1>3, <2>1
<1>5. Is(h)
  <2> HIDE DEF Is
  <2> QED
    BY <1>4, Zenon
<1>6. BytesFold(base, items) = h[DOMAIN items]
  BY DEF BytesFold, P!FoldLeft, P!MapThenFoldSet, P!Max, Greatest
<1> HIDE DEF h
<1>7. h[{}] = base
  BY <1>5
<1>8. ASSUME NEW i \in 1 .. n PROVE c[i] = P!Byte(c[i - 1], items[i])
  <2>1. Greatest(1 .. i) = i /\ (1 .. i) \ {i} = 1 .. i - 1 /\ 1 .. i # {}
    BY GreatestOfRange
  <2>2. (1 .. i) \in SUBSET DOMAIN items /\ i - 1 \in 0 .. n
    OBVIOUS
  <2>3. h[1 .. i] = P!Byte(h[1 .. i - 1], items[i])
    BY <1>5, <2>1, <2>2
  <2> QED
    BY <2>2, <2>3
<1>9. c[0] = base /\ c[n] = h[1 .. n]
  <2>1. 1 .. 0 = {} /\ 0 \in 0 .. n /\ n \in 0 .. n
    OBVIOUS
  <2> QED
    BY <1>7, <2>1
<1> HIDE DEF c
<1>10. BytesRuns(c, n, base, items)
  BY <1>6, <1>8, <1>9 DEF BytesRuns
<1> QED
  BY <1>10

ParsesFold(base, items) == P!FoldLeft(P!Parse, base, items)

ParsesRuns(c, n, base, items) ==
  /\ c[0] = base /\ ParsesFold(base, items) = c[n]
  /\ \A i \in 1 .. n : c[i] = P!Parse(c[i - 1], items[i])

LEMMA ParsesRun ==
  ASSUME NEW W, NEW base \in W, NEW n \in Nat, NEW items, DOMAIN items = 1 .. n,
         \A w \in W, i \in 1 .. n : P!Parse(w, items[i]) \in W
  PROVE  \E c : ParsesRuns(c, n, base, items)
<1> DEFINE F == [p \in W \X (1 .. n) |-> P!Parse(p[1], items[p[2]])]
           Is(h) == h = [s \in SUBSET DOMAIN items |->
                           IF s = {} THEN base
                           ELSE P!Parse(h[s \ {Greatest(s)}], items[Greatest(s)])]
           h == CHOOSE g : Is(g)
           c == [i \in 0 .. n |-> h[1 .. i]]
<1>1. \A w \in W, i \in 1 .. n : F[<<w, i>>] = P!Parse(w, items[i]) /\ F[<<w, i>>] \in W
  OBVIOUS
<1>2. PICK g : Folding(g, n, W, base, F)
  <2> HIDE DEF F
  <2> QED
    BY <1>1, Unfolded
<1>3. ASSUME NEW s \in SUBSET DOMAIN items
      PROVE  g[s] = IF s = {} THEN base ELSE P!Parse(g[s \ {Greatest(s)}], items[Greatest(s)])
  <2>1. s # {} => Greatest(s) \in 1 .. n /\ g[s \ {Greatest(s)}] \in W
    <3>1. s \ {Greatest(s)} \in SUBSET (1 .. n)
      OBVIOUS
    <3>2. s # {} => Greatest(s) \in s
      BY GreatestIs
    <3> QED
      BY <1>2, <3>1, <3>2 DEF Folding
  <2> HIDE DEF F
  <2> QED
    BY <1>1, <1>2, <2>1 DEF Folding
<1>4. Is(g)
  <2>1. g = [s \in SUBSET DOMAIN items |-> g[s]]
    BY <1>2 DEF Folding
  <2> QED
    BY <1>3, <2>1
<1>5. Is(h)
  <2> HIDE DEF Is
  <2> QED
    BY <1>4, Zenon
<1>6. ParsesFold(base, items) = h[DOMAIN items]
  BY DEF ParsesFold, P!FoldLeft, P!MapThenFoldSet, P!Max, Greatest
<1> HIDE DEF h
<1>7. h[{}] = base
  BY <1>5
<1>8. ASSUME NEW i \in 1 .. n PROVE c[i] = P!Parse(c[i - 1], items[i])
  <2>1. Greatest(1 .. i) = i /\ (1 .. i) \ {i} = 1 .. i - 1 /\ 1 .. i # {}
    BY GreatestOfRange
  <2>2. (1 .. i) \in SUBSET DOMAIN items /\ i - 1 \in 0 .. n
    OBVIOUS
  <2>3. h[1 .. i] = P!Parse(h[1 .. i - 1], items[i])
    BY <1>5, <2>1, <2>2
  <2> QED
    BY <2>2, <2>3
<1>9. c[0] = base /\ c[n] = h[1 .. n]
  <2>1. 1 .. 0 = {} /\ 0 \in 0 .. n /\ n \in 0 .. n
    OBVIOUS
  <2> QED
    BY <1>7, <2>1
<1> HIDE DEF c
<1>10. ParsesRuns(c, n, base, items)
  BY <1>6, <1>8, <1>9 DEF ParsesRuns
<1> QED
  BY <1>10

HearsFold(base, items) == P!FoldLeft(P!Hear, base, items)

HearsRuns(c, n, base, items) ==
  /\ c[0] = base /\ HearsFold(base, items) = c[n]
  /\ \A i \in 1 .. n : c[i] = P!Hear(c[i - 1], items[i])

LEMMA HearsRun ==
  ASSUME NEW W, NEW base \in W, NEW n \in Nat, NEW items, DOMAIN items = 1 .. n,
         \A w \in W, i \in 1 .. n : P!Hear(w, items[i]) \in W
  PROVE  \E c : HearsRuns(c, n, base, items)
<1> DEFINE F == [p \in W \X (1 .. n) |-> P!Hear(p[1], items[p[2]])]
           Is(h) == h = [s \in SUBSET DOMAIN items |->
                           IF s = {} THEN base
                           ELSE P!Hear(h[s \ {Greatest(s)}], items[Greatest(s)])]
           h == CHOOSE g : Is(g)
           c == [i \in 0 .. n |-> h[1 .. i]]
<1>1. \A w \in W, i \in 1 .. n : F[<<w, i>>] = P!Hear(w, items[i]) /\ F[<<w, i>>] \in W
  OBVIOUS
<1>2. PICK g : Folding(g, n, W, base, F)
  <2> HIDE DEF F
  <2> QED
    BY <1>1, Unfolded
<1>3. ASSUME NEW s \in SUBSET DOMAIN items
      PROVE  g[s] = IF s = {} THEN base ELSE P!Hear(g[s \ {Greatest(s)}], items[Greatest(s)])
  <2>1. s # {} => Greatest(s) \in 1 .. n /\ g[s \ {Greatest(s)}] \in W
    <3>1. s \ {Greatest(s)} \in SUBSET (1 .. n)
      OBVIOUS
    <3>2. s # {} => Greatest(s) \in s
      BY GreatestIs
    <3> QED
      BY <1>2, <3>1, <3>2 DEF Folding
  <2> HIDE DEF F
  <2> QED
    BY <1>1, <1>2, <2>1 DEF Folding
<1>4. Is(g)
  <2>1. g = [s \in SUBSET DOMAIN items |-> g[s]]
    BY <1>2 DEF Folding
  <2> QED
    BY <1>3, <2>1
<1>5. Is(h)
  <2> HIDE DEF Is
  <2> QED
    BY <1>4, Zenon
<1>6. HearsFold(base, items) = h[DOMAIN items]
  BY DEF HearsFold, P!FoldLeft, P!MapThenFoldSet, P!Max, Greatest
<1> HIDE DEF h
<1>7. h[{}] = base
  BY <1>5
<1>8. ASSUME NEW i \in 1 .. n PROVE c[i] = P!Hear(c[i - 1], items[i])
  <2>1. Greatest(1 .. i) = i /\ (1 .. i) \ {i} = 1 .. i - 1 /\ 1 .. i # {}
    BY GreatestOfRange
  <2>2. (1 .. i) \in SUBSET DOMAIN items /\ i - 1 \in 0 .. n
    OBVIOUS
  <2>3. h[1 .. i] = P!Hear(h[1 .. i - 1], items[i])
    BY <1>5, <2>1, <2>2
  <2> QED
    BY <2>2, <2>3
<1>9. c[0] = base /\ c[n] = h[1 .. n]
  <2>1. 1 .. 0 = {} /\ 0 \in 0 .. n /\ n \in 0 .. n
    OBVIOUS
  <2> QED
    BY <1>7, <2>1
<1> HIDE DEF c
<1>10. HearsRuns(c, n, base, items)
  BY <1>6, <1>8, <1>9 DEF HearsRuns
<1> QED
  BY <1>10

EntriesFold(base, items) == FoldLeft(AddEntry, base, items)

EntriesRuns(c, n, base, items) ==
  /\ c[0] = base /\ EntriesFold(base, items) = c[n]
  /\ \A i \in 1 .. n : c[i] = AddEntry(c[i - 1], items[i])

LEMMA EntriesRun ==
  ASSUME NEW W, NEW base \in W, NEW n \in Nat, NEW items, DOMAIN items = 1 .. n,
         \A w \in W, i \in 1 .. n : AddEntry(w, items[i]) \in W
  PROVE  \E c : EntriesRuns(c, n, base, items)
<1> DEFINE F == [p \in W \X (1 .. n) |-> AddEntry(p[1], items[p[2]])]
           Is(h) == h = [s \in SUBSET DOMAIN items |->
                           IF s = {} THEN base
                           ELSE AddEntry(h[s \ {Greatest(s)}], items[Greatest(s)])]
           h == CHOOSE g : Is(g)
           c == [i \in 0 .. n |-> h[1 .. i]]
<1>1. \A w \in W, i \in 1 .. n : F[<<w, i>>] = AddEntry(w, items[i]) /\ F[<<w, i>>] \in W
  OBVIOUS
<1>2. PICK g : Folding(g, n, W, base, F)
  <2> HIDE DEF F
  <2> QED
    BY <1>1, Unfolded
<1>3. ASSUME NEW s \in SUBSET DOMAIN items
      PROVE  g[s] = IF s = {} THEN base ELSE AddEntry(g[s \ {Greatest(s)}], items[Greatest(s)])
  <2>1. s # {} => Greatest(s) \in 1 .. n /\ g[s \ {Greatest(s)}] \in W
    <3>1. s \ {Greatest(s)} \in SUBSET (1 .. n)
      OBVIOUS
    <3>2. s # {} => Greatest(s) \in s
      BY GreatestIs
    <3> QED
      BY <1>2, <3>1, <3>2 DEF Folding
  <2> HIDE DEF F
  <2> QED
    BY <1>1, <1>2, <2>1 DEF Folding
<1>4. Is(g)
  <2>1. g = [s \in SUBSET DOMAIN items |-> g[s]]
    BY <1>2 DEF Folding
  <2> QED
    BY <1>3, <2>1
<1>5. Is(h)
  <2> HIDE DEF Is
  <2> QED
    BY <1>4, Zenon
<1>6. EntriesFold(base, items) = h[DOMAIN items]
  BY DEF EntriesFold, FoldLeft, MapThenFoldSet, Max, Greatest
<1> HIDE DEF h
<1>7. h[{}] = base
  BY <1>5
<1>8. ASSUME NEW i \in 1 .. n PROVE c[i] = AddEntry(c[i - 1], items[i])
  <2>1. Greatest(1 .. i) = i /\ (1 .. i) \ {i} = 1 .. i - 1 /\ 1 .. i # {}
    BY GreatestOfRange
  <2>2. (1 .. i) \in SUBSET DOMAIN items /\ i - 1 \in 0 .. n
    OBVIOUS
  <2>3. h[1 .. i] = AddEntry(h[1 .. i - 1], items[i])
    BY <1>5, <2>1, <2>2
  <2> QED
    BY <2>2, <2>3
<1>9. c[0] = base /\ c[n] = h[1 .. n]
  <2>1. 1 .. 0 = {} /\ 0 \in 0 .. n /\ n \in 0 .. n
    OBVIOUS
  <2> QED
    BY <1>7, <2>1
<1> HIDE DEF c
<1>10. EntriesRuns(c, n, base, items)
  BY <1>6, <1>8, <1>9 DEF EntriesRuns
<1> QED
  BY <1>10

DumpedFold(base, items) == FoldLeft(AddDumped, base, items)

DumpedRuns(c, n, base, items) ==
  /\ c[0] = base /\ DumpedFold(base, items) = c[n]
  /\ \A i \in 1 .. n : c[i] = AddDumped(c[i - 1], items[i])

LEMMA DumpedRun ==
  ASSUME NEW W, NEW base \in W, NEW n \in Nat, NEW items, DOMAIN items = 1 .. n,
         \A w \in W, i \in 1 .. n : AddDumped(w, items[i]) \in W
  PROVE  \E c : DumpedRuns(c, n, base, items)
<1> DEFINE F == [p \in W \X (1 .. n) |-> AddDumped(p[1], items[p[2]])]
           Is(h) == h = [s \in SUBSET DOMAIN items |->
                           IF s = {} THEN base
                           ELSE AddDumped(h[s \ {Greatest(s)}], items[Greatest(s)])]
           h == CHOOSE g : Is(g)
           c == [i \in 0 .. n |-> h[1 .. i]]
<1>1. \A w \in W, i \in 1 .. n : F[<<w, i>>] = AddDumped(w, items[i]) /\ F[<<w, i>>] \in W
  OBVIOUS
<1>2. PICK g : Folding(g, n, W, base, F)
  <2> HIDE DEF F
  <2> QED
    BY <1>1, Unfolded
<1>3. ASSUME NEW s \in SUBSET DOMAIN items
      PROVE  g[s] = IF s = {} THEN base ELSE AddDumped(g[s \ {Greatest(s)}], items[Greatest(s)])
  <2>1. s # {} => Greatest(s) \in 1 .. n /\ g[s \ {Greatest(s)}] \in W
    <3>1. s \ {Greatest(s)} \in SUBSET (1 .. n)
      OBVIOUS
    <3>2. s # {} => Greatest(s) \in s
      BY GreatestIs
    <3> QED
      BY <1>2, <3>1, <3>2 DEF Folding
  <2> HIDE DEF F
  <2> QED
    BY <1>1, <1>2, <2>1 DEF Folding
<1>4. Is(g)
  <2>1. g = [s \in SUBSET DOMAIN items |-> g[s]]
    BY <1>2 DEF Folding
  <2> QED
    BY <1>3, <2>1
<1>5. Is(h)
  <2> HIDE DEF Is
  <2> QED
    BY <1>4, Zenon
<1>6. DumpedFold(base, items) = h[DOMAIN items]
  BY DEF DumpedFold, FoldLeft, MapThenFoldSet, Max, Greatest
<1> HIDE DEF h
<1>7. h[{}] = base
  BY <1>5
<1>8. ASSUME NEW i \in 1 .. n PROVE c[i] = AddDumped(c[i - 1], items[i])
  <2>1. Greatest(1 .. i) = i /\ (1 .. i) \ {i} = 1 .. i - 1 /\ 1 .. i # {}
    BY GreatestOfRange
  <2>2. (1 .. i) \in SUBSET DOMAIN items /\ i - 1 \in 0 .. n
    OBVIOUS
  <2>3. h[1 .. i] = AddDumped(h[1 .. i - 1], items[i])
    BY <1>5, <2>1, <2>2
  <2> QED
    BY <2>2, <2>3
<1>9. c[0] = base /\ c[n] = h[1 .. n]
  <2>1. 1 .. 0 = {} /\ 0 \in 0 .. n /\ n \in 0 .. n
    OBVIOUS
  <2> QED
    BY <1>7, <2>1
<1> HIDE DEF c
<1>10. DumpedRuns(c, n, base, items)
  BY <1>6, <1>8, <1>9 DEF DumpedRuns
<1> QED
  BY <1>10
(* What currentData and StreamOf do with an item. *)

OwnEntry(c, own, w) == IF w.weight = c THEN Append(own, Entry(w.aid, w.pos)) ELSE own

OwnWord(word, own, e) ==
  IF e.word = word
  THEN Append(own, [aid |-> e.aid, pos |-> e.pos % 2 ^ Word, weight |-> e.weight])
  ELSE own

CurrentRuns(cc, c, n) ==
  /\ c[0] = <<>> /\ CurrentData(cc) = c[n]
  /\ \A i \in 1 .. n : c[i] = OwnEntry(cc, c[i - 1], wordentries[i])

LEMMA CurrentRun ==
  ASSUME NEW cc, NEW W, <<>> \in W, NEW n \in Nat, DOMAIN wordentries = 1 .. n,
         \A w \in W, i \in 1 .. n : OwnEntry(cc, w, wordentries[i]) \in W
  PROVE  \E c : CurrentRuns(cc, c, n)
<1> DEFINE F == [p \in W \X (1 .. n) |-> OwnEntry(cc, p[1], wordentries[p[2]])]
           Is(h) == h = [s \in SUBSET DOMAIN wordentries |->
                           IF s = {} THEN <<>>
                           ELSE OwnEntry(cc, h[s \ {Greatest(s)}], wordentries[Greatest(s)])]
           h == CHOOSE g : Is(g)
           c == [i \in 0 .. n |-> h[1 .. i]]
<1>1. \A w \in W, i \in 1 .. n : F[<<w, i>>] = OwnEntry(cc, w, wordentries[i]) /\ F[<<w, i>>] \in W
  OBVIOUS
<1>2. PICK g : Folding(g, n, W, <<>>, F)
  <2> HIDE DEF F
  <2> QED
    BY <1>1, Unfolded
<1>3. ASSUME NEW s \in SUBSET DOMAIN wordentries
      PROVE  g[s] = IF s = {} THEN <<>> ELSE OwnEntry(cc, g[s \ {Greatest(s)}], wordentries[Greatest(s)])
  <2>1. s # {} => Greatest(s) \in 1 .. n /\ g[s \ {Greatest(s)}] \in W
    <3>1. s \ {Greatest(s)} \in SUBSET (1 .. n)
      OBVIOUS
    <3>2. s # {} => Greatest(s) \in s
      BY GreatestIs
    <3> QED
      BY <1>2, <3>1, <3>2 DEF Folding
  <2> HIDE DEF F
  <2> QED
    BY <1>1, <1>2, <2>1 DEF Folding
<1>4. Is(g)
  <2>1. g = [s \in SUBSET DOMAIN wordentries |-> g[s]]
    BY <1>2 DEF Folding
  <2> QED
    BY <1>3, <2>1
<1>5. Is(h)
  <2> HIDE DEF Is
  <2> QED
    BY <1>4, Zenon
<1>6. CurrentData(cc) = h[DOMAIN wordentries]
  BY DEF CurrentData, OwnEntry, FoldLeft, MapThenFoldSet, Max, Greatest
<1> HIDE DEF h
<1>7. h[{}] = <<>>
  BY <1>5
<1>8. ASSUME NEW i \in 1 .. n PROVE c[i] = OwnEntry(cc, c[i - 1], wordentries[i])
  <2>1. Greatest(1 .. i) = i /\ (1 .. i) \ {i} = 1 .. i - 1 /\ 1 .. i # {}
    BY GreatestOfRange
  <2>2. (1 .. i) \in SUBSET DOMAIN wordentries /\ i - 1 \in 0 .. n
    OBVIOUS
  <2>3. h[1 .. i] = OwnEntry(cc, h[1 .. i - 1], wordentries[i])
    BY <1>5, <2>1, <2>2
  <2> QED
    BY <2>2, <2>3
<1>9. c[0] = <<>> /\ c[n] = h[1 .. n]
  <2>1. 1 .. 0 = {} /\ 0 \in 0 .. n /\ n \in 0 .. n
    OBVIOUS
  <2> QED
    BY <1>7, <2>1
<1> HIDE DEF c
<1>10. CurrentRuns(cc, c, n)
  BY <1>6, <1>8, <1>9 DEF CurrentRuns
<1> QED
  BY <1>10

StreamRuns(word, c, n) ==
  /\ c[0] = <<>> /\ StreamOf(word) = c[n]
  /\ \A i \in 1 .. n : c[i] = OwnWord(word, c[i - 1], streams[i])

LEMMA StreamRun ==
  ASSUME NEW word, NEW W, <<>> \in W, NEW n \in Nat, DOMAIN streams = 1 .. n,
         \A w \in W, i \in 1 .. n : OwnWord(word, w, streams[i]) \in W
  PROVE  \E c : StreamRuns(word, c, n)
<1> DEFINE F == [p \in W \X (1 .. n) |-> OwnWord(word, p[1], streams[p[2]])]
           Is(h) == h = [s \in SUBSET DOMAIN streams |->
                           IF s = {} THEN <<>>
                           ELSE OwnWord(word, h[s \ {Greatest(s)}], streams[Greatest(s)])]
           h == CHOOSE g : Is(g)
           c == [i \in 0 .. n |-> h[1 .. i]]
<1>1. \A w \in W, i \in 1 .. n : F[<<w, i>>] = OwnWord(word, w, streams[i]) /\ F[<<w, i>>] \in W
  OBVIOUS
<1>2. PICK g : Folding(g, n, W, <<>>, F)
  <2> HIDE DEF F
  <2> QED
    BY <1>1, Unfolded
<1>3. ASSUME NEW s \in SUBSET DOMAIN streams
      PROVE  g[s] = IF s = {} THEN <<>> ELSE OwnWord(word, g[s \ {Greatest(s)}], streams[Greatest(s)])
  <2>1. s # {} => Greatest(s) \in 1 .. n /\ g[s \ {Greatest(s)}] \in W
    <3>1. s \ {Greatest(s)} \in SUBSET (1 .. n)
      OBVIOUS
    <3>2. s # {} => Greatest(s) \in s
      BY GreatestIs
    <3> QED
      BY <1>2, <3>1, <3>2 DEF Folding
  <2> HIDE DEF F
  <2> QED
    BY <1>1, <1>2, <2>1 DEF Folding
<1>4. Is(g)
  <2>1. g = [s \in SUBSET DOMAIN streams |-> g[s]]
    BY <1>2 DEF Folding
  <2> QED
    BY <1>3, <2>1
<1>5. Is(h)
  <2> HIDE DEF Is
  <2> QED
    BY <1>4, Zenon
<1>6. StreamOf(word) = h[DOMAIN streams]
  BY DEF StreamOf, OwnWord, FoldLeft, MapThenFoldSet, Max, Greatest
<1> HIDE DEF h
<1>7. h[{}] = <<>>
  BY <1>5
<1>8. ASSUME NEW i \in 1 .. n PROVE c[i] = OwnWord(word, c[i - 1], streams[i])
  <2>1. Greatest(1 .. i) = i /\ (1 .. i) \ {i} = 1 .. i - 1 /\ 1 .. i # {}
    BY GreatestOfRange
  <2>2. (1 .. i) \in SUBSET DOMAIN streams /\ i - 1 \in 0 .. n
    OBVIOUS
  <2>3. h[1 .. i] = OwnWord(word, h[1 .. i - 1], streams[i])
    BY <1>5, <2>1, <2>2
  <2> QED
    BY <2>2, <2>3
<1>9. c[0] = <<>> /\ c[n] = h[1 .. n]
  <2>1. 1 .. 0 = {} /\ 0 \in 0 .. n /\ n \in 0 .. n
    OBVIOUS
  <2> QED
    BY <1>7, <2>1
<1> HIDE DEF c
<1>10. StreamRuns(word, c, n)
  BY <1>6, <1>8, <1>9 DEF StreamRuns
<1> QED
  BY <1>10

-----------------------------------------------------------------------------
(* The bytes of several numbers. *)

LEMMA GetIs ==
  ASSUME NEW bytes \in Seq(ZInt!Byte), ZInt!CanGet(bytes)
  PROVE  /\ ZInt!Get(bytes) \in ZInt!Number
         /\ ZInt!After(bytes) \in Seq(ZInt!Byte)
         /\ Len(ZInt!After(bytes)) < Len(bytes)
<1>1. PICK n, len : n = ZInt!Ones(bytes[1]) /\ len = Len(bytes)
  OBVIOUS
<1>2. bytes # <<>> /\ n < Width /\ len > n /\ len \in Nat /\ len > 0
  BY <1>1, EmptySeq, LenProperties DEF ZInt!CanGet
<1>3. \A i \in 1 .. len : bytes[i] \in ZInt!Byte
  BY <1>1, ElementOfSeq
<1>4. bytes[1] \in ZInt!Byte /\ n \in 0 .. Width /\ Width \in Nat /\ bytes[1] \in Nat
  <2>1. bytes[1] \in ZInt!Byte
    BY <1>2, <1>3
  <2>2. 2 ^ Width \in Nat
    BY WidthNat
  <2> QED
    BY <1>1, <2>1, <2>2, WidthNat, OnesIs DEF ZInt!Byte
<1>5. ZInt!Get(bytes) \in ZInt!Number
  <2> DEFINE parts == [i \in 1 .. n |-> ZInt!Part(bytes, n, i)]
  <2>1. ASSUME NEW i \in 1 .. n PROVE parts[i] \in Int
    <3>1. bytes[i + 1] \in Nat
      <4>1. i + 1 \in 1 .. len
        BY <1>2, <1>4
      <4>2. 2 ^ Width \in Nat
        BY WidthNat
      <4> QED
        BY <1>3, <4>1, <4>2 DEF ZInt!Byte
    <3>2. PICK k \in Nat : k = ZInt!Left(n) + Width * (i - 1)
      <4>1. ZInt!Left(n) \in Nat
        BY <1>2, <1>4 DEF ZInt!Left
      <4>2. Width * (i - 1) \in Nat
        BY <1>4
      <4> QED
        BY <4>1, <4>2
    <3>3. 2 ^ k \in Nat
      BY PowerNat
    <3>4. bytes[i + 1] * 2 ^ k \in Int
      BY <3>1, <3>3
    <3> QED
      BY <3>2, <3>4 DEF ZInt!Part
  <2>2. parts \in Seq(Int)
    <3>1. DOMAIN parts = 1 .. n /\ parts = [i \in DOMAIN parts |-> parts[i]]
      OBVIOUS
    <3> HIDE DEF parts
    <3>2. parts \in [1 .. n -> Int]
      BY <2>1, <3>1
    <3> QED
      BY <1>4, <3>2, SeqDef
  <2>3. PICK high \in Int : high = ZInt!Sum[parts]
    <3> HIDE DEF parts
    <3> QED
      BY <2>2, SumIs
  <2>4. PICK few \in Nat : few = ZInt!Fewer[n]
    <3>1. n \in Nat
      BY <1>4
    <3> QED
      BY <3>1, FewerIs, Zenon
  <2>5. PICK p \in Nat \ {0} : p = 2 ^ ZInt!Left(n)
    BY <1>2, <1>4, MaskIs
  <2>6. PICK all \in Nat \ {0} : all = 2 ^ Word
    BY WidthNat
  <2>7. PICK low \in Int : low = bytes[1] % p
    <3>1. PICK x \in Int : x = bytes[1]
      BY <1>4
    <3>2. x % p \in Int
      BY <2>5, <3>1, RemainderInt
    <3> QED
      BY <3>1, <3>2
  <2>8. ZInt!Get(bytes) = (low + high + few) % all
    BY <1>1, <2>3, <2>4, <2>5, <2>6, <2>7 DEF ZInt!Get
  <2>9. (low + high + few) % all \in 0 .. all - 1
    <3>1. PICK x \in Int : x = low + high + few
      OBVIOUS
    <3> QED
      BY <3>1, RemainderInt
  <2> QED
    BY <2>6, <2>8, <2>9 DEF ZInt!Number
<1>6. ZInt!After(bytes) \in Seq(ZInt!Byte) /\ Len(ZInt!After(bytes)) < len
  <2>1. \A i \in n + 2 .. len : bytes[i] \in ZInt!Byte
    <3>1. \A i \in n + 2 .. len : i \in 1 .. len
      BY <1>2, <1>4
    <3> QED
      BY <1>3, <3>1
  <2>2. n + 2 \in Int /\ len \in Int
    BY <1>2, <1>4
  <2>3. /\ SubSeq(bytes, n + 2, len) \in Seq(ZInt!Byte)
        /\ Len(SubSeq(bytes, n + 2, len)) = IF n + 2 <= len THEN len - (n + 2) + 1 ELSE 0
    BY <2>1, <2>2, SubSeqProperties
  <2>4. ZInt!After(bytes) = SubSeq(bytes, n + 2, len)
    BY <1>1 DEF ZInt!After
  <2> QED
    BY <1>2, <1>4, <2>3, <2>4
<1> QED
  BY <1>1, <1>5, <1>6

LEMMA PutAllIs ==
  /\ ZInt!PutAll[<<>>] = <<>>
  /\ \A s \in Seq(ZInt!Number) :
       /\ ZInt!PutAll[s] \in Seq(ZInt!Byte)
       /\ s # <<>> => ZInt!PutAll[s] = ZInt!Put(Head(s)) \o ZInt!PutAll[Tail(s)]
<1> DEFINE D == Seq(ZInt!Number)
           V == Seq(ZInt!Byte)
           size == [s \in D |-> Len(s)]
           Base == {<<>>}
           z == [s \in Base |-> <<>>]
           d == [s \in D |-> Tail(s)]
           F == [p \in D \X V |-> ZInt!Put(Head(p[1])) \o p[2]]
           Is(f) == f = [s \in D |-> IF s = <<>> THEN <<>> ELSE ZInt!Put(Head(s)) \o f[Tail(s)]]
<1>1. \A s \in D : Len(s) \in Nat
  BY LenProperties
<1>2. \A s \in D : s # <<>> => /\ Head(s) \in ZInt!Number /\ Tail(s) \in D
                               /\ Len(Tail(s)) = Len(s) - 1
  BY HeadTailProperties
<1>3. Shrinks(D, size, Base, d)
  BY <1>1, <1>2 DEF Shrinks
<1>4. \A value \in ZInt!Number : ZInt!Put(value) \in V
  <2>1. <<>> \in V
    OBVIOUS
  <2> QED
    BY <2>1, GetPut
<1>5. \A s \in D : s # <<>> => \A v \in V :
        F[<<s, v>>] = ZInt!Put(Head(s)) \o v /\ F[<<s, v>>] \in V
  <2> SUFFICES ASSUME NEW s \in D, s # <<>>, NEW v \in V
               PROVE  F[<<s, v>>] = ZInt!Put(Head(s)) \o v /\ F[<<s, v>>] \in V
    OBVIOUS
  <2>1. F[<<s, v>>] = ZInt!Put(Head(s)) \o v
    OBVIOUS
  <2>2. ZInt!Put(Head(s)) \in V
    BY <1>2, <1>4
  <2>3. ZInt!Put(Head(s)) \o v \in V
    <3> HIDE DEF F, D, z, d, size
    <3> QED
      BY <2>2, ConcatProperties
  <2> QED
    BY <2>1, <2>3
<1>6. Makes(D, V, Base, z, F)
  <2>1. \A s \in Base : z[s] \in V
    OBVIOUS
  <2> HIDE DEF F
  <2> QED
    BY <1>5, <2>1 DEF Makes
<1>7. PICK f : Solves(f, D, V, Base, z, d, F)
  <2> HIDE DEF F, D, V, z, d, size, Base
  <2> QED
    BY <1>3, <1>6, Recursion
<1>8. f = [s \in D |-> f[s]]
      /\ \A s \in D : f[s] \in V /\ f[s] = IF s \in Base THEN z[s] ELSE F[<<s, f[d[s]]>>]
  BY <1>7 DEF Solves
<1>9. ASSUME NEW s \in D PROVE f[s] = IF s = <<>> THEN <<>> ELSE ZInt!Put(Head(s)) \o f[Tail(s)]
  <2>1. CASE s = <<>>
    <3>1. s \in Base /\ z[s] = <<>>
      BY <2>1
    <3> HIDE DEF z, Base, F
    <3> QED
      BY <1>8, <2>1, <3>1
  <2>2. CASE s # <<>>
    <3>1. d[s] = Tail(s) /\ Tail(s) \in D /\ s \notin Base
      BY <1>2, <2>2
    <3> HIDE DEF F, D, V, z, d, size, Base
    <3>2. f[Tail(s)] \in V
      BY <1>8, <3>1
    <3>3. f[s] = F[<<s, f[Tail(s)]>>]
      BY <1>8, <3>1
    <3> QED
      BY <1>5, <2>2, <3>2, <3>3
  <2> QED
    BY <2>1, <2>2
<1>10. Is(f)
  <2>1. [s \in D |-> f[s]] = [s \in D |-> IF s = <<>> THEN <<>> ELSE ZInt!Put(Head(s)) \o f[Tail(s)]]
    BY <1>9
  <2> HIDE DEF F, D, V, z, d, size, Base
  <2> QED
    BY <1>8, <2>1
<1>11. ZInt!PutAll = CHOOSE g : Is(g)
  BY DEF ZInt!PutAll
<1>12. Is(ZInt!PutAll)
  <2> HIDE DEF Is
  <2> QED
    BY <1>10, <1>11, Zenon
<1>13. PICK all : all = ZInt!PutAll
  OBVIOUS
<1>14. \A s \in D : all[s] = IF s = <<>> THEN <<>> ELSE ZInt!Put(Head(s)) \o all[Tail(s)]
  BY <1>12, <1>13
<1>15. \A s \in D : all[s] \in V
  <2> DEFINE Good == {k \in Nat : \A s \in D : Len(s) = k => all[s] \in V}
             Bad == {k \in Nat : k \notin Good}
  <2> SUFFICES ASSUME Bad # {} PROVE FALSE
    BY <1>1
  <2>1. PICK k \in Bad : \A m \in Bad : k =< m
    <3>1. Bad \subseteq Nat
      OBVIOUS
    <3> HIDE DEF Bad
    <3> QED
      BY <3>1, Least
  <2>2. PICK s \in D : Len(s) = k /\ all[s] \notin V
    OBVIOUS
  <2>3. s # <<>>
    BY <1>14, <2>2
  <2>4. Tail(s) \in D /\ Len(Tail(s)) = k - 1 /\ k - 1 \in Nat /\ Head(s) \in ZInt!Number
    BY <1>1, <1>2, <2>2, <2>3
  <2>5. k - 1 \in Good
    <3>1. ~(k =< k - 1)
      BY <2>4
    <3> QED
      BY <2>1, <2>4, <3>1
  <2>6. all[Tail(s)] \in V
    BY <2>4, <2>5
  <2> HIDE DEF F, D, Good, Bad
  <2>7. ZInt!Put(Head(s)) \o all[Tail(s)] \in V
    BY <1>4, <2>4, <2>6, ConcatProperties
  <2> QED
    BY <1>14, <2>2, <2>3, <2>7
<1>16. all[<<>>] = <<>>
  <2>1. <<>> \in D
    OBVIOUS
  <2> QED
    BY <1>14, <2>1
<1> QED
  BY <1>13, <1>14, <1>15, <1>16

LEMMA GetAllIs ==
  \A s \in Seq(ZInt!Byte) :
    /\ ZInt!GetAll[s] = IF ZInt!CanGet(s)
                        THEN <<ZInt!Get(s)>> \o ZInt!GetAll[ZInt!After(s)] ELSE <<>>
    /\ ZInt!GetAll[s] \in Seq(ZInt!Number)
<1> DEFINE D == Seq(ZInt!Byte)
           V == Seq(ZInt!Number)
           size == [s \in D |-> Len(s)]
           Base == {s \in D : ~ZInt!CanGet(s)}
           z == [s \in Base |-> <<>>]
           d == [s \in D |-> ZInt!After(s)]
           F == [p \in D \X V |-> <<ZInt!Get(p[1])>> \o p[2]]
           Is(f) == f = [s \in D |-> IF ZInt!CanGet(s)
                                     THEN <<ZInt!Get(s)>> \o f[ZInt!After(s)] ELSE <<>>]
<1>1. \A s \in D : Len(s) \in Nat
  BY LenProperties
<1>2. \A s \in D : ZInt!CanGet(s) => /\ ZInt!Get(s) \in ZInt!Number /\ ZInt!After(s) \in D
                                     /\ Len(ZInt!After(s)) < Len(s)
  BY GetIs
<1>3. Shrinks(D, size, Base, d)
  BY <1>1, <1>2 DEF Shrinks
<1>4. \A s \in D : ZInt!CanGet(s) => \A v \in V :
        F[<<s, v>>] = <<ZInt!Get(s)>> \o v /\ F[<<s, v>>] \in V
  <2> SUFFICES ASSUME NEW s \in D, ZInt!CanGet(s), NEW v \in V
               PROVE  F[<<s, v>>] = <<ZInt!Get(s)>> \o v /\ F[<<s, v>>] \in V
    OBVIOUS
  <2>1. F[<<s, v>>] = <<ZInt!Get(s)>> \o v
    OBVIOUS
  <2>2. <<ZInt!Get(s)>> \in V
    <3>1. PICK x \in ZInt!Number : x = ZInt!Get(s)
      BY <1>2
    <3>2. <<x>> \in V
      OBVIOUS
    <3> QED
      BY <3>1, <3>2
  <2>3. <<ZInt!Get(s)>> \o v \in V
    <3> HIDE DEF F, D, z, d, size
    <3> QED
      BY <2>2, ConcatProperties
  <2> QED
    BY <2>1, <2>3
<1>5. Makes(D, V, Base, z, F)
  <2>1. \A s \in Base : z[s] \in V
    OBVIOUS
  <2>2. \A s \in D : s \notin Base => ZInt!CanGet(s)
    OBVIOUS
  <2> HIDE DEF F, Base
  <2> QED
    BY <1>4, <2>1, <2>2 DEF Makes
<1>6. PICK f : Solves(f, D, V, Base, z, d, F)
  <2> HIDE DEF F, D, V, z, d, size, Base
  <2> QED
    BY <1>3, <1>5, Recursion
<1>7. f = [s \in D |-> f[s]]
      /\ \A s \in D : f[s] \in V /\ f[s] = IF s \in Base THEN z[s] ELSE F[<<s, f[d[s]]>>]
  BY <1>6 DEF Solves
<1>8. ASSUME NEW s \in D
      PROVE  f[s] = IF ZInt!CanGet(s) THEN <<ZInt!Get(s)>> \o f[ZInt!After(s)] ELSE <<>>
  <2>1. CASE ~ZInt!CanGet(s)
    <3>1. s \in Base /\ z[s] = <<>>
      BY <2>1
    <3> HIDE DEF z, Base, F
    <3> QED
      BY <1>7, <2>1, <3>1
  <2>2. CASE ZInt!CanGet(s)
    <3>1. d[s] = ZInt!After(s) /\ ZInt!After(s) \in D /\ s \notin Base
      BY <1>2, <2>2
    <3> HIDE DEF F, D, V, z, d, size, Base
    <3>2. f[ZInt!After(s)] \in V
      BY <1>7, <3>1
    <3>3. f[s] = F[<<s, f[ZInt!After(s)]>>]
      BY <1>7, <3>1
    <3> QED
      BY <1>4, <2>2, <3>2, <3>3
  <2> QED
    BY <2>1, <2>2
<1>9. Is(f)
  <2>1. [s \in D |-> f[s]] =
        [s \in D |-> IF ZInt!CanGet(s) THEN <<ZInt!Get(s)>> \o f[ZInt!After(s)] ELSE <<>>]
    BY <1>8
  <2> HIDE DEF F, D, V, z, d, size, Base
  <2> QED
    BY <1>7, <2>1
<1>10. ZInt!GetAll = CHOOSE g : Is(g)
  BY DEF ZInt!GetAll
<1>11. Is(ZInt!GetAll)
  <2> HIDE DEF Is
  <2> QED
    BY <1>9, <1>10, Zenon
<1>12. PICK all : all = ZInt!GetAll
  OBVIOUS
<1>13. \A s \in D : all[s] = IF ZInt!CanGet(s)
                             THEN <<ZInt!Get(s)>> \o all[ZInt!After(s)] ELSE <<>>
  BY <1>11, <1>12
<1>14. \A s \in D : all[s] \in V
  <2> DEFINE Good(k) == \A s \in D : Len(s) = k => all[s] \in V
             Bad == {k \in Nat : ~Good(k)}
  <2> SUFFICES ASSUME Bad # {} PROVE FALSE
    BY <1>1
  <2>1. PICK k \in Bad : \A m \in Bad : k =< m
    <3>1. Bad \subseteq Nat
      OBVIOUS
    <3> HIDE DEF Bad
    <3> QED
      BY <3>1, Least
  <2>2. PICK s \in D : Len(s) = k /\ all[s] \notin V
    OBVIOUS
  <2>3. ZInt!CanGet(s)
    <3> SUFFICES ASSUME ~ZInt!CanGet(s) PROVE FALSE
      OBVIOUS
    <3>1. <<>> \in V
      OBVIOUS
    <3> HIDE DEF D, V, Good, Bad
    <3>2. all[s] = <<>>
      BY <1>13, <2>2
    <3> QED
      BY <2>2, <3>1, <3>2
  <2>4. PICK t \in D : t = ZInt!After(s) /\ Len(t) < k /\ Len(t) \in Nat
    BY <1>1, <1>2, <2>2, <2>3
  <2>5. Good(Len(t))
    <3>1. ~(k =< Len(t)) /\ k \in Nat
      BY <1>1, <2>2, <2>4
    <3> HIDE DEF Good
    <3> QED
      BY <2>1, <2>4, <3>1
  <2>6. all[t] \in V
    BY <2>4, <2>5
  <2> HIDE DEF F, D, Good, Bad
  <2>7. <<ZInt!Get(s)>> \o all[t] \in V
    BY <1>4, <2>2, <2>3, <2>6
  <2> QED
    BY <1>13, <2>2, <2>3, <2>4, <2>7
<1> QED
  BY <1>12, <1>13, <1>14

(* Any numbers are read again, and take Width - 1 bytes each at most.      *)
THEOREM GetAllPutAll ==
  ASSUME NEW s \in Seq(ZInt!Number)
  PROVE  /\ ZInt!GetAll[ZInt!PutAll[s]] = s
         /\ Len(ZInt!PutAll[s]) =< (Width - 1) * Len(s)
<1> DEFINE D == Seq(ZInt!Number)
           Right(t) == /\ ZInt!GetAll[ZInt!PutAll[t]] = t
                       /\ Len(ZInt!PutAll[t]) =< (Width - 1) * Len(t)
           Good(k) == \A t \in D : Len(t) = k => Right(t)
           Bad == {k \in Nat : ~Good(k)}
<1> SUFFICES ASSUME Bad # {} PROVE FALSE
  BY LenProperties
<1>1. PICK k \in Bad : \A m \in Bad : k =< m
  <2>1. Bad \subseteq Nat
    OBVIOUS
  <2> HIDE DEF Bad
  <2> QED
    BY <2>1, Least
<1>2. k \in Nat /\ ~Good(k) /\ \A m \in Nat : m < k => Good(m)
  <2>1. k \in Nat /\ ~Good(k)
    OBVIOUS
  <2> HIDE DEF Good
  <2>2. \A m \in Nat : m < k => m \notin Bad
    BY <1>1, <2>1
  <2> QED
    BY <2>1, <2>2
<1>3. PICK t \in D : Len(t) = k /\ ~Right(t)
  BY <1>2
<1>4. PICK w \in Nat : w = Width - 1
  BY WidthNat
<1>5. CASE t = <<>>
  <2>1. ZInt!PutAll[t] = <<>> /\ Len(<<>>) = 0 /\ <<>> \in Seq(ZInt!Byte)
    BY <1>5, PutAllIs
  <2>2. ~ZInt!CanGet(<<>>)
    BY DEF ZInt!CanGet
  <2>3. ZInt!GetAll[<<>>] = <<>>
    BY <2>1, <2>2, GetAllIs
  <2>4. Len(ZInt!PutAll[t]) = 0 /\ Len(t) = 0
    BY <1>5, <2>1
  <2>5. 0 =< w * 0
    BY <1>4
  <2> HIDE DEF D, Good, Bad
  <2> QED
    BY <1>3, <1>4, <1>5, <2>1, <2>3, <2>4, <2>5
<1>6. CASE t # <<>>
  <2>1. PICK value, rest : /\ value = Head(t) /\ rest = Tail(t)
                           /\ value \in ZInt!Number /\ rest \in D /\ Len(rest) = k - 1
                           /\ t = <<value>> \o rest
    <3>1. /\ Head(t) \in ZInt!Number /\ Tail(t) \in D /\ Len(Tail(t)) = Len(t) - 1
      BY <1>6, HeadTailProperties
    <3>2. t = <<Head(t)>> \o Tail(t)
      BY <1>6
    <3> QED
      BY <1>3, <3>1, <3>2
  <2>2. k - 1 \in Nat /\ k - 1 < k
    <3>1. Len(rest) \in Nat
      BY <2>1, LenProperties
    <3> QED
      BY <1>2, <2>1, <3>1
  <2>3. Right(rest)
    <3>1. Good(k - 1)
      <4> HIDE DEF Good
      <4> QED
        BY <1>2, <2>2
    <3> HIDE DEF Right
    <3> QED
      BY <2>1, <3>1
  <2>4. PICK bytes, put : /\ bytes = ZInt!PutAll[rest] /\ put = ZInt!Put(value)
                          /\ bytes \in Seq(ZInt!Byte) /\ ZInt!PutAll[t] = put \o bytes
    BY <1>6, <2>1, PutAllIs
  <2>5. /\ put \in Seq(ZInt!Byte) /\ Len(put) \in 1 .. w
        /\ ZInt!CanGet(put \o bytes) /\ ZInt!Get(put \o bytes) = value
        /\ ZInt!After(put \o bytes) = bytes
    BY <1>4, <2>1, <2>4, GetPut
  <2>6. /\ put \o bytes \in Seq(ZInt!Byte)
        /\ Len(put \o bytes) = Len(put) + Len(bytes)
    BY <2>4, <2>5, ConcatProperties
  <2>7. ZInt!GetAll[put \o bytes] = <<value>> \o ZInt!GetAll[bytes]
    BY <2>5, <2>6, GetAllIs
  <2>8. ZInt!GetAll[ZInt!PutAll[t]] = t
    BY <2>1, <2>3, <2>4, <2>7
  <2>9. Len(ZInt!PutAll[t]) =< w * k
    <3>1. Len(bytes) =< w * (k - 1) /\ Len(bytes) \in Nat
      BY <1>4, <2>1, <2>3, <2>4, LenProperties
    <3>2. w * k = w * (k - 1) + w /\ w * (k - 1) \in Int
      BY <1>2, <1>4
    <3>3. Len(ZInt!PutAll[t]) = Len(put) + Len(bytes)
      BY <2>4, <2>6
    <3> QED
      BY <1>4, <2>5, <3>1, <3>2, <3>3
  <2> HIDE DEF D, Good, Bad
  <2> QED
    BY <1>3, <1>4, <2>8, <2>9
<1> QED
  BY <1>5, <1>6

-----------------------------------------------------------------------------
(* A category: what is packed, unpacked and dumped of it. *)

(* The pairs of numbers one behind the other.                              *)
FlatTo(flat, pairs, i) ==
  /\ flat \in Seq(ZInt!Number) /\ Len(flat) = 2 * i
  /\ \A j \in 1 .. i : flat[2 * j - 1] = pairs[j][1] /\ flat[2 * j] = pairs[j][2]

LEMMA FlatOne ==
  ASSUME NEW pairs, NEW i \in Nat, NEW flat, FlatTo(flat, pairs, i),
         pairs[i + 1] \in Seq(ZInt!Number), Len(pairs[i + 1]) = 2
  PROVE  FlatTo(flat \o pairs[i + 1], pairs, i + 1)
<1>1. PICK pair : pair = pairs[i + 1]
  OBVIOUS
<1>2. flat \in Seq(ZInt!Number) /\ Len(flat) = 2 * i
  BY DEF FlatTo
<1>3. /\ flat \o pair \in Seq(ZInt!Number) /\ Len(flat \o pair) = 2 * i + 2
      /\ \A k \in 1 .. 2 * i + 2 :
           (flat \o pair)[k] = IF k <= 2 * i THEN flat[k] ELSE pair[k - 2 * i]
  <2>1. /\ flat \o pair \in Seq(ZInt!Number) /\ Len(flat \o pair) = Len(flat) + Len(pair)
        /\ \A k \in 1 .. Len(flat) + Len(pair) :
             (flat \o pair)[k] = IF k <= Len(flat) THEN flat[k] ELSE pair[k - Len(flat)]
    BY <1>1, <1>2, ConcatProperties, Zenon
  <2> QED
    BY <1>1, <1>2, <2>1
<1>4. ASSUME NEW j \in 1 .. i + 1
      PROVE  (flat \o pair)[2 * j - 1] = pairs[j][1] /\ (flat \o pair)[2 * j] = pairs[j][2]
  <2>1. CASE j \in 1 .. i
    <3>1. 2 * j \in 1 .. 2 * i + 2 /\ 2 * j - 1 \in 1 .. 2 * i + 2 /\ 2 * j <= 2 * i
          /\ 2 * j - 1 <= 2 * i
      BY <2>1
    <3>2. flat[2 * j - 1] = pairs[j][1] /\ flat[2 * j] = pairs[j][2]
      BY <2>1 DEF FlatTo
    <3>3. (flat \o pair)[2 * j - 1] = flat[2 * j - 1] /\ (flat \o pair)[2 * j] = flat[2 * j]
      BY <1>3, <3>1, Zenon
    <3> QED
      BY <3>2, <3>3, Zenon
  <2>2. CASE j = i + 1
    <3>1. /\ 2 * j = 2 * i + 2 /\ 2 * j - 1 = 2 * i + 1
          /\ 2 * i + 1 \in 1 .. 2 * i + 2 /\ 2 * i + 2 \in 1 .. 2 * i + 2
          /\ ~(2 * i + 1 <= 2 * i) /\ ~(2 * i + 2 <= 2 * i)
          /\ (2 * i + 1) - 2 * i = 1 /\ (2 * i + 2) - 2 * i = 2
      BY <2>2
    <3>2. (flat \o pair)[2 * i + 1] = pair[1] /\ (flat \o pair)[2 * i + 2] = pair[2]
      BY <1>3, <3>1
    <3> QED
      BY <1>1, <2>2, <3>1, <3>2
  <2>3. j \in 1 .. i \/ j = i + 1
    OBVIOUS
  <2> QED
    BY <2>1, <2>2, <2>3
<1>5. 2 * (i + 1) = 2 * i + 2
  OBVIOUS
<1> QED
  BY <1>1, <1>3, <1>4, <1>5 DEF FlatTo

LEMMA FlatIs ==
  ASSUME NEW m \in Nat, NEW pairs, pairs = [i \in 1 .. m |-> pairs[i]],
         \A i \in 1 .. m : pairs[i] \in Seq(ZInt!Number) /\ Len(pairs[i]) = 2
  PROVE  FlatTo(FlattenSeq(pairs), pairs, m)
<1>1. pairs \in Seq(Seq(ZInt!Number)) /\ Len(pairs) = m
  <2>1. pairs \in [1 .. m -> Seq(ZInt!Number)] /\ DOMAIN pairs = 1 .. m
    OBVIOUS
  <2> QED
    BY <2>1, SeqDef
<1>2. CASE m = 0
  <2>1. FlattenSeq(pairs) = pairs
    BY <1>1, <1>2 DEF FlattenSeq
  <2>2. pairs = <<>>
    BY <1>1, <1>2, EmptySeq
  <2>3. <<>> \in Seq(ZInt!Number) /\ Len(<<>>) = 2 * 0 /\ 1 .. 0 = {}
    OBVIOUS
  <2> QED
    BY <1>2, <2>1, <2>2, <2>3 DEF FlatTo
<1>3. CASE m # 0
  <2> DEFINE D == 1 .. m
             V == Seq(ZInt!Number)
             size == [i \in D |-> i]
             z == [i \in {1} |-> pairs[1]]
             d == [i \in D |-> i - 1]
             F == [p \in D \X V |-> p[2] \o pairs[p[1]]]
             Is(f) == f = [i \in 1 .. Len(pairs) |-> IF i = 1 THEN pairs[i] ELSE f[i - 1] \o pairs[i]]
             f == CHOOSE g : Is(g)
  <2>1. Shrinks(D, size, {1}, d)
    BY DEF Shrinks
  <2>2. \A i \in D : \A v \in V : F[<<i, v>>] = v \o pairs[i] /\ F[<<i, v>>] \in V
    <3> SUFFICES ASSUME NEW i \in D, NEW v \in V
                 PROVE  F[<<i, v>>] = v \o pairs[i] /\ F[<<i, v>>] \in V
      OBVIOUS
    <3>1. F[<<i, v>>] = v \o pairs[i]
      OBVIOUS
    <3>2. v \o pairs[i] \in V
      BY ConcatProperties
    <3> QED
      BY <3>1, <3>2
  <2>3. Makes(D, V, {1}, z, F)
    <3>1. \A i \in D : i \in {1} => z[i] \in V
      OBVIOUS
    <3> HIDE DEF F, z
    <3> QED
      BY <2>2, <3>1 DEF Makes
  <2>4. PICK g : Solves(g, D, V, {1}, z, d, F)
    <3> HIDE DEF F, D, V, z, d, size
    <3> QED
      BY <2>1, <2>3, Recursion
  <2>5. g = [i \in D |-> g[i]]
        /\ \A i \in D : g[i] \in V /\ g[i] = IF i \in {1} THEN z[i] ELSE F[<<i, g[d[i]]>>]
    BY <2>4 DEF Solves
  <2>6. ASSUME NEW i \in D PROVE g[i] = IF i = 1 THEN pairs[i] ELSE g[i - 1] \o pairs[i]
    <3>1. CASE i = 1
      BY <2>5, <3>1
    <3>2. CASE i # 1
      <4>1. i - 1 \in D /\ d[i] = i - 1
        BY <3>2
      <4> HIDE DEF F, d, D, V, z
      <4>2. g[i - 1] \in V /\ g[i] = F[<<i, g[i - 1]>>]
        BY <2>5, <3>2, <4>1
      <4>3. F[<<i, g[i - 1]>>] = g[i - 1] \o pairs[i]
        BY <2>2, <4>2
      <4> QED
        BY <3>2, <4>2, <4>3
    <3> QED
      BY <3>1, <3>2
  <2>7. Is(g)
    <3>1. g = [i \in 1 .. Len(pairs) |-> g[i]]
      BY <1>1, <2>5
    <3>2. \A i \in 1 .. Len(pairs) : g[i] = IF i = 1 THEN pairs[i] ELSE g[i - 1] \o pairs[i]
      BY <1>1, <2>6
    <3> QED
      BY <3>1, <3>2
  <2>8. Is(f)
    <3> HIDE DEF Is
    <3> QED
      BY <2>7, Zenon
  <2>9. FlattenSeq(pairs) = f[Len(pairs)]
    BY <1>1, <1>3 DEF FlattenSeq
  <2> HIDE DEF f
  <2>10. \A i \in 1 .. m : f[i] = IF i = 1 THEN pairs[i] ELSE f[i - 1] \o pairs[i]
    BY <1>1, <2>8
  <2> DEFINE S == {i \in 0 .. m : i = 0 \/ FlatTo(f[i], pairs, i)}
  <2>11. 0 \in S
    OBVIOUS
  <2>12. ASSUME NEW i \in 1 .. m, i - 1 \in S PROVE i \in S
    <3>1. CASE i = 1
      <4>1. f[1] = pairs[1]
        BY <2>10, <3>1
      <4>2. \A j \in 1 .. 1 : j = 1 /\ 2 * j = 2 /\ 2 * j - 1 = 1
        OBVIOUS
      <4>3. FlatTo(f[1], pairs, 1)
        BY <4>1, <4>2, <3>1 DEF FlatTo
      <4> QED
        BY <3>1, <4>3
    <3>2. CASE i # 1
      <4>1. PICK j \in Nat : j = i - 1 /\ i = j + 1
        BY <3>2
      <4>2. FlatTo(f[j], pairs, j)
        BY <2>12, <3>2, <4>1
      <4>3. FlatTo(f[j] \o pairs[j + 1], pairs, j + 1)
        BY <4>1, <4>2, FlatOne
      <4>4. f[i] = f[j] \o pairs[j + 1]
        BY <2>10, <3>2, <4>1
      <4>5. FlatTo(f[i], pairs, i)
        BY <4>1, <4>3, <4>4
      <4> QED
        BY <4>5
    <3> QED
      BY <3>1, <3>2
  <2>13. m \in S
    <3> HIDE DEF S
    <3>1. \A i \in 0 .. m : i \in S
      BY <2>11, <2>12, Climb
    <3> QED
      BY <3>1
  <2> QED
    BY <1>1, <1>3, <2>9, <2>13
<1> QED
  BY <1>2, <1>3

Occurrence == [aid : ZInt!Number, pos : ZInt!Number]

LEMMA PlusMinus ==
  ASSUME NEW a \in ZInt!Number, NEW b \in ZInt!Number
  PROVE  /\ Minus(a, b) \in ZInt!Number /\ Plus(a, b) \in ZInt!Number
         /\ Plus(b, Minus(a, b)) = a
         /\ Minus(a, b) = 0 <=> a = b
<1>1. PICK n \in Nat \ {0} : n = 2 ^ Word
  BY WidthNat
<1>2. a \in 0 .. n - 1 /\ b \in 0 .. n - 1 /\ ZInt!Number = 0 .. n - 1
  BY <1>1 DEF ZInt!Number
<1>3. Minus(a, b) = (a - b) % n /\ Plus(a, b) = (a + b) % n
      /\ Plus(b, Minus(a, b)) = (b + ((a - b) % n)) % n
  BY <1>1 DEF Minus, Plus
<1>4. (a - b) % n \in 0 .. n - 1 /\ (a + b) % n \in 0 .. n - 1
  <2>1. a - b \in Int /\ a + b \in Int
    BY <1>2
  <2> QED
    BY ONLY <1>1, <2>1, RemainderInt
<1>5. (a - b) % n = IF a >= b THEN a - b ELSE a - b + n
  <2>1. CASE a >= b
    <3>1. PICK r \in 0 .. n - 1 : r = a - b /\ r = n * 0 + r
      BY <1>2, <2>1
    <3>2. (n * 0 + r) % n = r
      BY ONLY <1>1, <3>1, DivisionUnique
    <3> QED
      BY <2>1, <3>1, <3>2
  <2>2. CASE ~(a >= b)
    <3>1. PICK r \in 0 .. n - 1 : r = a - b + n /\ a - b = n * (-1) + r /\ -1 \in Int
      BY <1>2, <2>2
    <3>2. (n * (-1) + r) % n = r
      BY ONLY <1>1, <3>1, DivisionUnique
    <3> QED
      BY <2>2, <3>1, <3>2
  <2> QED
    BY <2>1, <2>2
<1>6. (b + ((a - b) % n)) % n = a
  <2>1. CASE a >= b
    <3>1. b + ((a - b) % n) = a /\ a = n * 0 + a
      BY <1>2, <1>5, <2>1
    <3>2. (n * 0 + a) % n = a
      BY ONLY <1>1, <1>2, DivisionUnique
    <3> QED
      BY <3>1, <3>2
  <2>2. CASE ~(a >= b)
    <3>1. b + ((a - b) % n) = n * 1 + a
      BY <1>2, <1>5, <2>2
    <3>2. PICK u \in Int : u = 1
      OBVIOUS
    <3>3. (n * u + a) % n = a
      BY ONLY <1>1, <1>2, <3>2, DivisionUnique
    <3> QED
      BY <3>1, <3>2, <3>3
  <2> QED
    BY <2>1, <2>2
<1>7. (a - b) % n = 0 <=> a = b
  BY <1>2, <1>5
<1> QED
  BY <1>2, <1>3, <1>4, <1>6, <1>7

LEMMA ZeroIsNumber == 0 \in ZInt!Number
<1>1. PICK n \in Nat \ {0} : n = 2 ^ Word
  BY WidthNat
<1> QED
  BY <1>1 DEF ZInt!Number

(* The numbers that are packed of the entry behind the i-th: of its        *)
(* article and its position.                                               *)
PackedOf(es, i, a, b, p, q) ==
  /\ a = es[i + 1].aid /\ p = es[i + 1].pos
  /\ b = (IF i = 1 THEN 0 ELSE es[i].aid) /\ q = (IF i = 1 THEN 0 ELSE es[i].pos)
  /\ Packed(es, i + 1) = <<Minus(a, b), IF a = b THEN Minus(p, q) ELSE p>>
  /\ Packed(es, i + 1) \in Seq(ZInt!Number) /\ Len(Packed(es, i + 1)) = 2

LEMMA PackedIs ==
  ASSUME NEW es \in Seq(Occurrence), NEW i \in Nat \ {0}, i + 1 =< Len(es)
  PROVE  \E a, b, p, q \in ZInt!Number : PackedOf(es, i, a, b, p, q)
<1>1. es[i] \in Occurrence /\ es[i + 1] \in Occurrence
  <2>1. Len(es) \in Nat
    BY LenProperties
  <2>2. i \in 1 .. Len(es) /\ i + 1 \in 1 .. Len(es)
    BY <2>1
  <2> QED
    BY <2>2, ElementOfSeq
<1>2. PICK a, p \in ZInt!Number : a = es[i + 1].aid /\ p = es[i + 1].pos
  BY <1>1 DEF Occurrence
<1>3. PICK b, q \in ZInt!Number :
        b = (IF i = 1 THEN 0 ELSE es[i].aid) /\ q = (IF i = 1 THEN 0 ELSE es[i].pos)
  BY <1>1, ZeroIsNumber DEF Occurrence
<1>4. i + 1 = 2 <=> i = 1
  OBVIOUS
<1>5. (i + 1) - 1 = i
  OBVIOUS
<1>6. LastIdx(es, i + 1) = b /\ LastPos(es, i + 1) = q
  BY <1>3, <1>4, <1>5 DEF LastIdx, LastPos
<1>7. Packed(es, i + 1) = <<Minus(a, b), IF a = b THEN Minus(p, q) ELSE p>>
  BY <1>2, <1>6 DEF Packed, PutPos
<1>8. PICK x, y \in ZInt!Number : x = Minus(a, b) /\ y = IF a = b THEN Minus(p, q) ELSE p
  BY PlusMinus
<1>9. <<x, y>> \in Seq(ZInt!Number) /\ Len(<<x, y>>) = 2
  OBVIOUS
<1>10. PackedOf(es, i, a, b, p, q)
  BY <1>2, <1>3, <1>7, <1>8, <1>9, Zenon DEF PackedOf
<1> QED
  BY <1>2, <1>3, <1>10

(* The first i + 1 entries, as zimDump prints them. *)
SameTo(own, es, i) ==
  own \in Seq(Occurrence) /\ Len(own) = i + 1 /\ \A j \in 1 .. i + 1 : own[j] = es[j]

LEMMA DumpsOne ==
  ASSUME NEW es \in Seq(Occurrence), NEW i \in Nat \ {0}, i + 1 =< Len(es),
         NEW own, SameTo(own, es, i - 1)
  PROVE  SameTo(AddDumped(own, Packed(es, i + 1)), es, i)
<1>1. PICK a, b, p, q \in ZInt!Number : PackedOf(es, i, a, b, p, q)
  BY PackedIs
<1>2. own \in Seq(Occurrence) /\ Len(own) = i /\ \A j \in 1 .. i : own[j] = es[j]
  BY DEF SameTo
<1>3. PICK pair : /\ pair = Packed(es, i + 1) /\ pair[1] = Minus(a, b)
                  /\ pair[2] = IF a = b THEN Minus(p, q) ELSE p
  BY <1>1 DEF PackedOf
<1> PICK before : before = IF Len(own) = 1 THEN Entry(0, 0) ELSE Last(own)
  OBVIOUS
<1>4. before.aid = b /\ before.pos = q
  <2>1. CASE i = 1
    BY <1>1, <1>2, <2>1 DEF PackedOf, Entry
  <2>2. CASE i # 1
    <3>1. Last(own) = es[i]
      BY <1>2 DEF Last
    <3> QED
      BY <1>1, <1>2, <2>2, <3>1 DEF PackedOf
  <2> QED
    BY <2>1, <2>2
<1>5. PICK new : /\ new = IF pair[1] = 0 THEN Entry(before.aid, Plus(before.pos, pair[2]))
                          ELSE Entry(Plus(before.aid, pair[1]), pair[2])
                 /\ AddDumped(own, pair) = Append(own, new)
  BY DEF AddDumped
<1>6. new = Entry(a, p)
  <2>1. pair[1] = 0 <=> a = b
    BY <1>3, PlusMinus
  <2>2. Plus(b, pair[1]) = a
    BY <1>3, PlusMinus
  <2>3. a = b => Plus(q, pair[2]) = p
    BY <1>3, PlusMinus
  <2>4. a # b => pair[2] = p
    BY <1>3
  <2>5. CASE a = b
    BY <1>4, <1>5, <2>1, <2>3, <2>5
  <2>6. CASE a # b
    BY <1>4, <1>5, <2>1, <2>2, <2>4, <2>6
  <2> QED
    BY <2>5, <2>6
<1>7. new = es[i + 1] /\ new \in Occurrence
  <2>1. es[i + 1] \in Occurrence
    <3>1. Len(es) \in Nat
      BY LenProperties
    <3>2. i + 1 \in 1 .. Len(es)
      BY <3>1
    <3> QED
      BY <3>2, ElementOfSeq
  <2> QED
    BY <1>1, <1>6, <2>1 DEF Occurrence, Entry, PackedOf
<1>8. /\ Append(own, new) \in Seq(Occurrence) /\ Len(Append(own, new)) = i + 1
      /\ \A j \in 1 .. i : Append(own, new)[j] = own[j]
      /\ Append(own, new)[i + 1] = new
  <2>1. /\ Append(own, new) \in Seq(Occurrence) /\ Len(Append(own, new)) = Len(own) + 1
        /\ \A j \in 1 .. Len(own) : Append(own, new)[j] = own[j]
        /\ Append(own, new)[Len(own) + 1] = new
    BY <1>2, <1>7, AppendProperties
  <2> QED
    BY <1>2, <2>1
<1>9. ASSUME NEW j \in 1 .. i + 1 PROVE Append(own, new)[j] = es[j]
  <2>1. j \in 1 .. i \/ j = i + 1
    OBVIOUS
  <2> QED
    BY <1>2, <1>7, <1>8, <2>1
<1>10. SameTo(Append(own, new), es, i)
  <2>1. PICK all : all = Append(own, new)
    OBVIOUS
  <2>2. SameTo(all, es, i)
    BY <1>8, <1>9, <2>1 DEF SameTo
  <2> QED
    BY <2>1, <2>2
<1> QED
  BY <1>3, <1>5, <1>10

LEMMA DumpedRight ==
  ASSUME NEW es \in Seq(Occurrence), NEW n \in Nat, Len(es) = n + 1,
         NEW pairs, DOMAIN pairs = 1 .. n, \A i \in 1 .. n : pairs[i] = Packed(es, i + 1)
  PROVE  DumpedFold(<<es[1]>>, pairs) = es
<1> DEFINE W == Seq(Occurrence) \ {<<>>}
<1>1. es[1] \in Occurrence
  <2>1. 1 \in 1 .. Len(es)
    OBVIOUS
  <2> QED
    BY <2>1, ElementOfSeq
<1> PICK first : first = <<es[1]>>
  OBVIOUS
<1>2. first \in W /\ SameTo(first, es, 0)
  <2>1. PICK x \in Occurrence : x = es[1]
    BY <1>1
  <2>2. <<x>> \in Seq(Occurrence) /\ Len(<<x>>) = 1 /\ <<x>> # <<>> /\ <<x>>[1] = x
    OBVIOUS
  <2>3. \A j \in 1 .. 0 + 1 : j = 1
    OBVIOUS
  <2> QED
    BY <2>1, <2>2, <2>3 DEF SameTo
<1>3. ASSUME NEW own \in W, NEW i \in 1 .. n PROVE AddDumped(own, pairs[i]) \in W
  <2>1. PICK x, y \in ZInt!Number : x = pairs[i][1] /\ y = pairs[i][2]
    <3>1. i \in Nat \ {0} /\ i + 1 =< Len(es)
      OBVIOUS
    <3>2. PICK a, b, p, q \in ZInt!Number : PackedOf(es, i, a, b, p, q)
      BY <3>1, PackedIs
    <3>3. Minus(a, b) \in ZInt!Number /\ Minus(p, q) \in ZInt!Number
      BY PlusMinus
    <3>4. pairs[i] = <<Minus(a, b), IF a = b THEN Minus(p, q) ELSE p>>
      BY <3>2 DEF PackedOf
    <3> QED
      BY <3>3, <3>4
  <2>2. PICK before \in Occurrence : before = IF Len(own) = 1 THEN Entry(0, 0) ELSE Last(own)
    <3>1. Len(own) \in 1 .. Len(own)
      <4>1. Len(own) \in Nat /\ Len(own) # 0
        BY LenProperties, EmptySeq
      <4> QED
        BY <4>1
    <3>2. Last(own) \in Occurrence
      BY <3>1, ElementOfSeq DEF Last
    <3>3. Entry(0, 0) \in Occurrence
      BY ZeroIsNumber DEF Entry, Occurrence
    <3> QED
      BY <3>2, <3>3
  <2>3. before.aid \in ZInt!Number /\ before.pos \in ZInt!Number
    BY <2>2 DEF Occurrence
  <2>4. Plus(before.pos, y) \in ZInt!Number /\ Plus(before.aid, x) \in ZInt!Number
    BY <2>1, <2>3, PlusMinus
  <2>5. PICK new \in Occurrence :
          new = IF x = 0 THEN Entry(before.aid, Plus(before.pos, y)) ELSE Entry(Plus(before.aid, x), y)
    BY <2>1, <2>3, <2>4 DEF Entry, Occurrence
  <2>6. AddDumped(own, pairs[i]) = Append(own, new)
    BY <2>1, <2>2, <2>5 DEF AddDumped
  <2>7. Append(own, new) \in Seq(Occurrence) /\ Append(own, new) # <<>>
    BY AppendProperties
  <2> QED
    BY <2>6, <2>7
<1>4. PICK c : DumpedRuns(c, n, first, pairs)
  <2> HIDE DEF W
  <2> QED
    BY <1>2, <1>3, DumpedRun
<1> DEFINE S == {i \in 0 .. n : SameTo(c[i], es, i)}
<1>5. 0 \in S
  <2>1. c[0] = first
    BY <1>4 DEF DumpedRuns
  <2>2. 0 \in 0 .. n
    OBVIOUS
  <2> QED
    BY <1>2, <2>1, <2>2
<1>6. ASSUME NEW i \in 1 .. n, i - 1 \in S PROVE i \in S
  <2>1. i \in Nat \ {0} /\ i + 1 =< Len(es) /\ SameTo(c[i - 1], es, i - 1)
    BY <1>6
  <2>2. SameTo(AddDumped(c[i - 1], Packed(es, i + 1)), es, i)
    BY <2>1, DumpsOne
  <2> QED
    BY <1>4, <2>2 DEF DumpedRuns
<1>7. SameTo(c[n], es, n)
  <2> HIDE DEF S
  <2>1. \A i \in 0 .. n : i \in S
    BY <1>5, <1>6, Climb
  <2>2. n \in S
    BY <2>1
  <2> QED
    BY <2>2 DEF S
<1>8. c[n] = es
  BY <1>7, SeqEqual DEF SameTo
<1> QED
  BY <1>2, <1>4, <1>8 DEF DumpedRuns

(* The articles of the first i + 1 entries, as readEntriesZ stores them. *)
ArticlesTo(own, es, i) ==
  own \in Seq(Occurrence) /\ Len(own) = i + 1 /\ \A j \in 1 .. i + 1 : own[j].aid = es[j].aid

LEMMA EntriesOne ==
  ASSUME NEW es \in Seq(Occurrence), NEW i \in Nat \ {0}, i + 1 =< Len(es),
         NEW own, ArticlesTo(own, es, i - 1)
  PROVE  ArticlesTo(AddEntry(own, Packed(es, i + 1)), es, i)
<1>1. PICK a, b, p, q \in ZInt!Number : PackedOf(es, i, a, b, p, q)
  BY PackedIs
<1>2. own \in Seq(Occurrence) /\ Len(own) = i /\ \A j \in 1 .. i : own[j].aid = es[j].aid
  BY DEF ArticlesTo
<1>3. PICK pair : /\ pair = Packed(es, i + 1) /\ pair[1] = Minus(a, b)
                  /\ pair[2] \in ZInt!Number
  <2>1. Minus(p, q) \in ZInt!Number
    BY PlusMinus
  <2> QED
    BY <1>1, <2>1 DEF PackedOf
<1> PICK before : before = IF Len(own) = 1 THEN 0 ELSE Last(own).aid
  OBVIOUS
<1>4. before = b
  <2>1. CASE i = 1
    BY <1>1, <1>2, <2>1 DEF PackedOf
  <2>2. CASE i # 1
    <3>1. i \in 1 .. i /\ Last(own) = own[i]
      BY <1>2 DEF Last
    <3>2. Last(own).aid = es[i].aid
      BY <1>2, <3>1
    <3> QED
      BY <1>1, <1>2, <2>2, <3>2 DEF PackedOf
  <2> QED
    BY <2>1, <2>2
<1>5. PICK new : new = Entry(Plus(before, pair[1]), pair[2]) /\ AddEntry(own, pair) = Append(own, new)
  BY DEF AddEntry
<1>6. Plus(before, pair[1]) = a
  BY <1>3, <1>4, PlusMinus
<1>7. new.aid = es[i + 1].aid /\ new \in Occurrence
  BY <1>1, <1>3, <1>5, <1>6 DEF Occurrence, Entry, PackedOf
<1>8. /\ Append(own, new) \in Seq(Occurrence) /\ Len(Append(own, new)) = i + 1
      /\ \A j \in 1 .. i : Append(own, new)[j] = own[j]
      /\ Append(own, new)[i + 1] = new
  <2>1. /\ Append(own, new) \in Seq(Occurrence) /\ Len(Append(own, new)) = Len(own) + 1
        /\ \A j \in 1 .. Len(own) : Append(own, new)[j] = own[j]
        /\ Append(own, new)[Len(own) + 1] = new
    BY <1>2, <1>7, AppendProperties
  <2> QED
    BY <1>2, <2>1
<1>9. ASSUME NEW j \in 1 .. i + 1 PROVE Append(own, new)[j].aid = es[j].aid
  <2>1. j \in 1 .. i \/ j = i + 1
    OBVIOUS
  <2> QED
    BY <1>2, <1>7, <1>8, <2>1
<1> QED
  BY <1>3, <1>5, <1>8, <1>9 DEF ArticlesTo

LEMMA EntriesRight ==
  ASSUME NEW es \in Seq(Occurrence), NEW n \in Nat, Len(es) = n + 1,
         NEW pairs, DOMAIN pairs = 1 .. n, \A i \in 1 .. n : pairs[i] = Packed(es, i + 1)
  PROVE  ArticlesTo(EntriesFold(<<es[1]>>, pairs), es, n)
<1> DEFINE W == Seq(Occurrence) \ {<<>>}
<1>1. es[1] \in Occurrence
  <2>1. 1 \in 1 .. Len(es)
    OBVIOUS
  <2> QED
    BY <2>1, ElementOfSeq
<1> PICK first : first = <<es[1]>>
  OBVIOUS
<1>2. first \in W /\ ArticlesTo(first, es, 0)
  <2>1. PICK x \in Occurrence : x = es[1]
    BY <1>1
  <2>2. <<x>> \in Seq(Occurrence) /\ Len(<<x>>) = 1 /\ <<x>> # <<>> /\ <<x>>[1] = x
    OBVIOUS
  <2>3. \A j \in 1 .. 0 + 1 : j = 1
    OBVIOUS
  <2> QED
    BY <2>1, <2>2, <2>3 DEF ArticlesTo
<1>3. ASSUME NEW own \in W, NEW i \in 1 .. n PROVE AddEntry(own, pairs[i]) \in W
  <2>1. PICK x, y \in ZInt!Number : x = pairs[i][1] /\ y = pairs[i][2]
    <3>1. i \in Nat \ {0} /\ i + 1 =< Len(es)
      OBVIOUS
    <3>2. PICK a, b, p, q \in ZInt!Number : PackedOf(es, i, a, b, p, q)
      BY <3>1, PackedIs
    <3>3. Minus(a, b) \in ZInt!Number /\ Minus(p, q) \in ZInt!Number
      BY PlusMinus
    <3>4. pairs[i] = <<Minus(a, b), IF a = b THEN Minus(p, q) ELSE p>>
      BY <3>2 DEF PackedOf
    <3> QED
      BY <3>3, <3>4
  <2>2. PICK before \in ZInt!Number : before = IF Len(own) = 1 THEN 0 ELSE Last(own).aid
    <3>1. Len(own) \in 1 .. Len(own)
      <4>1. Len(own) \in Nat /\ Len(own) # 0
        BY LenProperties, EmptySeq
      <4> QED
        BY <4>1
    <3>2. Last(own) \in Occurrence
      BY <3>1, ElementOfSeq DEF Last
    <3> QED
      BY <3>2, ZeroIsNumber DEF Occurrence
  <2>3. Plus(before, x) \in ZInt!Number
    BY <2>1, <2>2, PlusMinus
  <2>4. PICK new \in Occurrence : new = Entry(Plus(before, x), y)
    BY <2>1, <2>3 DEF Entry, Occurrence
  <2>5. AddEntry(own, pairs[i]) = Append(own, new)
    BY <2>1, <2>2, <2>4 DEF AddEntry
  <2>6. Append(own, new) \in Seq(Occurrence) /\ Append(own, new) # <<>>
    BY AppendProperties
  <2> QED
    BY <2>5, <2>6
<1>4. PICK c : EntriesRuns(c, n, first, pairs)
  <2> HIDE DEF W
  <2> QED
    BY <1>2, <1>3, EntriesRun
<1> DEFINE S == {i \in 0 .. n : ArticlesTo(c[i], es, i)}
<1>5. 0 \in S
  <2>1. c[0] = first
    BY <1>4 DEF EntriesRuns
  <2>2. 0 \in 0 .. n
    OBVIOUS
  <2> QED
    BY <1>2, <2>1, <2>2
<1>6. ASSUME NEW i \in 1 .. n, i - 1 \in S PROVE i \in S
  <2>1. i \in Nat \ {0} /\ i + 1 =< Len(es) /\ ArticlesTo(c[i - 1], es, i - 1)
    BY <1>6
  <2>2. ArticlesTo(AddEntry(c[i - 1], Packed(es, i + 1)), es, i)
    BY <2>1, EntriesOne
  <2> QED
    BY <1>4, <2>2 DEF EntriesRuns
<1>7. ArticlesTo(c[n], es, n)
  <2> HIDE DEF S
  <2>1. \A i \in 0 .. n : i \in S
    BY <1>5, <1>6, Climb
  <2>2. n \in S
    BY <2>1
  <2> QED
    BY <2>2 DEF S
<1> QED
  BY <1>2, <1>4, <1>7 DEF EntriesRuns

(* What the block of a category has in it. *)
LEMMA BlockIs ==
  ASSUME NEW c, NEW es \in Seq(Occurrence), es = CurrentData(c), Len(es) =< MaxEntries
  PROVE  /\ Block(c) \in Seq(ZInt!Byte) /\ Len(Block(c)) \in ZInt!Number
         /\ es = <<>> => Block(c) = <<>>
         /\ \A n \in Nat : Len(es) = n + 1 =>
              FlatTo(ZInt!GetAll[Block(c)], [i \in 1 .. n |-> Packed(es, i + 1)], n)
<1>1. PICK n \in Nat : n = IF es = <<>> THEN 0 ELSE Len(es) - 1
  BY LenProperties, EmptySeq
<1>2. PICK len \in Nat : len = Len(es) /\ (es = <<>> <=> len = 0)
  BY LenProperties, EmptySeq
<1> DEFINE pairs == [i \in 1 .. n |-> Packed(es, i + 1)]
<1>3. pairs = [i \in 1 .. Len(es) - 1 |-> Packed(es, i + 1)]
  <2>1. 1 .. n = 1 .. Len(es) - 1
    BY <1>1, <1>2
  <2> QED
    BY <2>1
<1>4. ASSUME NEW i \in 1 .. n PROVE pairs[i] \in Seq(ZInt!Number) /\ Len(pairs[i]) = 2
  <2>1. i \in Nat \ {0} /\ i + 1 =< Len(es)
    BY <1>1, <1>2
  <2> QED
    BY <2>1, PackedIs DEF PackedOf
<1>5. pairs = [i \in 1 .. n |-> pairs[i]]
  OBVIOUS
<1>6. PICK flat : flat = FlattenSeq(pairs) /\ FlatTo(flat, pairs, n)
  <2> HIDE DEF pairs
  <2> QED
    BY <1>4, <1>5, FlatIs
<1>7. flat \in Seq(ZInt!Number) /\ Len(flat) = 2 * n
  BY <1>6 DEF FlatTo
<1>8. Block(c) = ZInt!PutAll[flat]
  BY <1>3, <1>6 DEF Block
<1>9. Block(c) \in Seq(ZInt!Byte) /\ ZInt!GetAll[Block(c)] = flat
      /\ Len(Block(c)) =< (Width - 1) * (2 * n)
  BY <1>7, <1>8, PutAllIs, GetAllPutAll
<1>10. Len(Block(c)) \in ZInt!Number
  <2>1. PICK w, m, all \in Nat : w = Width - 1 /\ m = MaxEntries /\ all = 2 ^ Word
    BY WidthNat, IndexAssumption
  <2>2. 2 * w * m < all
    BY <2>1, LengthAssumption
  <2>3. n =< m
    BY <1>1, <1>2, <2>1
  <2>4. w * (2 * n) =< 2 * w * m
    BY <2>3
  <2>5. PICK size \in Nat : size = Len(Block(c)) /\ size =< w * (2 * n)
    BY <1>9, <2>1, LenProperties
  <2>6. size < all
    BY <2>2, <2>4, <2>5
  <2> QED
    BY <2>1, <2>5, <2>6 DEF ZInt!Number
<1>11. es = <<>> => Block(c) = <<>>
  <2>1. ASSUME es = <<>> PROVE flat = <<>>
    <3>1. Len(flat) = 0
      BY <1>1, <1>7, <2>1
    <3> QED
      BY <1>7, <3>1, EmptySeq
  <2> QED
    BY <1>8, <2>1, PutAllIs
<1>12. ASSUME NEW m \in Nat, Len(es) = m + 1
       PROVE  FlatTo(ZInt!GetAll[Block(c)], [i \in 1 .. m |-> Packed(es, i + 1)], m)
  <2>1. m = n
    BY <1>1, <1>2, <1>12
  <2> QED
    BY <1>6, <1>9, <2>1
<1> QED
  BY <1>9, <1>10, <1>11, <1>12

(* The pairs that the readers find in it. *)
LEMMA PairsAre ==
  ASSUME NEW es \in Seq(Occurrence), NEW n \in Nat, Len(es) = n + 1,
         FlatTo(ZInt!GetAll[SubSeq(zdata, offset + 1, offset + parameter[1])],
                [i \in 1 .. n |-> Packed(es, i + 1)], n)
  PROVE  DOMAIN Pairs = 1 .. n /\ \A i \in 1 .. n : Pairs[i] = Packed(es, i + 1)
<1>1. PICK flat : flat = ZInt!GetAll[SubSeq(zdata, offset + 1, offset + parameter[1])]
  OBVIOUS
<1>2. /\ Len(flat) = 2 * n
      /\ \A i \in 1 .. n : /\ flat[2 * i - 1] = Packed(es, i + 1)[1]
                           /\ flat[2 * i] = Packed(es, i + 1)[2]
  BY <1>1 DEF FlatTo
<1>3. (2 * n) \div 2 = n
  OBVIOUS
<1>4. Pairs = [i \in 1 .. n |-> <<flat[2 * i - 1], flat[2 * i]>>]
  BY <1>1, <1>2, <1>3 DEF Pairs
<1>5. ASSUME NEW i \in 1 .. n PROVE Pairs[i] = Packed(es, i + 1)
  <2>1. PICK x, y : Packed(es, i + 1) = <<x, y>>
    <3>1. i \in Nat \ {0} /\ i + 1 =< Len(es)
      OBVIOUS
    <3>2. PICK a, b, p, q \in ZInt!Number : PackedOf(es, i, a, b, p, q)
      BY <3>1, PackedIs
    <3> QED
      BY <3>2 DEF PackedOf
  <2>2. Pairs[i] = <<flat[2 * i - 1], flat[2 * i]>>
    BY <1>4
  <2> QED
    BY <1>2, <2>1, <2>2
<1>6. DOMAIN Pairs = 1 .. n
  BY <1>4
<1> QED
  BY <1>5, <1>6

-----------------------------------------------------------------------------
(* The word that is packed, and the parts of its data. *)

WordEntry == [aid : Aid, pos : ZInt!Number, weight : 0 .. 3]

LEMMA LongerBy ==
  ASSUME NEW R, NEW own \in Seq(R), NEW new \in R
  PROVE  Append(own, new) \in Seq(R) /\ Len(Append(own, new)) = Len(own) + 1 /\ Len(own) \in Nat
<1>1. Append(own, new) \in Seq(R) /\ Len(Append(own, new)) = Len(own) + 1
  BY AppendProperties
<1> QED
  BY <1>1, LenProperties

LEMMA CurrentIs ==
  ASSUME wordentries \in Seq(WordEntry), NEW c
  PROVE  CurrentData(c) \in Seq(Occurrence) /\ Len(CurrentData(c)) =< Len(wordentries)
<1>1. PICK n \in Nat : n = Len(wordentries) /\ DOMAIN wordentries = 1 .. n
  BY LenProperties
<1>2. ASSUME NEW own \in Seq(Occurrence), NEW i \in 1 .. n
      PROVE  LET new == OwnEntry(c, own, wordentries[i])
             IN new \in Seq(Occurrence) /\ Len(new) =< Len(own) + 1
  <2>1. wordentries[i] \in WordEntry
    BY <1>1, ElementOfSeq
  <2>2. PICK entry \in Occurrence : entry = Entry(wordentries[i].aid, wordentries[i].pos)
    BY <2>1, IndexAssumption DEF WordEntry, Occurrence, Entry
  <2>3. PICK long : /\ long = Append(own, entry) /\ long \in Seq(Occurrence)
                    /\ Len(long) = Len(own) + 1 /\ Len(own) \in Nat
    BY LongerBy
  <2>4. OwnEntry(c, own, wordentries[i]) = IF wordentries[i].weight = c THEN long ELSE own
    BY <2>2, <2>3 DEF OwnEntry
  <2> QED
    BY <2>3, <2>4
<1>3. PICK own : CurrentRuns(c, own, n)
  <2>1. <<>> \in Seq(Occurrence)
    OBVIOUS
  <2> QED
    BY <1>1, <1>2, <2>1, CurrentRun
<1>4. own[0] = <<>> /\ CurrentData(c) = own[n]
      /\ \A i \in 1 .. n : own[i] = OwnEntry(c, own[i - 1], wordentries[i])
  BY <1>3 DEF CurrentRuns
<1> DEFINE S == {i \in 0 .. n : own[i] \in Seq(Occurrence) /\ Len(own[i]) =< i}
<1>5. 0 \in S
  <2>1. <<>> \in Seq(Occurrence) /\ Len(<<>>) =< 0
    OBVIOUS
  <2>2. 0 \in 0 .. n /\ own[0] = <<>>
    BY <1>4
  <2> QED
    BY <2>1, <2>2
<1>6. ASSUME NEW i \in 1 .. n, i - 1 \in S PROVE i \in S
  <2>1. PICK before : before = own[i - 1] /\ before \in Seq(Occurrence) /\ Len(before) =< i - 1
    BY <1>6
  <2>2. own[i] \in Seq(Occurrence) /\ Len(own[i]) =< Len(before) + 1
    BY <1>2, <1>4, <2>1
  <2>3. Len(own[i]) \in Nat /\ Len(before) \in Nat
    BY <2>1, <2>2, LenProperties
  <2> QED
    BY <2>1, <2>2, <2>3
<1>7. n \in S
  <2> HIDE DEF S
  <2>1. \A i \in 0 .. n : i \in S
    BY <1>5, <1>6, Climb
  <2> QED
    BY <2>1
<1> QED
  BY <1>1, <1>4, <1>7

WordOf(R) == [word : R, aid : Parsed, pos : Int, weight : 0 .. 3]

LEMMA StreamIs ==
  ASSUME NEW R, streams \in Seq(WordOf(R)), NEW word
  PROVE  StreamOf(word) \in Seq(WordEntry)
<1>1. PICK n \in Nat : n = Len(streams) /\ DOMAIN streams = 1 .. n
  BY LenProperties
<1>2. ASSUME NEW own \in Seq(WordEntry), NEW i \in 1 .. n
      PROVE  OwnWord(word, own, streams[i]) \in Seq(WordEntry)
  <2>1. streams[i] \in WordOf(R)
    BY <1>1, ElementOfSeq
  <2>2. PICK all \in Nat \ {0} : all = 2 ^ Word
    BY WidthNat
  <2>3. PICK x \in Int : x = streams[i].pos
    BY <2>1 DEF WordOf
  <2>4. x % all \in 0 .. all - 1
    BY ONLY <2>2, <2>3, RemainderInt
  <2>5. PICK entry \in WordEntry :
          entry = [aid |-> streams[i].aid, pos |-> streams[i].pos % 2 ^ Word,
                   weight |-> streams[i].weight]
    <3>1. streams[i].pos % 2 ^ Word \in ZInt!Number
      BY <2>2, <2>3, <2>4 DEF ZInt!Number
    <3> QED
      BY <2>1, <3>1, ParsedAssumption DEF WordOf, WordEntry
  <2>6. PICK long : long = Append(own, entry) /\ long \in Seq(WordEntry)
    BY LongerBy
  <2> QED
    BY <2>5, <2>6 DEF OwnWord
<1>3. PICK own : StreamRuns(word, own, n)
  <2>1. <<>> \in Seq(WordEntry)
    OBVIOUS
  <2> QED
    BY <1>1, <1>2, <2>1, StreamRun
<1>4. own[0] = <<>> /\ StreamOf(word) = own[n]
      /\ \A i \in 1 .. n : own[i] = OwnWord(word, own[i - 1], streams[i])
  BY <1>3 DEF StreamRuns
<1> DEFINE S == {i \in 0 .. n : own[i] \in Seq(WordEntry)}
<1>5. 0 \in S
  <2>1. <<>> \in Seq(WordEntry)
    OBVIOUS
  <2>2. 0 \in 0 .. n /\ own[0] = <<>>
    BY <1>4
  <2> QED
    BY <2>1, <2>2
<1>6. ASSUME NEW i \in 1 .. n, i - 1 \in S PROVE i \in S
  BY <1>2, <1>4, <1>6
<1>7. n \in S
  <2> HIDE DEF S
  <2>1. \A i \in 0 .. n : i \in S
    BY <1>5, <1>6, Climb
  <2> QED
    BY <2>1
<1> QED
  BY <1>4, <1>7

LEMMA CurrentKept ==
  ASSUME wordentries' = wordentries, NEW c
  PROVE  CurrentData(c)' = CurrentData(c)
BY DEF CurrentData, FoldLeft, MapThenFoldSet

LEMMA BlockKept ==
  ASSUME wordentries' = wordentries, NEW c
  PROVE  Block(c)' = Block(c) /\ FirstEntry(c)' = FirstEntry(c)
<1>1. CurrentData(c)' = CurrentData(c)
  BY CurrentKept
<1>2. Block(c)' = Block(c)
  BY <1>1 DEF Block
<1> QED
  BY <1>1, <1>2 DEF FirstEntry

LEMMA JoinIs ==
  ASSUME NEW R, NEW s \in Seq(R), NEW t \in Seq(R)
  PROVE  /\ s \o t \in Seq(R) /\ Len(s \o t) = Len(s) + Len(t)
         /\ Len(s) \in Nat /\ Len(t) \in Nat /\ Len(s \o t) \in Nat
<1>1. s \o t \in Seq(R) /\ Len(s \o t) = Len(s) + Len(t)
  BY ConcatProperties
<1> QED
  BY <1>1, LenProperties

(* What stands between two others is cut out. *)
LEMMA CutOut ==
  ASSUME NEW R, NEW s \in Seq(R), NEW t \in Seq(R), NEW u \in Seq(R)
  PROVE  SubSeq(s \o (t \o u), Len(s) + 1, Len(s) + Len(t)) = t
<1>1. PICK k, l, m \in Nat : k = Len(s) /\ l = Len(t) /\ m = Len(u)
  BY LenProperties
<1> PICK tu : tu = t \o u
  OBVIOUS
<1>2. /\ tu = t \o u /\ tu \in Seq(R) /\ Len(tu) = l + m
      /\ \A i \in 1 .. l + m : tu[i] = IF i <= l THEN t[i] ELSE u[i - l]
  <2>1. /\ t \o u \in Seq(R) /\ Len(t \o u) = Len(t) + Len(u)
        /\ \A i \in 1 .. Len(t) + Len(u) :
             (t \o u)[i] = IF i <= Len(t) THEN t[i] ELSE u[i - Len(t)]
    BY ConcatProperties, Zenon
  <2> QED
    BY <1>1, <2>1
<1> PICK all : all = s \o tu
  OBVIOUS
<1>3. /\ all = s \o tu /\ all \in Seq(R) /\ Len(all) = k + (l + m)
      /\ \A i \in 1 .. k + (l + m) : all[i] = IF i <= k THEN s[i] ELSE tu[i - k]
  <2>1. /\ s \o tu \in Seq(R) /\ Len(s \o tu) = Len(s) + Len(tu)
        /\ \A i \in 1 .. Len(s) + Len(tu) :
             (s \o tu)[i] = IF i <= Len(s) THEN s[i] ELSE tu[i - Len(s)]
    BY <1>2, ConcatProperties, Zenon
  <2> QED
    BY <1>1, <1>2, <2>1
<1>4. ASSUME NEW i \in k + 1 .. k + l
      PROVE  all[i] = t[i - k] /\ all[i] \in R
  <2>1. i \in 1 .. k + (l + m) /\ ~(i <= k) /\ i - k \in 1 .. l + m /\ i - k <= l
        /\ i - k \in 1 .. l
    OBVIOUS
  <2>2. all[i] = tu[i - k] /\ tu[i - k] = t[i - k]
    BY <1>2, <1>3, <2>1
  <2>3. t[i - k] \in R
    BY <1>1, <2>1, ElementOfSeq
  <2> QED
    BY <2>2, <2>3
<1> PICK mid : mid = SubSeq(all, k + 1, k + l)
  OBVIOUS
<1>5. /\ mid \in Seq(R) /\ Len(mid) = l
      /\ \A i \in 1 .. l : mid[i] = all[k + i]
  <2>1. /\ k + 1 \in Int /\ k + l \in Int
        /\ \A i \in k + 1 .. k + l : all[i] \in R
    <3>1. k + 1 \in Int /\ k + l \in Int
      OBVIOUS
    <3>2. \A i \in k + 1 .. k + l : all[i] \in R
      BY <1>4, Zenon
    <3> QED
      BY <3>1, <3>2, Zenon
  <2>2. /\ SubSeq(all, k + 1, k + l) \in Seq(R)
        /\ Len(SubSeq(all, k + 1, k + l)) =
             IF k + 1 <= k + l THEN (k + l) - (k + 1) + 1 ELSE 0
        /\ \A i \in 1 .. (k + l) - (k + 1) + 1 :
             SubSeq(all, k + 1, k + l)[i] = all[k + 1 + i - 1]
    BY ONLY <2>1, SubSeqProperties, SMTT(30)
  <2>3. (k + l) - (k + 1) + 1 = l /\ (l # 0 => k + 1 <= k + l) /\ (l = 0 => ~(k + 1 <= k + l))
    OBVIOUS
  <2>4. \A i \in 1 .. l : k + 1 + i - 1 = k + i
    OBVIOUS
  <2>5. mid \in Seq(R) /\ Len(mid) = l
    BY <2>2, <2>3
  <2> QED
    BY <2>2, <2>3, <2>4, <2>5
<1>6. ASSUME NEW i \in 1 .. l PROVE mid[i] = t[i]
  <2>1. k + i \in k + 1 .. k + l /\ (k + i) - k = i
    OBVIOUS
  <2> QED
    BY <1>4, <1>5, <2>1
<1>7. mid = t
  BY <1>1, <1>5, <1>6, SeqEqual
<1> QED
  BY <1>1, <1>2, <1>3, <1>5, <1>7

LEMMA CutOff ==
  ASSUME NEW R, NEW s \in Seq(R), NEW t \in Seq(R)
  PROVE  SubSeq(s \o t, Len(s) + 1, Len(s \o t)) = t
<1>1. <<>> \in Seq(R)
  OBVIOUS
<1>2. SubSeq(s \o (t \o <<>>), Len(s) + 1, Len(s) + Len(t)) = t
  BY <1>1, CutOut
<1>3. t \o <<>> = t
  BY ConcatEmptySeq
<1> QED
  BY <1>2, <1>3, JoinIs

(* The parameter from a category on, and the data before and from it on.   *)
NumbersFrom(k) ==
  IF k = 0 THEN FirstEntry(0) \o (FirstEntry(1) \o (FirstEntry(2) \o FirstEntry(3)))
  ELSE IF k = 1 THEN FirstEntry(1) \o (FirstEntry(2) \o FirstEntry(3))
  ELSE IF k = 2 THEN FirstEntry(2) \o FirstEntry(3)
  ELSE IF k = 3 THEN FirstEntry(3)
  ELSE <<>>

BlocksFrom(k) ==
  IF k = 0 THEN Block(0) \o (Block(1) \o (Block(2) \o Block(3)))
  ELSE IF k = 1 THEN Block(1) \o (Block(2) \o Block(3))
  ELSE IF k = 2 THEN Block(2) \o Block(3)
  ELSE IF k = 3 THEN Block(3)
  ELSE <<>>

BlocksTo(k) ==
  IF k = 0 THEN <<>>
  ELSE IF k = 1 THEN Block(0)
  ELSE IF k = 2 THEN Block(0) \o Block(1)
  ELSE IF k = 3 THEN Block(0) \o Block(1) \o Block(2)
  ELSE Block(0) \o Block(1) \o Block(2) \o Block(3)

WordWritten == wordentries \in Seq(WordEntry) /\ Len(wordentries) =< MaxEntries

LEMMA WrittenIs ==
  ASSUME WordWritten, NEW c
  PROVE  /\ CurrentData(c) \in Seq(Occurrence) /\ Len(CurrentData(c)) =< MaxEntries
         /\ Block(c) \in Seq(ZInt!Byte) /\ FirstEntry(c) \in Seq(ZInt!Number)
         /\ CurrentData(c) = <<>> => Block(c) = <<>> /\ FirstEntry(c) = <<>>
         /\ CurrentData(c) # <<>> =>
              FirstEntry(c) = <<Len(Block(c)), CurrentData(c)[1].aid, CurrentData(c)[1].pos>>
<1>1. PICK es : /\ es = CurrentData(c) /\ es \in Seq(Occurrence)
                /\ Len(es) =< Len(wordentries)
  BY CurrentIs DEF WordWritten
<1>2. Len(es) =< MaxEntries
  <2>1. PICK k, l, m \in Nat : k = Len(es) /\ l = Len(wordentries) /\ m = MaxEntries
    BY <1>1, LenProperties, IndexAssumption DEF WordWritten
  <2>2. k =< l /\ l =< m
    BY <1>1, <2>1 DEF WordWritten
  <2> QED
    BY <2>1, <2>2
<1>3. /\ Block(c) \in Seq(ZInt!Byte) /\ Len(Block(c)) \in ZInt!Number
      /\ es = <<>> => Block(c) = <<>>
  BY <1>1, <1>2, BlockIs
<1>4. FirstEntry(c) = IF es = <<>> THEN <<>> ELSE <<Len(Block(c)), es[1].aid, es[1].pos>>
  BY <1>1 DEF FirstEntry
<1>5. FirstEntry(c) \in Seq(ZInt!Number)
  <2>1. CASE es = <<>>
    <3>1. <<>> \in Seq(ZInt!Number)
      OBVIOUS
    <3> QED
      BY <1>4, <2>1, <3>1
  <2>2. CASE es # <<>>
    <3>1. 1 \in 1 .. Len(es)
      <4>1. Len(es) \in Nat /\ Len(es) # 0
        BY <1>1, <2>2, LenProperties, EmptySeq
      <4> QED
        BY <4>1
    <3>2. es[1] \in Occurrence
      BY <1>1, <3>1, ElementOfSeq
    <3>3. PICK x, y, z \in ZInt!Number : x = Len(Block(c)) /\ y = es[1].aid /\ z = es[1].pos
      BY <1>3, <3>2 DEF Occurrence
    <3>4. <<x, y, z>> \in Seq(ZInt!Number)
      OBVIOUS
    <3> QED
      BY <1>4, <2>2, <3>3, <3>4
  <2> QED
    BY <2>1, <2>2
<1> QED
  BY <1>1, <1>2, <1>3, <1>4, <1>5

(* A sequence of four parts, taken apart before each.                      *)
InParts(R, a, b, c, d) ==
  /\ a \o b \in Seq(R) /\ (a \o b) \o c \in Seq(R) /\ ((a \o b) \o c) \o d \in Seq(R)
  /\ c \o d \in Seq(R) /\ b \o (c \o d) \in Seq(R) /\ a \o (b \o (c \o d)) \in Seq(R)
  /\ ((a \o b) \o c) \o d = a \o (b \o (c \o d))
  /\ ((a \o b) \o c) \o d = (a \o b) \o (c \o d)
  /\ d \o <<>> = d /\ <<>> \o a = a /\ (((a \o b) \o c) \o d) \o <<>> = ((a \o b) \o c) \o d

LEMMA FourParts ==
  ASSUME NEW R, NEW a \in Seq(R), NEW b \in Seq(R), NEW c \in Seq(R), NEW d \in Seq(R)
  PROVE  InParts(R, a, b, c, d)
<1>1. a \o b \in Seq(R) /\ c \o d \in Seq(R)
  BY JoinIs
<1>2. (a \o b) \o c \in Seq(R) /\ b \o (c \o d) \in Seq(R)
  BY <1>1, JoinIs
<1>3. ((a \o b) \o c) \o d \in Seq(R) /\ a \o (b \o (c \o d)) \in Seq(R)
  BY <1>2, JoinIs
<1>4. ((a \o b) \o c) \o d = (a \o b) \o (c \o d)
  BY <1>1, ConcatAssociative
<1>5. (a \o b) \o (c \o d) = a \o (b \o (c \o d))
  BY <1>1, ConcatAssociative
<1>6. d \o <<>> = d /\ <<>> \o a = a /\ (((a \o b) \o c) \o d) \o <<>> = ((a \o b) \o c) \o d
  BY <1>3, ConcatEmptySeq
<1> QED
  BY <1>1, <1>2, <1>3, <1>4, <1>5, <1>6, Zenon DEF InParts

LEMMA NumbersAre ==
  ASSUME WordWritten
  PROVE  /\ NumbersFrom(0) = FirstEntry(0) \o FirstEntry(1) \o FirstEntry(2) \o FirstEntry(3)
         /\ NumbersFrom(4) = <<>>
         /\ \A k \in 0 .. 4 : NumbersFrom(k) \in Seq(ZInt!Number)
         /\ \A k \in 0 .. 3 : NumbersFrom(k) = FirstEntry(k) \o NumbersFrom(k + 1)
<1>1. PICK a, b, c, d \in Seq(ZInt!Number) :
        a = FirstEntry(0) /\ b = FirstEntry(1) /\ c = FirstEntry(2) /\ d = FirstEntry(3)
  BY WrittenIs
<1>2. /\ c \o d \in Seq(ZInt!Number) /\ b \o (c \o d) \in Seq(ZInt!Number)
      /\ a \o (b \o (c \o d)) \in Seq(ZInt!Number)
      /\ ((a \o b) \o c) \o d = a \o (b \o (c \o d)) /\ d \o <<>> = d
  <2>1. InParts(ZInt!Number, a, b, c, d)
    BY FourParts
  <2> QED
    BY <2>1, Zenon DEF InParts
<1>3. /\ NumbersFrom(0) = a \o (b \o (c \o d)) /\ NumbersFrom(1) = b \o (c \o d)
      /\ NumbersFrom(2) = c \o d /\ NumbersFrom(3) = d /\ NumbersFrom(4) = <<>>
  BY <1>1 DEF NumbersFrom
<1>4. <<>> \in Seq(ZInt!Number)
  OBVIOUS
<1>5. ASSUME NEW k \in 0 .. 4 PROVE NumbersFrom(k) \in Seq(ZInt!Number)
  <2>1. k = 0 \/ k = 1 \/ k = 2 \/ k = 3 \/ k = 4
    OBVIOUS
  <2> QED
    BY <1>2, <1>3, <1>4, <2>1
<1>6. ASSUME NEW k \in 0 .. 3 PROVE NumbersFrom(k) = FirstEntry(k) \o NumbersFrom(k + 1)
  <2>1. (k = 0 /\ k + 1 = 1) \/ (k = 1 /\ k + 1 = 2) \/ (k = 2 /\ k + 1 = 3) \/ (k = 3 /\ k + 1 = 4)
    OBVIOUS
  <2> QED
    BY <1>1, <1>2, <1>3, <2>1
<1> QED
  BY <1>1, <1>2, <1>3, <1>5, <1>6

LEMMA BlocksAre ==
  ASSUME WordWritten
  PROVE  /\ BlocksTo(0) = <<>> /\ BlocksFrom(4) = <<>>
         /\ BlocksTo(4) = Block(0) \o Block(1) \o Block(2) \o Block(3)
         /\ \A k \in 0 .. 4 : /\ BlocksTo(k) \in Seq(ZInt!Byte) /\ BlocksFrom(k) \in Seq(ZInt!Byte)
                              /\ BlocksTo(4) = BlocksTo(k) \o BlocksFrom(k)
         /\ \A k \in 0 .. 3 : /\ BlocksTo(k + 1) = BlocksTo(k) \o Block(k)
                              /\ BlocksFrom(k) = Block(k) \o BlocksFrom(k + 1)
<1>1. PICK a, b, c, d \in Seq(ZInt!Byte) :
        a = Block(0) /\ b = Block(1) /\ c = Block(2) /\ d = Block(3)
  BY WrittenIs
<1>2. /\ a \o b \in Seq(ZInt!Byte) /\ (a \o b) \o c \in Seq(ZInt!Byte)
      /\ ((a \o b) \o c) \o d \in Seq(ZInt!Byte)
      /\ c \o d \in Seq(ZInt!Byte) /\ b \o (c \o d) \in Seq(ZInt!Byte)
      /\ a \o (b \o (c \o d)) \in Seq(ZInt!Byte)
      /\ ((a \o b) \o c) \o d = a \o (b \o (c \o d))
      /\ ((a \o b) \o c) \o d = (a \o b) \o (c \o d)
      /\ d \o <<>> = d /\ <<>> \o a = a /\ (((a \o b) \o c) \o d) \o <<>> = ((a \o b) \o c) \o d
  <2>1. InParts(ZInt!Byte, a, b, c, d)
    BY FourParts
  <2> QED
    BY <2>1, Zenon DEF InParts
<1>3. <<>> \o (a \o (b \o (c \o d))) = a \o (b \o (c \o d))
  BY <1>2, ConcatEmptySeq
<1>4. /\ BlocksFrom(0) = a \o (b \o (c \o d)) /\ BlocksFrom(1) = b \o (c \o d)
      /\ BlocksFrom(2) = c \o d /\ BlocksFrom(3) = d /\ BlocksFrom(4) = <<>>
  BY <1>1 DEF BlocksFrom
<1>5. /\ BlocksTo(0) = <<>> /\ BlocksTo(1) = a /\ BlocksTo(2) = a \o b
      /\ BlocksTo(3) = (a \o b) \o c /\ BlocksTo(4) = ((a \o b) \o c) \o d
  BY <1>1 DEF BlocksTo
<1>6. <<>> \in Seq(ZInt!Byte)
  OBVIOUS
<1>7. ASSUME NEW k \in 0 .. 4
      PROVE  /\ BlocksTo(k) \in Seq(ZInt!Byte) /\ BlocksFrom(k) \in Seq(ZInt!Byte)
             /\ BlocksTo(4) = BlocksTo(k) \o BlocksFrom(k)
  <2>1. CASE k = 0
    BY <1>2, <1>3, <1>4, <1>5, <1>6, <2>1
  <2>2. CASE k = 1
    BY <1>2, <1>4, <1>5, <2>2
  <2>3. CASE k = 2
    BY <1>2, <1>4, <1>5, <2>3
  <2>4. CASE k = 3
    BY <1>2, <1>4, <1>5, <2>4
  <2>5. CASE k = 4
    BY <1>2, <1>4, <1>5, <1>6, <2>5
  <2> QED
    BY <2>1, <2>2, <2>3, <2>4, <2>5
<1>8. ASSUME NEW k \in 0 .. 3
      PROVE  /\ BlocksTo(k + 1) = BlocksTo(k) \o Block(k)
             /\ BlocksFrom(k) = Block(k) \o BlocksFrom(k + 1)
  <2>1. (k = 0 /\ k + 1 = 1) \/ (k = 1 /\ k + 1 = 2) \/ (k = 2 /\ k + 1 = 3) \/ (k = 3 /\ k + 1 = 4)
    OBVIOUS
  <2> QED
    BY <1>1, <1>2, <1>4, <1>5, <2>1
<1> QED
  BY <1>1, <1>4, <1>5, <1>7, <1>8

LEMMA PartsKept ==
  ASSUME wordentries' = wordentries, NEW k
  PROVE  /\ NumbersFrom(k)' = NumbersFrom(k)
         /\ BlocksTo(k)' = BlocksTo(k)
         /\ WordWritten' = WordWritten
<1>1. \A c : Block(c)' = Block(c) /\ FirstEntry(c)' = FirstEntry(c)
  BY BlockKept
<1> QED
  BY <1>1 DEF NumbersFrom, BlocksTo, WordWritten

-----------------------------------------------------------------------------
(* The readers. *)

CategoryRead(c) ==
  /\ ArticlesTo(read[c], CurrentData(c), Len(CurrentData(c)) - 1)
  /\ dumped[c] = CurrentData(c)

Reading ==
  /\ flags = {c \in 0 .. 3 : CurrentData(c) # <<>>}
  /\ zdata = BlocksTo(4) /\ parameter = NumbersFrom(cat) /\ offset = Len(BlocksTo(cat))
  /\ \A c \in 0 .. 3 : c < cat => CategoryRead(c)

ReadersInv ==
  /\ WordWritten
  /\ read = [c \in 0 .. 3 |-> read[c]] /\ dumped = [c \in 0 .. 3 |-> dumped[c]]
  /\ cat \in 0 .. 4 /\ pc \in {"index", "read"}
  /\ pc = "index" => cat = 0 /\ offset = 0 /\ zdata = <<>>
  /\ \A c \in 0 .. 3 : c >= cat => read[c] = <<>> /\ dumped[c] = <<>>
  /\ pc = "read" => Reading

LEMMA ReadersStart == Init => ReadersInv
<1> SUFFICES ASSUME Init PROVE ReadersInv
  OBVIOUS
<1>1. WordWritten
  <2>1. <<>> \in Seq(WordEntry) /\ Len(<<>>) = 0
    OBVIOUS
  <2> QED
    BY <2>1, IndexAssumption DEF Init, WordWritten
<1>2. read = [c \in 0 .. 3 |-> <<>>] /\ dumped = [c \in 0 .. 3 |-> <<>>]
  BY DEF Init, NoEntries
<1> QED
  BY <1>1, <1>2 DEF Init, ReadersInv

(* While the indexer collects the word there is nothing to read yet.       *)
LEMMA WordGrows ==
  ASSUME ReadersInv, pc = "index", wordentries' \in Seq(WordEntry),
         Len(wordentries') =< MaxEntries,
         UNCHANGED <<parameter, zdata, flags, read, dumped, cat, offset, pc>>
  PROVE  ReadersInv'
<1>1. WordWritten'
  BY DEF WordWritten
<1>2. pc' = "index"
  OBVIOUS
<1> QED
  BY <1>1, <1>2 DEF ReadersInv

LEMMA InsertWordStep ==
  ASSUME ReadersInv, InsertWord
  PROVE  ReadersInv'
<1>1. PICK entry \in WordEntry : wordentries' = Append(wordentries, entry)
  <2>1. PICK a \in Aid, p \in Pos, w \in Category :
          wordentries' = Append(wordentries, [aid |-> a, pos |-> p, weight |-> w])
    BY DEF InsertWord
  <2>2. [aid |-> a, pos |-> p, weight |-> w] \in WordEntry
    BY IndexAssumption DEF WordEntry
  <2> QED
    BY <2>1, <2>2
<1>2. /\ wordentries' \in Seq(WordEntry) /\ Len(wordentries') = Len(wordentries) + 1
      /\ Len(wordentries) \in Nat
  BY <1>1, LongerBy DEF ReadersInv, WordWritten
<1>3. Len(wordentries') =< MaxEntries
  <2>1. PICK m \in Nat : m = MaxEntries
    BY IndexAssumption
  <2>2. Len(wordentries) < m
    BY <2>1 DEF InsertWord
  <2> QED
    BY <1>2, <2>1, <2>2
<1> QED
  BY <1>2, <1>3, WordGrows DEF InsertWord

LEMMA TakeWordStep ==
  ASSUME ReadersInv, NEW R, streams \in Seq(WordOf(R)), TakeWord
  PROVE  ReadersInv'
<1>1. PICK i \in DOMAIN streams : /\ wordentries' = StreamOf(streams[i].word)
                                  /\ Len(wordentries') =< MaxEntries
  BY DEF TakeWord
<1>2. wordentries' \in Seq(WordEntry)
  BY <1>1, StreamIs
<1> QED
  BY <1>1, <1>2, WordGrows DEF TakeWord

LEMMA FetchDataStep ==
  ASSUME ReadersInv, FetchData
  PROVE  ReadersInv'
<1>1. /\ wordentries' = wordentries /\ read' = read /\ dumped' = dumped /\ cat' = cat
      /\ offset' = offset /\ pc = "index" /\ pc' = "read"
  BY DEF FetchData
<1>2. cat = 0 /\ offset = 0 /\ WordWritten
  BY <1>1 DEF ReadersInv
<1>3. zdata' = BlocksTo(4) /\ BlocksTo(0) = <<>>
  BY <1>2, BlocksAre DEF FetchData
<1>4. parameter' = NumbersFrom(0)
  <2>1. 0 \in 0 .. 4
    OBVIOUS
  <2>2. PICK numbers \in Seq(ZInt!Number) :
          /\ numbers = FirstEntry(0) \o FirstEntry(1) \o FirstEntry(2) \o FirstEntry(3)
          /\ numbers = NumbersFrom(0)
    BY <1>2, <2>1, NumbersAre
  <2>3. parameter' = ZInt!GetAll[ZInt!PutAll[numbers]]
    BY <2>2 DEF FetchData
  <2> QED
    BY <2>2, <2>3, GetAllPutAll
<1>5. flags' = {c \in 0 .. 3 : CurrentData(c) # <<>>}
  BY DEF FetchData
<1>6. \A c : CurrentData(c)' = CurrentData(c)
  BY <1>1, CurrentKept
<1>7. \A k : NumbersFrom(k)' = NumbersFrom(k) /\ BlocksTo(k)' = BlocksTo(k)
      /\ WordWritten' = WordWritten
  BY <1>1, PartsKept
<1>8. Reading'
  <2>1. flags' = {c \in 0 .. 3 : CurrentData(c)' # <<>>}
    BY <1>5, <1>6
  <2>2. zdata' = BlocksTo(4)' /\ parameter' = NumbersFrom(0)'
    BY <1>3, <1>4, <1>7
  <2>3. offset' = Len(BlocksTo(0)')
    BY <1>1, <1>2, <1>3, <1>7
  <2>4. cat' = 0 /\ \A c \in 0 .. 3 : ~(c < 0)
    BY <1>1, <1>2
  <2> QED
    BY <2>1, <2>2, <2>3, <2>4 DEF Reading
<1> QED
  BY <1>1, <1>2, <1>7, <1>8 DEF ReadersInv

(* What is left of the parameter and what comes of the data is that of the *)
(* category that is read next.                                             *)
LEMMA NextCategory ==
  ASSUME WordWritten, Reading, cat \in 0 .. 3, CurrentData(cat) # <<>>
  PROVE  LET es == CurrentData(cat) IN
         /\ es \in Seq(Occurrence) /\ Len(es) \in Nat \ {0}
         /\ parameter[1] = Len(Block(cat)) /\ First = es[1]
         /\ SubSeq(parameter, 4, Len(parameter)) = NumbersFrom(cat + 1)
         /\ SubSeq(zdata, offset + 1, offset + parameter[1]) = Block(cat)
         /\ offset + parameter[1] = Len(BlocksTo(cat + 1))
<1>1. PICK es : /\ es = CurrentData(cat) /\ es \in Seq(Occurrence) /\ es # <<>>
                /\ Len(es) \in Nat \ {0}
  <2>1. CurrentData(cat) \in Seq(Occurrence)
    BY WrittenIs
  <2>2. Len(CurrentData(cat)) \in Nat /\ Len(CurrentData(cat)) # 0
    BY <2>1, LenProperties, EmptySeq
  <2> QED
    BY <2>1, <2>2
<1>2. PICK a, b : a = es[1].aid /\ b = es[1].pos /\ es[1] = Entry(a, b)
  <2>1. 1 \in 1 .. Len(es)
    BY <1>1
  <2>2. es[1] \in Occurrence
    BY <1>1, <2>1, ElementOfSeq
  <2> QED
    BY <2>2 DEF Occurrence, Entry
<1>3. PICK block : /\ block = Block(cat) /\ block \in Seq(ZInt!Byte)
                   /\ FirstEntry(cat) = <<Len(block), a, b>>
                   /\ FirstEntry(cat) \in Seq(ZInt!Number)
  BY <1>1, <1>2, WrittenIs
<1>4. PICK rest : /\ rest = NumbersFrom(cat + 1) /\ rest \in Seq(ZInt!Number)
                  /\ parameter = FirstEntry(cat) \o rest
  <2>1. cat + 1 \in 0 .. 4
    OBVIOUS
  <2> QED
    BY <2>1, NumbersAre DEF Reading
<1>5. Len(FirstEntry(cat)) = 3
  BY <1>3
<1>6. /\ parameter[1] = Len(block) /\ parameter[2] = a /\ parameter[3] = b
      /\ SubSeq(parameter, 4, Len(parameter)) = rest
  <2> PICK l : l = Len(block)
    OBVIOUS
  <2> PICK entry : entry = <<l, a, b>>
    OBVIOUS
  <2>1. /\ entry = FirstEntry(cat) /\ entry \in Seq(ZInt!Number) /\ Len(entry) = 3
        /\ entry[1] = l /\ entry[2] = a /\ entry[3] = b
    <3>1. entry = FirstEntry(cat)
      BY <1>3
    <3>2. Len(entry) = 3 /\ entry[1] = l /\ entry[2] = a /\ entry[3] = b
      OBVIOUS
    <3> QED
      BY <1>3, <3>1, <3>2
  <2>2. \A i \in 1 .. Len(entry) + Len(rest) :
          (entry \o rest)[i] = IF i <= Len(entry) THEN entry[i] ELSE rest[i - Len(entry)]
    BY <1>4, ConcatProperties
  <2>3. Len(rest) \in Nat
    BY <1>4, LenProperties
  <2>4. \A i \in {1, 2, 3} : i \in 1 .. 3 + Len(rest) /\ i <= 3
    BY <2>3
  <2>5. \A i \in {1, 2, 3} : (entry \o rest)[i] = entry[i]
    BY <2>1, <2>2, <2>4
  <2>6. SubSeq(entry \o rest, 3 + 1, Len(entry \o rest)) = rest
    BY <1>4, <2>1, CutOff
  <2>7. 3 + 1 = 4
    OBVIOUS
  <2> QED
    BY <1>4, <2>1, <2>5, <2>6, <2>7
<1>7. PICK before, behind \in Seq(ZInt!Byte) :
        /\ before = BlocksTo(cat) /\ BlocksTo(cat + 1) = before \o block
        /\ zdata = before \o (block \o behind)
  <2>1. cat \in 0 .. 4 /\ cat + 1 \in 0 .. 4
    OBVIOUS
  <2> QED
    BY <1>3, <2>1, BlocksAre DEF Reading
<1>8. offset = Len(before)
  BY <1>7 DEF Reading
<1>9. SubSeq(zdata, offset + 1, offset + parameter[1]) = block
  BY <1>3, <1>6, <1>7, <1>8, CutOut
<1>10. offset + parameter[1] = Len(BlocksTo(cat + 1))
  BY <1>3, <1>6, <1>7, <1>8, JoinIs
<1>11. First = es[1]
  BY <1>2, <1>6 DEF First
<1> QED
  BY <1>1, <1>3, <1>4, <1>6, <1>9, <1>10, <1>11

(* The readers get of it what the indexer packed.                          *)
LEMMA CategoryRight ==
  ASSUME WordWritten, Reading, cat \in 0 .. 3, CurrentData(cat) # <<>>
  PROVE  /\ ArticlesTo(FoldLeft(AddEntry, <<First>>, Pairs), CurrentData(cat),
                       Len(CurrentData(cat)) - 1)
         /\ FoldLeft(AddDumped, <<First>>, Pairs) = CurrentData(cat)
<1>1. PICK es : es = CurrentData(cat)
  OBVIOUS
<1>2. /\ es \in Seq(Occurrence) /\ Len(es) \in Nat \ {0} /\ First = es[1]
      /\ SubSeq(zdata, offset + 1, offset + parameter[1]) = Block(cat)
  BY <1>1, NextCategory
<1>3. PICK n \in Nat : Len(es) = n + 1 /\ n = Len(es) - 1
  <2>1. PICK m : m = Len(es)
    OBVIOUS
  <2>2. m \in Nat \ {0}
    BY <1>2, <2>1
  <2>3. m - 1 \in Nat /\ m = (m - 1) + 1
    BY <2>2
  <2> QED
    BY <2>1, <2>3
<1>4. Len(es) =< MaxEntries
  BY <1>1, WrittenIs
<1>5. FlatTo(ZInt!GetAll[Block(cat)], [i \in 1 .. n |-> Packed(es, i + 1)], n)
  BY <1>1, <1>2, <1>3, <1>4, BlockIs
<1>6. DOMAIN Pairs = 1 .. n /\ \A i \in 1 .. n : Pairs[i] = Packed(es, i + 1)
  BY <1>2, <1>3, <1>5, PairsAre
<1>7. PICK pairs : pairs = Pairs
  OBVIOUS
<1>8. ArticlesTo(EntriesFold(<<es[1]>>, pairs), es, n)
  BY <1>2, <1>3, <1>6, <1>7, EntriesRight
<1>9. DumpedFold(<<es[1]>>, pairs) = es
  BY <1>2, <1>3, <1>6, <1>7, DumpedRight
<1>10. /\ EntriesFold(<<First>>, Pairs) = FoldLeft(AddEntry, <<First>>, Pairs)
       /\ DumpedFold(<<First>>, Pairs) = FoldLeft(AddDumped, <<First>>, Pairs)
  BY DEF EntriesFold, DumpedFold
<1>11. /\ EntriesFold(<<First>>, Pairs) = EntriesFold(<<es[1]>>, pairs)
       /\ DumpedFold(<<First>>, Pairs) = DumpedFold(<<es[1]>>, pairs)
  BY <1>2, <1>7
<1> QED
  BY <1>1, <1>3, <1>8, <1>9, <1>10, <1>11

(* A category done leaves the others as they were.                         *)
LEMMA CategoryKept ==
  ASSUME wordentries' = wordentries, NEW c, read'[c] = read[c], dumped'[c] = dumped[c]
  PROVE  CategoryRead(c)' <=> CategoryRead(c)
<1>1. CurrentData(c)' = CurrentData(c)
  BY CurrentKept
<1> QED
  BY <1>1 DEF CategoryRead, ArticlesTo, Occurrence

LEMMA FromKept ==
  ASSUME wordentries' = wordentries, NEW k, cat' = k
  PROVE  NumbersFrom(cat)' = NumbersFrom(k) /\ BlocksTo(cat)' = BlocksTo(k)
<1>1. \A c : Block(c)' = Block(c) /\ FirstEntry(c)' = FirstEntry(c)
  BY BlockKept
<1> QED
  BY <1>1 DEF NumbersFrom, BlocksTo

LEMMA ReadCategoryStep ==
  ASSUME ReadersInv, ReadCategory
  PROVE  ReadersInv'
<1>1. /\ pc = "read" /\ pc' = "read" /\ cat \in flags /\ cat' = cat + 1
      /\ wordentries' = wordentries /\ zdata' = zdata /\ flags' = flags
      /\ offset' = offset + parameter[1]
      /\ parameter' = SubSeq(parameter, 4, Len(parameter))
  BY DEF ReadCategory, NextBlock
<1>2. WordWritten /\ Reading
  BY <1>1 DEF ReadersInv
<1>3. cat \in 0 .. 3 /\ CurrentData(cat) # <<>>
  BY <1>1, <1>2 DEF Reading
<1>4. /\ parameter' = NumbersFrom(cat + 1)
      /\ offset' = Len(BlocksTo(cat + 1))
  BY <1>1, <1>2, <1>3, NextCategory
<1>5. PICK own, dump :
        /\ own = FoldLeft(AddEntry, <<First>>, Pairs)
        /\ dump = FoldLeft(AddDumped, <<First>>, Pairs)
        /\ ArticlesTo(own, CurrentData(cat), Len(CurrentData(cat)) - 1)
        /\ dump = CurrentData(cat)
  BY <1>2, <1>3, CategoryRight
<1>6. read' = [read EXCEPT ![cat] = own] /\ dumped' = [dumped EXCEPT ![cat] = dump]
  BY <1>5 DEF ReadCategory
<1>7. /\ read = [c \in 0 .. 3 |-> read[c]] /\ dumped = [c \in 0 .. 3 |-> dumped[c]]
  BY DEF ReadersInv
<1>8. /\ read' = [c \in 0 .. 3 |-> read'[c]] /\ dumped' = [c \in 0 .. 3 |-> dumped'[c]]
      /\ read'[cat] = own /\ dumped'[cat] = dump
      /\ \A c \in 0 .. 3 : c # cat => read'[c] = read[c] /\ dumped'[c] = dumped[c]
  BY <1>3, <1>6, <1>7
<1>9. \A c : CurrentData(c)' = CurrentData(c)
  BY <1>1, CurrentKept
<1>10. \A k : NumbersFrom(k)' = NumbersFrom(k) /\ BlocksTo(k)' = BlocksTo(k)
       /\ WordWritten' = WordWritten
  BY <1>1, PartsKept
<1>11. ASSUME NEW c \in 0 .. 3, c < cat' PROVE CategoryRead(c)'
  <2>1. CASE c = cat
    <3>1. /\ ArticlesTo(read'[c], CurrentData(c)', Len(CurrentData(c)') - 1)
          /\ dumped'[c] = CurrentData(c)'
      <4>1. CurrentData(c)' = CurrentData(cat)
        BY <1>9, <2>1
      <4> QED
        BY <1>5, <1>8, <2>1, <4>1
    <3> QED
      BY <3>1 DEF CategoryRead
  <2>2. CASE c # cat
    <3>1. c < cat
      BY <1>1, <1>3, <1>11, <2>2
    <3>2. CategoryRead(c)
      BY <1>2, <3>1 DEF Reading
    <3>3. read'[c] = read[c] /\ dumped'[c] = dumped[c]
      BY <1>8, <2>2
    <3> QED
      BY <1>1, <3>2, <3>3, CategoryKept
  <2> QED
    BY <2>1, <2>2
<1>12. Reading'
  <2>1. flags' = {c \in 0 .. 3 : CurrentData(c)' # <<>>}
    BY <1>1, <1>2, <1>9 DEF Reading
  <2>2. zdata' = BlocksTo(4)'
    BY <1>1, <1>2, <1>10 DEF Reading
  <2>3. parameter' = NumbersFrom(cat)' /\ offset' = Len(BlocksTo(cat)')
    BY <1>1, <1>4, FromKept
  <2> QED
    BY <1>11, <2>1, <2>2, <2>3 DEF Reading
<1>13. cat' \in 0 .. 4 /\ \A c \in 0 .. 3 : c >= cat' => c >= cat /\ c # cat
  BY <1>1, <1>3
<1>14. \A c \in 0 .. 3 : c >= cat' => read'[c] = <<>> /\ dumped'[c] = <<>>
  BY <1>8, <1>13 DEF ReadersInv
<1> QED
  BY <1>1, <1>2, <1>8, <1>10, <1>12, <1>13, <1>14 DEF ReadersInv

LEMMA SkipCategoryStep ==
  ASSUME ReadersInv, SkipCategory
  PROVE  ReadersInv'
<1>1. /\ pc = "read" /\ pc' = "read" /\ cat =< 3 /\ cat \notin flags /\ cat' = cat + 1
      /\ wordentries' = wordentries /\ zdata' = zdata /\ flags' = flags
      /\ offset' = offset /\ parameter' = parameter /\ read' = read /\ dumped' = dumped
  BY DEF SkipCategory
<1>2. WordWritten /\ Reading
  BY <1>1 DEF ReadersInv
<1>3. cat \in 0 .. 3 /\ CurrentData(cat) = <<>>
  <2>1. cat \in 0 .. 3
    BY <1>1 DEF ReadersInv
  <2> QED
    BY <1>1, <1>2, <2>1 DEF Reading
<1>4. Block(cat) = <<>> /\ FirstEntry(cat) = <<>>
  BY <1>2, <1>3, WrittenIs
<1>5. parameter = NumbersFrom(cat + 1) /\ offset = Len(BlocksTo(cat + 1))
  <2>1. cat \in 0 .. 4 /\ cat + 1 \in 0 .. 4
    BY <1>3
  <2>2. NumbersFrom(cat) = <<>> \o NumbersFrom(cat + 1) /\ NumbersFrom(cat + 1) \in Seq(ZInt!Number)
    BY <1>2, <1>3, <1>4, <2>1, NumbersAre
  <2>3. BlocksTo(cat + 1) = BlocksTo(cat) \o <<>> /\ BlocksTo(cat) \in Seq(ZInt!Byte)
    BY <1>2, <1>3, <1>4, <2>1, BlocksAre
  <2>4. NumbersFrom(cat) = NumbersFrom(cat + 1) /\ BlocksTo(cat + 1) = BlocksTo(cat)
    BY <2>2, <2>3, ConcatEmptySeq
  <2> QED
    BY <1>2, <2>4 DEF Reading
<1>6. \A c : CurrentData(c)' = CurrentData(c)
  BY <1>1, CurrentKept
<1>7. \A k : NumbersFrom(k)' = NumbersFrom(k) /\ BlocksTo(k)' = BlocksTo(k)
      /\ WordWritten' = WordWritten
  BY <1>1, PartsKept
<1>8. ASSUME NEW c \in 0 .. 3, c < cat' PROVE CategoryRead(c)'
  <2>1. CASE c = cat
    <3>1. read[c] = <<>> /\ dumped[c] = <<>>
      BY <1>3, <2>1 DEF ReadersInv
    <3>2. CurrentData(c)' = <<>>
      BY <1>3, <1>6, <2>1
    <3>3. ArticlesTo(<<>>, <<>>, Len(<<>>) - 1)
      <4>1. <<>> \in Seq(Occurrence) /\ Len(<<>>) = 0 /\ Len(<<>>) - 1 + 1 = 0 /\ 1 .. 0 = {}
        OBVIOUS
      <4> QED
        BY <4>1 DEF ArticlesTo
    <3> QED
      BY <1>1, <3>1, <3>2, <3>3 DEF CategoryRead
  <2>2. CASE c # cat
    <3>1. c < cat
      BY <1>1, <1>3, <1>8, <2>2
    <3>2. CategoryRead(c)
      BY <1>2, <3>1 DEF Reading
    <3> QED
      BY <1>1, <3>2, CategoryKept
  <2> QED
    BY <2>1, <2>2
<1>9. Reading'
  <2>1. flags' = {c \in 0 .. 3 : CurrentData(c)' # <<>>}
    BY <1>1, <1>2, <1>6 DEF Reading
  <2>2. zdata' = BlocksTo(4)'
    BY <1>1, <1>2, <1>7 DEF Reading
  <2>3. parameter' = NumbersFrom(cat)' /\ offset' = Len(BlocksTo(cat)')
    BY <1>1, <1>5, FromKept
  <2> QED
    BY <1>8, <2>1, <2>2, <2>3 DEF Reading
<1>10. cat' \in 0 .. 4 /\ \A c \in 0 .. 3 : c >= cat' => c >= cat
  BY <1>1, <1>3
<1> QED
  BY <1>1, <1>2, <1>7, <1>9, <1>10 DEF ReadersInv

LEMMA ReadersStutter ==
  ASSUME ReadersInv, UNCHANGED vars
  PROVE  ReadersInv'
<1>1. /\ wordentries' = wordentries /\ parameter' = parameter /\ zdata' = zdata
      /\ flags' = flags /\ read' = read /\ dumped' = dumped /\ cat' = cat
      /\ offset' = offset /\ pc' = pc
  BY DEF vars
<1>2. \A c : CurrentData(c)' = CurrentData(c)
  BY <1>1, CurrentKept
<1>3. \A k : NumbersFrom(k)' = NumbersFrom(k) /\ BlocksTo(k)' = BlocksTo(k)
      /\ WordWritten' = WordWritten
  BY <1>1, PartsKept
<1>4. \A c : CategoryRead(c)' <=> CategoryRead(c)
  BY <1>1, CategoryKept
<1>5. NumbersFrom(cat)' = NumbersFrom(cat) /\ BlocksTo(cat)' = BlocksTo(cat)
  BY <1>1, FromKept
<1>6. Reading => Reading'
  BY <1>1, <1>2, <1>3, <1>4, <1>5 DEF Reading
<1> QED
  BY <1>1, <1>3, <1>6 DEF ReadersInv

LEMMA ReadersRightHolds == ReadersInv => ReadersRight
<1> SUFFICES ASSUME ReadersInv PROVE ReadersRight
  OBVIOUS
<1>1. WordWritten /\ cat \in 0 .. 4
  BY DEF ReadersInv
<1>2. ASSUME pc = "read" PROVE Reading /\ Done = {c \in 0 .. 3 : c < cat}
  BY <1>2 DEF ReadersInv, Done
<1>3. pc # "read" => Done = {}
  BY DEF Done
<1>4. offset \in 0 .. Len(zdata) /\ (cat = 4 => parameter = <<>> /\ offset = Len(zdata))
  <2>1. CASE pc = "read"
    <3>1. PICK to, from \in Seq(ZInt!Byte) :
            to = BlocksTo(cat) /\ from = BlocksFrom(cat) /\ zdata = to \o from /\ offset = Len(to)
      BY <1>1, <1>2, <2>1, BlocksAre DEF Reading
    <3>2. Len(zdata) = Len(to) + Len(from) /\ Len(to) \in Nat /\ Len(from) \in Nat
      BY <3>1, JoinIs
    <3>3. cat = 4 => parameter = <<>> /\ Len(from) = 0
      <4>1. NumbersFrom(4) = <<>> /\ BlocksFrom(4) = <<>> /\ Len(<<>>) = 0
        BY <1>1, NumbersAre, BlocksAre
      <4> QED
        BY <1>2, <2>1, <3>1, <4>1 DEF Reading
    <3> QED
      BY <3>1, <3>2, <3>3
  <2>2. CASE pc # "read"
    <3>1. offset = 0 /\ zdata = <<>> /\ cat = 0 /\ Len(<<>>) = 0
      BY <2>2 DEF ReadersInv
    <3> QED
      BY <3>1
  <2> QED
    BY <2>1, <2>2
<1>5. TypeOK
  BY <1>1, <1>4 DEF TypeOK, ReadersInv, WordWritten, WordEntry
<1>6. ASSUME NEW c \in Done
      PROVE  /\ Len(read[c]) = Len(CurrentData(c)) /\ dumped[c] = CurrentData(c)
             /\ \A i \in DOMAIN read[c] : read[c][i].aid = CurrentData(c)[i].aid
  <2>1. c \in 0 .. 3 /\ CategoryRead(c)
    BY <1>2, <1>3 DEF Reading
  <2>2. PICK own, es : /\ own = read[c] /\ es = CurrentData(c)
                       /\ ArticlesTo(own, es, Len(es) - 1) /\ dumped[c] = es
    BY <2>1 DEF CategoryRead
  <2>3. PICK n \in Nat : n = Len(es)
    BY <1>1, <2>2, WrittenIs, LenProperties
  <2>4. own \in Seq(Occurrence) /\ Len(own) = n /\ \A i \in 1 .. n : own[i].aid = es[i].aid
    <3>1. n - 1 + 1 = n
      OBVIOUS
    <3> QED
      BY <2>2, <2>3, <3>1 DEF ArticlesTo
  <2>5. DOMAIN own = 1 .. n
    BY <2>4, LenProperties
  <2> QED
    BY <2>2, <2>3, <2>4, <2>5
<1>7. ArticlesRight
  BY <1>6 DEF ArticlesRight
<1>8. DumpRight
  BY <1>6 DEF DumpRight
<1> QED
  BY <1>5, <1>7, <1>8 DEF ReadersRight

-----------------------------------------------------------------------------
(* The parser.  A word begins at Start, or no word is open and none begins *)
(* before.                                                                 *)

Char == {" "} \cup (UNION {Range(t.bytes) : t \in Token})
             \cup (UNION {Range(Entity[e]) : e \in DOMAIN Entity})

States == {"0", "tag0", "tag", "endtag", "tagskip", "ent", "word", "wordent", "utf8", "wordutf8"}

Event == [on : {"tag", "endtag", "word"}, text : Seq(Char), pos : Int]

Parsers == [state : States, word : Seq(Char), entity : Seq(Char), pos : Int,
            utf8char : Seq(Char), utf8counter : Nat, events : Seq(Event)]

ParserOf(state, word, entity, pos, utf8char, utf8counter, events) ==
  [state |-> state, word |-> word, entity |-> entity, pos |-> pos,
   utf8char |-> utf8char, utf8counter |-> utf8counter, events |-> events]

Opened(state, word, utf8char) ==
  IF state \in {"word", "wordent"} THEN Len(word)
  ELSE IF state \in {"utf8", "wordutf8"} THEN Len(word) + Len(utf8char)
  ELSE 0

Start(p) == p.pos - Opened(p.state, p.word, p.utf8char)

(* The words told lie between two places, and each behind the one before.  *)
InOrder(events, from, to) ==
  /\ \A i \in DOMAIN events : events[i].on = "word" =>
       from =< events[i].pos /\ events[i].pos + Len(events[i].text) =< to
  /\ \A i, j \in DOMAIN events : i < j /\ events[i].on = "word" /\ events[j].on = "word" =>
       events[i].pos + Len(events[i].text) =< events[j].pos

(* What a state says of the members beside it. *)
Members(state, word, utf8char, utf8counter) ==
  /\ state \in {"word", "wordent", "wordutf8", "tag"} => word # <<>>
  /\ state = "utf8" => word = <<>>
  /\ state \in {"utf8", "wordutf8"} =>
       /\ utf8counter >= 1 /\ utf8char # <<>>
       /\ utf8counter + Len(utf8char) = Follow[utf8char[1]] + 1

Sound(p, from) ==
  /\ p \in Parsers
  /\ Members(p.state, p.word, p.utf8char, p.utf8counter)
  /\ from =< Start(p)
  /\ InOrder(p.events, from, Start(p))

LEMMA ParserIs ==
  ASSUME NEW p \in Parsers
  PROVE  p = ParserOf(p.state, p.word, p.entity, p.pos, p.utf8char, p.utf8counter, p.events)
BY DEF Parsers, ParserOf

LEMMA ParserMembers ==
  ASSUME NEW s, NEW w, NEW e, NEW n, NEW u, NEW k, NEW v, NEW x
  PROVE  LET p == ParserOf(s, w, e, n, u, k, v) IN
         /\ p.state = s /\ p.word = w /\ p.entity = e /\ p.pos = n /\ p.utf8char = u
         /\ p.utf8counter = k /\ p.events = v
         /\ P!In(p, x) = ParserOf(x, w, e, n, u, k, v)
         /\ [p EXCEPT !.word = x] = ParserOf(s, x, e, n, u, k, v)
         /\ [p EXCEPT !.entity = x] = ParserOf(s, w, x, n, u, k, v)
         /\ [p EXCEPT !.pos = x] = ParserOf(s, w, e, x, u, k, v)
         /\ [p EXCEPT !.utf8char = x] = ParserOf(s, w, e, n, x, k, v)
         /\ [p EXCEPT !.utf8counter = x] = ParserOf(s, w, e, n, u, x, v)
         /\ [p EXCEPT !.events = x] = ParserOf(s, w, e, n, u, k, x)
BY DEF ParserOf, P!In

LEMMA InOrderLater ==
  ASSUME NEW v \in Seq(Event), NEW from \in Int, NEW to \in Int, NEW more \in Int, to =< more,
         InOrder(v, from, to)
  PROVE  InOrder(v, from, more)
<1>1. ASSUME NEW i \in DOMAIN v, v[i].on = "word"
      PROVE  from =< v[i].pos /\ v[i].pos + Len(v[i].text) =< more
  <2>1. from =< v[i].pos /\ v[i].pos + Len(v[i].text) =< to
    BY <1>1 DEF InOrder
  <2>2. v[i] \in Event
    BY ElementOfSeq, LenProperties
  <2>3. v[i].pos \in Int /\ Len(v[i].text) \in Nat
    BY <2>2, LenProperties DEF Event
  <2> QED
    BY <2>1, <2>3
<1> QED
  BY <1>1 DEF InOrder

LEMMA InOrderTold ==
  ASSUME NEW v \in Seq(Event), NEW from \in Int, NEW to \in Int, NEW more \in Int,
         InOrder(v, from, to), from =< to, to =< more,
         NEW new \in Event,
         new.on = "word" => to =< new.pos /\ new.pos + Len(new.text) =< more
  PROVE  Append(v, new) \in Seq(Event) /\ InOrder(Append(v, new), from, more)
<1>1. PICK n \in Nat : n = Len(v) /\ DOMAIN v = 1 .. n
  BY LenProperties
<1> PICK all : all = Append(v, new)
  OBVIOUS
<1>2. /\ all = Append(v, new) /\ all \in Seq(Event) /\ Len(all) = n + 1
      /\ \A i \in 1 .. n : all[i] = v[i]
      /\ all[n + 1] = new
  BY <1>1, AppendProperties
<1>3. DOMAIN all = 1 .. n + 1
  BY <1>2, LenProperties
<1>4. \A i \in 1 .. n : v[i].pos \in Int /\ Len(v[i].text) \in Nat
  <2>1. \A i \in 1 .. n : v[i] \in Event
    BY <1>1, ElementOfSeq
  <2> QED
    BY <2>1, LenProperties DEF Event
<1>5. new.pos \in Int /\ Len(new.text) \in Nat
  BY LenProperties DEF Event
<1>6. ASSUME NEW i \in 1 .. n, v[i].on = "word"
      PROVE  from =< v[i].pos /\ v[i].pos + Len(v[i].text) =< to
  BY <1>1, <1>6 DEF InOrder
<1>7. ASSUME NEW i \in DOMAIN all, all[i].on = "word"
      PROVE  from =< all[i].pos /\ all[i].pos + Len(all[i].text) =< more
  <2>1. CASE i \in 1 .. n
    <3>1. all[i] = v[i]
      BY <1>2, <2>1
    <3>2. from =< v[i].pos /\ v[i].pos + Len(v[i].text) =< to
      BY <1>6, <1>7, <2>1, <3>1
    <3>3. v[i].pos \in Int /\ Len(v[i].text) \in Nat
      BY <1>4, <2>1
    <3>4. from =< v[i].pos /\ v[i].pos + Len(v[i].text) =< more
      BY <3>2, <3>3
    <3> QED
      BY <3>1, <3>4
  <2>2. CASE i = n + 1
    <3>1. all[i] = new
      BY <1>2, <2>2
    <3>2. to =< new.pos /\ new.pos + Len(new.text) =< more
      BY <1>7, <3>1
    <3>3. from =< new.pos
      BY <1>5, <3>2
    <3> QED
      BY <3>1, <3>2, <3>3
  <2> QED
    BY <1>3, <2>1, <2>2
<1>8. ASSUME NEW i \in DOMAIN all, NEW j \in DOMAIN all, i < j,
             all[i].on = "word", all[j].on = "word"
      PROVE  all[i].pos + Len(all[i].text) =< all[j].pos
  <2>1. i \in 1 .. n /\ (j \in 1 .. n \/ j = n + 1)
    BY <1>3, <1>8
  <2>2. all[i] = v[i]
    BY <1>2, <2>1
  <2>3. CASE j \in 1 .. n
    <3>1. all[j] = v[j]
      BY <1>2, <2>3
    <3>2. v[i].pos + Len(v[i].text) =< v[j].pos
      BY <1>1, <1>8, <2>1, <2>2, <2>3, <3>1 DEF InOrder
    <3> QED
      BY <2>2, <3>1, <3>2
  <2>4. CASE j = n + 1
    <3>1. all[j] = new
      BY <1>2, <2>4
    <3>2. to =< new.pos
      BY <1>8, <3>1
    <3>3. v[i].pos + Len(v[i].text) =< to
      BY <1>6, <1>8, <2>1, <2>2
    <3>4. v[i].pos \in Int /\ Len(v[i].text) \in Nat
      BY <1>4, <2>1
    <3>5. v[i].pos + Len(v[i].text) =< new.pos
      BY <1>5, <3>2, <3>3, <3>4
    <3> QED
      BY <2>2, <3>1, <3>5
  <2> QED
    BY <2>1, <2>3, <2>4
<1>9. InOrder(all, from, more)
  BY <1>7, <1>8 DEF InOrder
<1> QED
  BY <1>2, <1>9

(* The position has still to be counted. *)
SoundAfter(q, from) == Sound([q EXCEPT !.pos = @ + 1], from)

Typed(s, w, e, n, u, k, v) ==
  /\ s \in States /\ w \in Seq(Char) /\ e \in Seq(Char) /\ n \in Int
  /\ u \in Seq(Char) /\ k \in Nat /\ v \in Seq(Event)

(* The members of a sound parser. *)
Held(s, w, e, n, u, k, v, from) ==
  /\ Typed(s, w, e, n, u, k, v) /\ Members(s, w, u, k)
  /\ from =< n - Opened(s, w, u) /\ InOrder(v, from, n - Opened(s, w, u))

LEMMA OpenedNat ==
  ASSUME NEW s, NEW w \in Seq(Char), NEW u \in Seq(Char)
  PROVE  Opened(s, w, u) \in Nat /\ Len(w) \in Nat /\ Len(u) \in Nat
BY LenProperties DEF Opened

LEMMA SoundParts ==
  ASSUME NEW p, NEW from, Sound(p, from)
  PROVE  \E s, w, e, n, u, k, v :
           p = ParserOf(s, w, e, n, u, k, v) /\ Held(s, w, e, n, u, k, v, from)
<1>1. p \in Parsers
  BY DEF Sound
<1>2. p = ParserOf(p.state, p.word, p.entity, p.pos, p.utf8char, p.utf8counter, p.events)
  BY <1>1, ParserIs
<1>3. Typed(p.state, p.word, p.entity, p.pos, p.utf8char, p.utf8counter, p.events)
  BY <1>1 DEF Parsers, Typed
<1>4. /\ Members(p.state, p.word, p.utf8char, p.utf8counter)
      /\ from =< p.pos - Opened(p.state, p.word, p.utf8char)
      /\ InOrder(p.events, from, p.pos - Opened(p.state, p.word, p.utf8char))
  BY DEF Sound, Start
<1>5. Held(p.state, p.word, p.entity, p.pos, p.utf8char, p.utf8counter, p.events, from)
  BY <1>3, <1>4 DEF Held
<1> QED
  BY <1>2, <1>5, Zenon

LEMMA SoundMade ==
  ASSUME NEW s, NEW w, NEW e, NEW n, NEW u, NEW k, NEW v, NEW from,
         Typed(s, w, e, n, u, k, v), Members(s, w, u, k),
         from =< n - Opened(s, w, u), InOrder(v, from, n - Opened(s, w, u))
  PROVE  Sound(ParserOf(s, w, e, n, u, k, v), from)
<1>1. PICK p : p = ParserOf(s, w, e, n, u, k, v)
  OBVIOUS
<1>2. /\ p.state = s /\ p.word = w /\ p.entity = e /\ p.pos = n /\ p.utf8char = u
      /\ p.utf8counter = k /\ p.events = v
  BY <1>1 DEF ParserOf
<1>3. p \in Parsers
  BY <1>1 DEF ParserOf, Parsers, Typed
<1> QED
  BY <1>1, <1>2, <1>3, Zenon DEF Sound, Start

(* A byte that tells of nothing. *)
LEMMA Goes ==
  ASSUME NEW s, NEW w, NEW e, NEW n, NEW u, NEW k, NEW v, NEW from \in Int,
         Typed(s, w, e, n, u, k, v),
         from =< n - Opened(s, w, u), InOrder(v, from, n - Opened(s, w, u)),
         NEW ss, NEW ww, NEW ee, NEW uu, NEW kk, Typed(ss, ww, ee, n, uu, kk, v),
         Members(ss, ww, uu, kk), Opened(ss, ww, uu) =< Opened(s, w, u) + 1
  PROVE  SoundAfter(ParserOf(ss, ww, ee, n, uu, kk, v), from)
<1>1. PICK open, after \in Nat : open = Opened(s, w, u) /\ after = Opened(ss, ww, uu)
  BY OpenedNat DEF Typed
<1>2. n \in Int /\ v \in Seq(Event)
  BY DEF Typed
<1>3. n - open =< (n + 1) - after /\ from =< (n + 1) - after
  BY <1>1, <1>2
<1>4. InOrder(v, from, (n + 1) - after)
  <2>1. n - open \in Int /\ (n + 1) - after \in Int
    BY <1>1, <1>2
  <2> QED
    BY <1>1, <1>2, <1>3, <2>1, InOrderLater
<1>5. Typed(ss, ww, ee, n + 1, uu, kk, v)
  BY DEF Typed
<1>6. Sound(ParserOf(ss, ww, ee, n + 1, uu, kk, v), from)
  BY <1>1, <1>3, <1>4, <1>5, SoundMade
<1>7. PICK p : p = ParserOf(ss, ww, ee, n, uu, kk, v)
  OBVIOUS
<1>8. [p EXCEPT !.pos = p.pos + 1] = ParserOf(ss, ww, ee, n + 1, uu, kk, v)
  BY <1>7 DEF ParserOf
<1> QED
  BY <1>6, <1>7, <1>8 DEF SoundAfter

(* One that does. *)
LEMMA Tells ==
  ASSUME NEW s, NEW w, NEW e, NEW n, NEW u, NEW k, NEW v, NEW from \in Int,
         Typed(s, w, e, n, u, k, v),
         from =< n - Opened(s, w, u), InOrder(v, from, n - Opened(s, w, u)),
         NEW ss, NEW ww, NEW ee, NEW uu, NEW kk, Typed(ss, ww, ee, n, uu, kk, v),
         Members(ss, ww, uu, kk), Opened(ss, ww, uu) =< Opened(s, w, u) + 1,
         NEW new \in Event,
         new.on = "word" => /\ n - Opened(s, w, u) =< new.pos
                            /\ new.pos + Len(new.text) =< (n + 1) - Opened(ss, ww, uu)
  PROVE  SoundAfter(ParserOf(ss, ww, ee, n, uu, kk, Append(v, new)), from)
<1>1. PICK open, after \in Nat : open = Opened(s, w, u) /\ after = Opened(ss, ww, uu)
  BY OpenedNat DEF Typed
<1>2. n \in Int /\ v \in Seq(Event)
  BY DEF Typed
<1>3. n - open =< (n + 1) - after /\ from =< (n + 1) - after
  BY <1>1, <1>2
<1>4. Append(v, new) \in Seq(Event) /\ InOrder(Append(v, new), from, (n + 1) - after)
  <2>1. n - open \in Int /\ (n + 1) - after \in Int
    BY <1>1, <1>2
  <2> QED
    BY <1>1, <1>2, <1>3, <2>1, InOrderTold
<1>5. Typed(ss, ww, ee, n + 1, uu, kk, Append(v, new))
  BY <1>4 DEF Typed
<1>6. Sound(ParserOf(ss, ww, ee, n + 1, uu, kk, Append(v, new)), from)
  BY <1>1, <1>3, <1>4, <1>5, SoundMade
<1>7. PICK all : all = Append(v, new)
  OBVIOUS
<1>8. PICK p : p = ParserOf(ss, ww, ee, n, uu, kk, all)
  OBVIOUS
<1>9. [p EXCEPT !.pos = p.pos + 1] = ParserOf(ss, ww, ee, n + 1, uu, kk, all)
  BY <1>8 DEF ParserOf
<1> QED
  BY <1>6, <1>7, <1>8, <1>9 DEF SoundAfter

LEMMA Apart ==
  /\ "<" \notin DOMAIN Follow /\ "<" \notin Letter
  /\ "&" \notin DOMAIN Follow /\ "&" \notin Letter
  /\ "/" \notin DOMAIN Follow /\ "/" \notin Letter
  /\ \A ch \in DOMAIN Follow : ch \notin Letter
BY BytesAssumption

LEMMA OneChar ==
  ASSUME NEW ch \in Char
  PROVE  <<ch>> \in Seq(Char) /\ <<ch>> # <<>> /\ Len(<<ch>>) = 1 /\ <<ch>>[1] = ch
<1>1. <<ch>> \in Seq(Char)
  OBVIOUS
<1>2. <<ch>> # <<>>
  OBVIOUS
<1>3. Len(<<ch>>) = 1 /\ <<ch>>[1] = ch
  OBVIOUS
<1> QED
  BY <1>1, <1>2, <1>3

LEMMA LeadIs ==
  ASSUME NEW s, NEW w, NEW e, NEW n, NEW u, NEW k, NEW v, NEW ch
  PROVE  P!Lead(ParserOf(s, w, e, n, u, k, v), ch) = ParserOf(s, w, e, n, <<ch>>, Follow[ch], v)
<1>1. PICK p : p = ParserOf(s, w, e, n, u, k, v)
  OBVIOUS
<1>2. PICK one : one = <<ch>>
  OBVIOUS
<1>3. PICK m : m = Follow[ch]
  OBVIOUS
<1>4. P!Lead(p, ch) = [p EXCEPT !.utf8char = one, !.utf8counter = m]
  BY <1>2, <1>3 DEF P!Lead
<1>5. [p EXCEPT !.utf8char = one, !.utf8counter = m] = ParserOf(s, w, e, n, one, m, v)
  <2>1. PICK q : q = [p EXCEPT !.utf8char = one]
    OBVIOUS
  <2>2. q = ParserOf(s, w, e, n, one, k, v)
    BY <1>1, <2>1 DEF ParserOf
  <2>3. [q EXCEPT !.utf8counter = m] = ParserOf(s, w, e, n, one, m, v)
    BY <2>2 DEF ParserOf
  <2>4. [p EXCEPT !.utf8char = one, !.utf8counter = m] = [q EXCEPT !.utf8counter = m]
    BY <2>1
  <2> QED
    BY <2>3, <2>4
<1> QED
  BY <1>1, <1>2, <1>3, <1>4, <1>5

LEMMA TellIs ==
  ASSUME NEW s, NEW w, NEW e, NEW n, NEW u, NEW k, NEW v, NEW on, NEW pos
  PROVE  P!Tell(ParserOf(s, w, e, n, u, k, v), on, pos)
         = ParserOf(s, w, e, n, u, k, Append(v, [on |-> on, text |-> w, pos |-> pos]))
<1>1. PICK p : p = ParserOf(s, w, e, n, u, k, v)
  OBVIOUS
<1>2. p.word = w /\ p.events = v
  BY <1>1 DEF ParserOf
<1>3. PICK new : new = [on |-> on, text |-> w, pos |-> pos]
  OBVIOUS
<1>4. PICK all : all = Append(v, new)
  OBVIOUS
<1>5. P!Tell(p, on, pos) = [p EXCEPT !.events = Append(p.events, [on |-> on, text |-> p.word, pos |-> pos])]
  BY DEF P!Tell
<1>6. P!Tell(p, on, pos) = [p EXCEPT !.events = all]
  BY <1>2, <1>3, <1>4, <1>5
<1>7. [p EXCEPT !.events = all] = ParserOf(s, w, e, n, u, k, all)
  BY <1>1 DEF ParserOf
<1> QED
  BY <1>1, <1>3, <1>4, <1>6, <1>7

LEMMA OutsideSound ==
  ASSUME NEW w, NEW e, NEW n, NEW u, NEW k, NEW v, NEW from \in Int,
         Held("0", w, e, n, u, k, v, from), NEW ch \in Char
  PROVE  SoundAfter(P!Outside(ParserOf("0", w, e, n, u, k, v), ch), from)
<1>1. PICK p : p = ParserOf("0", w, e, n, u, k, v)
  OBVIOUS
<1>2. /\ Typed("0", w, e, n, u, k, v) /\ Opened("0", w, u) = 0
      /\ from =< n - Opened("0", w, u) /\ InOrder(v, from, n - Opened("0", w, u))
  BY DEF Held, Opened
<1>3. CASE ch = "<"
  <2>1. P!Outside(p, ch) = ParserOf("tag0", w, e, n, u, k, v)
    <3>1. P!Outside(p, ch) = P!In(p, "tag0")
      BY <1>3, Apart DEF P!Outside
    <3>2. P!In(p, "tag0") = ParserOf("tag0", w, e, n, u, k, v)
      BY <1>1 DEF P!In, ParserOf
    <3> QED
      BY <3>1, <3>2
  <2>2. Typed("tag0", w, e, n, u, k, v)
    BY <1>2 DEF Typed, States
  <2>3. Members("tag0", w, u, k) /\ Opened("tag0", w, u) = 0
    BY DEF Members, Opened
  <2> QED
    BY <1>1, <1>2, <2>1, <2>2, <2>3, Goes
<1>4. CASE ch = "&"
  <2>1. P!Outside(p, ch) = ParserOf("ent", w, e, n, u, k, v)
    <3>1. P!Outside(p, ch) = P!In(p, "ent")
      BY <1>4, Apart DEF P!Outside
    <3>2. P!In(p, "ent") = ParserOf("ent", w, e, n, u, k, v)
      BY <1>1 DEF P!In, ParserOf
    <3> QED
      BY <3>1, <3>2
  <2>2. Typed("ent", w, e, n, u, k, v)
    BY <1>2 DEF Typed, States
  <2>3. Members("ent", w, u, k) /\ Opened("ent", w, u) = 0
    BY DEF Members, Opened
  <2> QED
    BY <1>1, <1>2, <2>1, <2>2, <2>3, Goes
<1>5. CASE ch \notin {"<", "&"} /\ ch \in DOMAIN Follow
  <2>1. PICK m : m = Follow[ch] /\ m \in Nat \ {0}
    BY <1>5, BytesAssumption
  <2>2. PICK one : one = <<ch>>
    OBVIOUS
  <2>3. PICK none : none = <<>> /\ none \in Seq(Char) /\ Len(none) = 0
    BY EmptySeq
  <2>4. P!Outside(p, ch) = ParserOf("utf8", none, e, n, one, m, v)
    <3>1. P!Outside(p, ch) = [P!In(P!Lead(p, ch), "utf8") EXCEPT !.word = <<>>]
      BY <1>5, Apart DEF P!Outside
    <3>2. P!Lead(p, ch) = ParserOf("0", w, e, n, one, m, v)
      BY <1>1, <2>1, <2>2, LeadIs
    <3>3. P!In(ParserOf("0", w, e, n, one, m, v), "utf8") = ParserOf("utf8", w, e, n, one, m, v)
      BY DEF P!In, ParserOf
    <3>4. [ParserOf("utf8", w, e, n, one, m, v) EXCEPT !.word = none]
          = ParserOf("utf8", none, e, n, one, m, v)
      BY DEF ParserOf
    <3> QED
      BY <2>3, <3>1, <3>2, <3>3, <3>4
  <2>5. Typed("utf8", none, e, n, one, m, v)
    BY <1>2, <2>1, <2>2, <2>3, OneChar DEF Typed, States
  <2>6. Members("utf8", none, one, m)
    BY <2>1, <2>2, <2>3, OneChar DEF Members
  <2>7. Opened("utf8", none, one) =< Opened("0", w, u) + 1
    BY <1>2, <2>2, <2>3, OneChar DEF Opened
  <2> QED
    BY <1>1, <1>2, <2>4, <2>5, <2>6, <2>7, Goes
<1>6. CASE ch \notin {"<", "&"} /\ ch \notin DOMAIN Follow /\ ch \in Letter
  <2>1. PICK one : one = <<ch>>
    OBVIOUS
  <2>2. P!Outside(p, ch) = ParserOf("word", one, e, n, u, k, v)
    <3>1. P!Outside(p, ch) = [P!In(p, "word") EXCEPT !.word = <<ch>>]
      BY <1>6, Apart DEF P!Outside
    <3>2. P!In(p, "word") = ParserOf("word", w, e, n, u, k, v)
      BY <1>1 DEF P!In, ParserOf
    <3>3. [ParserOf("word", w, e, n, u, k, v) EXCEPT !.word = one]
          = ParserOf("word", one, e, n, u, k, v)
      BY DEF ParserOf
    <3> QED
      BY <2>1, <3>1, <3>2, <3>3
  <2>3. Typed("word", one, e, n, u, k, v)
    BY <1>2, <2>1, OneChar DEF Typed, States
  <2>4. Members("word", one, u, k)
    BY <2>1, OneChar DEF Members
  <2>5. Opened("word", one, u) =< Opened("0", w, u) + 1
    BY <1>2, <2>1, OneChar DEF Opened
  <2> QED
    BY <1>1, <1>2, <2>2, <2>3, <2>4, <2>5, Goes
<1>7. CASE ch \notin {"<", "&"} /\ ch \notin DOMAIN Follow /\ ch \notin Letter
  <2>1. P!Outside(p, ch) = ParserOf("0", w, e, n, u, k, v)
    BY <1>1, <1>7 DEF P!Outside
  <2>2. Members("0", w, u, k)
    BY DEF Members
  <2> QED
    BY <1>1, <1>2, <2>1, <2>2, Goes
<1> QED
  BY <1>1, <1>3, <1>4, <1>5, <1>6, <1>7

LEMMA InTag0Sound ==
  ASSUME NEW w, NEW e, NEW n, NEW u, NEW k, NEW v, NEW from \in Int,
         Held("tag0", w, e, n, u, k, v, from), NEW ch \in Char
  PROVE  SoundAfter(P!InTag0(ParserOf("tag0", w, e, n, u, k, v), ch), from)
<1>1. PICK p : p = ParserOf("tag0", w, e, n, u, k, v)
  OBVIOUS
<1>2. /\ Typed("tag0", w, e, n, u, k, v) /\ Opened("tag0", w, u) = 0
      /\ from =< n - Opened("tag0", w, u) /\ InOrder(v, from, n - Opened("tag0", w, u))
  BY DEF Held, Opened
<1>3. CASE ch = "/"
  <2>1. PICK none : none = <<>> /\ none \in Seq(Char)
    BY EmptySeq
  <2>2. P!InTag0(p, ch) = ParserOf("endtag", none, e, n, u, k, v)
    <3>1. P!InTag0(p, ch) = [P!In(p, "endtag") EXCEPT !.word = <<>>]
      BY <1>3, Apart DEF P!InTag0
    <3>2. P!In(p, "endtag") = ParserOf("endtag", w, e, n, u, k, v)
      BY <1>1 DEF P!In, ParserOf
    <3>3. [ParserOf("endtag", w, e, n, u, k, v) EXCEPT !.word = none]
          = ParserOf("endtag", none, e, n, u, k, v)
      BY DEF ParserOf
    <3> QED
      BY <2>1, <3>1, <3>2, <3>3
  <2>3. Typed("endtag", none, e, n, u, k, v)
    BY <1>2, <2>1 DEF Typed, States
  <2>4. Members("endtag", none, u, k) /\ Opened("endtag", none, u) = 0
    BY DEF Members, Opened
  <2> QED
    BY <1>1, <1>2, <2>2, <2>3, <2>4, Goes
<1>4. CASE ch # "/" /\ ch \in Letter
  <2>1. PICK one : one = <<ch>>
    OBVIOUS
  <2>2. P!InTag0(p, ch) = ParserOf("tag", one, e, n, u, k, v)
    <3>1. P!InTag0(p, ch) = [P!In(p, "tag") EXCEPT !.word = <<ch>>]
      BY <1>4, Apart DEF P!InTag0
    <3>2. P!In(p, "tag") = ParserOf("tag", w, e, n, u, k, v)
      BY <1>1 DEF P!In, ParserOf
    <3>3. [ParserOf("tag", w, e, n, u, k, v) EXCEPT !.word = one]
          = ParserOf("tag", one, e, n, u, k, v)
      BY DEF ParserOf
    <3> QED
      BY <2>1, <3>1, <3>2, <3>3
  <2>3. Typed("tag", one, e, n, u, k, v)
    BY <1>2, <2>1, OneChar DEF Typed, States
  <2>4. Members("tag", one, u, k) /\ Opened("tag", one, u) = 0
    BY <2>1, OneChar DEF Members, Opened
  <2> QED
    BY <1>1, <1>2, <2>2, <2>3, <2>4, Goes
<1>5. CASE ch # "/" /\ ch \notin Letter
  <2>1. P!InTag0(p, ch) = ParserOf("tag0", w, e, n, u, k, v)
    BY <1>1, <1>5 DEF P!InTag0
  <2>2. Members("tag0", w, u, k)
    BY DEF Members
  <2> QED
    BY <1>1, <1>2, <2>1, <2>2, Goes
<1> QED
  BY <1>1, <1>3, <1>4, <1>5

LEMMA InTagSound ==
  ASSUME NEW s \in {"tag", "endtag"},
         NEW w, NEW e, NEW n, NEW u, NEW k, NEW v, NEW from \in Int,
         Held(s, w, e, n, u, k, v, from), NEW ch \in Char
  PROVE  SoundAfter(P!InTag(ParserOf(s, w, e, n, u, k, v), ch), from)
<1>1. PICK p : p = ParserOf(s, w, e, n, u, k, v)
  OBVIOUS
<1>2. /\ Typed(s, w, e, n, u, k, v) /\ Opened(s, w, u) = 0
      /\ from =< n - Opened(s, w, u) /\ InOrder(v, from, n - Opened(s, w, u))
  BY DEF Held, Opened
<1>3. CASE ch \in Letter
  <2>1. PICK more : more = Append(w, ch)
    OBVIOUS
  <2>2. more \in Seq(Char) /\ more # <<>>
    <3>1. w \in Seq(Char)
      BY <1>2 DEF Typed
    <3> QED
      BY <2>1, <3>1, AppendProperties
  <2>3. P!InTag(p, ch) = ParserOf(s, more, e, n, u, k, v)
    BY <1>1, <1>3, <2>1 DEF P!InTag, ParserOf
  <2>4. Typed(s, more, e, n, u, k, v)
    BY <1>2, <2>2 DEF Typed
  <2>5. Members(s, more, u, k) /\ Opened(s, more, u) = 0
    BY <2>2 DEF Members, Opened
  <2> QED
    BY <1>1, <1>2, <2>3, <2>4, <2>5, Goes
<1>4. CASE ch \notin Letter
  <2>1. PICK next : next = IF ch = ">" THEN "0" ELSE "tagskip"
    OBVIOUS
  <2>2. next \in {"0", "tagskip"}
    BY <2>1
  <2>3. PICK new : new = [on |-> s, text |-> w, pos |-> n]
    OBVIOUS
  <2>4. new \in Event /\ new.on # "word"
    BY <1>2, <2>3 DEF Event, Typed
  <2>5. P!InTag(p, ch) = ParserOf(next, w, e, n, u, k, Append(v, new))
    <3>1. PICK all : all = Append(v, new)
      OBVIOUS
    <3>2. P!Tell(p, p.state, p.pos) = ParserOf(s, w, e, n, u, k, all)
      <4>1. p.state = s /\ p.pos = n
        BY <1>1 DEF ParserOf
      <4> QED
        BY <1>1, <2>3, <3>1, <4>1, TellIs
    <3>3. P!InTag(p, ch) = P!In(P!Tell(p, p.state, p.pos), next)
      BY <1>4, <2>1 DEF P!InTag
    <3>4. P!In(ParserOf(s, w, e, n, u, k, all), next) = ParserOf(next, w, e, n, u, k, all)
      BY DEF P!In, ParserOf
    <3> QED
      BY <3>1, <3>2, <3>3, <3>4
  <2>6. Typed(next, w, e, n, u, k, v)
    BY <1>2, <2>2 DEF Typed, States
  <2>7. Members(next, w, u, k) /\ Opened(next, w, u) = 0
    BY <2>2 DEF Members, Opened
  <2> QED
    BY <1>1, <1>2, <2>4, <2>5, <2>6, <2>7, Tells
<1> QED
  BY <1>1, <1>3, <1>4

(* A word is told as it ends, from where it began. *)
LEMMA LeaveSound ==
  ASSUME NEW s \in {"word", "wordutf8"},
         NEW w, NEW e, NEW n, NEW u, NEW k, NEW v, NEW from \in Int,
         Held(s, w, e, n, u, k, v, from),
         NEW ss \in {"0", "tag0"}, NEW uu \in Seq(Char), NEW kk \in Nat
  PROVE  LET new == [on |-> "word", text |-> w, pos |-> n - Opened(s, w, u)] IN
         SoundAfter(ParserOf(ss, w, e, n, uu, kk, Append(v, new)), from)
<1>1. /\ Typed(s, w, e, n, u, k, v)
      /\ from =< n - Opened(s, w, u) /\ InOrder(v, from, n - Opened(s, w, u))
  BY DEF Held
<1>2. PICK size, open \in Nat : size = Len(w) /\ open = Opened(s, w, u)
  BY <1>1, OpenedNat DEF Typed
<1>3. size =< open /\ n \in Int
  <2>1. Len(w) \in Nat /\ Len(u) \in Nat /\ n \in Int
    BY <1>1, OpenedNat DEF Typed
  <2> QED
    BY <1>2, <2>1 DEF Opened
<1>4. PICK new : new = [on |-> "word", text |-> w, pos |-> n - open]
  OBVIOUS
<1>5. new \in Event /\ new.pos = n - open /\ new.text = w
  BY <1>1, <1>3, <1>4 DEF Event, Typed
<1>6. Typed(ss, w, e, n, uu, kk, v)
  BY <1>1 DEF Typed, States
<1>7. Members(ss, w, uu, kk) /\ Opened(ss, w, uu) = 0
  BY DEF Members, Opened
<1>8. n - Opened(s, w, u) =< new.pos /\ new.pos + Len(new.text) =< (n + 1) - Opened(ss, w, uu)
  BY <1>2, <1>3, <1>5, <1>7
<1>9. Opened(ss, w, uu) =< Opened(s, w, u) + 1
  BY <1>2, <1>7
<1>10. SoundAfter(ParserOf(ss, w, e, n, uu, kk, Append(v, new)), from)
  BY <1>1, <1>5, <1>6, <1>7, <1>8, <1>9, Tells
<1> QED
  BY <1>2, <1>4, <1>10

LEMMA InWordSound ==
  ASSUME NEW w, NEW e, NEW n, NEW u, NEW k, NEW v, NEW from \in Int,
         Held("word", w, e, n, u, k, v, from), NEW ch \in Char
  PROVE  SoundAfter(P!InWord(ParserOf("word", w, e, n, u, k, v), ch), from)
<1>1. PICK p : p = ParserOf("word", w, e, n, u, k, v)
  OBVIOUS
<1>2. /\ Typed("word", w, e, n, u, k, v) /\ Opened("word", w, u) = Len(w) /\ w # <<>>
      /\ from =< n - Opened("word", w, u) /\ InOrder(v, from, n - Opened("word", w, u))
  BY DEF Held, Opened, Members
<1>3. w \in Seq(Char) /\ Len(w) \in Nat /\ n \in Int /\ u \in Seq(Char) /\ k \in Nat
  BY <1>2, LenProperties DEF Typed
<1>4. CASE ch = "&"
  <2>1. P!InWord(p, ch) = ParserOf("wordent", w, e, n, u, k, v)
    <3>1. P!InWord(p, ch) = P!In(p, "wordent")
      BY <1>4, Apart DEF P!InWord
    <3>2. P!In(p, "wordent") = ParserOf("wordent", w, e, n, u, k, v)
      BY <1>1 DEF P!In, ParserOf
    <3> QED
      BY <3>1, <3>2
  <2>2. Typed("wordent", w, e, n, u, k, v)
    BY <1>2 DEF Typed, States
  <2>3. Members("wordent", w, u, k) /\ Opened("wordent", w, u) = Len(w)
    BY <1>2 DEF Members, Opened
  <2>4. Opened("wordent", w, u) =< Opened("word", w, u) + 1
    BY <1>2, <1>3, <2>3
  <2> QED
    BY <1>1, <1>2, <2>1, <2>2, <2>3, <2>4, Goes
<1>5. CASE ch # "&" /\ ch \in DOMAIN Follow
  <2>1. PICK m : m = Follow[ch] /\ m \in Nat \ {0}
    BY <1>5, BytesAssumption
  <2>2. PICK one : one = <<ch>>
    OBVIOUS
  <2>3. P!InWord(p, ch) = ParserOf("wordutf8", w, e, n, one, m, v)
    <3>1. P!InWord(p, ch) = P!In(P!Lead(p, ch), "wordutf8")
      BY <1>5, Apart DEF P!InWord
    <3>2. P!Lead(p, ch) = ParserOf("word", w, e, n, one, m, v)
      BY <1>1, <2>1, <2>2, LeadIs
    <3>3. P!In(ParserOf("word", w, e, n, one, m, v), "wordutf8")
          = ParserOf("wordutf8", w, e, n, one, m, v)
      BY DEF P!In, ParserOf
    <3> QED
      BY <3>1, <3>2, <3>3
  <2>4. Typed("wordutf8", w, e, n, one, m, v)
    BY <1>2, <2>1, <2>2, OneChar DEF Typed, States
  <2>5. Members("wordutf8", w, one, m)
    BY <1>2, <2>1, <2>2, OneChar DEF Members
  <2>6. Opened("wordutf8", w, one) =< Opened("word", w, u) + 1
    BY <1>2, <1>3, <2>2, OneChar DEF Opened
  <2> QED
    BY <1>1, <1>2, <2>3, <2>4, <2>5, <2>6, Goes
<1>6. CASE ch # "&" /\ ch \notin DOMAIN Follow /\ ch \in Letter
  <2>1. PICK more : more = Append(w, ch)
    OBVIOUS
  <2>2. more \in Seq(Char) /\ Len(more) = Len(w) + 1 /\ more # <<>>
    BY <1>3, <2>1, AppendProperties
  <2>3. P!InWord(p, ch) = ParserOf("word", more, e, n, u, k, v)
    <3>1. P!InWord(p, ch) = [p EXCEPT !.word = Append(p.word, ch)]
      BY <1>6, Apart DEF P!InWord
    <3>2. p.word = w
      BY <1>1 DEF ParserOf
    <3>3. [p EXCEPT !.word = more] = ParserOf("word", more, e, n, u, k, v)
      BY <1>1 DEF ParserOf
    <3> QED
      BY <2>1, <3>1, <3>2, <3>3
  <2>4. Typed("word", more, e, n, u, k, v)
    BY <1>2, <2>2 DEF Typed
  <2>5. Members("word", more, u, k)
    BY <2>2 DEF Members
  <2>6. Opened("word", more, u) =< Opened("word", w, u) + 1
    BY <1>2, <1>3, <2>2 DEF Opened
  <2> QED
    BY <1>1, <1>2, <2>3, <2>4, <2>5, <2>6, Goes
<1>7. CASE ch # "&" /\ ch \notin DOMAIN Follow /\ ch \notin Letter
  <2>1. PICK next : next = IF ch = "<" THEN "tag0" ELSE "0"
    OBVIOUS
  <2>2. next \in {"0", "tag0"}
    BY <2>1
  <2>3. PICK new : new = [on |-> "word", text |-> w, pos |-> n - Opened("word", w, u)]
    OBVIOUS
  <2>4. P!InWord(p, ch) = ParserOf(next, w, e, n, u, k, Append(v, new))
    <3>1. P!InWord(p, ch) = P!In(P!OnWord(p, Len(p.word)), next)
      BY <1>7, <2>1, Apart DEF P!InWord
    <3>2. P!OnWord(p, Len(p.word)) = P!Tell(p, "word", n - Len(w))
      BY <1>1 DEF ParserOf, P!OnWord, P!Began
    <3>3. PICK all : all = Append(v, new)
      OBVIOUS
    <3>4. P!Tell(p, "word", n - Len(w)) = ParserOf("word", w, e, n, u, k, all)
      BY <1>1, <1>2, <2>3, <3>3, TellIs
    <3>5. P!In(ParserOf("word", w, e, n, u, k, all), next) = ParserOf(next, w, e, n, u, k, all)
      BY DEF P!In, ParserOf
    <3> QED
      BY <3>1, <3>2, <3>3, <3>4, <3>5
  <2> QED
    BY <1>1, <1>3, <2>2, <2>3, <2>4, LeaveSound
<1> QED
  BY <1>1, <1>4, <1>5, <1>6, <1>7

(* Leave, whose size is that of the word and of the bytes behind it. *)
LEMMA LeaveIs ==
  ASSUME NEW s \in {"utf8", "wordutf8"},
         NEW w, NEW e, NEW n, NEW u, NEW k, NEW v, NEW from \in Int,
         Held(s, w, e, n, u, k, v, from),
         NEW uu \in Seq(Char), NEW kk \in Nat
  PROVE  SoundAfter(P!Leave(ParserOf(s, w, e, n, uu, kk, v), Len(w) + Len(u)), from)
<1>1. PICK p : p = ParserOf(s, w, e, n, uu, kk, v)
  OBVIOUS
<1>2. /\ Typed(s, w, e, n, u, k, v) /\ Opened(s, w, u) = Len(w) + Len(u)
      /\ from =< n - Opened(s, w, u) /\ InOrder(v, from, n - Opened(s, w, u))
  BY DEF Held, Opened
<1>3. p.state = s /\ p.pos = n
  BY <1>1 DEF ParserOf
<1>4. CASE s = "wordutf8"
  <2>1. PICK new : new = [on |-> "word", text |-> w, pos |-> n - Opened(s, w, u)]
    OBVIOUS
  <2>2. PICK all : all = Append(v, new)
    OBVIOUS
  <2>3. P!Leave(p, Len(w) + Len(u)) = ParserOf("0", w, e, n, uu, kk, all)
    <3>1. P!Leave(p, Len(w) + Len(u)) = P!In(P!OnWord(p, Len(w) + Len(u)), "0")
      BY <1>3, <1>4 DEF P!Leave
    <3>2. P!OnWord(p, Len(w) + Len(u)) = P!Tell(p, "word", n - (Len(w) + Len(u)))
      BY <1>3 DEF P!OnWord, P!Began
    <3>3. P!Tell(p, "word", n - (Len(w) + Len(u))) = ParserOf(s, w, e, n, uu, kk, all)
      BY <1>1, <1>2, <2>1, <2>2, TellIs
    <3>4. P!In(ParserOf(s, w, e, n, uu, kk, all), "0") = ParserOf("0", w, e, n, uu, kk, all)
      BY DEF P!In, ParserOf
    <3> QED
      BY <3>1, <3>2, <3>3, <3>4
  <2> QED
    BY <1>1, <1>4, <2>1, <2>2, <2>3, LeaveSound
<1>5. CASE s = "utf8"
  <2>1. P!Leave(p, Len(w) + Len(u)) = ParserOf("0", w, e, n, uu, kk, v)
    <3>1. P!Leave(p, Len(w) + Len(u)) = P!In(p, "0")
      BY <1>3, <1>5 DEF P!Leave
    <3>2. P!In(p, "0") = ParserOf("0", w, e, n, uu, kk, v)
      BY <1>1 DEF P!In, ParserOf
    <3> QED
      BY <3>1, <3>2
  <2>2. Typed("0", w, e, n, uu, kk, v)
    BY <1>2 DEF Typed, States
  <2>3. Members("0", w, uu, kk) /\ Opened("0", w, uu) = 0
    BY DEF Members, Opened
  <2>4. Len(w) \in Nat /\ Len(u) \in Nat
    BY <1>2, OpenedNat DEF Typed
  <2>5. Opened("0", w, uu) =< Opened(s, w, u) + 1
    BY <1>2, <2>3, <2>4
  <2> QED
    BY <1>1, <1>2, <2>1, <2>2, <2>3, <2>5, Goes
<1> QED
  BY <1>1, <1>4, <1>5

LEMMA InUtf8Sound ==
  ASSUME NEW s \in {"utf8", "wordutf8"},
         NEW w, NEW e, NEW n, NEW u, NEW k, NEW v, NEW from \in Int,
         Held(s, w, e, n, u, k, v, from), NEW ch \in Char
  PROVE  SoundAfter(P!InUtf8(ParserOf(s, w, e, n, u, k, v), ch), from)
<1>1. PICK p : p = ParserOf(s, w, e, n, u, k, v)
  OBVIOUS
<1>2. /\ Typed(s, w, e, n, u, k, v) /\ Opened(s, w, u) = Len(w) + Len(u)
      /\ from =< n - Opened(s, w, u) /\ InOrder(v, from, n - Opened(s, w, u))
  BY DEF Held, Opened
<1>3. /\ w \in Seq(Char) /\ Len(w) \in Nat /\ u \in Seq(Char) /\ Len(u) \in Nat
      /\ k \in Nat /\ n \in Int
  BY <1>2, LenProperties DEF Typed
<1>4. /\ s = "wordutf8" => w # <<>>
      /\ s = "utf8" => w = <<>>
      /\ k >= 1 /\ u # <<>> /\ k + Len(u) = Follow[u[1]] + 1
  BY Zenon DEF Held, Members
<1>5. p.state = s /\ p.word = w /\ p.utf8char = u /\ p.utf8counter = k
  BY <1>1 DEF ParserOf
<1>6. PICK char : char = Append(u, ch)
  OBVIOUS
<1>7. char \in Seq(Char) /\ Len(char) = Len(u) + 1 /\ char # <<>> /\ char[1] = u[1]
  <2>1. char \in Seq(Char) /\ Len(char) = Len(u) + 1 /\ \A i \in 1 .. Len(u) : char[i] = u[i]
    BY <1>3, <1>6, AppendProperties
  <2>2. Len(u) # 0
    BY <1>3, <1>4, EmptySeq
  <2>3. 1 \in 1 .. Len(u)
    BY <1>3, <2>2
  <2>4. char # <<>>
    BY <1>3, <1>6, AppendProperties
  <2> QED
    BY <2>1, <2>3, <2>4
<1>8. PICK q : q = ParserOf(s, w, e, n, char, k - 1, v)
  OBVIOUS
<1>9. [p EXCEPT !.utf8char = Append(p.utf8char, ch), !.utf8counter = p.utf8counter - 1] = q
  <2>1. PICK m : m = k - 1
    OBVIOUS
  <2>2. PICK r : r = [p EXCEPT !.utf8char = char]
    OBVIOUS
  <2>3. r = ParserOf(s, w, e, n, char, k, v)
    BY <1>1, <2>2 DEF ParserOf
  <2>4. [r EXCEPT !.utf8counter = m] = ParserOf(s, w, e, n, char, m, v)
    BY <2>3 DEF ParserOf
  <2>5. [p EXCEPT !.utf8char = char, !.utf8counter = m] = [r EXCEPT !.utf8counter = m]
    BY <2>2
  <2> QED
    BY <1>5, <1>6, <1>8, <2>1, <2>4, <2>5
<1>10. CASE ch \notin Trail
  <2>1. P!InUtf8(p, ch) = P!Leave(p, Len(w) + Len(u))
    BY <1>5, <1>10 DEF P!InUtf8
  <2> QED
    BY <1>1, <1>3, <2>1, LeaveIs
<1>11. CASE ch \in Trail /\ k > 1
  <2>1. P!InUtf8(p, ch) = q
    <3>1. P!InUtf8(p, ch)
          = [p EXCEPT !.utf8char = Append(p.utf8char, ch), !.utf8counter = p.utf8counter - 1]
      BY <1>3, <1>5, <1>11 DEF P!InUtf8
    <3> QED
      BY <1>9, <3>1
  <2>2. k - 1 \in Nat
    BY <1>3, <1>11
  <2>3. Typed(s, w, e, n, char, k - 1, v)
    BY <1>2, <1>7, <2>2 DEF Typed
  <2>4. (k - 1) + Len(char) = Follow[char[1]] + 1
    <3>1. (k - 1) + Len(char) = k + Len(u)
      BY <1>3, <1>7
    <3> QED
      BY <1>4, <1>7, <3>1
  <2>5. k - 1 >= 1
    BY <1>3, <1>11
  <2>6. Members(s, w, char, k - 1)
    BY <1>4, <1>7, <2>4, <2>5 DEF Members
  <2>7. Opened(s, w, char) =< Opened(s, w, u) + 1
    BY <1>2, <1>3, <1>7 DEF Opened
  <2> QED
    BY <1>1, <1>2, <1>8, <2>1, <2>3, <2>6, <2>7, Goes
<1>12. CASE ch \in Trail /\ k = 1 /\ char \in Alphanumeric
  <2>1. PICK more : more = w \o char
    OBVIOUS
  <2>2. more \in Seq(Char) /\ Len(more) = Len(w) + Len(char)
    BY <1>3, <1>7, <2>1, ConcatProperties
  <2>3. more # <<>>
    <3>1. Len(more) # 0
      BY <1>3, <1>7, <2>2
    <3> QED
      BY <2>2, <3>1, EmptySeq
  <2>4. P!InUtf8(p, ch) = ParserOf("word", more, e, n, char, k - 1, v)
    <3>1. P!InUtf8(p, ch) = [P!In(q, "word") EXCEPT !.word = @ \o char]
      <4>1. P!InUtf8(p, ch)
            = [P!In([p EXCEPT !.utf8char = Append(p.utf8char, ch),
                              !.utf8counter = p.utf8counter - 1], "word")
                EXCEPT !.word = @ \o Append(p.utf8char, ch)]
        BY <1>3, <1>5, <1>6, <1>12 DEF P!InUtf8
      <4>2. Append(p.utf8char, ch) = char
        BY <1>5, <1>6
      <4> QED
        BY <1>9, <4>1, <4>2
    <3>2. PICK r : r = P!In(q, "word")
      OBVIOUS
    <3>3. r = ParserOf("word", w, e, n, char, k - 1, v)
      BY <1>8, <3>2 DEF P!In, ParserOf
    <3>4. r.word = w
      BY <3>3 DEF ParserOf
    <3>5. [r EXCEPT !.word = more] = ParserOf("word", more, e, n, char, k - 1, v)
      BY <3>3 DEF ParserOf
    <3> QED
      BY <2>1, <3>1, <3>2, <3>4, <3>5
  <2>5. k - 1 \in Nat
    BY <1>3, <1>12
  <2>6. Typed("word", more, e, n, char, k - 1, v)
    BY <1>2, <1>7, <2>2, <2>5 DEF Typed, States
  <2>7. Members("word", more, char, k - 1)
    BY <2>3 DEF Members
  <2>8. Opened("word", more, char) =< Opened(s, w, u) + 1
    BY <1>2, <1>3, <1>7, <2>2 DEF Opened
  <2> QED
    BY <1>1, <1>2, <2>4, <2>6, <2>7, <2>8, Goes
<1>13. CASE ch \in Trail /\ k = 1 /\ char \notin Alphanumeric
  <2>1. P!InUtf8(p, ch) = P!Leave(q, Len(w) + Len(char) - 1)
    BY <1>3, <1>5, <1>6, <1>9, <1>13 DEF P!InUtf8
  <2>2. Len(w) + Len(char) - 1 = Len(w) + Len(u)
    BY <1>3, <1>7
  <2>3. k - 1 \in Nat
    BY <1>3, <1>13
  <2> QED
    BY <1>1, <1>7, <1>8, <2>1, <2>2, <2>3, LeaveIs
<1>14. k > 1 \/ k = 1
  BY <1>3, <1>4
<1> QED
  BY <1>1, <1>10, <1>11, <1>12, <1>13, <1>14

LEMMA ByteSound ==
  ASSUME NEW from \in Int, NEW p, Sound(p, from), NEW ch \in Char
  PROVE  Sound(P!Byte(p, ch), from)
<1>1. PICK s, w, e, n, u, k, v :
        p = ParserOf(s, w, e, n, u, k, v) /\ Held(s, w, e, n, u, k, v, from)
  BY SoundParts
<1>2. /\ Typed(s, w, e, n, u, k, v) /\ Members(s, w, u, k)
      /\ from =< n - Opened(s, w, u) /\ InOrder(v, from, n - Opened(s, w, u))
  BY <1>1 DEF Held
<1>3. s \in States
  BY <1>2 DEF Typed
<1>4. p.state = s
  BY <1>1 DEF ParserOf
<1>5. PICK q :
        q = CASE p.state = "0" -> P!Outside(p, ch)
              [] p.state = "tag0" -> P!InTag0(p, ch)
              [] p.state \in {"tag", "endtag"} -> P!InTag(p, ch)
              [] p.state = "tagskip" -> IF ch = ">" THEN P!In(p, "0") ELSE p
              [] p.state \in {"ent", "wordent"} -> [p EXCEPT !.entity = Append(@, ch)]
              [] p.state = "word" -> P!InWord(p, ch)
              [] p.state \in {"utf8", "wordutf8"} -> P!InUtf8(p, ch)
  OBVIOUS
<1>6. P!Byte(p, ch) = [q EXCEPT !.pos = @ + 1]
  BY <1>5 DEF P!Byte
<1>7. CASE s = "0"
  <2>1. q = P!Outside(p, ch)
    BY <1>4, <1>5, <1>7
  <2> QED
    BY <1>1, <1>6, <1>7, <2>1, OutsideSound DEF SoundAfter
<1>8. CASE s = "tag0"
  <2>1. q = P!InTag0(p, ch)
    BY <1>4, <1>5, <1>8
  <2> QED
    BY <1>1, <1>6, <1>8, <2>1, InTag0Sound DEF SoundAfter
<1>9. CASE s \in {"tag", "endtag"}
  <2>1. q = P!InTag(p, ch)
    BY <1>4, <1>5, <1>9
  <2> QED
    BY <1>1, <1>6, <1>9, <2>1, InTagSound DEF SoundAfter
<1>10. CASE s = "tagskip"
  <2>1. q = IF ch = ">" THEN P!In(p, "0") ELSE p
    BY <1>4, <1>5, <1>10
  <2>2. PICK next \in {"0", "tagskip"} : q = ParserOf(next, w, e, n, u, k, v)
    <3>1. P!In(p, "0") = ParserOf("0", w, e, n, u, k, v)
      BY <1>1 DEF P!In, ParserOf
    <3> QED
      BY <1>1, <1>10, <2>1, <3>1
  <2>3. Typed(next, w, e, n, u, k, v)
    BY <1>2, <2>2 DEF Typed, States
  <2>4. Members(next, w, u, k) /\ Opened(next, w, u) = 0
    BY <2>2 DEF Members, Opened
  <2>5. Opened(s, w, u) = 0
    BY <1>10 DEF Opened
  <2>6. Opened(next, w, u) =< Opened(s, w, u) + 1
    BY <2>4, <2>5
  <2>7. SoundAfter(q, from)
    BY <1>2, <2>2, <2>3, <2>4, <2>6, Goes
  <2> QED
    BY <1>6, <2>7 DEF SoundAfter
<1>11. CASE s \in {"ent", "wordent"}
  <2>1. q = [p EXCEPT !.entity = Append(p.entity, ch)]
    BY <1>4, <1>5, <1>11
  <2>2. PICK more : more = Append(e, ch)
    OBVIOUS
  <2>3. more \in Seq(Char)
    <3>1. e \in Seq(Char)
      BY <1>2 DEF Typed
    <3> QED
      BY <2>2, <3>1, AppendProperties
  <2>4. q = ParserOf(s, w, more, n, u, k, v)
    <3>1. p.entity = e
      BY <1>1 DEF ParserOf
    <3>2. [p EXCEPT !.entity = more] = ParserOf(s, w, more, n, u, k, v)
      BY <1>1 DEF ParserOf
    <3> QED
      BY <2>1, <2>2, <3>1, <3>2
  <2>5. Typed(s, w, more, n, u, k, v)
    BY <1>2, <2>3 DEF Typed
  <2>6. Opened(s, w, u) =< Opened(s, w, u) + 1
    <3>1. Opened(s, w, u) \in Nat
      BY <1>2, OpenedNat DEF Typed
    <3> QED
      BY <3>1
  <2>7. SoundAfter(q, from)
    BY <1>2, <2>4, <2>5, <2>6, Goes
  <2> QED
    BY <1>6, <2>7 DEF SoundAfter
<1>12. CASE s = "word"
  <2>1. q = P!InWord(p, ch)
    BY <1>4, <1>5, <1>12
  <2> QED
    BY <1>1, <1>6, <1>12, <2>1, InWordSound DEF SoundAfter
<1>13. CASE s \in {"utf8", "wordutf8"}
  <2>1. q = P!InUtf8(p, ch)
    BY <1>4, <1>5, <1>13
  <2> QED
    BY <1>1, <1>6, <1>13, <2>1, InUtf8Sound DEF SoundAfter
<1> QED
  BY <1>3, <1>7, <1>8, <1>9, <1>10, <1>11, <1>12, <1>13 DEF States

-----------------------------------------------------------------------------
(* From bytes to tokens. *)

LEMMA OfToken ==
  ASSUME NEW t \in Token
  PROVE  t.bytes \in Seq(Char)
<1>1. t.bytes \in Seq(Range(t.bytes))
  BY BytesAssumption
<1>2. Range(t.bytes) \subseteq Char
  BY DEF Char
<1> QED
  BY <1>1, <1>2

LEMMA OfEntity ==
  ASSUME NEW e
  PROVE  P!Expansion(e) \in Seq(Char)
<1>1. CASE e \in DOMAIN Entity
  <2>1. Entity[e] \in Seq(Range(Entity[e]))
    BY <1>1, BytesAssumption
  <2>2. Range(Entity[e]) \subseteq Char
    BY <1>1 DEF Char
  <2>3. Entity[e] \in Seq(Char)
    BY <2>1, <2>2
  <2> QED
    BY <1>1, <2>3 DEF P!Expansion
<1>2. CASE e \notin DOMAIN Entity
  <2>1. " " \in Char
    BY DEF Char
  <2>2. <<" ">> \in Seq(Char)
    BY <2>1, OneChar
  <2> QED
    BY <1>2, <2>2 DEF P!Expansion
<1> QED
  BY <1>1, <1>2

LEMMA BytesSound ==
  ASSUME NEW from \in Int, NEW p, Sound(p, from), NEW items \in Seq(Char)
  PROVE  Sound(BytesFold(p, items), from)
<1> DEFINE W == {q \in Parsers : Sound(q, from)}
<1>1. \A q : q \in W <=> Sound(q, from)
  BY DEF Sound
<1>2. PICK n \in Nat : n = Len(items) /\ DOMAIN items = 1 .. n
  BY LenProperties
<1>3. \A i \in 1 .. n : items[i] \in Char
  BY <1>2, ElementOfSeq
<1> HIDE DEF W
<1>4. p \in W /\ \A q \in W, i \in 1 .. n : P!Byte(q, items[i]) \in W
  BY <1>1, <1>3, ByteSound
<1>5. PICK c : BytesRuns(c, n, p, items)
  BY <1>2, <1>4, BytesRun
<1>6. c[0] = p /\ BytesFold(p, items) = c[n] /\ \A i \in 1 .. n : c[i] = P!Byte(c[i - 1], items[i])
  BY <1>5 DEF BytesRuns
<1> DEFINE S == {i \in 0 .. n : c[i] \in W}
<1>7. 0 \in S
  BY <1>4, <1>6
<1>8. ASSUME NEW i \in 1 .. n, i - 1 \in S PROVE i \in S
  <2>1. c[i - 1] \in W
    BY <1>8
  <2>2. c[i] \in W
    BY <1>4, <1>6, <2>1
  <2> QED
    BY <2>2
<1>9. \A i \in 0 .. n : i \in S
  <2> HIDE DEF S
  <2> QED
    BY <1>7, <1>8, Climb
<1>10. c[n] \in W
  BY <1>9
<1> QED
  BY <1>1, <1>6, <1>10

LEMMA EndEntitySound ==
  ASSUME NEW from \in Int, NEW p, Sound(p, from), p.state \in {"ent", "wordent"}
  PROVE  Sound(P!EndEntity(p), from)
<1>1. PICK s, w, e, n, u, k, v :
        p = ParserOf(s, w, e, n, u, k, v) /\ Held(s, w, e, n, u, k, v, from)
  BY SoundParts
<1>2. /\ Typed(s, w, e, n, u, k, v) /\ Members(s, w, u, k)
      /\ from =< n - Opened(s, w, u) /\ InOrder(v, from, n - Opened(s, w, u))
  BY <1>1 DEF Held
<1>3. p.state = s /\ s \in {"ent", "wordent"}
  BY <1>1 DEF ParserOf
<1>4. PICK next : next = IF s = "ent" THEN "0" ELSE "word"
  OBVIOUS
<1>5. PICK q : q = P!In(p, next)
  OBVIOUS
<1>6. q = ParserOf(next, w, e, n, u, k, v)
  BY <1>1, <1>5 DEF P!In, ParserOf
<1>7. Typed(next, w, e, n, u, k, v)
  BY <1>2, <1>4 DEF Typed, States
<1>8. Members(next, w, u, k) /\ Opened(next, w, u) = Opened(s, w, u)
  BY <1>2, <1>3, <1>4 DEF Members, Opened
<1>9. Sound(q, from)
  BY <1>2, <1>6, <1>7, <1>8, SoundMade
<1>10. PICK items : items = P!Expansion(p.entity)
  OBVIOUS
<1>11. PICK r : r = BytesFold(q, items)
  OBVIOUS
<1>12. Sound(r, from)
  BY <1>9, <1>10, <1>11, OfEntity, BytesSound
<1>13. P!EndEntity(p) = [P!Cleared(r) EXCEPT !.pos = @ + 1]
  BY <1>3, <1>4, <1>5, <1>10, <1>11 DEF P!EndEntity, BytesFold
<1>14. PICK s2, w2, e2, n2, u2, k2, v2 :
        r = ParserOf(s2, w2, e2, n2, u2, k2, v2) /\ Held(s2, w2, e2, n2, u2, k2, v2, from)
  BY <1>12, SoundParts
<1>15. /\ Typed(s2, w2, e2, n2, u2, k2, v2) /\ Members(s2, w2, u2, k2)
       /\ from =< n2 - Opened(s2, w2, u2) /\ InOrder(v2, from, n2 - Opened(s2, w2, u2))
  BY <1>14 DEF Held
<1>16. PICK none : none = <<>> /\ none \in Seq(Char)
  BY EmptySeq
<1>17. P!Cleared(r) = ParserOf(s2, w2, none, n2, u2, k2, v2)
  BY <1>14, <1>16 DEF P!Cleared, ParserOf
<1>18. Typed(s2, w2, none, n2, u2, k2, v2)
  BY <1>15, <1>16 DEF Typed
<1>19. Opened(s2, w2, u2) =< Opened(s2, w2, u2) + 1
  <2>1. Opened(s2, w2, u2) \in Nat
    BY <1>15, OpenedNat DEF Typed
  <2> QED
    BY <2>1
<1>20. SoundAfter(P!Cleared(r), from)
  BY <1>15, <1>17, <1>18, <1>19, Goes
<1> QED
  BY <1>13, <1>20 DEF SoundAfter

LEMMA ParseSound ==
  ASSUME NEW from \in Int, NEW p, Sound(p, from), NEW ch \in Char
  PROVE  Sound(P!Parse(p, ch), from)
BY EndEntitySound, ByteSound DEF P!Parse

LEMMA ParsesSound ==
  ASSUME NEW from \in Int, NEW p, Sound(p, from), NEW items \in Seq(Char)
  PROVE  Sound(ParsesFold(p, items), from)
<1> DEFINE W == {q \in Parsers : Sound(q, from)}
<1>1. \A q : q \in W <=> Sound(q, from)
  BY DEF Sound
<1>2. PICK n \in Nat : n = Len(items) /\ DOMAIN items = 1 .. n
  BY LenProperties
<1>3. \A i \in 1 .. n : items[i] \in Char
  BY <1>2, ElementOfSeq
<1> HIDE DEF W
<1>4. p \in W /\ \A q \in W, i \in 1 .. n : P!Parse(q, items[i]) \in W
  BY <1>1, <1>3, ParseSound
<1>5. PICK c : ParsesRuns(c, n, p, items)
  BY <1>2, <1>4, ParsesRun
<1>6. c[0] = p /\ ParsesFold(p, items) = c[n]
      /\ \A i \in 1 .. n : c[i] = P!Parse(c[i - 1], items[i])
  BY <1>5 DEF ParsesRuns
<1> DEFINE S == {i \in 0 .. n : c[i] \in W}
<1>7. 0 \in S
  BY <1>4, <1>6
<1>8. ASSUME NEW i \in 1 .. n, i - 1 \in S PROVE i \in S
  <2>1. c[i - 1] \in W
    BY <1>8
  <2>2. c[i] \in W
    BY <1>4, <1>6, <2>1
  <2> QED
    BY <2>2
<1>9. \A i \in 0 .. n : i \in S
  <2> HIDE DEF S
  <2> QED
    BY <1>7, <1>8, Climb
<1>10. c[n] \in W
  BY <1>9
<1> QED
  BY <1>1, <1>6, <1>10

(* A parser whose last word may have been told before its time: what it    *)
(* has told of lies before its position.                                   *)
Near(p, from) ==
  /\ p \in Parsers
  /\ Members(p.state, p.word, p.utf8char, p.utf8counter)
  /\ from =< Start(p)
  /\ InOrder(p.events, from, p.pos)

LEMMA StartIs ==
  ASSUME NEW p \in Parsers
  PROVE  Start(p) \in Int /\ p.pos \in Int /\ Start(p) =< p.pos
<1>1. p.pos \in Int /\ p.word \in Seq(Char) /\ p.utf8char \in Seq(Char)
  BY DEF Parsers
<1>2. Opened(p.state, p.word, p.utf8char) \in Nat
  BY <1>1, OpenedNat
<1> QED
  BY <1>1, <1>2 DEF Start

LEMMA SoundNear ==
  ASSUME NEW p, NEW from \in Int, Sound(p, from)
  PROVE  Near(p, from)
<1>1. p \in Parsers /\ InOrder(p.events, from, Start(p))
  BY DEF Sound
<1>2. Start(p) \in Int /\ p.pos \in Int /\ Start(p) =< p.pos /\ p.events \in Seq(Event)
  BY <1>1, StartIs DEF Parsers
<1>3. InOrder(p.events, from, p.pos)
  BY <1>1, <1>2, InOrderLater
<1> QED
  BY <1>3 DEF Sound, Near

LEMMA EndedSound ==
  ASSUME NEW p, NEW from \in Int, Sound(p, from)
  PROVE  /\ Near(P!Ended(p), from)
         /\ p.state # "wordutf8" => Sound(P!Ended(p), from)
<1>1. PICK s, w, e, n, u, k, v :
        p = ParserOf(s, w, e, n, u, k, v) /\ Held(s, w, e, n, u, k, v, from)
  BY SoundParts
<1>2. /\ Typed(s, w, e, n, u, k, v) /\ Members(s, w, u, k)
      /\ from =< n - Opened(s, w, u) /\ InOrder(v, from, n - Opened(s, w, u))
  BY <1>1 DEF Held
<1>3. p.state = s /\ p.word = w /\ p.pos = n
  BY <1>1 DEF ParserOf
<1>4. Len(w) \in Nat /\ Len(u) \in Nat /\ n \in Int /\ v \in Seq(Event) /\ w \in Seq(Char)
  BY <1>2, OpenedNat DEF Typed
<1>5. PICK new : new = [on |-> "word", text |-> w, pos |-> n - Len(w)]
  OBVIOUS
<1>6. new \in Event /\ new.pos = n - Len(w) /\ new.text = w
  BY <1>4, <1>5 DEF Event
<1>7. PICK all : all = Append(v, new)
  OBVIOUS
<1>8. P!OnWord(p, Len(p.word)) = ParserOf(s, w, e, n, u, k, all)
  <2>1. P!OnWord(p, Len(p.word)) = P!Tell(p, "word", n - Len(w))
    BY <1>3 DEF P!OnWord, P!Began
  <2> QED
    BY <1>1, <1>5, <1>7, <2>1, TellIs
<1>9. CASE s \in {"word", "wordent", "wordutf8"}
  <2>1. PICK open \in Nat : open = Opened(s, w, u) /\ Len(w) =< open
    BY <1>4, <1>9 DEF Opened
  <2>2. /\ n - open \in Int /\ n - open =< n /\ from =< n - open
        /\ n - open =< new.pos /\ new.pos + Len(new.text) =< n
    BY <1>2, <1>4, <1>6, <2>1
  <2>3. all \in Seq(Event) /\ InOrder(all, from, n)
    BY <1>2, <1>4, <1>6, <1>7, <2>1, <2>2, InOrderTold
  <2>4. CASE s \in {"word", "wordent"}
    <3>1. P!Ended(p) = ParserOf("0", w, e, n, u, k, all)
      <4>1. P!Ended(p) = P!In(P!OnWord(p, Len(p.word)), "0")
        BY <1>3, <2>4 DEF P!Ended
      <4>2. P!In(ParserOf(s, w, e, n, u, k, all), "0") = ParserOf("0", w, e, n, u, k, all)
        BY DEF P!In, ParserOf
      <4> QED
        BY <1>8, <4>1, <4>2
    <3>2. Typed("0", w, e, n, u, k, all)
      BY <1>2, <2>3 DEF Typed, States
    <3>3. Members("0", w, u, k) /\ Opened("0", w, u) = 0
      BY DEF Members, Opened
    <3>4. from =< n - Opened("0", w, u) /\ n - Opened("0", w, u) = n
      BY <1>4, <2>2, <3>3
    <3>5. Sound(P!Ended(p), from)
      BY <2>3, <3>1, <3>2, <3>3, <3>4, SoundMade
    <3> QED
      BY <3>5, SoundNear
  <2>5. CASE s = "wordutf8"
    <3>1. PICK q : q = ParserOf(s, w, e, n, u, k, all)
      OBVIOUS
    <3>2. P!Ended(p) = q
      BY <1>3, <1>8, <2>5, <3>1 DEF P!Ended
    <3>3. /\ q.state = s /\ q.word = w /\ q.entity = e /\ q.pos = n /\ q.utf8char = u
          /\ q.utf8counter = k /\ q.events = all
      BY <3>1 DEF ParserOf
    <3>4. q \in Parsers
      <4>1. Typed(s, w, e, n, u, k, all)
        BY <1>2, <2>3 DEF Typed
      <4> QED
        BY <3>1, <4>1 DEF ParserOf, Parsers, Typed
    <3>5. Near(q, from)
      BY <1>2, <2>3, <3>3, <3>4 DEF Near, Start
    <3> QED
      BY <1>3, <2>5, <3>2, <3>5
  <2> QED
    BY <1>9, <2>4, <2>5
<1>10. CASE s \notin {"word", "wordent", "wordutf8"}
  <2>1. P!Ended(p) = p
    BY <1>3, <1>10 DEF P!Ended
  <2> QED
    BY <2>1, SoundNear
<1> QED
  BY <1>9, <1>10

(* The events have been told. *)
LEMMA Quiet ==
  ASSUME NEW q \in Parsers, Members(q.state, q.word, q.utf8char, q.utf8counter),
         NEW from \in Int, from =< Start(q)
  PROVE  /\ Sound([q EXCEPT !.events = <<>>], from)
         /\ [q EXCEPT !.events = <<>>].events = <<>>
         /\ Start([q EXCEPT !.events = <<>>]) = Start(q)
<1>1. PICK none : none = <<>>
  OBVIOUS
<1>2. PICK r : r = [q EXCEPT !.events = none]
  OBVIOUS
<1>3. r = ParserOf(q.state, q.word, q.entity, q.pos, q.utf8char, q.utf8counter, none)
  BY <1>2 DEF Parsers, ParserOf
<1>4. /\ r.state = q.state /\ r.word = q.word /\ r.pos = q.pos /\ r.utf8char = q.utf8char
      /\ r.utf8counter = q.utf8counter /\ r.events = none
  BY <1>3 DEF ParserOf
<1>5. none \in Seq(Event) /\ DOMAIN none = {}
  <2>1. <<>> \in Seq(Event)
    OBVIOUS
  <2>2. DOMAIN <<>> = {}
    OBVIOUS
  <2> QED
    BY <1>1, <2>1, <2>2
<1>6. r \in Parsers
  BY <1>3, <1>5 DEF Parsers, ParserOf
<1>7. Start(r) = Start(q)
  BY <1>4 DEF Start
<1>8. InOrder(none, from, Start(q))
  BY <1>5 DEF InOrder
<1>9. Sound(r, from)
  BY <1>4, <1>6, <1>7, <1>8 DEF Sound
<1> QED
  BY <1>1, <1>2, <1>4, <1>7, <1>9

-----------------------------------------------------------------------------
(* The indexer. *)

Tags == {<<>>} \cup DOMAIN Heading

FreshWord == [word : Seq(Char), aid : {aid}, pos : Int, weight : 0 .. 3]

Hearers == [tag : Tags, new : Seq(FreshWord)]

(* The words lie between two places, and each behind the one before. *)
WordsIn(new, from, to) ==
  /\ \A i \in DOMAIN new : from =< new[i].pos /\ new[i].pos + Len(new[i].word) =< to
  /\ \A i, j \in DOMAIN new : i < j => new[i].pos + Len(new[i].word) =< new[j].pos

(* A word is heard where the parser told it, or not at all. *)
LEMMA HearIs ==
  ASSUME NEW z \in Hearers, NEW e \in Event
  PROVE  /\ P!Hear(z, e) \in Hearers
         /\ \/ P!Hear(z, e).new = z.new
            \/ \E x \in FreshWord :
                 /\ e.on = "word" /\ x.pos = e.pos /\ x.word = e.text
                 /\ P!Hear(z, e).new = Append(z.new, x)
<1>1. e.on \in {"tag", "endtag", "word"} /\ e.text \in Seq(Char) /\ e.pos \in Int
  BY DEF Event
<1>2. z.tag \in Tags /\ z.new \in Seq(FreshWord)
  BY DEF Hearers
<1>3. CASE e.on = "tag" /\ e.text \in DOMAIN Heading
  <2>1. P!Hear(z, e) = [z EXCEPT !.tag = e.text]
    BY <1>3 DEF P!Hear
  <2>2. PICK t : t = e.text /\ t \in Tags
    BY <1>3 DEF Tags
  <2>3. [z EXCEPT !.tag = t] \in Hearers /\ [z EXCEPT !.tag = t].new = z.new
    BY <2>2 DEF Hearers
  <2> QED
    BY <2>1, <2>2, <2>3
<1>4. CASE e.on = "endtag" /\ e.text \in DOMAIN Heading
  <2>1. P!Hear(z, e) = [z EXCEPT !.tag = <<>>]
    BY <1>4 DEF P!Hear
  <2>2. PICK t : t = <<>> /\ t \in Tags
    BY DEF Tags
  <2>3. [z EXCEPT !.tag = t] \in Hearers /\ [z EXCEPT !.tag = t].new = z.new
    BY <2>2 DEF Hearers
  <2> QED
    BY <2>1, <2>2, <2>3
<1>5. CASE e.on = "word" /\ e.text \notin TrivialWords
  <2>1. P!Weight(z.tag) \in 0 .. 3
    <3>1. CASE z.tag # <<>>
      <4>1. Heading[z.tag] \in 0 .. 3
        BY <1>2, <3>1, BytesAssumption DEF Tags
      <4> QED
        BY <3>1, <4>1 DEF P!Weight
    <3>2. CASE z.tag = <<>>
      BY <3>2 DEF P!Weight
    <3> QED
      BY <3>1, <3>2
  <2>2. PICK x : x = [word |-> e.text, aid |-> aid, pos |-> e.pos, weight |-> P!Weight(z.tag)]
    OBVIOUS
  <2>3. x \in FreshWord /\ x.pos = e.pos /\ x.word = e.text
    BY <1>1, <2>1, <2>2 DEF FreshWord
  <2>4. PICK all : all = Append(z.new, x)
    OBVIOUS
  <2>5. all \in Seq(FreshWord)
    BY <1>2, <2>3, <2>4, AppendProperties
  <2>6. P!Hear(z, e) = [z EXCEPT !.new = all]
    BY <1>5, <2>2, <2>4 DEF P!Hear
  <2>7. [z EXCEPT !.new = all] \in Hearers /\ [z EXCEPT !.new = all].new = all
    BY <2>5 DEF Hearers
  <2> QED
    BY <1>5, <2>3, <2>4, <2>6, <2>7
<1>6. CASE /\ ~(e.on = "tag" /\ e.text \in DOMAIN Heading)
           /\ ~(e.on = "endtag" /\ e.text \in DOMAIN Heading)
           /\ ~(e.on = "word" /\ e.text \notin TrivialWords)
  <2>1. P!Hear(z, e) = z
    BY <1>6 DEF P!Hear
  <2> QED
    BY <2>1
<1> QED
  BY <1>3, <1>4, <1>5, <1>6

LEMMA WordsJoined ==
  ASSUME NEW S, \A y \in S : y.pos \in Int /\ Len(y.word) \in Nat,
         NEW new \in Seq(S), NEW from \in Int, NEW to \in Int,
         WordsIn(new, from, to), NEW x \in S,
         from =< x.pos, x.pos + Len(x.word) =< to,
         \A i \in DOMAIN new : new[i].pos + Len(new[i].word) =< x.pos
  PROVE  WordsIn(Append(new, x), from, to)
<1>1. PICK n \in Nat : n = Len(new) /\ DOMAIN new = 1 .. n
  BY LenProperties
<1>2. PICK all : all = Append(new, x)
  OBVIOUS
<1>3. /\ all \in Seq(S) /\ Len(all) = n + 1 /\ all[n + 1] = x
      /\ \A i \in 1 .. n : all[i] = new[i]
  BY <1>1, <1>2, AppendProperties
<1>4. DOMAIN all = 1 .. n + 1
  BY <1>3, LenProperties
<1>5. \A i \in DOMAIN all : i \in 1 .. n \/ i = n + 1
  BY <1>4
<1>6. ASSUME NEW i \in DOMAIN all
      PROVE  from =< all[i].pos /\ all[i].pos + Len(all[i].word) =< to
  BY <1>1, <1>3, <1>5 DEF WordsIn
<1>7. ASSUME NEW i \in DOMAIN all, NEW j \in DOMAIN all, i < j
      PROVE  all[i].pos + Len(all[i].word) =< all[j].pos
  <2>1. i \in 1 .. n
    BY <1>4, <1>7
  <2>2. CASE j \in 1 .. n
    <3>1. new[i].pos + Len(new[i].word) =< new[j].pos
      BY <1>1, <1>7, <2>1, <2>2 DEF WordsIn
    <3> QED
      BY <1>3, <2>1, <2>2, <3>1
  <2>3. CASE j = n + 1
    BY <1>1, <1>3, <2>1, <2>3
  <2> QED
    BY <1>5, <2>2, <2>3
<1>8. WordsIn(all, from, to)
  BY <1>6, <1>7 DEF WordsIn
<1> QED
  BY <1>2, <1>8

(* What the indexer has after so many of the events. *)
Heard(z, events, i, from, to) ==
  /\ z \in Hearers /\ WordsIn(z.new, from, to)
  /\ \A k \in DOMAIN z.new, j \in DOMAIN events :
       j > i /\ events[j].on = "word" => z.new[k].pos + Len(z.new[k].word) =< events[j].pos

LEMMA HeardMore ==
  ASSUME NEW events \in Seq(Event), NEW from \in Int, NEW to \in Int,
         InOrder(events, from, to), NEW i \in DOMAIN events,
         NEW z, Heard(z, events, i - 1, from, to)
  PROVE  Heard(P!Hear(z, events[i]), events, i, from, to)
<1>1. PICK n \in Nat : n = Len(events) /\ DOMAIN events = 1 .. n
  BY LenProperties
<1>2. z \in Hearers /\ WordsIn(z.new, from, to) /\ z.new \in Seq(FreshWord)
  BY DEF Heard, Hearers
<1>3. PICK e \in Event : e = events[i]
  BY <1>1, ElementOfSeq
<1>4. PICK y : y = P!Hear(z, e)
  OBVIOUS
<1>5. /\ y \in Hearers
      /\ \/ y.new = z.new
         \/ \E x \in FreshWord :
              e.on = "word" /\ x.pos = e.pos /\ x.word = e.text /\ y.new = Append(z.new, x)
  BY <1>2, <1>4, HearIs
<1>6. CASE y.new = z.new
  <2>1. ASSUME NEW k \in DOMAIN y.new, NEW j \in DOMAIN events, j > i, events[j].on = "word"
        PROVE  y.new[k].pos + Len(y.new[k].word) =< events[j].pos
    <3>1. j > i - 1
      BY <1>1, <2>1
    <3> QED
      BY <1>6, <2>1, <3>1 DEF Heard
  <2>2. WordsIn(y.new, from, to)
    BY <1>2, <1>6
  <2> QED
    BY <1>3, <1>4, <1>5, <2>1, <2>2 DEF Heard
<1>7. CASE \E x \in FreshWord :
             e.on = "word" /\ x.pos = e.pos /\ x.word = e.text /\ y.new = Append(z.new, x)
  <2>1. PICK x \in FreshWord :
          e.on = "word" /\ x.pos = e.pos /\ x.word = e.text /\ y.new = Append(z.new, x)
    BY <1>7
  <2>2. from =< x.pos /\ x.pos + Len(x.word) =< to
    BY <1>3, <2>1 DEF InOrder
  <2>3. \A k \in DOMAIN z.new : z.new[k].pos + Len(z.new[k].word) =< x.pos
    <3>1. i > i - 1
      BY <1>1
    <3> QED
      BY <1>3, <2>1, <3>1 DEF Heard
  <2>4. \A w \in FreshWord : w.pos \in Int /\ Len(w.word) \in Nat
    BY LenProperties DEF FreshWord
  <2>5. WordsIn(y.new, from, to)
    BY <1>2, <2>1, <2>2, <2>3, <2>4, WordsJoined
  <2>6. PICK m \in Nat : m = Len(z.new) /\ DOMAIN z.new = 1 .. m
    BY <1>2, LenProperties
  <2>7. /\ y.new \in Seq(FreshWord) /\ Len(y.new) = m + 1 /\ y.new[m + 1] = x
        /\ \A k \in 1 .. m : y.new[k] = z.new[k]
    BY <1>2, <2>1, <2>6, AppendProperties
  <2>8. DOMAIN y.new = 1 .. m + 1
    BY <2>7, LenProperties
  <2>9. ASSUME NEW k \in DOMAIN y.new, NEW j \in DOMAIN events, j > i, events[j].on = "word"
        PROVE  y.new[k].pos + Len(y.new[k].word) =< events[j].pos
    <3>1. CASE k \in 1 .. m
      <4>1. j > i - 1
        BY <1>1, <2>9
      <4>2. z.new[k].pos + Len(z.new[k].word) =< events[j].pos
        BY <2>6, <2>9, <3>1, <4>1 DEF Heard
      <4> QED
        BY <2>7, <3>1, <4>2
    <3>2. CASE k = m + 1
      <4>1. e.pos + Len(e.text) =< events[j].pos
        BY <1>3, <2>1, <2>9 DEF InOrder
      <4> QED
        BY <2>1, <2>7, <3>2, <4>1
    <3> QED
      BY <2>8, <3>1, <3>2
  <2> QED
    BY <1>3, <1>4, <1>5, <2>5, <2>9 DEF Heard
<1> QED
  BY <1>5, <1>6, <1>7

LEMMA HearsSound ==
  ASSUME NEW events \in Seq(Event), NEW from \in Int, NEW to \in Int,
         InOrder(events, from, to), NEW z, z = [tag |-> tag, new |-> <<>>], tag \in Tags
  PROVE  /\ HearsFold(z, events) \in Hearers
         /\ WordsIn(HearsFold(z, events).new, from, to)
<1>1. PICK n \in Nat : n = Len(events) /\ DOMAIN events = 1 .. n
  BY LenProperties
<1>2. \A i \in 1 .. n : events[i] \in Event
  BY <1>1, ElementOfSeq
<1>3. z \in Hearers /\ z.new = <<>>
  <2>1. PICK none : none = <<>>
    OBVIOUS
  <2>2. none \in Seq(FreshWord)
    BY <2>1
  <2> QED
    BY <2>1, <2>2 DEF Hearers
<1>4. \A y \in Hearers, i \in 1 .. n : P!Hear(y, events[i]) \in Hearers
  BY <1>2, HearIs
<1>5. PICK c : HearsRuns(c, n, z, events)
  BY <1>1, <1>3, <1>4, HearsRun
<1>6. c[0] = z /\ HearsFold(z, events) = c[n]
      /\ \A i \in 1 .. n : c[i] = P!Hear(c[i - 1], events[i])
  BY <1>5 DEF HearsRuns
<1> DEFINE S == {i \in 0 .. n : Heard(c[i], events, i, from, to)}
<1>7. 0 \in S
  <2>1. DOMAIN z.new = {}
    BY <1>3
  <2>2. WordsIn(z.new, from, to)
    BY <2>1 DEF WordsIn
  <2>3. Heard(z, events, 0, from, to)
    BY <1>3, <2>1, <2>2 DEF Heard
  <2> QED
    BY <1>6, <2>3
<1>8. ASSUME NEW i \in 1 .. n, i - 1 \in S PROVE i \in S
  <2>1. Heard(c[i - 1], events, i - 1, from, to)
    BY <1>8
  <2>2. Heard(P!Hear(c[i - 1], events[i]), events, i, from, to)
    BY <1>1, <2>1, HeardMore
  <2> QED
    BY <1>6, <2>2
<1>9. \A i \in 0 .. n : i \in S
  <2> HIDE DEF S
  <2> QED
    BY <1>7, <1>8, Climb
<1>10. Heard(c[n], events, n, from, to)
  BY <1>9
<1> QED
  BY <1>6, <1>10 DEF Heard

OwnGrow(entries, a) ==
  \A i, j \in DOMAIN entries :
    i < j /\ entries[i].aid = a /\ entries[j].aid = a =>
      entries[i].pos + Len(entries[i].word) =< entries[j].pos

OwnBehind(entries, a, to) ==
  \A i \in DOMAIN entries : entries[i].aid = a => entries[i].pos + Len(entries[i].word) =< to

(* Words behind those that are there. *)
LEMMA WordsAdded ==
  ASSUME NEW S, \A y \in S : y.pos \in Int /\ Len(y.word) \in Nat,
         NEW old \in Seq(S), NEW new \in Seq(S), NEW a, NEW from \in Int, NEW to \in Int,
         WordsIn(new, from, to), OwnGrow(old, a), OwnBehind(old, a, from), from =< to
  PROVE  OwnGrow(old \o new, a) /\ OwnBehind(old \o new, a, to)
<1>1. PICK n \in Nat : n = Len(old) /\ DOMAIN old = 1 .. n
  BY LenProperties
<1>2. PICK m \in Nat : m = Len(new) /\ DOMAIN new = 1 .. m
  BY LenProperties
<1>3. PICK all : all = old \o new
  OBVIOUS
<1>4. /\ all \in Seq(S) /\ Len(all) = n + m
      /\ \A i \in 1 .. n + m : all[i] = IF i =< n THEN old[i] ELSE new[i - n]
  BY <1>1, <1>2, <1>3, ConcatProperties
<1>5. DOMAIN all = 1 .. n + m
  BY <1>4, LenProperties
<1>6. \A i \in 1 .. n : all[i] = old[i] /\ all[i] \in S
  <2>1. \A i \in 1 .. n : old[i] \in S
    BY <1>1, ElementOfSeq
  <2> QED
    BY <1>4, <2>1
<1>7. \A i \in DOMAIN all : i \in 1 .. n \/ (i > n /\ i - n \in 1 .. m /\ all[i] = new[i - n])
  BY <1>4, <1>5
<1>8. ASSUME NEW i \in DOMAIN all, all[i].aid = a
      PROVE  all[i].pos + Len(all[i].word) =< to
  <2>1. CASE i \in 1 .. n
    <3>1. all[i].pos + Len(all[i].word) =< from
      BY <1>1, <1>6, <1>8, <2>1 DEF OwnBehind
    <3>2. all[i].pos \in Int /\ Len(all[i].word) \in Nat
      BY <1>6, <2>1
    <3> QED
      BY <3>1, <3>2
  <2>2. CASE i > n /\ i - n \in 1 .. m /\ all[i] = new[i - n]
    BY <1>2, <2>2 DEF WordsIn
  <2> QED
    BY <1>7, <2>1, <2>2
<1>9. ASSUME NEW i \in DOMAIN all, NEW j \in DOMAIN all, i < j, all[i].aid = a, all[j].aid = a
      PROVE  all[i].pos + Len(all[i].word) =< all[j].pos
  <2>1. CASE i \in 1 .. n /\ j \in 1 .. n
    BY <1>1, <1>6, <1>9, <2>1 DEF OwnGrow
  <2>2. CASE i \in 1 .. n /\ j > n /\ j - n \in 1 .. m /\ all[j] = new[j - n]
    <3>1. all[i].pos + Len(all[i].word) =< from
      BY <1>1, <1>6, <1>9, <2>2 DEF OwnBehind
    <3>2. from =< all[j].pos
      BY <1>2, <2>2 DEF WordsIn
    <3>3. all[i].pos \in Int /\ Len(all[i].word) \in Nat
      BY <1>6, <2>2
    <3>4. all[j].pos \in Int
      <4>1. new[j - n] \in S
        BY <1>2, <2>2, ElementOfSeq
      <4> QED
        BY <2>2, <4>1
    <3> QED
      BY <3>1, <3>2, <3>3, <3>4
  <2>3. CASE /\ i > n /\ i - n \in 1 .. m /\ all[i] = new[i - n]
             /\ j > n /\ j - n \in 1 .. m /\ all[j] = new[j - n]
    <3>1. i - n < j - n
      BY <1>5, <1>9
    <3> QED
      BY <1>2, <2>3, <3>1 DEF WordsIn
  <2>4. j \in 1 .. n => i \in 1 .. n
    BY <1>5, <1>9
  <2> QED
    BY <1>7, <2>1, <2>2, <2>3, <2>4
<1>10. OwnGrow(all, a) /\ OwnBehind(all, a, to)
  BY <1>8, <1>9 DEF OwnGrow, OwnBehind
<1> QED
  BY <1>3, <1>10

WordTyping ==
  /\ streams \in Seq(WordOf(Seq(Char)))
  /\ \A i \in DOMAIN streams : streams[i].pos >= 0 /\ streams[i].aid =< aid

ParserTyping ==
  /\ Sound(parser, 0) /\ parser.events = <<>>
  /\ tag \in Tags
  /\ aid \in Parsed \cup {-1} /\ stage \in {"idle", "title", "text"}
  /\ stage # "idle" => aid \in Parsed
  /\ stage = "title" => ~cut

(* The words of the article lie before the one that is open. *)
Behind ==
  stage # "idle" /\ ~cut => OwnBehind(streams, aid, Start(parser))

ParserInv == WordTyping /\ ParserTyping /\ Behind /\ PositionsGrow

LEMMA WordMembers ==
  ASSUME NEW y \in WordOf(Seq(Char))
  PROVE  /\ y.pos \in Int /\ y.word \in Seq(Char) /\ Len(y.word) \in Nat
         /\ y.aid \in Parsed /\ y.weight \in 0 .. 3
BY LenProperties DEF WordOf

LEMMA ParserSoundHolds == ParserInv => ParserSound
<1> SUFFICES ASSUME ParserInv PROVE ParserSound
  OBVIOUS
<1>1. PICK p : p = parser
  OBVIOUS
<1>2. /\ p \in Parsers /\ Members(p.state, p.word, p.utf8char, p.utf8counter)
      /\ p.events = <<>>
  BY <1>1 DEF ParserInv, ParserTyping, Sound
<1>3. p.state \in States /\ p.utf8counter \in Nat
  BY <1>2 DEF Parsers
<1>4. /\ p.state \in {"word", "wordent", "wordutf8", "tag", "utf8"} =>
           (p.word = <<>> <=> p.state = "utf8")
      /\ p.state \in {"utf8", "wordutf8"} =>
           p.utf8counter + Len(p.utf8char) = Follow[p.utf8char[1]] + 1
  BY <1>2, Zenon DEF Members
<1>5. p.utf8counter >= 0
  BY <1>3
<1>6. tag = <<>> \/ tag \in DOMAIN Heading
  BY DEF ParserInv, ParserTyping, Tags
<1>7. ASSUME NEW i \in DOMAIN streams
      PROVE  streams[i].aid \in Parsed /\ streams[i].pos >= 0 /\ streams[i].weight \in 0 .. 3
  <2>1. streams \in Seq(WordOf(Seq(Char))) /\ streams[i].pos >= 0
    BY DEF ParserInv, WordTyping
  <2>2. streams[i] \in WordOf(Seq(Char))
    BY <2>1, ElementOfSeq, LenProperties
  <2> QED
    BY <2>1, <2>2, WordMembers
<1>8. P!TypeOK
  BY <1>1, <1>2, <1>3, <1>4, <1>5, <1>6, <1>7 DEF P!TypeOK, States
<1> QED
  BY <1>8 DEF ParserInv, ParserSound

LEMMA NumberedAid == Parsed \cup {-1} \subseteq Int
<1>1. Aid \subseteq Int
  BY IndexAssumption DEF ZInt!Number
<1> QED
  BY <1>1, ParsedAssumption

(* A parser that has nothing to tell is sound from where its word begins. *)
LEMMA SoundHere ==
  ASSUME NEW p, Sound(p, 0), p.events = <<>>
  PROVE  Sound(p, Start(p)) /\ Start(p) \in Int /\ 0 =< Start(p)
<1>1. p \in Parsers /\ 0 =< Start(p)
  BY DEF Sound
<1>2. Start(p) \in Int
  BY <1>1, StartIs
<1>3. DOMAIN p.events = {}
  OBVIOUS
<1>4. InOrder(p.events, Start(p), Start(p))
  BY <1>3 DEF InOrder
<1> QED
  BY <1>1, <1>2, <1>4 DEF Sound

(* The indexer hears of it. *)
LEMMA ToldStep ==
  ASSUME WordTyping, ParserTyping, aid \in Parsed, NEW q, Near(q, Start(parser)),
         P!Told(q), aid' = aid
  PROVE  /\ WordTyping'
         /\ Sound(parser', 0) /\ parser'.events = <<>> /\ tag' \in Tags
         /\ OwnGrow(streams, aid) /\ OwnBehind(streams, aid, Start(parser)) =>
              /\ OwnGrow(streams', aid)
              /\ Sound(q, Start(parser)) => OwnBehind(streams', aid, Start(parser'))
<1>1. PICK from : from = Start(parser)
  OBVIOUS
<1>2. from \in Int /\ 0 =< from
  BY <1>1, SoundHere DEF ParserTyping
<1>3. /\ q \in Parsers /\ Members(q.state, q.word, q.utf8char, q.utf8counter)
      /\ from =< Start(q) /\ InOrder(q.events, from, q.pos)
  BY <1>1 DEF Near
<1>4. Start(q) \in Int /\ q.pos \in Int /\ q.events \in Seq(Event) /\ 0 =< Start(q)
  <2>1. Start(q) \in Int /\ q.pos \in Int /\ q.events \in Seq(Event)
    BY <1>3, StartIs DEF Parsers
  <2> QED
    BY <1>2, <1>3, <2>1
<1>5. parser' = [q EXCEPT !.events = <<>>]
  BY DEF P!Told
<1>6. Sound(parser', 0) /\ parser'.events = <<>> /\ Start(parser') = Start(q)
  BY <1>3, <1>4, <1>5, Quiet
<1>7. PICK first : first = [tag |-> tag, new |-> <<>>]
  OBVIOUS
<1>8. PICK z : z = HearsFold(first, q.events)
  OBVIOUS
<1>9. tag' = z.tag /\ streams' = streams \o z.new
  BY <1>7, <1>8 DEF P!Told, HearsFold
<1>10. tag \in Tags
  BY DEF ParserTyping
<1>11. z \in Hearers /\ WordsIn(z.new, from, q.pos)
  BY <1>2, <1>3, <1>4, <1>7, <1>8, <1>10, HearsSound
<1>12. z.tag \in Tags /\ z.new \in Seq(FreshWord)
  BY <1>11 DEF Hearers
<1>13. streams \in Seq(WordOf(Seq(Char)))
  BY DEF WordTyping
<1>14. FreshWord \subseteq WordOf(Seq(Char))
  BY DEF FreshWord, WordOf
<1>15. z.new \in Seq(WordOf(Seq(Char)))
  BY <1>12, <1>14
<1>16. PICK all : all = streams'
  OBVIOUS
<1>17. PICK n \in Nat : n = Len(streams) /\ DOMAIN streams = 1 .. n
  BY <1>13, LenProperties
<1>18. PICK m \in Nat : m = Len(z.new) /\ DOMAIN z.new = 1 .. m
  BY <1>12, LenProperties
<1>19. /\ all \in Seq(WordOf(Seq(Char))) /\ Len(all) = n + m
       /\ \A i \in 1 .. n + m : all[i] = IF i =< n THEN streams[i] ELSE z.new[i - n]
  BY <1>9, <1>13, <1>15, <1>16, <1>17, <1>18, ConcatProperties
<1>20. DOMAIN all = 1 .. n + m
  BY <1>19, LenProperties
<1>21. ASSUME NEW i \in DOMAIN all PROVE all[i].pos >= 0 /\ all[i].aid =< aid
  <2>1. CASE i =< n
    <3>1. i \in DOMAIN streams /\ all[i] = streams[i]
      BY <1>17, <1>19, <1>20, <2>1
    <3> QED
      BY <3>1 DEF WordTyping
  <2>2. CASE ~(i =< n)
    <3>1. i - n \in 1 .. m /\ all[i] = z.new[i - n]
      BY <1>19, <1>20, <2>2
    <3>2. from =< z.new[i - n].pos
      BY <1>11, <1>18, <3>1 DEF WordsIn
    <3>3. z.new[i - n] \in FreshWord
      BY <1>12, <1>18, <3>1, ElementOfSeq
    <3>4. z.new[i - n].pos \in Int /\ z.new[i - n].aid = aid
      BY <3>3 DEF FreshWord
    <3>5. aid =< aid
      BY NumberedAid
    <3>6. z.new[i - n].pos >= 0
      BY <1>2, <3>2, <3>4
    <3> QED
      BY <3>1, <3>4, <3>5, <3>6
  <2> QED
    BY <2>1, <2>2
<1>22. WordTyping'
  BY <1>16, <1>19, <1>21 DEF WordTyping
<1>23. ASSUME OwnGrow(streams, aid), OwnBehind(streams, aid, from)
       PROVE  /\ OwnGrow(all, aid)
              /\ Sound(q, from) => OwnBehind(all, aid, Start(q))
  <2>1. \A y \in WordOf(Seq(Char)) : y.pos \in Int /\ Len(y.word) \in Nat
    BY WordMembers
  <2>2. from =< q.pos
    <3>1. Start(q) =< q.pos
      BY <1>3, StartIs
    <3> QED
      BY <1>2, <1>3, <1>4, <3>1
  <2>3. OwnGrow(all, aid)
    BY <1>2, <1>4, <1>9, <1>11, <1>13, <1>15, <1>16, <1>23, <2>1, <2>2, WordsAdded
  <2>4. ASSUME Sound(q, from) PROVE OwnBehind(all, aid, Start(q))
    <3>1. InOrder(q.events, from, Start(q))
      BY <2>4 DEF Sound
    <3>2. WordsIn(z.new, from, Start(q))
      BY <1>2, <1>4, <1>7, <1>8, <1>10, <3>1, HearsSound
    <3> QED
      BY <1>2, <1>3, <1>4, <1>9, <1>13, <1>15, <1>16, <1>23, <2>1, <3>2, WordsAdded
  <2> QED
    BY <2>3, <2>4
<1> QED
  BY <1>1, <1>6, <1>9, <1>12, <1>16, <1>22, <1>23

LEMMA GrowIs ==
  PositionsGrow <=> (~cut => OwnGrow(streams, aid))
BY DEF PositionsGrow, P!PositionsGrow, OwnGrow

LEMMA NewParserSound == Sound(P!NewParser, 0) /\ P!NewParser.events = <<>>
<1>1. PICK none : none = <<>>
  OBVIOUS
<1>2. none \in Seq(Char) /\ none \in Seq(Event) /\ DOMAIN none = {}
  <2>1. <<>> \in Seq(Char) /\ <<>> \in Seq(Event)
    OBVIOUS
  <2>2. DOMAIN <<>> = {}
    OBVIOUS
  <2> QED
    BY <1>1, <2>1, <2>2
<1>3. P!NewParser = ParserOf("0", none, none, 0, none, 0, none)
  BY <1>1 DEF P!NewParser, ParserOf
<1>4. Typed("0", none, none, 0, none, 0, none)
  BY <1>2 DEF Typed, States
<1>5. Members("0", none, none, 0) /\ Opened("0", none, none) = 0
  BY DEF Members, Opened
<1>6. InOrder(none, 0, 0 - Opened("0", none, none))
  BY <1>2 DEF InOrder
<1>7. Sound(ParserOf("0", none, none, 0, none, 0, none), 0)
  BY <1>4, <1>5, <1>6, SoundMade
<1>8. P!NewParser.events = <<>>
  BY DEF P!NewParser
<1> QED
  BY <1>3, <1>7, <1>8

LEMMA ParserStart == IndexingInit => ParserInv
<1> SUFFICES ASSUME IndexingInit PROVE ParserInv
  OBVIOUS
<1>1. /\ parser = P!NewParser /\ tag = <<>> /\ aid = -1 /\ streams = <<>> /\ stage = "idle"
  BY DEF IndexingInit, P!Init
<1>2. DOMAIN streams = {} /\ streams \in Seq(WordOf(Seq(Char)))
  <2>1. DOMAIN <<>> = {}
    OBVIOUS
  <2>2. <<>> \in Seq(WordOf(Seq(Char)))
    OBVIOUS
  <2> QED
    BY <1>1, <2>1, <2>2
<1>3. Sound(parser, 0) /\ parser.events = <<>>
  BY <1>1, NewParserSound
<1>4. tag \in Tags
  BY <1>1 DEF Tags
<1>5. WordTyping
  BY <1>2 DEF WordTyping
<1>6. ParserTyping
  BY <1>1, <1>3, <1>4 DEF ParserTyping
<1>7. Behind
  BY <1>1 DEF Behind
<1>8. PositionsGrow
  BY <1>2 DEF PositionsGrow, P!PositionsGrow
<1> QED
  BY <1>5, <1>6, <1>7, <1>8 DEF ParserInv

LEMMA ProcessStep == ParserInv /\ P!Process => ParserInv'
<1> SUFFICES ASSUME ParserInv, P!Process PROVE ParserInv'
  OBVIOUS
<1>1. WordTyping /\ ParserTyping
  BY DEF ParserInv
<1>2. PICK a \in Parsed : a > aid /\ aid' = a
  BY DEF P!Process
<1>3. /\ parser' = P!NewParser /\ stage' = "title" /\ ~cut' /\ tag' = tag /\ streams' = streams
  BY DEF P!Process
<1>4. aid \in Int /\ a \in Int
  BY <1>1, NumberedAid DEF ParserTyping
<1>5. ASSUME NEW i \in DOMAIN streams
      PROVE  streams[i].pos >= 0 /\ streams[i].aid =< a /\ streams[i].aid # a
  <2>1. streams[i] \in WordOf(Seq(Char))
    BY <1>1, ElementOfSeq, LenProperties DEF WordTyping
  <2>2. streams[i].aid \in Int
    BY <2>1, WordMembers, NumberedAid
  <2>3. streams[i].pos >= 0 /\ streams[i].aid =< aid
    BY <1>1 DEF WordTyping
  <2> QED
    BY <1>2, <1>4, <2>2, <2>3
<1>6. WordTyping'
  BY <1>1, <1>2, <1>3, <1>5 DEF WordTyping
<1>7. Sound(parser', 0) /\ parser'.events = <<>>
  BY <1>3, NewParserSound
<1>8. ParserTyping'
  BY <1>1, <1>2, <1>3, <1>7 DEF ParserTyping
<1>9. Behind'
  BY <1>2, <1>3, <1>5 DEF Behind, OwnBehind
<1>10. PositionsGrow'
  BY <1>2, <1>3, <1>5 DEF PositionsGrow, P!PositionsGrow
<1> QED
  BY <1>6, <1>8, <1>9, <1>10 DEF ParserInv

LEMMA ParseTokenStep == ParserInv /\ P!ParseToken => ParserInv'
<1> SUFFICES ASSUME ParserInv, P!ParseToken PROVE ParserInv'
  OBVIOUS
<1>1. WordTyping /\ ParserTyping /\ Behind /\ PositionsGrow
  BY DEF ParserInv
<1>2. stage \in {"title", "text"} /\ aid' = aid /\ stage' = stage /\ cut' = cut
  BY DEF P!ParseToken
<1>3. PICK t \in Token : P!Told(ParsesFold(parser, t.bytes))
  BY DEF P!ParseToken, ParsesFold
<1>4. PICK q : q = ParsesFold(parser, t.bytes)
  OBVIOUS
<1>5. Sound(parser, Start(parser)) /\ Start(parser) \in Int
  BY <1>1, SoundHere DEF ParserTyping
<1>6. Sound(q, Start(parser)) /\ Near(q, Start(parser))
  BY <1>4, <1>5, OfToken, ParsesSound, SoundNear
<1>7. aid \in Parsed
  BY <1>1, <1>2 DEF ParserTyping
<1>8. /\ WordTyping'
      /\ Sound(parser', 0) /\ parser'.events = <<>> /\ tag' \in Tags
      /\ OwnGrow(streams, aid) /\ OwnBehind(streams, aid, Start(parser)) =>
           OwnGrow(streams', aid) /\ OwnBehind(streams', aid, Start(parser'))
  BY <1>1, <1>2, <1>3, <1>4, <1>6, <1>7, ToldStep
<1>9. ParserTyping'
  BY <1>1, <1>2, <1>7, <1>8 DEF ParserTyping
<1>10. ~cut => OwnGrow(streams', aid) /\ OwnBehind(streams', aid, Start(parser'))
  BY <1>1, <1>2, <1>8, GrowIs DEF Behind
<1>11. Behind'
  BY <1>2, <1>10 DEF Behind
<1>12. PositionsGrow'
  BY <1>2, <1>10 DEF PositionsGrow, P!PositionsGrow, OwnGrow
<1> QED
  BY <1>8, <1>9, <1>11, <1>12 DEF ParserInv

LEMMA EndTitleStep == ParserInv /\ P!EndTitle => ParserInv'
<1> SUFFICES ASSUME ParserInv, P!EndTitle PROVE ParserInv'
  OBVIOUS
<1>1. WordTyping /\ ParserTyping /\ Behind /\ PositionsGrow
  BY DEF ParserInv
<1>2. /\ stage = "title" /\ aid' = aid /\ stage' = "text"
      /\ cut' <=> parser.state = "wordutf8"
  BY DEF P!EndTitle
<1>3. PICK q : q = P!Ended(parser)
  OBVIOUS
<1>4. P!Told(q)
  BY <1>3 DEF P!EndTitle
<1>5. Sound(parser, Start(parser)) /\ Start(parser) \in Int
  BY <1>1, SoundHere DEF ParserTyping
<1>6. Near(q, Start(parser)) /\ (~cut' => Sound(q, Start(parser)))
  BY <1>2, <1>3, <1>5, EndedSound
<1>7. aid \in Parsed /\ ~cut
  BY <1>1, <1>2 DEF ParserTyping
<1>8. /\ WordTyping'
      /\ Sound(parser', 0) /\ parser'.events = <<>> /\ tag' \in Tags
      /\ OwnGrow(streams, aid) /\ OwnBehind(streams, aid, Start(parser)) =>
           /\ OwnGrow(streams', aid)
           /\ ~cut' => OwnBehind(streams', aid, Start(parser'))
  BY <1>1, <1>2, <1>4, <1>6, <1>7, ToldStep
<1>9. ParserTyping'
  BY <1>1, <1>2, <1>7, <1>8 DEF ParserTyping
<1>10. OwnGrow(streams', aid) /\ (~cut' => OwnBehind(streams', aid, Start(parser')))
  BY <1>1, <1>2, <1>7, <1>8, GrowIs DEF Behind
<1>11. Behind'
  BY <1>2, <1>10 DEF Behind
<1>12. PositionsGrow'
  BY <1>2, <1>10 DEF PositionsGrow, P!PositionsGrow, OwnGrow
<1> QED
  BY <1>8, <1>9, <1>11, <1>12 DEF ParserInv

LEMMA EndTextStep == ParserInv /\ P!EndText => ParserInv'
<1> SUFFICES ASSUME ParserInv, P!EndText PROVE ParserInv'
  OBVIOUS
<1>1. WordTyping /\ ParserTyping /\ Behind /\ PositionsGrow
  BY DEF ParserInv
<1>2. stage = "text" /\ aid' = aid /\ stage' = "idle" /\ cut' = cut
  BY DEF P!EndText
<1>3. PICK q : q = P!Ended(parser)
  OBVIOUS
<1>4. P!Told(q)
  BY <1>3 DEF P!EndText
<1>5. Sound(parser, Start(parser)) /\ Start(parser) \in Int
  BY <1>1, SoundHere DEF ParserTyping
<1>6. Near(q, Start(parser))
  BY <1>3, <1>5, EndedSound
<1>7. aid \in Parsed
  BY <1>1, <1>2 DEF ParserTyping
<1>8. /\ WordTyping'
      /\ Sound(parser', 0) /\ parser'.events = <<>> /\ tag' \in Tags
      /\ OwnGrow(streams, aid) /\ OwnBehind(streams, aid, Start(parser)) =>
           OwnGrow(streams', aid)
  BY <1>1, <1>2, <1>4, <1>6, <1>7, ToldStep
<1>9. ParserTyping'
  BY <1>1, <1>2, <1>7, <1>8 DEF ParserTyping
<1>10. ~cut => OwnGrow(streams', aid)
  BY <1>1, <1>2, <1>8, GrowIs DEF Behind
<1>11. Behind'
  BY <1>2 DEF Behind
<1>12. PositionsGrow'
  BY <1>2, <1>10 DEF PositionsGrow, P!PositionsGrow, OwnGrow
<1> QED
  BY <1>8, <1>9, <1>11, <1>12 DEF ParserInv

LEMMA ParserStutter == ParserInv /\ UNCHANGED articleVars => ParserInv'
<1> SUFFICES ASSUME ParserInv, UNCHANGED articleVars PROVE ParserInv'
  OBVIOUS
<1>1. /\ parser' = parser /\ tag' = tag /\ aid' = aid /\ streams' = streams
      /\ stage' = stage /\ cut' = cut
  BY DEF articleVars
<1>2. WordTyping'
  BY <1>1 DEF ParserInv, WordTyping
<1>3. ParserTyping'
  BY <1>1 DEF ParserInv, ParserTyping
<1>4. Behind'
  BY <1>1 DEF ParserInv, Behind
<1>5. PositionsGrow'
  BY <1>1 DEF ParserInv, PositionsGrow, P!PositionsGrow
<1> QED
  BY <1>2, <1>3, <1>4, <1>5 DEF ParserInv

-----------------------------------------------------------------------------
(* Indexing. *)

(* What each step keeps: the members of the parser and the words it has    *)
(* told of, and what the readers have of the blocks that are there.        *)
IndexingInv == ParserInv /\ ReadersInv

LEMMA IndexingStart == IndexingInit => IndexingInv
BY ParserStart, ReadersStart DEF IndexingInit, IndexingInv

LEMMA IndexingStep == IndexingInv /\ [IndexingNext]_indexingVars => IndexingInv'
<1> SUFFICES ASSUME IndexingInv, [IndexingNext]_indexingVars PROVE IndexingInv'
  OBVIOUS
<1>1. ParserInv /\ ReadersInv
  BY DEF IndexingInv
<1>2. CASE ParseArticles
  <2>1. P!Next /\ UNCHANGED vars
    BY <1>2 DEF ParseArticles
  <2>2. ParserInv'
    BY <1>1, <2>1, ProcessStep, ParseTokenStep, EndTitleStep, EndTextStep DEF P!Next
  <2> QED
    BY <1>1, <2>1, <2>2, ReadersStutter DEF IndexingInv
<1>3. CASE OtherArticles
  <2>1. InsertWord /\ UNCHANGED articleVars
    BY <1>3 DEF OtherArticles
  <2> QED
    BY <1>1, <2>1, InsertWordStep, ParserStutter DEF IndexingInv
<1>4. CASE TakeWord
  <2>1. streams \in Seq(WordOf(Seq(Char)))
    BY <1>1 DEF ParserInv, WordTyping
  <2>2. ReadersInv'
    BY <1>1, <1>4, <2>1, TakeWordStep
  <2>3. UNCHANGED articleVars
    BY <1>4 DEF TakeWord, articleVars
  <2> QED
    BY <1>1, <2>2, <2>3, ParserStutter DEF IndexingInv
<1>5. CASE Unpack
  <2>1. (FetchData \/ ReadCategory \/ SkipCategory) /\ UNCHANGED articleVars
    BY <1>5 DEF Unpack
  <2>2. ReadersInv'
    BY <1>1, <2>1, FetchDataStep, ReadCategoryStep, SkipCategoryStep
  <2> QED
    BY <1>1, <2>1, <2>2, ParserStutter DEF IndexingInv
<1>6. CASE UNCHANGED indexingVars
  <2>1. UNCHANGED vars /\ UNCHANGED articleVars
    BY <1>6 DEF indexingVars
  <2> QED
    BY <1>1, <2>1, ReadersStutter, ParserStutter DEF IndexingInv
<1> QED
  BY <1>2, <1>3, <1>4, <1>5, <1>6 DEF IndexingNext

LEMMA IndexingInvariant == IndexingSpec => []IndexingInv
<1>1. IndexingInit => IndexingInv
  BY IndexingStart
<1>2. IndexingInv /\ [IndexingNext]_indexingVars => IndexingInv'
  BY IndexingStep
<1> QED
  BY <1>1, <1>2, PTL DEF IndexingSpec

(* Whatever bytes the titles and texts of articles are made of, broken     *)
(* entities, tags and characters among them: the members of ArticleParser  *)
(* are what its states rely on, Zimindexer keeps words with an article, a  *)
(* place and a weight, and no word of an article begins before the end of  *)
(* the one before it, unless the title ends inside of a character.         *)
THEOREM ParserSafe == IndexingSpec => []ParserSound
<1>1. IndexingInv => ParserSound
  BY ParserSoundHolds DEF IndexingInv
<1> QED
  BY <1>1, IndexingInvariant, PTL

(* Of any word, IndexArticle and zimDump read the blocks that Indexer      *)
(* packed, each where it begins: the search gets the articles the word     *)
(* occurs in with their weights, and the dump has their positions.         *)
THEOREM ReadersSafe == IndexingSpec => []ReadersRight
<1>1. IndexingInv => ReadersRight
  BY ReadersRightHolds DEF IndexingInv
<1> QED
  BY <1>1, IndexingInvariant, PTL
=============================================================================
