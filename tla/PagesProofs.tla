---------------------------- MODULE PagesProofs ----------------------------
(***************************************************************************)
(* Proofs about Pages and its TemplateParser, for any files, templates of  *)
(* any length and any limit of the recursion: parsers lose no text.        *)
(***************************************************************************)
EXTENDS Pages, SequenceTheorems, WellFoundedInduction, TLAPS

-----------------------------------------------------------------------------
(* What a parser is in each of its states: where the < of what may be a    *)
(* token or link is, and what follows it.                                  *)

Calls ==
  {[on |-> "nothing"]} \cup [on : {"token"}, token : Seq(Byte)]
    \cup [on : {"link"}, ns : Byte, url : Seq(Byte)]

Parser ==
  [state : {"data", "lt", "token0", "token", "token_end", "link0", "link", "title", "title_end"},
   data : Seq(Byte), save : Nat, token : Nat, token_e : Nat, ns : Byte,
   text : Seq(Byte), calls : Calls]

InLinks == {"link0", "link", "title", "title_end"}

Shape(p, dropped) ==
  LET n == Len(p.data)
  IN /\ p.state # "data" => p.save < n /\ p.data[p.save + 1] = "<"
     /\ p.state \notin {"data", "lt"} => p.save + 2 =< n /\ p.data[p.save + 2] = "%"
     /\ p.state = "lt" => n = p.save + 1
     /\ p.state = "token0" => n = p.save + 2
     /\ p.state = "token" => p.token = p.save + 2 /\ p.token < n
     /\ p.state = "token_end" => p.token = p.save + 2 /\ p.token < n - 1 /\ p.data[n] = "%"
     /\ p.state \in InLinks => p.save + 3 =< n /\ p.data[p.save + 3] = "/"
     /\ p.state = "link0" => n = p.save + 3
     /\ p.state = "link" => n = p.save + 4 /\ p.data[p.save + 4] = p.ns
     /\ p.state \in {"title", "title_end"} =>
          /\ p.token = p.save + 5 /\ p.token =< n
          /\ p.data[p.save + 4] = p.ns /\ p.data[p.save + 5] = "/"
     /\ p.state = "title_end" =>
          /\ p.token_e \in p.token .. n - 1 /\ p.data[p.token_e + 1] = "%"
          /\ ~dropped => p.token_e = n - 1

-----------------------------------------------------------------------------
(* Text taken apart at a token or a link, and put together again. *)

LEMMA PartOfText ==
  ASSUME NEW text \in Seq(Byte), NEW m \in 1 .. Len(text) + 1, NEW n \in 0 .. Len(text)
  PROVE  /\ SubSeq(text, m, n) \in Seq(Byte)
         /\ Len(SubSeq(text, m, n)) = IF m =< n THEN n - m + 1 ELSE 0
         /\ \A i \in 1 .. n - m + 1 : SubSeq(text, m, n)[i] = text[m + i - 1]
<1>1. \A i \in m .. n : text[i] \in Byte
  OBVIOUS
<1> QED
  BY <1>1, SubSeqProperties

LEMMA Joined ==
  ASSUME NEW s \in Seq(Byte), NEW t \in Seq(Byte)
  PROVE  /\ s \o t \in Seq(Byte) /\ Len(s \o t) = Len(s) + Len(t)
         /\ Len(s) \in Nat /\ Len(t) \in Nat
         /\ \A i \in 1 .. Len(s) : (s \o t)[i] = s[i]
         /\ \A i \in 1 .. Len(t) : (s \o t)[Len(s) + i] = t[i]
<1> DEFINE u == s \o t
<1>1. /\ u \in Seq(Byte) /\ Len(u) = Len(s) + Len(t)
      /\ \A i \in 1 .. Len(s) + Len(t) : u[i] = IF i <= Len(s) THEN s[i] ELSE t[i - Len(s)]
  BY ConcatProperties
<1>2. Len(s) \in Nat /\ Len(t) \in Nat
  OBVIOUS
<1> HIDE DEF u
<1>3. ASSUME NEW i \in 1 .. Len(t) PROVE u[Len(s) + i] = t[i]
  <2>1. PICK j : j = Len(s) + i
    OBVIOUS
  <2>2. j \in 1 .. Len(s) + Len(t) /\ ~(j <= Len(s)) /\ j - Len(s) = i
    BY <1>2, <2>1
  <2>3. u[j] = t[j - Len(s)]
    BY <1>1, <2>2
  <2> QED
    BY <2>1, <2>2, <2>3
<1>4. \A i \in 1 .. Len(s) : u[i] = s[i]
  BY <1>1, <1>2
<1> QED
  BY <1>1, <1>2, <1>3, <1>4 DEF u

(* Four pieces that spell a text. *)
LEMMA Spelled ==
  ASSUME NEW text \in Seq(Byte), NEW a \in Seq(Byte), NEW b \in Seq(Byte),
         NEW c \in Seq(Byte), NEW e \in Seq(Byte),
         Len(text) = Len(a) + Len(b) + Len(c) + Len(e),
         \A i \in 1 .. Len(a) : text[i] = a[i],
         \A i \in 1 .. Len(b) : text[Len(a) + i] = b[i],
         \A i \in 1 .. Len(c) : text[Len(a) + Len(b) + i] = c[i],
         \A i \in 1 .. Len(e) : text[Len(a) + Len(b) + Len(c) + i] = e[i]
  PROVE  /\ a \o (b \o c \o e) = text
         /\ a \o (b \o c \o e) \in Seq(Byte)
<1> DEFINE bc == b \o c
           bce == bc \o e
           all == a \o bce
<1>1. /\ bc \in Seq(Byte) /\ Len(bc) = Len(b) + Len(c)
      /\ \A i \in 1 .. Len(b) : bc[i] = b[i]
      /\ \A i \in 1 .. Len(c) : bc[Len(b) + i] = c[i]
  BY Joined
<1> HIDE DEF bc
<1>2. /\ bce \in Seq(Byte) /\ Len(bce) = Len(bc) + Len(e)
      /\ \A i \in 1 .. Len(bc) : bce[i] = bc[i]
      /\ \A i \in 1 .. Len(e) : bce[Len(bc) + i] = e[i]
  <2>1. bc \in Seq(Byte)
    BY <1>1
  <2> QED
    BY <2>1, Joined
<1> HIDE DEF bce
<1>3. /\ all \in Seq(Byte) /\ Len(all) = Len(a) + Len(bce)
      /\ \A i \in 1 .. Len(a) : all[i] = a[i]
      /\ \A i \in 1 .. Len(bce) : all[Len(a) + i] = bce[i]
  <2>1. bce \in Seq(Byte)
    BY <1>2
  <2> QED
    BY <2>1, Joined
<1> HIDE DEF all
<1>4. Len(a) \in Nat /\ Len(b) \in Nat /\ Len(c) \in Nat /\ Len(e) \in Nat
  OBVIOUS
<1>5. /\ Len(bc) = Len(b) + Len(c) /\ Len(bce) = Len(b) + Len(c) + Len(e)
      /\ Len(all) = Len(text)
  BY <1>1, <1>2, <1>3, <1>4
<1>6. ASSUME NEW i \in 1 .. Len(text) PROVE all[i] = text[i]
  <2>1. CASE i =< Len(a)
    BY <1>3, <1>4, <2>1
  <2>2. CASE i > Len(a)
    <3>1. PICK j : j = i - Len(a)
      OBVIOUS
    <3>2. j \in 1 .. Len(bce) /\ i = Len(a) + j
      BY <1>4, <1>5, <2>2, <3>1
    <3>3. all[i] = bce[j]
      BY <1>3, <3>2
    <3>4. CASE j =< Len(b)
      <4>1. j \in 1 .. Len(b) /\ j \in 1 .. Len(bc)
        BY <1>4, <1>5, <3>2, <3>4
      <4> QED
        BY <1>1, <1>2, <3>2, <3>3, <4>1
    <3>5. CASE j > Len(b)
      <4>1. PICK k : k = j - Len(b)
        OBVIOUS
      <4>2. k \in 1 .. Len(c) + Len(e) /\ j = Len(b) + k /\ i = Len(a) + Len(b) + k
        BY <1>4, <1>5, <3>2, <3>5, <4>1
      <4>3. CASE k =< Len(c)
        <5>1. k \in 1 .. Len(c) /\ j \in 1 .. Len(bc)
          BY <1>4, <1>5, <4>2, <4>3
        <5>2. bce[j] = bc[j] /\ bc[j] = c[k]
          BY <1>1, <1>2, <4>2, <5>1
        <5> QED
          BY <3>3, <4>2, <5>1, <5>2
      <4>4. CASE k > Len(c)
        <5>1. PICK l : l = k - Len(c)
          OBVIOUS
        <5>2. /\ l \in 1 .. Len(e) /\ j = Len(bc) + l
              /\ i = Len(a) + Len(b) + Len(c) + l
          BY <1>4, <1>5, <4>2, <4>4, <5>1
        <5>3. bce[j] = e[l]
          BY <1>2, <5>2
        <5> QED
          BY <3>3, <5>2, <5>3
      <4> QED
        BY <1>4, <4>2, <4>3, <4>4
    <3> QED
      BY <1>4, <3>2, <3>4, <3>5
  <2> QED
    BY <1>4, <2>1, <2>2
<1>7. all = text
  BY <1>3, <1>5, <1>6, SeqEqual
<1> QED
  BY <1>3, <1>7 DEF all, bce, bc

LEMMA Characters ==
  /\ <<"<", "%">> \in Seq(Byte) /\ <<"%", ">">> \in Seq(Byte)
  /\ Len(<<"<", "%">>) = 2 /\ Len(<<"%", ">">>) = 2
  /\ \A ns \in Byte : /\ <<"<", "%", "/", ns, "/">> \in Seq(Byte)
                        /\ Len(<<"<", "%", "/", ns, "/">>) = 5
<1>1. "<" \in Byte /\ "%" \in Byte /\ ">" \in Byte /\ "/" \in Byte
  BY PagesAssumption
<1> QED
  BY <1>1

LEMMA TokenSpelled ==
  ASSUME NEW text \in Seq(Byte), NEW s \in Nat, s + 3 < Len(text),
         text[s + 1] = "<", text[s + 2] = "%", text[Len(text)] = "%"
  PROVE  LET told == SubSeq(text, 1, s)
                       \o (<<"<", "%">> \o SubSeq(text, s + 3, Len(text) - 1) \o <<"%", ">">>)
         IN told = Append(text, ">") /\ told \in Seq(Byte)
<1> DEFINE n == Len(text)
           all == Append(text, ">")
           a == SubSeq(text, 1, s)
           b == <<"<", "%">>
           c == SubSeq(text, s + 3, n - 1)
           e == <<"%", ">">>
<1>1. n \in Nat /\ s \in 0 .. n /\ s + 3 \in 1 .. n + 1 /\ n - 1 \in 0 .. n /\ 1 \in 1 .. n + 1
  OBVIOUS
<1>2. /\ all \in Seq(Byte) /\ Len(all) = n + 1 /\ all[n + 1] = ">"
      /\ \A i \in 1 .. n : all[i] = text[i]
  <2>1. ">" \in Byte
    BY PagesAssumption
  <2> QED
    BY <2>1, AppendProperties
<1>3. /\ a \in Seq(Byte) /\ Len(a) = IF 1 =< s THEN s - 1 + 1 ELSE 0
      /\ \A i \in 1 .. s - 1 + 1 : a[i] = text[1 + i - 1]
  BY <1>1, PartOfText
<1>4. /\ c \in Seq(Byte) /\ Len(c) = IF s + 3 =< n - 1 THEN (n - 1) - (s + 3) + 1 ELSE 0
      /\ \A i \in 1 .. (n - 1) - (s + 3) + 1 : c[i] = text[s + 3 + i - 1]
  BY <1>1, PartOfText
<1>5. /\ b \in Seq(Byte) /\ Len(b) = 2 /\ b[1] = "<" /\ b[2] = "%"
      /\ e \in Seq(Byte) /\ Len(e) = 2 /\ e[1] = "%" /\ e[2] = ">"
  BY Characters
<1> HIDE DEF all, a, b, c, e
<1>6. Len(a) = s /\ Len(c) = n - s - 3
  BY <1>1, <1>3, <1>4
<1>7. Len(all) = Len(a) + Len(b) + Len(c) + Len(e)
  BY <1>1, <1>2, <1>5, <1>6
<1>8. ASSUME NEW i \in 1 .. Len(a) PROVE all[i] = a[i]
  <2>1. i \in 1 .. n /\ i \in 1 .. s - 1 + 1 /\ 1 + i - 1 = i
    BY <1>1, <1>6
  <2> QED
    BY <1>2, <1>3, <2>1
<1>9. ASSUME NEW i \in 1 .. Len(b) PROVE all[Len(a) + i] = b[i]
  <2>1. s + 1 \in 1 .. n /\ s + 2 \in 1 .. n /\ (i = 1 \/ i = 2)
    BY <1>1, <1>5
  <2> QED
    BY <1>2, <1>5, <1>6, <2>1
<1>10. ASSUME NEW i \in 1 .. Len(c) PROVE all[Len(a) + Len(b) + i] = c[i]
  <2>1. PICK j : j = s + 2 + i
    OBVIOUS
  <2>2. j \in 1 .. n /\ j = s + 3 + i - 1 /\ j = Len(a) + Len(b) + i
    BY <1>1, <1>5, <1>6, <2>1
  <2>3. c[i] = text[s + 3 + i - 1]
    BY <1>1, <1>4, <1>6
  <2> QED
    BY <1>2, <2>2, <2>3
<1>11. ASSUME NEW i \in 1 .. Len(e) PROVE all[Len(a) + Len(b) + Len(c) + i] = e[i]
  <2>1. PICK j : j = n - 1 + i
    OBVIOUS
  <2>2. j = Len(a) + Len(b) + Len(c) + i
    BY <1>1, <1>5, <1>6, <2>1
  <2>3. all[n] = "%" /\ all[n + 1] = ">"
    BY <1>1, <1>2
  <2>4. \/ i = 1 /\ j = n
        \/ i = 2 /\ j = n + 1
    BY <1>1, <1>5, <2>1
  <2> QED
    BY <1>5, <2>2, <2>3, <2>4
<1>12. a \o (b \o c \o e) = all /\ a \o (b \o c \o e) \in Seq(Byte)
  <2>1. /\ a \in Seq(Byte) /\ b \in Seq(Byte) /\ c \in Seq(Byte)
        /\ e \in Seq(Byte) /\ all \in Seq(Byte)
    BY <1>2, <1>3, <1>4, <1>5
  <2> QED
    BY <1>7, <1>8, <1>9, <1>10, <1>11, <2>1, Spelled
<1> QED
  BY <1>12 DEF all, a, b, c, e

LEMMA LinkSpelled ==
  ASSUME NEW text \in Seq(Byte), NEW s \in Nat, s + 5 < Len(text), NEW ns \in Byte,
         text[s + 1] = "<", text[s + 2] = "%", text[s + 3] = "/", text[s + 4] = ns,
         text[s + 5] = "/", text[Len(text)] = "%"
  PROVE  LET all == Append(text, ">")
             told == SubSeq(all, 1, s)
                       \o (<<"<", "%", "/", ns, "/">> \o SubSeq(all, s + 6, Len(text) - 1)
                             \o <<"%", ">">>)
         IN told = all /\ told \in Seq(Byte)
<1> DEFINE n == Len(text)
           all == Append(text, ">")
           a == SubSeq(all, 1, s)
           b == <<"<", "%", "/", ns, "/">>
           c == SubSeq(all, s + 6, n - 1)
           e == <<"%", ">">>
<1>1. n \in Nat
  OBVIOUS
<1>2. /\ all \in Seq(Byte) /\ Len(all) = n + 1 /\ all[n + 1] = ">"
      /\ \A i \in 1 .. n : all[i] = text[i]
  <2>1. ">" \in Byte
    BY PagesAssumption
  <2> QED
    BY <2>1, AppendProperties
<1> HIDE DEF all
<1>3. /\ a \in Seq(Byte) /\ Len(a) = IF 1 =< s THEN s - 1 + 1 ELSE 0
      /\ \A i \in 1 .. s - 1 + 1 : a[i] = all[1 + i - 1]
  <2>1. s \in 0 .. Len(all) /\ 1 \in 1 .. Len(all) + 1 /\ all \in Seq(Byte)
    BY <1>1, <1>2
  <2> QED
    BY <2>1, PartOfText
<1>4. /\ c \in Seq(Byte) /\ Len(c) = IF s + 6 =< n - 1 THEN (n - 1) - (s + 6) + 1 ELSE 0
      /\ \A i \in 1 .. (n - 1) - (s + 6) + 1 : c[i] = all[s + 6 + i - 1]
  <2>1. s + 6 \in 1 .. Len(all) + 1 /\ n - 1 \in 0 .. Len(all) /\ all \in Seq(Byte)
    BY <1>1, <1>2
  <2> QED
    BY <2>1, PartOfText
<1>5. /\ b \in Seq(Byte) /\ Len(b) = 5
      /\ b[1] = "<" /\ b[2] = "%" /\ b[3] = "/" /\ b[4] = ns /\ b[5] = "/"
      /\ e \in Seq(Byte) /\ Len(e) = 2 /\ e[1] = "%" /\ e[2] = ">"
  BY Characters
<1> HIDE DEF a, b, c, e
<1>6. Len(a) = s /\ Len(c) = n - s - 6
  BY <1>1, <1>3, <1>4
<1>7. Len(all) = Len(a) + Len(b) + Len(c) + Len(e)
  BY <1>1, <1>2, <1>5, <1>6
<1>8. \A i \in 1 .. Len(a) : all[i] = a[i]
  BY <1>1, <1>3, <1>6
<1>9. \A i \in 1 .. Len(b) : all[Len(a) + i] = b[i]
  <2>1. \A i \in 1 .. 5 : all[s + i] = text[s + i]
    BY <1>1, <1>2
  <2>2. \A i \in 1 .. 5 : i = 1 \/ i = 2 \/ i = 3 \/ i = 4 \/ i = 5
    OBVIOUS
  <2> QED
    BY SMTT(40), <1>5, <1>6, <2>1, <2>2
<1>10. ASSUME NEW i \in 1 .. Len(c) PROVE all[Len(a) + Len(b) + i] = c[i]
  <2>1. PICK j : j = s + 5 + i
    OBVIOUS
  <2>2. j \in 1 .. n /\ j = s + 6 + i - 1 /\ j = Len(a) + Len(b) + i
    BY <1>1, <1>5, <1>6, <2>1
  <2>3. c[i] = all[s + 6 + i - 1]
    BY <1>1, <1>4, <1>6
  <2> QED
    BY <2>2, <2>3
<1>11. ASSUME NEW i \in 1 .. Len(e) PROVE all[Len(a) + Len(b) + Len(c) + i] = e[i]
  <2>1. PICK j : j = n - 1 + i
    OBVIOUS
  <2>2. j = Len(a) + Len(b) + Len(c) + i
    BY <1>1, <1>5, <1>6, <2>1
  <2>3. all[n] = "%" /\ all[n + 1] = ">"
    BY SMTT(40), <1>1, <1>2
  <2>4. \/ i = 1 /\ j = n
        \/ i = 2 /\ j = n + 1
    BY <1>1, <1>5, <2>1
  <2> QED
    BY <1>5, <2>2, <2>3, <2>4
<1>12. a \o (b \o c \o e) = all /\ a \o (b \o c \o e) \in Seq(Byte)
  <2>1. /\ a \in Seq(Byte) /\ b \in Seq(Byte) /\ c \in Seq(Byte)
        /\ e \in Seq(Byte) /\ all \in Seq(Byte)
    BY <1>2, <1>3, <1>4, <1>5
  <2> QED
    BY <1>7, <1>8, <1>9, <1>10, <1>11, <2>1, Spelled
<1> QED
  BY <1>12 DEF all, a, b, c, e

-----------------------------------------------------------------------------
(* The bytes of an article.  Joining its pieces is a recursive definition; *)
(* a set of numbers without a least one is empty, which does for induction.*)

LEMMA Least ==
  ASSUME NEW S, S \subseteq Nat, S # {}
  PROVE  \E n \in S : \A m \in S : n =< m
<1> DEFINE R == {ss \in Nat \X Nat : ss[1] < ss[2]}
<1>1. IsWellFoundedOn(R, Nat)
  BY NatLessThanWellFounded DEF OpToRel
<1>2. \A x, y \in Nat : <<x, y>> \in R <=> x < y
  OBVIOUS
<1> HIDE DEF R
<1>3. \E x \in S : \A y \in S : <<y, x>> \notin R
  BY <1>1, WFMin, Zenon
<1>4. PICK x \in S : \A y \in S : <<y, x>> \notin R
  BY <1>3
<1>5. ASSUME NEW y \in S PROVE x =< y
  <2>1. x \in Nat /\ y \in Nat /\ ~(y < x)
    BY <1>2, <1>4
  <2> QED
    BY <2>1
<1> QED
  BY <1>5

JoinsUpTo(texts, n, f) ==
  /\ f \in [1 .. n -> Seq(Byte)]
  /\ \A i \in 1 .. n : f[i] = IF i = 1 THEN texts[i] ELSE f[i - 1] \o texts[i]

LEMMA JoinsExist ==
  ASSUME NEW texts \in Seq(Seq(Byte))
  PROVE  \A n \in 0 .. Len(texts) : \E f : JoinsUpTo(texts, n, f)
<1> DEFINE Missing == {n \in 0 .. Len(texts) : ~ \E f : JoinsUpTo(texts, n, f)}
<1> SUFFICES ASSUME Missing # {} PROVE FALSE
  OBVIOUS
<1>1. Missing \subseteq Nat
  OBVIOUS
<1>2. PICK n \in Missing : \A m \in Missing : n =< m
  BY <1>1, Least
<1>3. n \in 0 .. Len(texts) /\ Len(texts) \in Nat /\ ~ \E f : JoinsUpTo(texts, n, f)
  OBVIOUS
<1>4. n # 0
  <2> SUFFICES JoinsUpTo(texts, 0, [i \in 1 .. 0 |-> <<>>])
    BY <1>3
  <2> QED
    BY DEF JoinsUpTo
<1>5. n - 1 \in 0 .. Len(texts) /\ n - 1 \notin Missing
  <2>1. n - 1 \in 0 .. Len(texts) /\ ~(n =< n - 1)
    BY <1>3, <1>4
  <2> HIDE DEF Missing
  <2> QED
    BY <1>2, <2>1
<1>6. PICK f : JoinsUpTo(texts, n - 1, f)
  BY <1>5
<1>7. texts[n] \in Seq(Byte)
  BY <1>3, <1>4
<1>8. PICK t : t = IF n = 1 THEN texts[n] ELSE f[n - 1] \o texts[n]
  OBVIOUS
<1>9. t \in Seq(Byte)
  <2>1. CASE n = 1
    BY <1>7, <1>8, <2>1
  <2>2. CASE n # 1
    <3>1. f[n - 1] \in Seq(Byte)
      BY <1>3, <1>4, <1>6, <2>2 DEF JoinsUpTo
    <3> QED
      BY <1>7, <1>8, <2>2, <3>1, ConcatProperties
  <2> QED
    BY <2>1, <2>2
<1> DEFINE g == [i \in 1 .. n |-> IF i = n THEN t ELSE f[i]]
<1>10. JoinsUpTo(texts, n, g)
  <2>1. g \in [1 .. n -> Seq(Byte)]
    BY <1>3, <1>4, <1>6, <1>9 DEF JoinsUpTo
  <2>2. ASSUME NEW i \in 1 .. n PROVE g[i] = IF i = 1 THEN texts[i] ELSE g[i - 1] \o texts[i]
    <3>1. CASE i = n
      BY <1>3, <1>4, <1>8, <3>1
    <3>2. CASE i # n
      <4>1. i \in 1 .. n - 1 /\ i - 1 # n /\ (i # 1 => i - 1 \in 1 .. n)
        BY <1>3, <3>2
      <4>2. f[i] = IF i = 1 THEN texts[i] ELSE f[i - 1] \o texts[i]
        BY <1>6, <4>1 DEF JoinsUpTo
      <4>3. g[i] = f[i] /\ (i # 1 => g[i - 1] = f[i - 1])
        BY <3>2, <4>1
      <4> HIDE DEF g
      <4> QED
        BY <4>2, <4>3
    <3> QED
      BY <3>1, <3>2
  <2> QED
    BY <2>1, <2>2 DEF JoinsUpTo
<1> QED
  BY <1>3, <1>10

LEMMA FlattenText ==
  ASSUME NEW texts \in Seq(Seq(Byte))
  PROVE  FlattenSeq(texts) \in Seq(Byte)
<1> DEFINE n == Len(texts)
           Is(f) == f = [i \in 1 .. n |-> IF i = 1 THEN texts[i] ELSE f[i - 1] \o texts[i]]
           joined == CHOOSE g : Is(g)
<1>1. n \in Nat /\ \E f : JoinsUpTo(texts, n, f)
  BY JoinsExist
<1>2. PICK f : JoinsUpTo(texts, n, f)
  BY <1>1
<1>3. Is(f)
  BY <1>1, <1>2 DEF JoinsUpTo
<1>4. FlattenSeq(texts) = IF n = 0 THEN texts ELSE joined[n]
  BY DEF FlattenSeq
<1>5. Is(joined)
  <2> HIDE DEF Is
  <2> QED
    BY <1>3, Zenon
<1> HIDE DEF joined
<1>6. \A i \in 1 .. n : joined[i] = IF i = 1 THEN texts[i] ELSE joined[i - 1] \o texts[i]
  BY <1>5
<1>7. \A i \in 1 .. n : joined[i] = f[i]
  <2> DEFINE Other == {i \in 1 .. n : joined[i] # f[i]}
  <2> SUFFICES ASSUME Other # {} PROVE FALSE
    OBVIOUS
  <2>1. Other \subseteq Nat
    OBVIOUS
  <2>2. PICK i \in Other : \A j \in Other : i =< j
    BY <2>1, Least
  <2>3. i \in 1 .. n /\ joined[i] # f[i]
    OBVIOUS
  <2>4. f[i] = IF i = 1 THEN texts[i] ELSE f[i - 1] \o texts[i]
    BY <1>2, <2>3 DEF JoinsUpTo
  <2>5. i # 1
    BY <1>6, <2>3, <2>4
  <2>6. i - 1 \in 1 .. n /\ i - 1 \notin Other
    BY <1>1, <2>2, <2>3, <2>5
  <2>7. joined[i - 1] = f[i - 1]
    BY <2>6
  <2>8. joined[i] = joined[i - 1] \o texts[i]
    BY <1>6, <2>3, <2>5
  <2> QED
    BY <2>3, <2>4, <2>5, <2>7, <2>8
<1>8. CASE n = 0
  <2>1. texts = <<>>
    BY <1>8
  <2> QED
    BY <1>4, <1>8, <2>1
<1>9. CASE n # 0
  <2>1. n \in 1 .. n
    BY <1>1, <1>9
  <2>2. f[n] \in Seq(Byte)
    BY <1>2, <2>1 DEF JoinsUpTo
  <2> HIDE DEF n
  <2> QED
    BY <1>4, <1>7, <1>9, <2>1, <2>2
<1> QED
  BY <1>8, <1>9

LEMMA DataIsText ==
  ASSUME file \in File, NEW a \in Name
  PROVE  Data(a) \in Seq(Byte)
<1> DEFINE pieces == file.article[a].pieces
           texts == [i \in DOMAIN pieces |-> pieces[i].bytes]
<1>1. texts \in Seq(Seq(Byte))
  BY PagesAssumption
<1>2. Bytes(pieces) = FlattenSeq(texts)
  BY DEF Bytes
<1> HIDE DEF texts
<1>3. FlattenSeq(texts) \in Seq(Byte)
  BY <1>1, FlattenText
<1> QED
  BY <1>2, <1>3 DEF Data

-----------------------------------------------------------------------------
(* A character at a time: what a parser tells and what it holds is what it *)
(* held, and the character.                                                *)

Drops(p, new, dropped) == dropped \/ (p.state = "title_end" /\ new.state = "title_end")

Kept(p, ch, new, drops) ==
  /\ new \in Parser /\ Shape(new, drops) /\ Source(new) \in Seq(Byte)
  /\ ~drops => Source(new) \o new.data = Append(p.data, ch)

(* The character goes to what the parser holds. *)
LEMMA Taken ==
  ASSUME NEW p \in Parser, NEW ch \in Byte
  PROVE  LET q == [[p EXCEPT !.text = <<>>, !.calls = [on |-> "nothing"]]
                     EXCEPT !.data = Append(@, ch)]
         IN /\ q \in Parser /\ q.state = p.state /\ q.save = p.save
            /\ q.token = p.token /\ q.token_e = p.token_e /\ q.ns = p.ns
            /\ q.text = <<>> /\ q.calls = [on |-> "nothing"]
            /\ q.data = Append(p.data, ch) /\ Len(q.data) = Len(p.data) + 1
            /\ Len(p.data) \in Nat
            /\ \A i \in 1 .. Len(p.data) : q.data[i] = p.data[i]
            /\ q.data[Len(p.data) + 1] = ch
<1>1. p.data \in Seq(Byte)
  BY DEF Parser
<1>2. /\ Append(p.data, ch) \in Seq(Byte) /\ Len(Append(p.data, ch)) = Len(p.data) + 1
      /\ \A i \in 1 .. Len(p.data) : Append(p.data, ch)[i] = p.data[i]
      /\ Append(p.data, ch)[Len(p.data) + 1] = ch
  BY <1>1, AppendProperties
<1>3. [on |-> "nothing"] \in Calls /\ <<>> \in Seq(Byte) /\ Len(p.data) \in Nat
  BY <1>1 DEF Calls
<1> QED
  BY <1>2, <1>3 DEF Parser

LEMMA Quiet ==
  ASSUME NEW p \in Parser, NEW ch \in Byte, NEW new \in Parser, NEW drops,
         new.text = <<>>, new.calls = [on |-> "nothing"],
         new.data = Append(p.data, ch), Shape(new, drops)
  PROVE  Kept(p, ch, new, drops)
<1>1. Source(new) = <<>> \o <<>>
  BY DEF Source
<1>2. <<>> \o <<>> = <<>> /\ <<>> \in Seq(Byte)
  OBVIOUS
<1>3. new.data \in Seq(Byte)
  BY DEF Parser
<1>4. <<>> \o new.data = new.data
  BY <1>3
<1>5. Source(new) = <<>>
  BY <1>1, <1>2
<1> QED
  BY <1>2, <1>4, <1>5 DEF Kept

(* What an assignment to a member leaves as it was. *)
States == {"data", "lt", "token0", "token", "token_end", "link0", "link", "title", "title_end"}

LEMMA InState ==
  ASSUME NEW q \in Parser, NEW state \in States
  PROVE  LET r == In(q, state)
         IN /\ r \in Parser /\ r.state = state /\ r.save = q.save /\ r.token = q.token
            /\ r.token_e = q.token_e /\ r.ns = q.ns /\ r.text = q.text
            /\ r.calls = q.calls /\ r.data = q.data
  BY DEF In, Parser, States

LEMMA MemberSet ==
  ASSUME NEW q \in Parser, NEW v \in Nat
  PROVE  /\ LET r == [q EXCEPT !.save = v]
            IN /\ r \in Parser /\ r.save = v /\ r.state = q.state /\ r.text = q.text
               /\ r.calls = q.calls /\ r.data = q.data
         /\ LET r == [q EXCEPT !.token = v]
            IN /\ r \in Parser /\ r.token = v /\ r.state = q.state /\ r.text = q.text
               /\ r.calls = q.calls /\ r.data = q.data /\ r.save = q.save /\ r.ns = q.ns
         /\ LET r == [q EXCEPT !.token_e = v]
            IN /\ r \in Parser /\ r.token_e = v /\ r.state = q.state /\ r.text = q.text
               /\ r.calls = q.calls /\ r.data = q.data /\ r.save = q.save /\ r.ns = q.ns
               /\ r.token = q.token
  BY DEF Parser

LEMMA ParseQuiet ==
  ASSUME NEW p \in Parser, NEW ch \in Byte, NEW dropped \in BOOLEAN, Shape(p, dropped),
         p.state \notin {"token_end", "title_end"}
  PROVE  Kept(p, ch, Parse(p, ch), dropped)
<1> DEFINE q == [[p EXCEPT !.text = <<>>, !.calls = [on |-> "nothing"]]
                   EXCEPT !.data = Append(@, ch)]
           n == Len(p.data)
<1>1. /\ q \in Parser /\ q.state = p.state /\ q.save = p.save
      /\ q.token = p.token /\ q.token_e = p.token_e /\ q.ns = p.ns
      /\ q.text = <<>> /\ q.calls = [on |-> "nothing"]
      /\ q.data = Append(p.data, ch) /\ Len(q.data) = n + 1 /\ n \in Nat
      /\ \A i \in 1 .. n : q.data[i] = p.data[i]
      /\ q.data[n + 1] = ch
  BY ZenonT(40), Taken
<1>2. /\ Len(q.data) = n + 1 /\ n \in Nat /\ \A i \in 1 .. n : q.data[i] = p.data[i]
      /\ q.data[n + 1] = ch /\ p.save \in Nat
  BY <1>1 DEF Parser
<1>10. ASSUME NEW i \in 1 .. 5, p.save + i =< n
       PROVE  q.data[p.save + i] = p.data[p.save + i]
  <2>1. PICK j : j = p.save + i
    OBVIOUS
  <2>2. j \in 1 .. n
    BY <1>2, <1>10, <2>1
  <2> HIDE DEF q, n
  <2> QED
    BY <1>2, <2>1, <2>2
<1>11. /\ p.save + 1 =< n => q.data[p.save + 1] = p.data[p.save + 1]
       /\ p.save + 2 =< n => q.data[p.save + 2] = p.data[p.save + 2]
       /\ p.save + 3 =< n => q.data[p.save + 3] = p.data[p.save + 3]
       /\ p.save + 4 =< n => q.data[p.save + 4] = p.data[p.save + 4]
       /\ p.save + 5 =< n => q.data[p.save + 5] = p.data[p.save + 5]
  <2> HIDE DEF q, n
  <2> QED
    BY <1>10
<1>3. CASE p.state = "data"
  <2> DEFINE new == InData(q, ch)
  <2>1. Parse(p, ch) = new
    BY <1>3 DEF Parse
  <2> HIDE DEF q
  <2>2. /\ new \in Parser /\ new.text = <<>> /\ new.calls = [on |-> "nothing"]
        /\ new.data = q.data /\ new.state = IF ch = "<" THEN "lt" ELSE "data"
        /\ ch = "<" => new.save = n
    <3> DEFINE r == In(q, "lt")
    <3>1. /\ r \in Parser /\ r.text = <<>> /\ r.calls = [on |-> "nothing"]
          /\ r.data = q.data /\ r.state = "lt"
      BY <1>1, InState DEF States
    <3>2. At(q) = n
      BY <1>1 DEF At
    <3>3. new = IF ch = "<" THEN [r EXCEPT !.save = n] ELSE q
      BY <3>2 DEF InData
    <3> HIDE DEF r, new, n
    <3> QED
      BY <1>1, <1>3, <3>1, <3>3, MemberSet
  <2> HIDE DEF new
  <2>3. Shape(new, dropped)
    BY <1>1, <1>2, <2>2 DEF Shape, InLinks
  <2> QED
    BY <1>1, <2>1, <2>2, <2>3, Quiet
<1>4. CASE p.state = "lt"
  <2> DEFINE new == InLt(q, ch)
  <2>1. Parse(p, ch) = new
    BY <1>4 DEF Parse
  <2> HIDE DEF q
  <2>2. /\ new \in Parser /\ new.text = <<>> /\ new.calls = [on |-> "nothing"]
        /\ new.data = q.data /\ new.save = p.save
        /\ new.state = IF ch = "%" THEN "token0" ELSE "data"
    BY <1>1, InState DEF InLt, States
  <2>3. n = p.save + 1 /\ p.data[n] = "<"
    BY <1>1, <1>2, <1>4 DEF Shape
  <2> HIDE DEF new
  <2>4. Shape(new, dropped)
    <3>1. /\ new.data = q.data /\ new.save = p.save /\ Len(q.data) = n + 1 /\ n \in Nat
          /\ q.data[n + 1] = ch /\ p.save \in Nat
      BY <1>2, <2>2
    <3> HIDE DEF q, n
    <3> QED
      BY <1>11, <2>2, <2>3, <3>1 DEF Shape, InLinks
  <2> QED
    BY <1>1, <2>1, <2>2, <2>4, Quiet
<1>5. CASE p.state = "token0"
  <2> DEFINE new == InToken0(q, ch)
  <2>1. Parse(p, ch) = new
    BY <1>5 DEF Parse
  <2> HIDE DEF q
  <2>2. /\ new \in Parser /\ new.text = <<>> /\ new.calls = [on |-> "nothing"]
        /\ new.data = q.data /\ new.save = p.save
        /\ new.state = IF ch = "/" THEN "link0" ELSE "token"
        /\ ch # "/" => new.token = n
    <3> DEFINE r == In(q, "token")
    <3>1. /\ r \in Parser /\ r.text = <<>> /\ r.calls = [on |-> "nothing"]
          /\ r.data = q.data /\ r.state = "token" /\ r.save = p.save
      BY <1>1, InState DEF States
    <3>2. At(q) = n
      BY <1>1 DEF At
    <3>3. new = IF ch = "/" THEN In(q, "link0") ELSE [r EXCEPT !.token = n]
      BY <3>2 DEF InToken0
    <3> HIDE DEF r, new, n
    <3>4. CASE ch = "/"
      BY <1>1, <3>3, <3>4, InState DEF States
    <3>5. CASE ch # "/"
      BY ZenonT(40), <1>1, <3>1, <3>3, <3>5, MemberSet
    <3> QED
      BY <3>4, <3>5
  <2>3. n = p.save + 2 /\ p.data[p.save + 1] = "<" /\ p.data[p.save + 2] = "%"
    BY <1>1, <1>2, <1>5 DEF Shape
  <2> HIDE DEF new
  <2>4. Shape(new, dropped)
    <3>1. /\ new.data = q.data /\ new.save = p.save /\ Len(q.data) = n + 1 /\ n \in Nat
          /\ q.data[n + 1] = ch /\ p.save \in Nat
      BY <1>2, <2>2
    <3> HIDE DEF q, n
    <3>2. CASE ch = "/"
      <4>1. new.state = "link0"
        BY <2>2, <3>2
      <4> QED
        BY <1>11, <2>3, <3>1, <3>2, <4>1 DEF Shape, InLinks
    <3>3. CASE ch # "/"
      <4>1. new.state = "token" /\ new.token = n
        BY <2>2, <3>3
      <4> QED
        BY <1>11, <2>3, <3>1, <4>1 DEF Shape, InLinks
    <3> QED
      BY <3>2, <3>3
  <2> QED
    BY <1>1, <2>1, <2>2, <2>4, Quiet
<1>6. CASE p.state = "token"
  <2> DEFINE new == InToken(q, ch)
  <2>1. Parse(p, ch) = new
    BY <1>6 DEF Parse
  <2> HIDE DEF q
  <2>2. /\ new \in Parser /\ new.text = <<>> /\ new.calls = [on |-> "nothing"]
        /\ new.data = q.data /\ new.save = p.save /\ new.token = p.token
        /\ new.state = IF ch = "%" THEN "token_end" ELSE "token"
    BY <1>1, <1>6, InState DEF InToken, States
  <2>3. /\ p.token = p.save + 2 /\ p.token < n /\ p.save + 2 =< n
        /\ p.data[p.save + 1] = "<" /\ p.data[p.save + 2] = "%"
    BY <1>1, <1>2, <1>6 DEF Shape
  <2> HIDE DEF new
  <2>4. Shape(new, dropped)
    <3>1. /\ new.data = q.data /\ new.save = p.save /\ Len(q.data) = n + 1 /\ n \in Nat
          /\ q.data[n + 1] = ch /\ p.save \in Nat
      BY <1>2, <2>2
    <3> HIDE DEF q, n
    <3> QED
      BY <1>11, <2>2, <2>3, <3>1 DEF Shape, InLinks
  <2> QED
    BY <1>1, <2>1, <2>2, <2>4, Quiet
<1>7. CASE p.state = "link0"
  <2> DEFINE new == InLink0(q, ch)
  <2>1. Parse(p, ch) = new
    BY <1>7 DEF Parse
  <2> HIDE DEF q
  <2>2. /\ new \in Parser /\ new.text = <<>> /\ new.calls = [on |-> "nothing"]
        /\ new.data = q.data /\ new.save = p.save /\ new.state = "link" /\ new.ns = ch
    BY <1>1, <1>7 DEF InLink0, In, Parser
  <2>3. /\ n = p.save + 3 /\ p.data[p.save + 1] = "<" /\ p.data[p.save + 2] = "%"
        /\ p.data[p.save + 3] = "/"
    BY <1>1, <1>2, <1>7 DEF Shape, InLinks
  <2> HIDE DEF new
  <2>4. Shape(new, dropped)
    <3>1. /\ new.data = q.data /\ new.save = p.save /\ Len(q.data) = n + 1 /\ n \in Nat
          /\ q.data[n + 1] = ch /\ p.save \in Nat
      BY <1>2, <2>2
    <3> HIDE DEF q, n
    <3> QED
      BY SMTT(40), <1>11, <2>2, <2>3, <3>1 DEF Shape, InLinks
  <2> QED
    BY <1>1, <2>1, <2>2, <2>4, Quiet
<1>8. CASE p.state = "link"
  <2> DEFINE new == InLink(q, ch)
  <2>1. Parse(p, ch) = new
    BY <1>8 DEF Parse
  <2> HIDE DEF q
  <2>2. /\ new \in Parser /\ new.text = <<>> /\ new.calls = [on |-> "nothing"]
        /\ new.data = q.data /\ new.save = p.save /\ new.ns = p.ns
        /\ new.state = IF ch = "/" THEN "title" ELSE "data"
        /\ ch = "/" => new.token = n + 1
    <3> DEFINE r == In(q, "title")
    <3>1. /\ r \in Parser /\ r.text = <<>> /\ r.calls = [on |-> "nothing"] /\ r.ns = p.ns
          /\ r.data = q.data /\ r.state = "title" /\ r.save = p.save
      BY <1>1, InState DEF States
    <3>2. new = IF ch = "/" THEN [r EXCEPT !.token = n + 1] ELSE In(q, "data")
      BY <1>1 DEF InLink
    <3> HIDE DEF r, new, n
    <3>3. CASE ch = "/"
      <4>1. n + 1 \in Nat
        BY <1>1
      <4> QED
        BY ZenonT(40), <3>1, <3>2, <3>3, <4>1, MemberSet
    <3>4. CASE ch # "/"
      BY <1>1, <3>2, <3>4, InState DEF States
    <3> QED
      BY <3>3, <3>4
  <2>3. /\ n = p.save + 4 /\ p.data[p.save + 1] = "<" /\ p.data[p.save + 2] = "%"
        /\ p.data[p.save + 3] = "/" /\ p.data[p.save + 4] = p.ns
    BY <1>1, <1>2, <1>8 DEF Shape, InLinks
  <2> HIDE DEF new
  <2>4. Shape(new, dropped)
    <3>1. /\ new.data[p.save + 1] = "<" /\ new.data[p.save + 2] = "%"
          /\ new.data[p.save + 3] = "/" /\ new.data[p.save + 4] = p.ns
          /\ new.data[p.save + 5] = ch /\ Len(new.data) = p.save + 5
      BY SMTT(40), <1>2, <1>11, <2>2, <2>3
    <3> HIDE DEF q, n
    <3> QED
      BY <1>2, <2>2, <2>3, <3>1 DEF Shape, InLinks
  <2> QED
    BY <1>1, <2>1, <2>2, <2>4, Quiet
<1>9. CASE p.state = "title"
  <2> DEFINE new == InTitle(q, ch)
  <2>1. Parse(p, ch) = new
    BY <1>9 DEF Parse
  <2> HIDE DEF q
  <2>2. /\ new \in Parser /\ new.text = <<>> /\ new.calls = [on |-> "nothing"]
        /\ new.data = q.data /\ new.save = p.save /\ new.ns = p.ns /\ new.token = p.token
        /\ new.state = IF ch = "%" THEN "title_end" ELSE "title"
        /\ ch = "%" => new.token_e = n
    <3> DEFINE r == In(q, "title_end")
    <3>1. /\ r \in Parser /\ r.text = <<>> /\ r.calls = [on |-> "nothing"] /\ r.ns = p.ns
          /\ r.data = q.data /\ r.state = "title_end" /\ r.save = p.save /\ r.token = p.token
      BY <1>1, InState DEF States
    <3>2. At(q) = n
      BY <1>1 DEF At
    <3>3. new = IF ch = "%" THEN [r EXCEPT !.token_e = n] ELSE q
      BY <3>2 DEF InTitle
    <3> HIDE DEF r, new, n
    <3> QED
      BY <1>1, <1>9, <3>1, <3>3, MemberSet
  <2>3. /\ p.token = p.save + 5 /\ p.token =< n
        /\ p.data[p.save + 1] = "<" /\ p.data[p.save + 2] = "%"
        /\ p.data[p.save + 3] = "/" /\ p.data[p.save + 4] = p.ns /\ p.data[p.save + 5] = "/"
    BY <1>1, <1>2, <1>9 DEF Shape, InLinks
  <2> HIDE DEF new
  <2>4. Shape(new, dropped)
    <3>1. /\ new.data[p.save + 1] = "<" /\ new.data[p.save + 2] = "%"
          /\ new.data[p.save + 3] = "/" /\ new.data[p.save + 4] = p.ns
          /\ new.data[p.save + 5] = "/" /\ Len(new.data) = n + 1 /\ new.data[n + 1] = ch
      BY SMTT(40), <1>2, <1>11, <2>2, <2>3
    <3>2. /\ new.save = p.save /\ new.token = p.token /\ new.ns = p.ns
          /\ p.token = p.save + 5 /\ p.token =< n /\ n \in Nat
          /\ ch = "%" => new.token_e = n
      BY <1>1, <2>2, <2>3
    <3> HIDE DEF q, n
    <3>5. p.save \in Nat
      BY <1>2
    <3>3. CASE ch = "%"
      <4>1. new.state = "title_end"
        BY <2>2, <3>3
      <4>2. /\ new.token_e \in new.token .. Len(new.data) - 1
            /\ new.data[new.token_e + 1] = "%" /\ new.token_e = Len(new.data) - 1
        BY SMTT(40), <3>1, <3>2, <3>3, <3>5
      <4>3. /\ new.save < Len(new.data) /\ new.save + 2 =< Len(new.data)
            /\ new.save + 3 =< Len(new.data) /\ new.token =< Len(new.data)
        BY SMTT(40), <3>1, <3>2, <3>5
      <4> QED
        BY <3>1, <3>2, <4>1, <4>2, <4>3 DEF Shape, InLinks
    <3>4. CASE ch # "%"
      <4>1. new.state = "title"
        BY <2>2, <3>4
      <4> QED
        BY <1>2, <3>1, <3>2, <3>4, <4>1 DEF Shape, InLinks
    <3> QED
      BY <3>3, <3>4
  <2> QED
    BY <1>1, <2>1, <2>2, <2>4, Quiet
<1> QED
  BY <1>3, <1>4, <1>5, <1>6, <1>7, <1>8, <1>9 DEF Parser

LEMMA ParseTokenEnd ==
  ASSUME NEW p \in Parser, NEW ch \in Byte, NEW dropped \in BOOLEAN, Shape(p, dropped),
         p.state = "token_end"
  PROVE  Kept(p, ch, Parse(p, ch), dropped)
<1> DEFINE q == [p EXCEPT !.text = <<>>, !.calls = [on |-> "nothing"]]
           n == Len(p.data)
           new == InTokenEnd(q, ch)
<1>1. Parse(p, ch) = new
  BY DEF Parse
<1>2. /\ q \in Parser /\ q.data = p.data /\ q.save = p.save /\ q.token = p.token
      /\ q.text = <<>> /\ q.calls = [on |-> "nothing"]
  <2>1. p.data \in Seq(Byte) /\ <<>> \in Seq(Byte) /\ [on |-> "nothing"] \in Calls
    BY DEF Parser, Calls
  <2> QED
    BY <2>1 DEF Parser
<1>3. p.data \in Seq(Byte) /\ n \in Nat /\ p.save \in Nat
  BY DEF Parser
<1>4. /\ p.token = p.save + 2 /\ p.token < n - 1 /\ p.data[n] = "%"
      /\ p.data[p.save + 1] = "<" /\ p.data[p.save + 2] = "%"
  BY DEF Shape
<1>7. n \in Nat /\ p.save \in Nat /\ p.save + 3 < n
  <2>1. n \in Nat /\ p.save \in Nat /\ p.save + 2 < n - 1
    BY <1>3, <1>4
  <2> QED
    BY <2>1
<1> HIDE DEF q
<1>5. CASE ch = ">"
  <2> DEFINE text == SubSeq(p.data, 1, p.save)
             name == SubSeq(p.data, p.save + 3, n - 1)
             told == text \o (<<"<", "%">> \o name \o <<"%", ">">>)
  <2>1. told = Append(p.data, ">") /\ told \in Seq(Byte)
    BY <1>3, <1>4, <1>7, TokenSpelled
  <2>2. text \in Seq(Byte) /\ name \in Seq(Byte)
    <3>1. /\ 1 \in 1 .. n + 1 /\ p.save \in 0 .. n
          /\ p.save + 3 \in 1 .. n + 1 /\ n - 1 \in 0 .. n
      BY <1>7
    <3> HIDE DEF text, name
    <3> QED
      BY <1>3, <3>1, PartOfText DEF text, name
  <2>3. Part(q.data, 0, q.save) = text
    <3>1. 0 + 1 = 1 /\ 0 + p.save = p.save
      BY <1>3
    <3> QED
      BY <1>2, <3>1 DEF Part
  <2>4. Part(q.data, q.token, Len(q.data) - q.token - 1) = name
    <3>1. (p.save + 2) + 1 = p.save + 3 /\ (p.save + 2) + (n - (p.save + 2) - 1) = n - 1
      BY <1>3
    <3> QED
      BY <1>2, <1>4, <3>1 DEF Part
  <2> HIDE DEF text, name
  <2> DEFINE r == In(Cleared(q), "data")
             calls == OnToken(name)
  <2>5. new = [r EXCEPT !.text = text, !.calls = calls]
    BY <1>5, <2>3, <2>4 DEF InTokenEnd
  <2>6. Cleared(q) \in Parser /\ Cleared(q).data = <<>>
    BY <1>2 DEF Cleared, Parser
  <2>7. r \in Parser /\ r.state = "data" /\ r.data = <<>>
    BY <2>6, InState DEF States
  <2>8. calls \in Calls /\ calls.on = "token" /\ calls.token = name
    BY <2>2 DEF Calls, OnToken
  <2> HIDE DEF r, calls, new
  <2>9. /\ new \in Parser /\ new.state = "data" /\ new.data = <<>>
        /\ new.text = text /\ new.calls = calls
    BY <2>2, <2>5, <2>7, <2>8 DEF Parser
  <2>10. Source(new) = told
    BY <2>8, <2>9 DEF Source
  <2> HIDE DEF told
  <2>11. Shape(new, dropped)
    BY <2>9 DEF Shape, InLinks
  <2>12. told \o new.data = told
    BY <2>1, <2>9, ConcatEmptySeq
  <2> QED
    BY <1>1, <1>5, <2>1, <2>9, <2>10, <2>11, <2>12 DEF Kept
<1>6. CASE ch # ">"
  <2> DEFINE r == In(q, "data")
  <2>1. new = [r EXCEPT !.data = Append(@, ch)]
    BY <1>6 DEF InTokenEnd
  <2>2. /\ r \in Parser /\ r.state = "data" /\ r.data = p.data
        /\ r.text = <<>> /\ r.calls = [on |-> "nothing"]
    BY <1>2, InState DEF States
  <2>3. Append(p.data, ch) \in Seq(Byte)
    BY <1>3
  <2> HIDE DEF r, new
  <2>4. /\ new \in Parser /\ new.state = "data" /\ new.data = Append(p.data, ch)
        /\ new.text = <<>> /\ new.calls = [on |-> "nothing"]
    BY <2>1, <2>2, <2>3 DEF Parser
  <2>5. Shape(new, dropped)
    BY <2>4 DEF Shape, InLinks
  <2> QED
    BY <1>1, <2>4, <2>5, Quiet
<1> QED
  BY <1>5, <1>6

LEMMA ParseTitleEnd ==
  ASSUME NEW p \in Parser, NEW ch \in Byte, NEW dropped \in BOOLEAN, Shape(p, dropped),
         p.state = "title_end"
  PROVE  Kept(p, ch, Parse(p, ch), Drops(p, Parse(p, ch), dropped))
<1> DEFINE q == [[p EXCEPT !.text = <<>>, !.calls = [on |-> "nothing"]]
                   EXCEPT !.data = Append(@, ch)]
           n == Len(p.data)
           new == InTitleEnd(q, ch)
<1>1. Parse(p, ch) = new
  BY DEF Parse
<1>2. /\ q \in Parser /\ q.state = p.state /\ q.save = p.save
      /\ q.token = p.token /\ q.token_e = p.token_e /\ q.ns = p.ns
      /\ q.text = <<>> /\ q.calls = [on |-> "nothing"]
      /\ q.data = Append(p.data, ch) /\ Len(q.data) = n + 1
      /\ \A i \in 1 .. n : q.data[i] = p.data[i]
  BY ZenonT(40), Taken
<1>3. p.data \in Seq(Byte) /\ n \in Nat /\ p.save \in Nat /\ p.ns \in Byte
  BY DEF Parser
<1>4. /\ p.token = p.save + 5 /\ p.token_e \in p.token .. n - 1
      /\ p.data[p.token_e + 1] = "%"
      /\ p.data[p.save + 1] = "<" /\ p.data[p.save + 2] = "%"
      /\ p.data[p.save + 3] = "/" /\ p.data[p.save + 4] = p.ns /\ p.data[p.save + 5] = "/"
      /\ ~dropped => p.token_e = n - 1
  BY DEF Shape, InLinks
<1>7. /\ n \in Nat /\ p.save \in Nat /\ p.token_e \in Nat
      /\ p.save + 5 =< p.token_e /\ p.token_e =< n - 1
  <2>1. /\ n \in Nat /\ p.save \in Nat /\ p.token_e \in p.save + 5 .. n - 1
    BY <1>3, <1>4
  <2> QED
    BY <2>1
<1> HIDE DEF q
<1>5. CASE ch = ">"
  <2> DEFINE text == SubSeq(q.data, 1, p.save)
             url == SubSeq(q.data, p.save + 6, p.token_e)
             told == text \o (<<"<", "%", "/", p.ns, "/">> \o url \o <<"%", ">">>)
  <2>2. text \in Seq(Byte) /\ url \in Seq(Byte)
    <3>1. /\ 1 \in 1 .. Len(q.data) + 1 /\ p.save \in 0 .. Len(q.data)
          /\ p.save + 6 \in 1 .. Len(q.data) + 1 /\ p.token_e \in 0 .. Len(q.data)
      <4>1. Len(q.data) = n + 1
        BY <1>2
      <4> QED
        BY <1>7, <4>1
    <3>2. q.data \in Seq(Byte)
      BY <1>2 DEF Parser
    <3> HIDE DEF text, url
    <3> QED
      BY <3>1, <3>2, PartOfText DEF text, url
  <2>1. ~dropped => told = Append(p.data, ">")
    <3> SUFFICES ASSUME ~dropped PROVE told = Append(p.data, ">")
      OBVIOUS
    <3>1. /\ p.token_e = n - 1 /\ p.save + 5 < n /\ p.data[n] = "%"
          /\ q.data = Append(p.data, ">")
      <4>1. p.token_e = n - 1 /\ q.data = Append(p.data, ">")
        BY <1>2, <1>4, <1>5
      <4>2. p.token_e + 1 = n /\ p.save + 5 < n
        BY <1>7, <4>1
      <4> QED
        BY <1>4, <4>1, <4>2
    <3> DEFINE all == Append(p.data, ">")
    <3>2. SubSeq(all, 1, p.save)
            \o (<<"<", "%", "/", p.ns, "/">> \o SubSeq(all, p.save + 6, n - 1) \o <<"%", ">">>)
          = all
      <4>1. p.save + 5 < n /\ p.data[n] = "%"
        BY <3>1
      <4> QED
        BY <1>3, <1>4, <4>1, LinkSpelled
    <3>3. q.data = all /\ p.token_e = n - 1
      BY <3>1
    <3> HIDE DEF all, n
    <3>4. told = SubSeq(all, 1, p.save)
            \o (<<"<", "%", "/", p.ns, "/">> \o SubSeq(all, p.save + 6, n - 1) \o <<"%", ">">>)
      BY <3>3
    <3> QED
      BY <3>2, <3>4 DEF all
  <2>3. Part(q.data, 0, q.save) = text
    <3>1. 0 + 1 = 1 /\ 0 + p.save = p.save
      BY <1>3
    <3> QED
      BY <1>2, <3>1 DEF Part
  <2>4. Part(q.data, q.token, q.token_e - q.token) = url
    <3>1. (p.save + 5) + 1 = p.save + 6 /\ (p.save + 5) + (p.token_e - (p.save + 5)) = p.token_e
      BY SMTT(40), <1>3, <1>4
    <3> QED
      BY <1>2, <1>4, <3>1 DEF Part
  <2>5. told \in Seq(Byte)
    <3> DEFINE open == <<"<", "%", "/", p.ns, "/">>
               close == <<"%", ">">>
               first == open \o url
               rest == first \o close
    <3>1. open \in Seq(Byte) /\ close \in Seq(Byte)
      BY <1>3, Characters
    <3> HIDE DEF open, close, text, url
    <3>2. first \in Seq(Byte)
      BY <2>2, <3>1, ConcatProperties
    <3> HIDE DEF first
    <3>3. rest \in Seq(Byte)
      BY <3>1, <3>2, ConcatProperties
    <3> HIDE DEF rest
    <3>4. text \o rest \in Seq(Byte)
      BY <2>2, <3>3, ConcatProperties
    <3> QED
      BY <3>4 DEF rest, first, open, close
  <2> HIDE DEF text, url
  <2> DEFINE r == In(Cleared(q), "data")
             calls == OnLink(q.ns, url)
  <2>6. new = [r EXCEPT !.text = text, !.calls = calls]
    BY <1>5, <2>3, <2>4 DEF InTitleEnd
  <2>7. Cleared(q) \in Parser /\ Cleared(q).data = <<>>
    BY <1>2 DEF Cleared, Parser
  <2>8. r \in Parser /\ r.state = "data" /\ r.data = <<>>
    BY <2>7, InState DEF States
  <2>9. calls \in Calls /\ calls.on = "link" /\ calls.ns = p.ns /\ calls.url = url
    BY <1>2, <1>3, <2>2 DEF Calls, OnLink
  <2> HIDE DEF r, calls, new
  <2>10. /\ new \in Parser /\ new.state = "data" /\ new.data = <<>>
         /\ new.text = text /\ new.calls = calls
    BY <2>2, <2>6, <2>8, <2>9 DEF Parser
  <2>11. Source(new) = told
    BY <2>9, <2>10 DEF Source
  <2> HIDE DEF told
  <2>12. \A drops : Shape(new, drops)
    BY <2>10 DEF Shape, InLinks
  <2>13. told \o new.data = told
    BY <2>5, <2>10, ConcatEmptySeq
  <2>14. Drops(p, new, dropped) => ~(~dropped)
    BY <2>10 DEF Drops
  <2>15. ~Drops(p, new, dropped) => ~dropped
    BY DEF Drops
  <2> QED
    BY <1>1, <1>5, <2>1, <2>5, <2>10, <2>11, <2>12, <2>13, <2>15 DEF Kept
<1>6. CASE ch # ">"
  <2>1. new = q
    BY <1>6 DEF InTitleEnd
  <2>2. Drops(p, q, dropped)
    BY <1>2 DEF Drops
  <2>3. Source(q) = <<>> \o <<>> /\ <<>> \o <<>> \in Seq(Byte)
    BY <1>2 DEF Source
  <2>4. ASSUME NEW i \in 1 .. n PROVE q.data[i] = p.data[i]
    BY <1>2
  <2>5. Shape(q, TRUE)
    <3>1. /\ q.data[p.save + 1] = "<" /\ q.data[p.save + 2] = "%"
          /\ q.data[p.save + 3] = "/" /\ q.data[p.save + 4] = p.ns /\ q.data[p.save + 5] = "/"
          /\ q.data[p.token_e + 1] = "%"
      <4>1. /\ p.save + 1 \in 1 .. n /\ p.save + 2 \in 1 .. n /\ p.save + 3 \in 1 .. n
            /\ p.save + 4 \in 1 .. n /\ p.save + 5 \in 1 .. n /\ p.token_e + 1 \in 1 .. n
        <5> HIDE DEF n
        <5>1. p.save + 6 =< n /\ p.token_e + 1 =< n
          BY <1>7
        <5> QED
          BY <1>7, <5>1
      <4> HIDE DEF n
      <4> QED
        BY <1>4, <2>4, <4>1
    <3>2. /\ p.save < n + 1 /\ p.save + 2 =< n + 1 /\ p.save + 3 =< n + 1
          /\ p.save + 5 =< n + 1 /\ p.token_e \in p.token .. (n + 1) - 1
      <4>1. p.token = p.save + 5
        BY <1>4
      <4> QED
        BY <1>7, <4>1
    <3>3. /\ q.state = "title_end" /\ Len(q.data) = n + 1 /\ q.save = p.save
          /\ q.token = p.token /\ q.token_e = p.token_e /\ q.ns = p.ns /\ p.token = p.save + 5
      BY <1>2, <1>4
    <3> HIDE DEF n
    <3> QED
      BY <3>1, <3>2, <3>3 DEF Shape, InLinks
  <2>6. \A drops : drops => Shape(q, drops)
    BY <2>5 DEF Shape
  <2> HIDE DEF new
  <2> QED
    BY <1>1, <1>2, <2>1, <2>2, <2>3, <2>6 DEF Kept
<1> QED
  BY <1>5, <1>6

LEMMA ParseKeeps ==
  ASSUME NEW p \in Parser, NEW ch \in Byte, NEW dropped \in BOOLEAN, Shape(p, dropped)
  PROVE  Kept(p, ch, Parse(p, ch), Drops(p, Parse(p, ch), dropped))
<1>1. CASE p.state = "title_end"
  BY <1>1, ParseTitleEnd
<1>2. CASE p.state # "title_end"
  <2>1. Kept(p, ch, Parse(p, ch), dropped)
    BY <1>2, ParseQuiet, ParseTokenEnd
  <2>2. Drops(p, Parse(p, ch), dropped) = dropped
    BY <1>2 DEF Drops
  <2> QED
    BY <2>1, <2>2
<1> QED
  BY <1>1, <1>2

-----------------------------------------------------------------------------
(* Calls of getPage: what a parser has told and what it holds is the       *)
(* template as far as it has read.                                         *)

Frames ==
  [art : Name, max : Nat, src : Seq(Byte), pos : Nat, parser : Parser, told : Seq(Byte),
   dropped : BOOLEAN]

FrameSound(f) ==
  /\ f.pos =< Len(f.src) /\ Shape(f.parser, f.dropped)
  /\ ~f.dropped => f.told \o f.parser.data = SubSeq(f.src, 1, f.pos)

LEMMA NewFrame ==
  ASSUME NEW a \in Name, NEW max \in Nat, NEW src \in Seq(Byte)
  PROVE  LET f == Frame(a, max, src) IN f \in Frames /\ FrameSound(f) /\ f.max = max
<1> DEFINE f == Frame(a, max, src)
<1>1. NewParser \in Parser /\ NewParser.data = <<>> /\ NewParser.state = "data"
  <2>1. <<>> \in Seq(Byte) /\ [on |-> "nothing"] \in Calls
    BY DEF Calls
  <2>2. " " \in Byte
    BY PagesAssumption, Zenon
  <2> QED
    BY <2>1, <2>2 DEF NewParser, Parser
<1> HIDE DEF NewParser
<1>2. /\ f.pos = 0 /\ f.src = src /\ f.parser = NewParser /\ f.told = <<>>
      /\ f.dropped = FALSE /\ f.max = max
  BY DEF Frame
<1>3. f \in Frames
  BY <1>1 DEF Frame, Frames
<1>4. SubSeq(src, 1, 0) = <<>> /\ <<>> \o <<>> = <<>>
  BY SubSeqEmpty
<1>5. Shape(NewParser, FALSE)
  BY <1>1 DEF Shape, InLinks
<1> HIDE DEF f
<1>6. FrameSound(f)
  <2>1. f.told \o f.parser.data = SubSeq(f.src, 1, f.pos)
    BY <1>1, <1>2, <1>4
  <2>2. Shape(f.parser, f.dropped)
    BY <1>2, <1>5
  <2>3. f.pos =< Len(f.src)
    BY <1>2
  <2> QED
    BY <2>1, <2>2, <2>3 DEF FrameSound
<1> QED
  BY <1>2, <1>3, <1>6 DEF f

LEMMA AdvanceKeeps ==
  ASSUME NEW f \in Frames, FrameSound(f), f.pos < Len(f.src)
  PROVE  LET parser == Parse(f.parser, f.src[f.pos + 1])
             new == Advance(f, parser)
         IN /\ new \in Frames /\ FrameSound(new) /\ new.max = f.max
            /\ parser \in Parser
<1> DEFINE ch == f.src[f.pos + 1]
           p == f.parser
           parser == Parse(p, ch)
           drops == Drops(p, parser, f.dropped)
           new == Advance(f, parser)
           more == Source(parser)
<1>1. /\ f.src \in Seq(Byte) /\ f.pos \in Nat /\ p \in Parser /\ f.told \in Seq(Byte)
      /\ f.dropped \in BOOLEAN /\ f.art \in Name /\ f.max \in Nat
  BY DEF Frames
<1>2. f.pos + 1 \in 1 .. Len(f.src) /\ ch \in Byte
  BY <1>1
<1>3. Kept(p, ch, parser, drops)
  BY <1>1, <1>2, ParseKeeps DEF FrameSound
<1>4. /\ parser \in Parser /\ Shape(parser, drops) /\ more \in Seq(Byte)
      /\ ~drops => more \o parser.data = Append(p.data, ch)
  BY <1>3 DEF Kept
<1>5. drops \in BOOLEAN
  BY <1>1 DEF Drops
<1>6. drops = (f.dropped \/ (f.parser.state = "title_end" /\ parser.state = "title_end"))
  BY DEF Drops
<1> DEFINE told == f.told \o more
<1>7. told \in Seq(Byte)
  BY <1>1, <1>4, ConcatProperties
<1>8. new = [f EXCEPT !.pos = f.pos + 1, !.parser = parser, !.told = told, !.dropped = drops]
  BY <1>6 DEF Advance
<1> HIDE DEF parser, drops, more, ch, new, told
<1>9. /\ new \in Frames /\ new.max = f.max /\ new.src = f.src /\ new.pos = f.pos + 1
      /\ new.parser = parser /\ new.told = told /\ new.dropped = drops
  <2>1. PICK n : n = f.pos + 1
    OBVIOUS
  <2>2. n \in Nat
    BY <1>1, <2>1
  <2>3. new = [f EXCEPT !.pos = n, !.parser = parser, !.told = told, !.dropped = drops]
    BY <1>8, <2>1
  <2> QED
    BY <1>4, <1>5, <1>7, <2>1, <2>2, <2>3 DEF Frames
<1>10. ASSUME ~drops PROVE told \o parser.data = SubSeq(f.src, 1, f.pos + 1)
  <2>1. PICK t, d, e, m, one, src, n : /\ t = f.told /\ d = p.data /\ e = parser.data
            /\ m = more /\ one = <<ch>> /\ src = f.src /\ n = f.pos + 1
    OBVIOUS
  <2>2. /\ t \in Seq(Byte) /\ d \in Seq(Byte) /\ e \in Seq(Byte) /\ m \in Seq(Byte)
        /\ one \in Seq(Byte) /\ src \in Seq(Byte)
    BY <1>1, <1>2, <1>4, <2>1 DEF Parser
  <2>3. m \o e = d \o one
    BY <1>2, <1>4, <1>10, <2>1, <2>2, AppendIsConcat
  <2>4. (t \o m) \o e = t \o (m \o e)
    <3>1. t \in Seq(Byte) /\ m \in Seq(Byte) /\ e \in Seq(Byte)
      BY <2>2
    <3> QED
      BY <3>1, ConcatAssociative
  <2>5. (t \o d) \o one = t \o (d \o one)
    BY SMTT(40), <2>2, ConcatAssociative
  <2>6. t \o d = SubSeq(src, 1, n - 1)
    <3>1. n - 1 = f.pos
      BY <1>1, <2>1
    <3> QED
      BY <1>6, <1>10, <2>1, <3>1 DEF FrameSound
  <2>7. SubSeq(src, 1, n) = SubSeq(src, 1, n - 1) \o <<src[n]>>
    <3>1. n \in 1 .. Len(src) /\ 1 \in 1 .. Len(src)
      BY <1>1, <1>2, <2>1
    <3> QED
      BY <2>2, <3>1, SubSeqRecursiveSecond
  <2>8. <<src[n]>> = one
    BY <2>1 DEF ch
  <2> QED
    BY <2>1, <2>3, <2>4, <2>5, <2>6, <2>7, <2>8 DEF told
<1>11. FrameSound(new)
  <2>1. new.pos =< Len(new.src)
    BY <1>1, <1>2, <1>9
  <2>2. Shape(new.parser, new.dropped)
    BY <1>4, <1>9
  <2>3. ~new.dropped => new.told \o new.parser.data = SubSeq(new.src, 1, new.pos)
    BY <1>9, <1>10
  <2> QED
    BY <2>1, <2>2, <2>3 DEF FrameSound
<1> QED
  BY <1>4, <1>9, <1>11 DEF new, parser, ch

-----------------------------------------------------------------------------
Ends == {"busy", "done", "limit", "mime", "crash"}

Sound(st) ==
  /\ st \in Seq(Frames)
  /\ \A i \in 1 .. Len(st) : FrameSound(st[i]) /\ st[i].max = MaxRecurse - (i - 1)

(* The inductive invariant. *)
IInv ==
  /\ file \in File /\ asked \in Name
  /\ how \in Ends \cup {"idle"}
  /\ (how = "busy") <=> (stack # <<>>)
  /\ Sound(stack)

(* What a call leaves behind. *)
Left(s) ==
  /\ \E st, o, h : s = [stack |-> st, out |-> o, how |-> h]
  /\ s.how \in Ends /\ (s.how = "busy" \/ s.stack = <<>>)
  /\ Sound(s.stack)

LEMMA SoundEmpty == Sound(<<>>)
  BY DEF Sound

LEMMA SoundPush ==
  ASSUME NEW st, Sound(st), NEW f \in Frames, FrameSound(f), f.max = MaxRecurse - Len(st)
  PROVE  Sound(Append(st, f))
<1> DEFINE t == Append(st, f)
<1>1. st \in Seq(Frames)
  BY DEF Sound
<1>2. /\ t \in Seq(Frames) /\ Len(t) = Len(st) + 1 /\ Len(st) \in Nat
      /\ \A i \in 1 .. Len(st) : t[i] = st[i]
      /\ t[Len(st) + 1] = f
  BY <1>1, AppendProperties
<1> HIDE DEF t
<1>3. ASSUME NEW i \in 1 .. Len(t) PROVE FrameSound(t[i]) /\ t[i].max = MaxRecurse - (i - 1)
  <2>1. CASE i \in 1 .. Len(st)
    BY <1>2, <2>1 DEF Sound
  <2>2. CASE i = Len(st) + 1
    BY <1>2, <2>2
  <2> QED
    BY <1>2, <2>1, <2>2
<1> QED
  BY <1>2, <1>3 DEF Sound, t

LEMMA SoundFront ==
  ASSUME NEW st, Sound(st), st # <<>>
  PROVE  /\ Sound(Front(st)) /\ Len(Front(st)) = Len(st) - 1 /\ Len(st) \in Nat \ {0}
         /\ Last(st) \in Frames /\ FrameSound(Last(st))
         /\ Last(st).max = MaxRecurse - (Len(st) - 1)
<1> DEFINE t == Front(st)
<1>1. st \in Seq(Frames) /\ Len(st) \in Nat \ {0}
  BY EmptySeq DEF Sound
<1>2. \A i \in 1 .. Len(st) - 1 : st[i] \in Frames
  BY <1>1
<1>3. /\ t \in Seq(Frames)
      /\ Len(t) = IF 1 =< Len(st) - 1 THEN Len(st) - 1 - 1 + 1 ELSE 0
      /\ \A i \in 1 .. Len(st) - 1 - 1 + 1 : t[i] = st[1 + i - 1]
  BY <1>1, <1>2, SubSeqProperties DEF Front
<1> HIDE DEF t
<1>4. Len(t) = Len(st) - 1
  <2>1. CASE Len(st) = 1
    BY <1>3, <2>1
  <2>2. CASE Len(st) # 1
    <3>1. 1 =< Len(st) - 1 /\ Len(st) - 1 - 1 + 1 = Len(st) - 1
      <4>1. Len(st) \in Nat \ {0, 1}
        BY <1>1, <2>2
      <4> QED
        BY <4>1
    <3> QED
      BY <1>3, <3>1
  <2> QED
    BY <2>1, <2>2
<1>5. ASSUME NEW i \in 1 .. Len(t) PROVE t[i] = st[i] /\ i \in 1 .. Len(st)
  <2>1. i \in 1 .. Len(st) - 1 - 1 + 1 /\ 1 + i - 1 = i /\ i \in 1 .. Len(st)
    BY <1>1, <1>4
  <2> QED
    BY <1>3, <2>1
<1>6. Sound(t)
  BY <1>3, <1>5 DEF Sound
<1>7. Len(st) \in 1 .. Len(st)
  BY <1>1
<1>8. st[Len(st)] \in Frames
  BY <1>1, <1>7
<1> QED
  BY <1>1, <1>4, <1>6, <1>7, <1>8 DEF Sound, Last, t

LEMMA WriteLeft ==
  ASSUME NEW s, Left(s), NEW text
  PROVE  LET t == Write(s, text) IN Left(t) /\ t.stack = s.stack /\ t.how = s.how
<1> DEFINE t == Write(s, text)
<1>1. PICK st, o, h : s = [stack |-> st, out |-> o, how |-> h]
  BY DEF Left
<1>2. s.stack = st /\ s.how = h
  BY <1>1
<1>3. t = [stack |-> st, out |-> o \o text, how |-> h]
  <2>1. PICK more : more = o \o text
    OBVIOUS
  <2>2. s.out \o text = more
    BY <1>1, <2>1
  <2>3. t = [s EXCEPT !.out = more]
    BY <2>2 DEF Write
  <2> HIDE DEF t
  <2> QED
    BY <1>1, <2>1, <2>3
<1> HIDE DEF t
<1>4. t.stack = st /\ t.how = h
  BY <1>3
<1>5. Left(t)
  BY <1>2, <1>3, <1>4 DEF Left
<1> QED
  BY <1>2, <1>4, <1>5 DEF t

LEMMA ThrowLeft ==
  ASSUME NEW s, Left(s), NEW what \in Ends
  PROVE  Left(Throw(s, what))
<1> DEFINE t == Throw(s, what)
<1>1. PICK st, o, h : s = [stack |-> st, out |-> o, how |-> h]
  BY DEF Left
<1>2. s.stack = st /\ s.how = h
  BY <1>1
<1>3. t = [stack |-> <<>>, out |-> o, how |-> what]
  <2>1. PICK none : none = <<>>
    OBVIOUS
  <2>2. t = [s EXCEPT !.stack = none, !.how = what]
    BY <2>1 DEF Throw
  <2> HIDE DEF t
  <2> QED
    BY <1>1, <2>1, <2>2
<1> HIDE DEF t
<1>4. t.stack = <<>> /\ t.how = what
  BY <1>3
<1> QED
  BY <1>3, <1>4, SoundEmpty DEF Left, t

LEMMA PushLeft ==
  ASSUME NEW s, Left(s), s.how = "busy", NEW f \in Frames, FrameSound(f),
         f.max = MaxRecurse - Len(s.stack)
  PROVE  Left(Push(s, f))
<1> DEFINE t == Push(s, f)
<1>1. PICK st, o, h : s = [stack |-> st, out |-> o, how |-> h]
  BY DEF Left
<1>2. s.stack = st /\ s.how = h
  BY <1>1
<1>3. t = [stack |-> Append(st, f), out |-> o, how |-> h]
  BY <1>1 DEF Push
<1> HIDE DEF t
<1>4. t.stack = Append(st, f) /\ t.how = h
  BY <1>3
<1>5. Sound(Append(st, f))
  BY <1>2, SoundPush DEF Left
<1> QED
  BY <1>2, <1>3, <1>4, <1>5 DEF Left, t

LEMMA GetPageLeft ==
  ASSUME file \in File, NEW s, Left(s), s.how = "busy", NEW a \in Name,
         NEW layout \in BOOLEAN, NEW max \in Nat, max = MaxRecurse - Len(s.stack)
  PROVE  Left(GetPage(s, a, layout, max))
<1> DEFINE mime == file.article[a].mime
           page == GetPage(s, a, layout, max)
<1>1. CASE mime = "redirect"
  <2>1. page = Throw(s, "mime")
    BY <1>1 DEF GetPage
  <2> QED
    BY <2>1, ThrowLeft DEF Ends
<1>2. CASE mime \in {"html", "template"} /\ UsesLayout(layout, a)
  <2>1. file.layout \in Name
    BY <1>2, PagesAssumption DEF UsesLayout
  <2>2. page = Push(s, Frame(a, max, Data(file.layout)))
    BY <1>2 DEF GetPage
  <2>3. Data(file.layout) \in Seq(Byte)
    BY <2>1, DataIsText
  <2> QED
    BY <2>2, <2>3, NewFrame, PushLeft
<1>3. CASE mime = "template" /\ ~UsesLayout(layout, a)
  <2>1. page = Push(s, Frame(a, max, Data(a)))
    BY <1>3 DEF GetPage
  <2>2. Data(a) \in Seq(Byte)
    BY DataIsText
  <2> QED
    BY <2>1, <2>2, NewFrame, PushLeft
<1>4. CASE /\ mime # "redirect" /\ ~(mime \in {"html", "template"} /\ UsesLayout(layout, a))
           /\ ~(mime = "template" /\ ~UsesLayout(layout, a))
  <2>1. page = Write(s, Data(a))
    BY <1>4 DEF GetPage
  <2> QED
    BY <2>1, WriteLeft
<1> QED
  BY <1>1, <1>2, <1>3, <1>4

LEMMA NestedLeft ==
  ASSUME file \in File, NEW s, Left(s), s.how = "busy", NEW a \in Name, NEW max \in Nat,
         Len(s.stack) \in Nat, max = MaxRecurse - (Len(s.stack) - 1)
  PROVE  Left(Nested(s, a, max))
<1>1. CASE max = 0
  BY <1>1, ThrowLeft DEF Nested, Ends
<1>2. CASE max # 0
  <2>1. max - 1 \in Nat /\ max - 1 = MaxRecurse - Len(s.stack)
    <3>1. MaxRecurse \in Nat
      BY PagesAssumption
    <3>2. PICK n : n = Len(s.stack)
      OBVIOUS
    <3> QED
      BY <1>2, <3>1, <3>2
  <2>2. Nested(s, a, max) = GetPage(s, a, FALSE, max - 1)
    BY <1>2 DEF Nested, Deeper
  <2> QED
    BY <2>1, <2>2, GetPageLeft
<1> QED
  BY <1>1, <1>2

LEMMA HandleLeft ==
  ASSUME file \in File, NEW s, Left(s), s.how = "busy", NEW parser \in Parser,
         NEW frame \in Frames, Len(s.stack) \in Nat,
         frame.max = MaxRecurse - (Len(s.stack) - 1)
  PROVE  Left(Handle(s, parser, frame))
<1> DEFINE t == Write(s, parser.text)
           calls == parser.calls
<1>1. Left(t) /\ t.stack = s.stack /\ t.how = "busy"
  BY WriteLeft
<1>2. frame.art \in Name /\ frame.max \in Nat /\ calls \in Calls
  BY DEF Frames, Parser
<1>3. calls.on \in {"nothing", "token", "link"}
  BY <1>2 DEF Calls
<1> HIDE DEF t
<1>4. CASE calls.on = "nothing"
  <2>1. Handle(s, parser, frame) = t
    BY <1>4 DEF Handle, t
  <2> QED
    BY <1>1, <2>1
<1>5. CASE calls.on = "token"
  <2> DEFINE token == calls.token
             r == HandleToken(t, token, frame)
  <2>1. Handle(s, parser, frame) = r
    BY <1>5 DEF Handle, t
  <2> DEFINE name == Write(t, <<frame.art>>)
             space == Write(t, <<"A">>)
             content == Nested(t, frame.art, frame.max)
             other == Write(t, <<"<", "%">> \o token \o <<"%", ">">>)
  <2> HIDE DEF token
  <2>6. r = CASE token \in {TokenTitle, TokenUrl} -> name
              [] token = TokenNs -> space
              [] token = TokenContent -> content
              [] OTHER -> other
    BY DEF HandleToken
  <2> HIDE DEF r, name, space, content, other
  <2>2. CASE token \in {TokenTitle, TokenUrl}
    <3>1. r = name
      BY <2>2, <2>6 DEF TokenTitle, TokenUrl, TokenNs, TokenContent
    <3> QED
      BY <1>1, <2>1, <3>1, WriteLeft DEF name
  <2>3. CASE token \notin {TokenTitle, TokenUrl} /\ token = TokenNs
    <3>1. r = space
      BY <2>3, <2>6 DEF TokenNs, TokenContent
    <3> QED
      BY <1>1, <2>1, <3>1, WriteLeft DEF space
  <2>4. CASE token \notin {TokenTitle, TokenUrl, TokenNs} /\ token = TokenContent
    <3>1. r = content
      BY <2>4, <2>6
    <3> QED
      BY <1>1, <1>2, <2>1, <3>1, NestedLeft DEF content
  <2>5. CASE token \notin {TokenTitle, TokenUrl, TokenNs, TokenContent}
    <3>1. r = other
      BY <2>5, <2>6
    <3> QED
      BY <1>1, <2>1, <3>1, WriteLeft DEF other
  <2> QED
    BY <2>2, <2>3, <2>4, <2>5
<1>6. CASE calls.on = "link"
  <2> DEFINE ns == calls.ns
             url == calls.url
             r == HandleLink(t, ns, url, frame)
  <2>1. Handle(s, parser, frame) = r
    BY <1>6 DEF Handle, t
  <2> HIDE DEF ns, url
  <2>2. CASE frame.max = 0
    <3>1. r = Throw(t, "limit")
      BY <2>2 DEF HandleLink
    <3> QED
      BY <1>1, <2>1, <3>1, ThrowLeft DEF Ends
  <2>3. CASE frame.max > 0 /\ InFile(ns, url)
    <3>1. r = Nested(t, Head(url), frame.max)
      BY <1>2, <2>3 DEF HandleLink
    <3>2. PICK a \in Name : url = <<a>>
      BY <2>3 DEF InFile
    <3>3. Head(url) = a
      BY <3>2
    <3> QED
      BY <1>1, <1>2, <2>1, <3>1, <3>3, NestedLeft
  <2>4. CASE frame.max > 0 /\ ~InFile(ns, url)
    <3>1. r = Throw(t, "crash")
      BY <1>2, <2>4 DEF HandleLink
    <3> QED
      BY <1>1, <2>1, <3>1, ThrowLeft DEF Ends
  <2> QED
    BY <1>2, <2>2, <2>3, <2>4
<1> QED
  BY <1>3, <1>4, <1>5, <1>6

LEMMA BecomeKeeps ==
  ASSUME NEW s, Left(s), Become(s), file' \in File, asked' \in Name
  PROVE  IInv'
<1>1. /\ stack' = s.stack
      /\ how' = IF s.how = "busy" /\ s.stack = <<>> THEN "done" ELSE s.how
  BY DEF Become
<1>2. s.how \in Ends /\ (s.how = "busy" \/ s.stack = <<>>) /\ Sound(s.stack)
  BY DEF Left
<1>3. how' \in Ends /\ ((how' = "busy") <=> (stack' # <<>>))
  BY <1>1, <1>2 DEF Ends
<1>4. Sound(stack')
  BY <1>1, <1>2
<1>5. Sound(stack)'
  BY <1>4 DEF Sound
<1> QED
  BY <1>3, <1>5 DEF IInv

-----------------------------------------------------------------------------
LEMMA InitOK == Init => IInv
<1> SUFFICES ASSUME Init PROVE IInv
  OBVIOUS
<1> QED
  BY SoundEmpty DEF Init, IInv, Ends

LEMMA NowLeft ==
  ASSUME IInv, NEW st, Sound(st)
  PROVE  LET s == [Now EXCEPT !.stack = st]
         IN Left(s) /\ s.stack = st /\ s.how = "busy"
<1> DEFINE s == [Now EXCEPT !.stack = st]
<1>1. s = [stack |-> st, out |-> out, how |-> "busy"]
  BY DEF Now
<1>2. s.stack = st /\ s.how = "busy"
  BY <1>1
<1> HIDE DEF s
<1>3. Left(s)
  BY <1>1, <1>2 DEF Left, Ends
<1> QED
  BY <1>2, <1>3 DEF s

LEMMA AskStep == ASSUME IInv, Ask PROVE IInv'
<1> DEFINE s == [Now EXCEPT !.out = <<>>]
           r == GetPage(s, asked', TRUE, MaxRecurse)
<1>1. how # "busy" /\ asked' \in Name /\ Become(r) /\ file' = file
  BY DEF Ask
<1>2. stack = <<>>
  BY <1>1 DEF IInv
<1>3. PICK none : none = <<>>
  OBVIOUS
<1>4. s = [stack |-> none, out |-> none, how |-> "busy"]
  BY <1>2, <1>3 DEF Now
<1>5. s.stack = <<>> /\ s.how = "busy"
  BY <1>3, <1>4
<1> HIDE DEF s
<1>6. Left(s)
  BY <1>4, <1>5, SoundEmpty DEF Left, Ends
<1>7. MaxRecurse \in Nat /\ MaxRecurse = MaxRecurse - Len(s.stack)
  <2>1. MaxRecurse \in Nat
    BY PagesAssumption
  <2>2. Len(s.stack) = 0
    BY <1>5
  <2> QED
    BY <2>1, <2>2
<1>8. Left(r)
  BY <1>1, <1>5, <1>6, <1>7, GetPageLeft DEF IInv
<1> HIDE DEF r
<1> QED
  BY <1>1, <1>8, BecomeKeeps DEF IInv

LEMMA CharStep == ASSUME IInv, Char PROVE IInv'
<1> DEFINE frame == Last(stack)
           parser == Parse(frame.parser, frame.src[frame.pos + 1])
           st == Append(Front(stack), Advance(frame, parser))
           s == [Now EXCEPT !.stack = st]
           r == Handle(s, parser, frame)
<1>1. /\ how = "busy" /\ frame.pos < Len(frame.src) /\ Become(r)
      /\ file' = file /\ asked' = asked
  BY DEF Char, Now
<1>2. /\ Sound(Front(stack)) /\ Len(Front(stack)) = Len(stack) - 1 /\ Len(stack) \in Nat \ {0}
      /\ frame \in Frames /\ FrameSound(frame) /\ frame.max = MaxRecurse - (Len(stack) - 1)
  <2>1. stack # <<>> /\ Sound(stack)
    BY <1>1, Zenon DEF IInv
  <2> QED
    BY <2>1, SoundFront
<1> DEFINE new == Advance(frame, parser)
<1>3. new \in Frames /\ FrameSound(new) /\ new.max = frame.max /\ parser \in Parser
  BY <1>1, <1>2, AdvanceKeeps
<1> HIDE DEF new
<1>4. st = Append(Front(stack), new)
  BY DEF new
<1> HIDE DEF frame, parser, st
<1>5. Sound(st)
  <2>1. new.max = MaxRecurse - Len(Front(stack))
    BY <1>2, <1>3
  <2> QED
    BY <1>2, <1>3, <1>4, <2>1, SoundPush
<1>6. Len(st) = Len(stack)
  <2>1. Front(stack) \in Seq(Frames)
    BY <1>2 DEF Sound
  <2>2. Len(st) = Len(Front(stack)) + 1
    BY <1>3, <1>4, <2>1, AppendProperties
  <2> QED
    BY <1>2, <2>2
<1>7. Left(s) /\ s.stack = st /\ s.how = "busy"
  BY <1>5, NowLeft
<1> HIDE DEF s
<1>8. Left(r)
  <2>1. /\ Len(s.stack) \in Nat /\ frame.max = MaxRecurse - (Len(s.stack) - 1)
        /\ file \in File
    BY <1>2, <1>6, <1>7 DEF IInv
  <2> QED
    BY <1>2, <1>3, <1>7, <2>1, HandleLeft
<1> HIDE DEF r
<1> QED
  BY <1>1, <1>8, BecomeKeeps DEF IInv

LEMMA ReturnStep == ASSUME IInv, Return PROVE IInv'
<1> DEFINE s == [Now EXCEPT !.stack = Front(stack)]
           r == Write(s, Flush(Last(stack).parser).text)
<1>1. how = "busy" /\ Become(r) /\ file' = file /\ asked' = asked
  BY DEF Return, Now
<1>2. Sound(Front(stack))
  <2>1. stack # <<>> /\ Sound(stack)
    BY <1>1, Zenon DEF IInv
  <2> QED
    BY <2>1, SoundFront
<1>3. Left(s)
  BY <1>2, NowLeft
<1> HIDE DEF s
<1>4. Left(r)
  BY <1>3, WriteLeft
<1> HIDE DEF r
<1> QED
  BY <1>1, <1>4, BecomeKeeps DEF IInv

LEMMA StepOK == IInv /\ [Next]_vars => IInv'
<1> SUFFICES ASSUME IInv, [Next]_vars PROVE IInv'
  OBVIOUS
<1>1. CASE Ask
  BY <1>1, AskStep
<1>2. CASE Char
  BY <1>2, CharStep
<1>3. CASE Return
  BY <1>3, ReturnStep
<1>4. CASE UNCHANGED vars
  BY <1>4 DEF IInv, Sound, vars
<1> QED
  BY <1>1, <1>2, <1>3, <1>4 DEF Next

LEMMA Invariant == Spec => []IInv
  BY InitOK, StepOK, PTL DEF Spec

(* The offsets of a parser lie in its data. *)
LEMMA OffsetsSound == IInv => PagesTypeOK
<1> SUFFICES ASSUME IInv PROVE PagesTypeOK
  OBVIOUS
<1>1. stack \in Seq(Frames)
  BY DEF IInv, Sound
<1>2. ASSUME NEW i \in DOMAIN stack
      PROVE  LET p == stack[i].parser IN
       /\ stack[i].max = MaxRecurse - (i - 1)
       /\ stack[i].pos \in 0 .. Len(stack[i].src)
       /\ p.state # "data" => p.save < Len(p.data)
       /\ p.state \in {"token", "token_end"} => p.save + 2 \in 1 .. p.token
       /\ p.state \in {"title", "title_end"} => p.token \in p.save + 5 .. Len(p.data)
       /\ p.state = "title_end" => p.token_e \in p.token .. At(p)
  <2> DEFINE f == stack[i]
             p == f.parser
  <2>1. i \in 1 .. Len(stack)
    BY <1>1
  <2>2. f \in Frames /\ FrameSound(f) /\ f.max = MaxRecurse - (i - 1)
    BY <1>1, <2>1 DEF IInv, Sound
  <2> HIDE DEF f
  <2>3. p \in Parser /\ f.src \in Seq(Byte) /\ f.pos \in Nat /\ Shape(p, f.dropped)
    BY <2>2 DEF Frames, FrameSound
  <2>4. /\ p.save \in Nat /\ p.token \in Nat /\ p.data \in Seq(Byte) /\ Len(p.data) \in Nat
    BY <2>3 DEF Parser
  <2>5. f.pos \in 0 .. Len(f.src)
    BY <2>2, <2>3 DEF FrameSound
  <2> HIDE DEF p
  <2>6. /\ p.state # "data" => p.save < Len(p.data)
        /\ p.state \in {"token", "token_end"} => p.save + 2 \in 1 .. p.token
        /\ p.state \in {"title", "title_end"} => p.token \in p.save + 5 .. Len(p.data)
        /\ p.state = "title_end" => p.token_e \in p.token .. At(p)
    BY SMTT(40), <2>3, <2>4 DEF Shape, At
  <2> QED
    BY <2>2, <2>5, <2>6 DEF p, f
<1>3. how \in {"idle", "busy", "done", "limit", "mime", "crash"}
  BY DEF IInv, Ends
<1>4. (how = "busy") <=> (stack # <<>>)
  BY Zenon DEF IInv
<1> QED
  BY <1>2, <1>3, <1>4, Zenon DEF PagesTypeOK

LEMMA TextIsKept == IInv => TextKept
<1> SUFFICES ASSUME IInv, NEW i \in DOMAIN stack, ~stack[i].dropped
             PROVE  stack[i].told \o stack[i].parser.data
                      = SubSeq(stack[i].src, 1, stack[i].pos)
  BY DEF TextKept
<1>1. i \in 1 .. Len(stack)
  BY DEF IInv, Sound
<1> QED
  BY <1>1 DEF IInv, Sound, FrameSound

(* However templates are broken off and whatever calls of getPage they     *)
(* make, a parser has told its Event, or still holds, all it has read, and *)
(* its offsets lie in what it holds.                                       *)
THEOREM ParsersTheorem == Spec => []ParsersSound
<1>1. IInv => ParsersSound
  BY OffsetsSound, TextIsKept DEF ParsersSound
<1> QED
  BY <1>1, Invariant, PTL
=============================================================================
