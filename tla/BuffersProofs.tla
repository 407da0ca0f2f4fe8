--------------------------- MODULE BuffersProofs ---------------------------
(***************************************************************************)
(* Proofs about CompressedCluster, for any bytes, any sizes of the buffers *)
(* and anything behind the stream in its file: no byte is lost, neither on *)
(* the way out nor on the way back, and what is read is what was written.  *)
(***************************************************************************)
EXTENDS CompressedCluster, SequenceTheorems, TLAPS

-----------------------------------------------------------------------------
(* A sequence cut in two, and what is put behind it.                       *)

LEMMA CutRejoin ==
  ASSUME NEW S, NEW s \in Seq(S), NEW k \in 0 .. Len(s)
  PROVE  /\ SubSeq(s, 1, k) \in Seq(S) /\ Len(SubSeq(s, 1, k)) = k
         /\ SubSeq(s, k + 1, Len(s)) \in Seq(S) /\ Len(SubSeq(s, k + 1, Len(s))) = Len(s) - k
         /\ SubSeq(s, 1, k) \o SubSeq(s, k + 1, Len(s)) = s
         /\ \A j \in 1 .. k : SubSeq(s, 1, k)[j] = s[j]
<1>1. /\ SubSeq(s, 1, k) \in Seq(S) /\ Len(SubSeq(s, 1, k)) = k
      /\ \A j \in 1 .. k : SubSeq(s, 1, k)[j] = s[j]
  <2>1. \A i \in 1 .. k : s[i] \in S
    OBVIOUS
  <2>2. /\ SubSeq(s, 1, k) \in Seq(S)
        /\ Len(SubSeq(s, 1, k)) = IF 1 <= k THEN k - 1 + 1 ELSE 0
        /\ \A i \in 1 .. k - 1 + 1 : SubSeq(s, 1, k)[i] = s[1 + i - 1]
    BY <2>1, SubSeqProperties
  <2> QED
    BY <2>2
<1>2. SubSeq(s, k + 1, Len(s)) \in Seq(S) /\ Len(SubSeq(s, k + 1, Len(s))) = Len(s) - k
  <2>1. \A i \in k + 1 .. Len(s) : s[i] \in S
    OBVIOUS
  <2>2. /\ SubSeq(s, k + 1, Len(s)) \in Seq(S)
        /\ Len(SubSeq(s, k + 1, Len(s)))
             = IF k + 1 <= Len(s) THEN Len(s) - (k + 1) + 1 ELSE 0
    BY <2>1, SubSeqProperties
  <2> QED
    BY <2>2
<1>3. SubSeq(s, 1, k) \o SubSeq(s, k + 1, Len(s)) = SubSeq(s, 1, Len(s))
  <2>1. 1 \in 1 .. Len(s) + 1 /\ k \in 1 - 1 .. Len(s) /\ Len(s) \in k .. Len(s)
    OBVIOUS
  <2> QED
    BY <2>1, ConcatAdjacentSubSeq
<1>4. SubSeq(s, 1, Len(s)) = s
  BY SubSeqFull
<1> QED
  BY <1>1, <1>2, <1>3, <1>4

(* The provers look into \o element by element, and into Cat they do not.  *)
Cat(s, t) == s \o t

LEMMA CatInSeq ==
  ASSUME NEW S
  PROVE  \A s, t \in Seq(S) : Cat(s, t) \in Seq(S)
  BY ConcatProperties DEF Cat

LEMMA CatAssociative ==
  ASSUME NEW S
  PROVE  \A s, t, u \in Seq(S) : Cat(Cat(s, t), u) = Cat(s, Cat(t, u))
  BY ConcatAssociative DEF Cat

LEMMA CatEmpty ==
  ASSUME NEW S
  PROVE  \A s \in Seq(S) : Cat(s, <<>>) = s /\ Cat(<<>>, s) = s
  BY ConcatEmptySeq DEF Cat

LEMMA CatCut ==
  ASSUME NEW S
  PROVE  \A s \in Seq(S) : \A k \in 0 .. Len(s) :
           /\ SubSeq(s, 1, k) \in Seq(S) /\ Len(SubSeq(s, 1, k)) = k
           /\ SubSeq(s, k + 1, Len(s)) \in Seq(S) /\ Len(SubSeq(s, k + 1, Len(s))) = Len(s) - k
           /\ Cat(SubSeq(s, 1, k), SubSeq(s, k + 1, Len(s))) = s
  BY CutRejoin DEF Cat

(* Of u the first k go into y, behind it v comes; the first m of these go  *)
(* into x: everything stays in its order.                                  *)
Moved(S, x, y, u, w, v, k, m) ==
  LET z  == Cat(Cat(y, SubSeq(u, 1, k)), v)
      x2 == Cat(x, SubSeq(z, 1, m))
      y2 == SubSeq(z, m + 1, Len(z))
      u2 == SubSeq(u, k + 1, Len(u))
  IN /\ z \in Seq(S) /\ SubSeq(z, 1, m) \in Seq(S) /\ Len(SubSeq(z, 1, m)) = m
     /\ x2 \in Seq(S) /\ y2 \in Seq(S) /\ u2 \in Seq(S)
     /\ Len(u2) = Len(u) - k
     /\ Cat(Cat(Cat(x2, y2), u2), w) = Cat(Cat(Cat(Cat(x, y), u), w), v)

LEMMA Passed ==
  ASSUME NEW S, NEW x \in Seq(S), NEW y \in Seq(S), NEW u \in Seq(S), NEW w \in Seq(S),
         NEW v \in Seq(S), NEW k \in 0 .. Len(u),
         v = <<>> \/ (k = Len(u) /\ w = <<>>),
         NEW m \in 0 .. Len(Cat(Cat(y, SubSeq(u, 1, k)), v))
  PROVE  Moved(S, x, y, u, w, v, k, m)
<1>z. PICK z : z = Cat(Cat(y, SubSeq(u, 1, k)), v)
  OBVIOUS
<1>p. PICK p : p = SubSeq(u, 1, k)
  OBVIOUS
<1>q. PICK q : q = SubSeq(u, k + 1, Len(u))
  OBVIOUS
<1>1. p \in Seq(S) /\ Len(p) = k /\ q \in Seq(S) /\ Len(q) = Len(u) - k /\ Cat(p, q) = u
  BY <1>p, <1>q, CatCut
<1>2. Cat(y, p) \in Seq(S) /\ z = Cat(Cat(y, p), v)
  BY <1>1, <1>p, <1>z, CatInSeq
<1>3. z \in Seq(S)
  BY <1>2, CatInSeq
<1>a. PICK a : a = SubSeq(z, 1, m)
  OBVIOUS
<1>b. PICK b : b = SubSeq(z, m + 1, Len(z))
  OBVIOUS
<1>4. a \in Seq(S) /\ Len(a) = m /\ b \in Seq(S) /\ Cat(a, b) = z
  <2>1. \A i \in 0 .. Len(z) :
          /\ SubSeq(z, 1, i) \in Seq(S) /\ Len(SubSeq(z, 1, i)) = i
          /\ SubSeq(z, i + 1, Len(z)) \in Seq(S)
          /\ Cat(SubSeq(z, 1, i), SubSeq(z, i + 1, Len(z))) = z
    BY <1>3, CatCut, Zenon
  <2> QED
    BY <2>1, <1>a, <1>b, <1>z
<1>5. Cat(x, a) \in Seq(S)
  BY <1>4, CatInSeq
<1>6. Cat(Cat(x, a), b) = Cat(x, z)
  BY <1>4, CatAssociative
<1>7. Cat(Cat(Cat(x, z), q), w) = Cat(Cat(Cat(Cat(x, y), u), w), v)
  <2>1. Cat(x, y) \in Seq(S)
    BY CatInSeq
  <2>4. Cat(Cat(x, y), u) \in Seq(S)
    BY <2>1, CatInSeq
  <2>2. CASE v = <<>>
    <3>1. z = Cat(y, p)
      BY <1>2, <2>2, CatEmpty
    <3>2. Cat(x, Cat(y, p)) = Cat(Cat(x, y), p)
      BY <1>1, CatAssociative
    <3>3. Cat(Cat(Cat(x, y), p), q) = Cat(Cat(x, y), u)
      BY <1>1, <2>1, CatAssociative
    <3>4. Cat(Cat(Cat(x, y), u), w) \in Seq(S)
      BY <2>4, CatInSeq
    <3> QED
      BY <2>2, <3>1, <3>2, <3>3, <3>4, CatEmpty
  <2>3. CASE k = Len(u) /\ w = <<>>
    <3>1. q = <<>>
      BY <1>1, <2>3, EmptySeq
    <3>2. p = u
      BY <1>1, <3>1, CatEmpty
    <3>3. Cat(x, z) \in Seq(S)
      BY <1>3, CatInSeq
    <3>4. Cat(Cat(Cat(x, z), <<>>), <<>>) = Cat(x, z)
      BY <3>3, CatEmpty
    <3>5. Cat(y, u) \in Seq(S)
      BY CatInSeq
    <3>6. Cat(x, Cat(Cat(y, u), v)) = Cat(Cat(x, Cat(y, u)), v)
      BY <3>5, CatAssociative
    <3>7. Cat(x, Cat(y, u)) = Cat(Cat(x, y), u)
      BY CatAssociative
    <3>8. Cat(Cat(Cat(x, y), u), <<>>) = Cat(Cat(x, y), u)
      BY <2>4, CatEmpty
    <3> QED
      BY <1>2, <2>3, <3>1, <3>2, <3>4, <3>6, <3>7, <3>8
  <2> QED
    BY <2>2, <2>3
<1> QED
  BY <1>1, <1>3, <1>4, <1>5, <1>6, <1>7, <1>a, <1>b, <1>q, <1>z DEF Moved

(* All that may be in a buffer, and what is not the end of a stream. *)
Cell == Byte \cup {Trailer} \cup Other
Plain == Cell \ {Trailer}

(* The first trailer cuts a sequence in one way only. *)
LEMMA TrailerCuts ==
  ASSUME NEW x \in Seq(Plain), NEW y \in Seq(Plain),
         NEW u \in Seq(Cell), NEW v \in Seq(Cell),
         Cat(Cat(x, <<Trailer>>), u) = Cat(Cat(y, <<Trailer>>), v)
  PROVE  x = y /\ u = v
<1>c. x \o <<Trailer>> \o u = y \o <<Trailer>> \o v
  BY DEF Cat
<1>1. x \in Seq(Cell) /\ y \in Seq(Cell) /\ <<Trailer>> \in Seq(Cell)
  <2>1. Plain \subseteq Cell /\ Trailer \in Cell
    BY DEF Plain, Cell
  <2>2. x \in Seq(Cell) /\ y \in Seq(Cell)
    BY <2>1, SeqMonotonic
  <2> QED
    BY <2>1, <2>2
<1>2. ASSUME NEW a \in Seq(Plain), a \in Seq(Cell), NEW b \in Seq(Cell)
      PROVE  LET w == a \o <<Trailer>> \o b
             IN /\ Len(w) = Len(a) + 1 + Len(b) /\ w[Len(a) + 1] = Trailer
                /\ \A j \in 1 .. Len(a) : w[j] = a[j] /\ w[j] # Trailer
                /\ \A j \in 1 .. Len(b) : w[Len(a) + 1 + j] = b[j]
  <2> PICK d : d = a \o <<Trailer>>
    OBVIOUS
  <2>1. /\ d \in Seq(Cell) /\ Len(d) = Len(a) + 1
        /\ \A i \in 1 .. Len(a) + 1 : d[i] = IF i <= Len(a) THEN a[i] ELSE <<Trailer>>[i - Len(a)]
    <3>1. Len(<<Trailer>>) = 1
      OBVIOUS
    <3> QED
      BY <1>1, <1>2, <3>1, ConcatProperties
  <2>2. d[Len(a) + 1] = Trailer /\ \A i \in 1 .. Len(a) : d[i] = a[i]
    BY <2>1, <1>2
  <2> PICK w : w = d \o b
    OBVIOUS
  <2>3. /\ Len(w) = Len(d) + Len(b)
        /\ \A i \in 1 .. Len(d) + Len(b) : w[i] = IF i <= Len(d) THEN d[i] ELSE b[i - Len(d)]
    BY <2>1, <1>2, ConcatProperties
  <2>4. Len(a) \in Nat /\ Len(b) \in Nat
    BY <1>2
  <2>5. w[Len(a) + 1] = Trailer
    BY <2>1, <2>2, <2>3, <2>4
  <2>8. \A i \in 1 .. Len(a) : a[i] # Trailer
    <3>1. \A i \in 1 .. Len(a) : a[i] \in Plain
      BY <1>2, ElementOfSeq
    <3> QED
      BY <3>1 DEF Plain
  <2>6. ASSUME NEW j \in 1 .. Len(a) PROVE w[j] = a[j] /\ w[j] # Trailer
    BY <2>1, <2>2, <2>3, <2>4, <2>8
  <2>7. ASSUME NEW j \in 1 .. Len(b) PROVE w[Len(a) + 1 + j] = b[j]
    BY <2>1, <2>3, <2>4
  <2> QED
    BY <2>1, <2>3, <2>4, <2>5, <2>6, <2>7
<1> PICK w : w = x \o <<Trailer>> \o u
  OBVIOUS
<1>3. /\ Len(w) = Len(x) + 1 + Len(u) /\ w[Len(x) + 1] = Trailer
      /\ \A j \in 1 .. Len(x) : w[j] = x[j] /\ w[j] # Trailer
      /\ \A j \in 1 .. Len(u) : w[Len(x) + 1 + j] = u[j]
  BY <1>1, <1>2, Zenon
<1>4. /\ Len(w) = Len(y) + 1 + Len(v) /\ w[Len(y) + 1] = Trailer
      /\ \A j \in 1 .. Len(y) : w[j] = y[j] /\ w[j] # Trailer
      /\ \A j \in 1 .. Len(v) : w[Len(y) + 1 + j] = v[j]
  <2>1. LET z == y \o <<Trailer>> \o v
        IN /\ Len(z) = Len(y) + 1 + Len(v) /\ z[Len(y) + 1] = Trailer
           /\ \A j \in 1 .. Len(y) : z[j] = y[j] /\ z[j] # Trailer
           /\ \A j \in 1 .. Len(v) : z[Len(y) + 1 + j] = v[j]
    BY <1>1, <1>2, Zenon
  <2> QED
    BY <2>1, <1>c
<1>5. Len(x) \in Nat /\ Len(y) \in Nat /\ Len(u) \in Nat /\ Len(v) \in Nat
  OBVIOUS
<1>6. ~(Len(x) < Len(y)) /\ ~(Len(y) < Len(x))
  <2>1. Len(x) < Len(y) => Len(x) + 1 \in 1 .. Len(y)
    BY <1>5
  <2>2. Len(y) < Len(x) => Len(y) + 1 \in 1 .. Len(x)
    BY <1>5
  <2> QED
    BY <1>3, <1>4, <2>1, <2>2
<1>7. Len(x) = Len(y) /\ Len(u) = Len(v)
  BY <1>3, <1>4, <1>5, <1>6
<1>8. x = y
  <2>1. \A j \in 1 .. Len(x) : x[j] = y[j]
    BY <1>3, <1>4, <1>7
  <2> QED
    BY <1>1, <1>7, <2>1, SeqEqual, Zenon
<1>9. u = v
  <2>1. \A j \in 1 .. Len(u) : u[j] = v[j]
    BY <1>3, <1>4, <1>7
  <2> QED
    BY <1>7, <2>1, SeqEqual, Zenon
<1> QED
  BY <1>8, <1>9

-----------------------------------------------------------------------------
(* The inductive invariant.                                                *)

(* On the way out: overflow has one byte in hand and is not called once    *)
(* the stream has been ended, and then nothing is left in a buffer.        *)
Putting ==
  /\ Len(c) =< 1
  /\ writing # "overflow" => c = <<>>
  /\ writing = "overflow" => ~finishing
  /\ writing = "ended" => obuffer = <<>> /\ taken = <<>> /\ finishing

(* Until it has been opened nothing is in the buffer of the reader. *)
Fresh ==
  /\ content = <<>> /\ junk = <<>> /\ mode = "in" /\ file = <<>>
  /\ input = <<>> /\ inside = <<>> /\ ended = FALSE
  /\ area = <<>> /\ target = <<>> /\ reading = "idle"

InSeqs ==
  /\ content \in Seq(Byte) /\ junk \in Seq(Other)
  /\ file \in Seq(Cell) /\ input \in Seq(Cell) /\ area \in Seq(Cell)
  /\ inside \in Seq(Plain) /\ target \in Seq(Plain)
  /\ mode = "in" => area \in Seq(Plain)

(* What is before the library, what is in it and what is behind it: with   *)
(* the end of the stream the trailer is gone and all contents are before.  *)
Held(front, back) ==
  IF ended
  THEN front = content /\ inside = <<>> /\ Cat(input, back) = junk
  ELSE Cat(Cat(Cat(front, inside), input), back) = Cat(Cat(content, <<Trailer>>), junk)

Getting ==
  /\ Held(Cat(target, area), file)
  /\ reading = "underflow" => area = <<>> /\ (Len(target) < Len(content) \/ junk = <<>>)
  /\ reading = "eof" => area = <<>> /\ input = <<>> /\ file = <<>>

Passing ==
  /\ junk = <<>>
  /\ Held(target, Cat(area, file))
  /\ reading = "overflow" => area = <<>>
  /\ reading # "overflow" => input = <<>>
  /\ reading = "closed" => area = <<>> /\ file = <<>>

Expanding ==
  /\ content = written
  /\ InSeqs
  /\ IF mode = "in" THEN Getting ELSE Passing

IInv ==
  /\ stage \in {"write", "read"}
  /\ C!TypeOK /\ C!NothingLost /\ Putting
  /\ E!TypeOK
  /\ IF stage = "write" THEN Fresh ELSE Expanding

-----------------------------------------------------------------------------
(* On the way out.                                                         *)

OutByte == Byte \cup {Trailer}

LEMMA CatOut ==
  /\ C!NothingLost <=> Cat(Cat(Cat(sink, taken), obuffer), c) = Cat(written, C!Ending)
  /\ \A action, k : C!Inside(action, k)
       = Cat(Cat(taken, SubSeq(obuffer, 1, k)),
             IF action = "finish" /\ ~finishing /\ k = Len(obuffer) THEN <<Trailer>> ELSE <<>>)
  BY DEF C!NothingLost, C!Inside, Cat

(* A call of the compressor: what it has not taken and what it has taken,  *)
(* kept or given are together what was put.                                *)
LEMMA CompressMoves ==
  ASSUME C!TypeOK, C!NothingLost, NEW action, NEW k \in C!Taken, NEW m \in C!Given,
         C!Compress(action, k, m), action = "finish" => c = <<>>
  PROVE  /\ sink' \in Seq(OutByte) /\ taken' \in Seq(OutByte) /\ finishing' \in BOOLEAN
         /\ C!Left(k) \in Seq(Byte) /\ Len(C!Left(k)) = Len(obuffer) - k
         /\ Cat(Cat(Cat(sink', taken'), C!Left(k)), c)
              = Cat(written, IF finishing' THEN <<Trailer>> ELSE <<>>)
         /\ action # "finish" => finishing' = finishing
         /\ action = "finish" /\ C!Left(k) = <<>> => finishing'
<1> PICK v : v = IF action = "finish" /\ ~finishing /\ k = Len(obuffer) THEN <<Trailer>> ELSE <<>>
  OBVIOUS
<1>1. /\ sink \in Seq(OutByte) /\ taken \in Seq(OutByte) /\ c \in Seq(OutByte)
      /\ obuffer \in Seq(Byte) /\ written \in Seq(OutByte) /\ v \in Seq(OutByte)
      /\ finishing \in BOOLEAN
  <2>1. v \in Seq(OutByte)
    <3>1. <<Trailer>> \in Seq(OutByte) /\ <<>> \in Seq(OutByte)
      BY DEF OutByte
    <3> QED
      BY <3>1
  <2>2. c \in Seq(Byte) /\ obuffer \in Seq(Byte) /\ written \in Seq(Byte)
    BY DEF C!TypeOK
  <2>3. c \in Seq(OutByte) /\ written \in Seq(OutByte)
    BY <2>2, SeqMonotonic DEF OutByte
  <2> QED
    BY <2>1, <2>2, <2>3 DEF C!TypeOK, OutByte
<1>2. obuffer \in Seq(OutByte)
  BY <1>1, SeqMonotonic DEF OutByte
<1>3. k \in 0 .. Len(obuffer)
  BY DEF C!Taken
<1>4. v = <<>> \/ (k = Len(obuffer) /\ c = <<>>)
  OBVIOUS
<1>5. C!Inside(action, k) = Cat(Cat(taken, SubSeq(obuffer, 1, k)), v)
  BY CatOut
<1>z. PICK z : z = Cat(Cat(taken, SubSeq(obuffer, 1, k)), v)
  OBVIOUS
<1>6. /\ sink' = Cat(sink, SubSeq(z, 1, m)) /\ taken' = SubSeq(z, m + 1, Len(z))
      /\ finishing' = (finishing \/ (action = "finish" /\ k = Len(obuffer)))
      /\ m =< Len(z)
  BY <1>5, <1>z DEF C!Compress, Cat
<1>a. z \in Seq(OutByte)
  <2>1. SubSeq(obuffer, 1, k) \in Seq(OutByte)
    BY <1>2, <1>3, CatCut
  <2>2. Cat(taken, SubSeq(obuffer, 1, k)) \in Seq(OutByte)
    BY <1>1, <2>1, CatInSeq
  <2>3. Cat(Cat(taken, SubSeq(obuffer, 1, k)), v) \in Seq(OutByte)
    BY <1>1, <2>2, CatInSeq
  <2> QED
    BY <1>z, <2>3
<1>8. m \in 0 .. Len(z)
  BY <1>6, <1>a DEF C!Given
<1>7. /\ Cat(sink, SubSeq(z, 1, m)) \in Seq(OutByte) /\ SubSeq(z, m + 1, Len(z)) \in Seq(OutByte)
      /\ Len(C!Left(k)) = Len(obuffer) - k
      /\ Cat(Cat(Cat(Cat(sink, SubSeq(z, 1, m)), SubSeq(z, m + 1, Len(z))), C!Left(k)), c)
           = Cat(Cat(Cat(Cat(sink, taken), obuffer), c), v)
  <2>1. m \in 0 .. Len(Cat(Cat(taken, SubSeq(obuffer, 1, k)), v))
    BY <1>8, <1>z
  <2> PICK x, y, u, w : x = sink /\ y = taken /\ u = obuffer /\ w = c
    OBVIOUS
  <2>2. /\ x \in Seq(OutByte) /\ y \in Seq(OutByte) /\ u \in Seq(OutByte) /\ w \in Seq(OutByte)
        /\ v \in Seq(OutByte) /\ k \in 0 .. Len(u) /\ (v = <<>> \/ (k = Len(u) /\ w = <<>>))
        /\ m \in 0 .. Len(Cat(Cat(y, SubSeq(u, 1, k)), v))
    BY <1>1, <1>2, <1>3, <1>4, <2>1
  <2>3. Moved(OutByte, x, y, u, w, v, k, m)
    BY ONLY <2>2, Passed
  <2> QED
    BY <2>3, <1>z DEF C!Left, Moved
<1>9. C!Left(k) \in Seq(Byte)
  BY <1>1, <1>3, CatCut DEF C!Left
<1>10. Cat(Cat(Cat(sink', taken'), C!Left(k)), c) = Cat(Cat(written, C!Ending), v)
  BY <1>6, <1>7, <1>8, CatOut
<1>11. Cat(Cat(written, C!Ending), v) = Cat(written, IF finishing' THEN <<Trailer>> ELSE <<>>)
  <2>1. CASE v = <<>>
    <3>1. finishing' = finishing
      BY <1>1, <1>6, <2>1
    <3>2. Cat(written, C!Ending) \in Seq(OutByte)
      <4>1. C!Ending \in Seq(OutByte)
        BY DEF C!Ending, OutByte
      <4> QED
        BY <1>1, <4>1, CatInSeq
    <3> QED
      BY <2>1, <3>1, <3>2, CatEmpty DEF C!Ending
  <2>2. CASE v # <<>>
    <3>1. ~finishing /\ finishing' /\ v = <<Trailer>>
      BY <1>1, <1>6, <2>2
    <3>2. Cat(written, <<>>) = written
      BY <1>1, CatEmpty
    <3> QED
      BY <3>1, <3>2 DEF C!Ending
  <2> QED
    BY <2>1, <2>2
<1>12. action = "finish" /\ C!Left(k) = <<>> => finishing'
  <2>1. C!Left(k) = <<>> => k = Len(obuffer)
    BY <1>1, <1>3, <1>7
  <2> QED
    BY <1>6, <2>1
<1> QED
  BY <1>1, <1>6, <1>7, <1>8, <1>9, <1>10, <1>11, <1>12

(* All that is in the buffers is what has been written so far. *)
LEMMA WrittenSoFar ==
  ASSUME C!TypeOK, C!NothingLost, ~finishing, c = <<>>
  PROVE  Cat(Cat(sink, taken), obuffer) = written
<1>1. /\ sink \in Seq(OutByte) /\ taken \in Seq(OutByte)
      /\ obuffer \in Seq(Byte) /\ written \in Seq(Byte)
  BY DEF C!TypeOK, OutByte
<1>2. obuffer \in Seq(OutByte)
  BY <1>1, SeqMonotonic DEF OutByte
<1>3. Cat(sink, taken) \in Seq(OutByte)
  BY <1>1, CatInSeq
<1>4. Cat(Cat(sink, taken), obuffer) \in Seq(OutByte)
  BY <1>2, <1>3, CatInSeq
<1>5. Cat(Cat(Cat(sink, taken), obuffer), <<>>) = Cat(written, <<>>)
  BY CatOut DEF C!Ending
<1>6. Cat(Cat(Cat(sink, taken), obuffer), <<>>) = Cat(Cat(sink, taken), obuffer)
  BY <1>4, CatEmpty
<1>7. Cat(written, <<>>) = written
  BY <1>1, CatEmpty
<1> QED
  BY <1>5, <1>6, <1>7

LEMMA AppendCat ==
  ASSUME NEW S
  PROVE  \A s \in Seq(S) : \A e \in S : Append(s, e) = Cat(s, <<e>>) /\ <<e>> \in Seq(S)
  BY AppendIsConcat DEF Cat

LEMMA OutPut ==
  ASSUME C!TypeOK, C!NothingLost, Putting, C!Put
  PROVE  C!TypeOK' /\ C!NothingLost' /\ Putting'
<1> PICK e \in Byte : /\ written' = Append(written, e)
                     /\ IF C!Room(obuffer)
                        THEN obuffer' = Append(obuffer, e) /\ UNCHANGED <<writing, c>>
                        ELSE writing' = "overflow" /\ c' = <<e>> /\ UNCHANGED obuffer
  BY DEF C!Put
<1>1. /\ writing = "idle" /\ ~finishing /\ UNCHANGED <<kind, taken, finishing, sink>>
      /\ c = <<>>
  BY DEF C!Put, Putting
<1>2. /\ sink \in Seq(OutByte) /\ taken \in Seq(OutByte)
      /\ obuffer \in Seq(Byte) /\ written \in Seq(Byte)
  BY DEF C!TypeOK, OutByte
<1>3. obuffer \in Seq(OutByte) /\ e \in OutByte
  BY <1>2, SeqMonotonic DEF OutByte
<1> PICK all : all = Cat(sink, taken)
  OBVIOUS
<1>4. all \in Seq(OutByte)
  BY <1>2, CatInSeq
<1>5. Cat(all, obuffer) = written
  BY <1>1, WrittenSoFar
<1>6. written' = Cat(written, <<e>>) /\ written' \in Seq(Byte)
  <2>1. written' = Append(written, e)
    OBVIOUS
  <2>2. Append(written, e) \in Seq(Byte)
    BY <1>2, AppendProperties
  <2>3. Append(written, e) = Cat(written, <<e>>)
    BY <1>2, AppendCat
  <2> QED
    BY <2>1, <2>2, <2>3
<1>7. <<e>> \in Seq(Byte) /\ <<e>> \in Seq(OutByte) /\ Len(<<e>>) = 1
  BY <1>3, AppendCat
<1>8. Cat(written', <<>>) = written'
  BY <1>6, CatEmpty
<1>9. CASE C!Room(obuffer)
  <2>1. obuffer' = Append(obuffer, e) /\ writing' = writing /\ c' = <<>>
    BY <1>1, <1>9
  <2>2. Append(obuffer, e) \in Seq(Byte) /\ Len(Append(obuffer, e)) = Len(obuffer) + 1
    BY <1>2, AppendProperties
  <2>3. Append(obuffer, e) = Cat(obuffer, <<e>>)
    BY <1>2, AppendCat
  <2>4. Cat(all, Cat(obuffer, <<e>>)) = Cat(written, <<e>>)
    <3>1. PICK one : one = <<e>>
      OBVIOUS
    <3>2. one \in Seq(OutByte) /\ obuffer \in Seq(OutByte)
      BY <1>3, <1>7, <3>1
    <3>3. Cat(Cat(all, obuffer), one) = Cat(all, Cat(obuffer, one))
      BY <1>4, <3>2, CatAssociative
    <3> QED
      BY <1>5, <3>1, <3>3
  <2>5. Cat(Cat(all, obuffer'), <<>>) = written'
    BY <1>6, <1>8, <2>1, <2>3, <2>4
  <2>6. (Cat(Cat(Cat(sink, taken), obuffer), c) = Cat(written, C!Ending))'
    BY <1>1, <1>8, <2>1, <2>5 DEF C!Ending
  <2>7. C!NothingLost'
    BY <2>6 DEF C!NothingLost, Cat
  <2>8. C!TypeOK'
    <3>1. Len(obuffer') =< BufSize /\ obuffer' \in Seq(Byte)
      BY <1>2, <1>9, <2>1, <2>2, SizeAssumption DEF C!Room
    <3> QED
      BY <1>1, <1>6, <2>1, <3>1, EmptySeq DEF C!TypeOK
  <2>9. Putting'
    BY <1>1, <2>1 DEF Putting
  <2> QED
    BY <2>7, <2>8, <2>9
<1>10. CASE ~C!Room(obuffer)
  <2>1. obuffer' = obuffer /\ writing' = "overflow" /\ c' = <<e>>
    BY <1>10
  <2>2. (Cat(Cat(Cat(sink, taken), obuffer), c) = Cat(written, C!Ending))'
    BY <1>1, <1>5, <1>6, <1>8, <2>1 DEF C!Ending
  <2>3. C!NothingLost'
    BY <2>2 DEF C!NothingLost, Cat
  <2>4. C!TypeOK'
    BY <1>1, <1>2, <1>6, <1>7, <2>1 DEF C!TypeOK
  <2>5. Putting'
    BY <1>1, <1>7, <2>1 DEF Putting
  <2> QED
    BY <2>3, <2>4, <2>5
<1> QED
  BY <1>9, <1>10

LEMMA OutOverflow ==
  ASSUME C!TypeOK, C!NothingLost, Putting, C!Overflow
  PROVE  C!TypeOK' /\ C!NothingLost' /\ Putting'
<1> PICK k \in C!Taken, m \in C!Given :
      /\ C!Compress("run", k, m)
      /\ IF C!Room(C!Left(k))
         THEN obuffer' = C!Left(k) \o c /\ writing' = "idle" /\ c' = <<>>
         ELSE obuffer' = C!Left(k) /\ UNCHANGED <<writing, c>>
  BY DEF C!Overflow
<1>1. writing = "overflow" /\ ~finishing /\ UNCHANGED <<kind, written>>
  BY DEF C!Overflow, Putting
<1> PICK left : left = C!Left(k)
  OBVIOUS
<1>2. /\ sink' \in Seq(OutByte) /\ taken' \in Seq(OutByte) /\ finishing' = FALSE
      /\ left \in Seq(Byte) /\ Len(left) = Len(obuffer) - k
      /\ Cat(Cat(Cat(sink', taken'), left), c) = Cat(written, <<>>)
  BY <1>1, CompressMoves DEF C!TypeOK
<1>3. /\ c \in Seq(Byte) /\ obuffer \in Seq(Byte) /\ Len(obuffer) =< BufSize /\ k \in Nat
      /\ Len(c) =< 1
  BY DEF C!TypeOK, C!Taken, Putting
<1>4. left \in Seq(OutByte) /\ c \in Seq(OutByte)
  BY <1>2, <1>3, SeqMonotonic DEF OutByte
<1>5. Cat(sink', taken') \in Seq(OutByte)
  BY <1>2, CatInSeq
<1>6. CASE C!Room(left)
  <2>1. obuffer' = Cat(left, c) /\ writing' = "idle" /\ c' = <<>>
    BY <1>6 DEF Cat
  <2>2. left \o c \in Seq(Byte) /\ Len(left \o c) = Len(left) + Len(c)
    BY <1>2, <1>3, ConcatProperties
  <2>3. Cat(left, c) \in Seq(OutByte)
    BY <1>4, CatInSeq
  <2>4. Cat(Cat(sink', taken'), Cat(left, c)) \in Seq(OutByte)
    BY <1>5, <2>3, CatInSeq
  <2>5. Cat(Cat(Cat(sink', taken'), Cat(left, c)), <<>>) = Cat(Cat(sink', taken'), Cat(left, c))
    BY <2>4, CatEmpty
  <2>6. Cat(Cat(sink', taken'), Cat(left, c)) = Cat(Cat(Cat(sink', taken'), left), c)
    BY <1>4, <1>5, CatAssociative
  <2>7. (Cat(Cat(Cat(sink, taken), obuffer), c) = Cat(written, C!Ending))'
    BY <1>1, <1>2, <2>1, <2>5, <2>6 DEF C!Ending
  <2>8. C!NothingLost'
    BY <2>7 DEF C!NothingLost, Cat
  <2>9. Len(obuffer') =< BufSize /\ obuffer' \in Seq(Byte)
    <3>1. obuffer' = left \o c
      BY <2>1 DEF Cat
    <3>2. Len(left) + 1 =< BufSize
      BY <1>2, <1>6, SizeAssumption DEF C!Room
    <3> QED
      BY <1>2, <1>3, <2>2, <3>1, <3>2, SizeAssumption
  <2>10. C!TypeOK'
    BY <1>1, <1>2, <2>1, <2>9, EmptySeq DEF C!TypeOK, OutByte
  <2>11. Putting'
    BY <1>2, <2>1 DEF Putting
  <2> QED
    BY <2>8, <2>10, <2>11
<1>7. CASE ~C!Room(left)
  <2>1. obuffer' = left /\ writing' = "overflow" /\ c' = c
    BY <1>1, <1>7
  <2>2. (Cat(Cat(Cat(sink, taken), obuffer), c) = Cat(written, C!Ending))'
    BY <1>1, <1>2, <2>1 DEF C!Ending
  <2>3. C!NothingLost'
    BY <2>2 DEF C!NothingLost, Cat
  <2>4. Len(obuffer') =< BufSize
    BY <1>2, <1>3, <2>1, SizeAssumption
  <2>5. C!TypeOK'
    BY <1>1, <1>2, <1>3, <2>1, <2>4 DEF C!TypeOK, OutByte
  <2>6. Putting'
    BY <1>2, <1>3, <2>1 DEF Putting
  <2> QED
    BY <2>3, <2>5, <2>6
<1> QED
  BY <1>6, <1>7

(* The calls of the compressor that put nothing. *)
LEMMA OutMoves ==
  ASSUME C!TypeOK, C!NothingLost, Putting, writing # "overflow",
         NEW action, NEW k \in C!Taken, NEW m \in C!Given, C!Compress(action, k, m),
         obuffer' = C!Left(k), UNCHANGED <<kind, c, written>>,
         writing' \in {"idle", "sync", "close", "closed", "end", "ended"},
         writing' = "ended" => obuffer' = <<>> /\ taken' = <<>> /\ action = "finish"
  PROVE  C!TypeOK' /\ C!NothingLost' /\ Putting'
<1> PICK left : left = C!Left(k)
  OBVIOUS
<1>1. c = <<>>
  BY DEF Putting
<1>2. /\ sink' \in Seq(OutByte) /\ taken' \in Seq(OutByte) /\ finishing' \in BOOLEAN
      /\ left \in Seq(Byte) /\ Len(left) = Len(obuffer) - k
      /\ Cat(Cat(Cat(sink', taken'), left), c) = Cat(written, IF finishing' THEN <<Trailer>> ELSE <<>>)
      /\ action = "finish" /\ left = <<>> => finishing'
  BY <1>1, CompressMoves
<1>3. (Cat(Cat(Cat(sink, taken), obuffer), c) = Cat(written, C!Ending))'
  BY <1>2 DEF C!Ending
<1>4. C!NothingLost'
  BY <1>3 DEF C!NothingLost, Cat
<1>5. Len(obuffer') =< BufSize
  <2>1. Len(obuffer) \in Nat /\ Len(obuffer) =< BufSize /\ k \in Nat
    BY DEF C!TypeOK, C!Taken
  <2> QED
    BY <1>2, <2>1, SizeAssumption
<1>6. C!TypeOK'
  BY <1>2, <1>5 DEF C!TypeOK, OutByte
<1>7. Putting'
  BY <1>1, <1>2 DEF Putting
<1> QED
  BY <1>4, <1>6, <1>7

LEMMA OutStep ==
  ASSUME C!TypeOK, C!NothingLost, Putting, C!Next
  PROVE  C!TypeOK' /\ C!NothingLost' /\ Putting'
<1>1. CASE C!Put
  BY <1>1, OutPut
<1>2. CASE C!Flush
  BY <1>2 DEF C!Flush, C!TypeOK, C!NothingLost, C!Ending, Putting
<1>3. CASE C!Close
  BY <1>3 DEF C!Close, C!TypeOK, C!NothingLost, C!Ending, Putting
<1>4. CASE C!Overflow
  BY <1>4, OutOverflow
<1>5. CASE C!Sync
  <2>1. PICK k \in C!Taken, m \in C!Given : C!Compress(C!SyncAction, k, m) /\ obuffer' = C!Left(k)
    BY <1>5 DEF C!Sync
  <2>2. writing \in {"sync", "close"} /\ UNCHANGED <<kind, writing, c, written>>
    BY <1>5 DEF C!Sync, C!Syncing
  <2> QED
    BY <2>1, <2>2, OutMoves
<1>6. CASE C!SyncDone
  BY <1>6 DEF C!SyncDone, C!Syncing, C!Return, C!TypeOK, C!NothingLost, C!Ending, Putting
<1>7. CASE C!SyncBzip2
  <2>1. PICK k \in C!Taken, m \in C!Given : C!Compress("flush", k, m) /\ obuffer' = C!Left(k)
    BY <1>7 DEF C!SyncBzip2
  <2>2. /\ writing \in {"sync", "close"} /\ UNCHANGED <<kind, c, written>>
        /\ writing' \in {"sync", "close", "idle", "closed"}
    BY <1>7 DEF C!SyncBzip2, C!Syncing, C!Return
  <2> QED
    BY <2>1, <2>2, OutMoves
<1>8. CASE C!End
  <2>1. PICK k \in C!Taken, m \in C!Given : C!Compress("finish", k, m) /\ obuffer' = C!Left(k)
    BY <1>8 DEF C!End
  <2>2. /\ writing = "end" /\ UNCHANGED <<kind, c, written>> /\ writing' \in {"end", "ended"}
        /\ writing' = "ended" => obuffer' = <<>> /\ taken' = <<>>
    BY <1>8 DEF C!End, C!AllOut
  <2> QED
    BY <2>1, <2>2, OutMoves
<1> QED
  BY <1>1, <1>2, <1>3, <1>4, <1>5, <1>6, <1>7, <1>8 DEF C!Next, C!Continue

-----------------------------------------------------------------------------
(* On the way back.                                                        *)

LEMMA CatHeadTail ==
  ASSUME NEW S
  PROVE  \A s \in Seq(S) : s # <<>> =>
           /\ Head(s) \in S /\ <<Head(s)>> \in Seq(S) /\ Tail(s) \in Seq(S)
           /\ Len(Tail(s)) = Len(s) - 1
           /\ Cat(<<Head(s)>>, Tail(s)) = s
<1> SUFFICES ASSUME NEW s \in Seq(S), s # <<>>
             PROVE  /\ Head(s) \in S /\ <<Head(s)>> \in Seq(S) /\ Tail(s) \in Seq(S)
                    /\ Len(Tail(s)) = Len(s) - 1
                    /\ Cat(<<Head(s)>>, Tail(s)) = s
  OBVIOUS
<1>1. Head(s) \in S /\ Tail(s) \in Seq(S) /\ Len(Tail(s)) = Len(s) - 1
  BY HeadTailProperties
<1>2. <<Head(s)>> \in Seq(S)
  BY <1>1
<1>3. Tail(s) = SubSeq(s, 2, Len(s)) /\ Head(s) = s[1]
  BY TailIsSubSeq
<1>4. Len(s) \in Nat /\ Len(s) > 0
  BY EmptySeq
<1>5. SubSeq(s, 1, Len(s)) = <<s[1]>> \o SubSeq(s, 1 + 1, Len(s))
  <2>1. 1 \in 1 .. Len(s) /\ Len(s) \in 1 .. Len(s)
    BY <1>4
  <2> QED
    BY <2>1, SubSeqRecursiveFirst
<1>6. SubSeq(s, 1, Len(s)) = s
  BY SubSeqFull
<1> QED
  BY <1>1, <1>2, <1>3, <1>5, <1>6 DEF Cat

(* The element of a sequence at k stands between those before and behind.  *)
LEMMA CatAround ==
  ASSUME NEW S, NEW s \in Seq(S), NEW k \in 1 .. Len(s)
  PROVE  /\ SubSeq(s, 1, k - 1) \in Seq(S) /\ <<s[k]>> \in Seq(S)
         /\ SubSeq(s, k + 1, Len(s)) \in Seq(S)
         /\ s = Cat(SubSeq(s, 1, k - 1), Cat(<<s[k]>>, SubSeq(s, k + 1, Len(s))))
<1>1. k - 1 \in 0 .. Len(s) /\ (k - 1) + 1 = k /\ k \in 0 .. Len(s)
  OBVIOUS
<1>2. /\ SubSeq(s, 1, k - 1) \in Seq(S)
      /\ Cat(SubSeq(s, 1, k - 1), SubSeq(s, k, Len(s))) = s
  BY <1>1, CatCut
<1>3. SubSeq(s, k, Len(s)) = <<s[k]>> \o SubSeq(s, k + 1, Len(s))
  <2>1. Len(s) \in k .. Len(s)
    OBVIOUS
  <2> QED
    BY <2>1, SubSeqRecursiveFirst
<1>4. SubSeq(s, k + 1, Len(s)) \in Seq(S)
  BY <1>1, CatCut
<1>5. Cat(<<s[k]>>, SubSeq(s, k + 1, Len(s))) = SubSeq(s, k, Len(s))
  BY <1>3 DEF Cat
<1>6. <<s[k]>> \in Seq(S)
  OBVIOUS
<1> QED
  BY <1>2, <1>4, <1>5, <1>6

LEMMA CatSix ==
  ASSUME NEW S, NEW x \in Seq(S), NEW y \in Seq(S), NEW p \in Seq(S), NEW t \in Seq(S),
         NEW q \in Seq(S), NEW z \in Seq(S)
  PROVE  Cat(Cat(Cat(x, y), Cat(p, Cat(t, q))), z) = Cat(Cat(Cat(x, Cat(y, p)), t), Cat(q, z))
<1>1. Cat(x, y) \in Seq(S) /\ Cat(t, q) \in Seq(S) /\ Cat(y, p) \in Seq(S)
  BY CatInSeq
<1>2. Cat(x, Cat(y, p)) \in Seq(S)
  BY <1>1, CatInSeq
<1>3. Cat(Cat(x, Cat(y, p)), t) \in Seq(S)
  BY <1>2, CatInSeq
<1>4. Cat(Cat(x, y), Cat(p, Cat(t, q))) = Cat(Cat(Cat(x, y), p), Cat(t, q))
  BY <1>1, CatAssociative
<1>5. Cat(Cat(x, y), p) = Cat(x, Cat(y, p))
  BY CatAssociative
<1>6. Cat(Cat(x, Cat(y, p)), Cat(t, q)) = Cat(Cat(Cat(x, Cat(y, p)), t), q)
  BY <1>2, CatAssociative
<1>7. Cat(Cat(Cat(Cat(x, Cat(y, p)), t), q), z) = Cat(Cat(Cat(x, Cat(y, p)), t), Cat(q, z))
  BY <1>3, CatAssociative
<1> QED
  BY <1>4, <1>5, <1>6, <1>7

(* What a call of the library gives comes behind front, and the rest stays *)
(* in its order until the stream ends.                                     *)
Shown(front, back, k, m) ==
  /\ E!Given(k, m) \in Seq(Plain) /\ Len(E!Given(k, m)) = m
  /\ inside' \in Seq(Plain) /\ input' \in Seq(Cell) /\ Len(input') = Len(input) - k
  /\ ended' \in BOOLEAN
  /\ IF ended'
     THEN Cat(front, E!Given(k, m)) = content /\ inside' = <<>> /\ Cat(input', back) = junk
     ELSE Cat(Cat(Cat(Cat(front, E!Given(k, m)), inside'), input'), back)
            = Cat(Cat(content, <<Trailer>>), junk)

LEMMA CallKeeps ==
  ASSUME InSeqs, ended = FALSE, NEW front \in Seq(Plain), NEW back \in Seq(Cell),
         Held(front, back),
         NEW k \in 0 .. Len(input), NEW m \in 0 .. HalfSize, E!Call(k, m), ~E!IsEnd(k)
  PROVE  Shown(front, back, k, m)
<1> PICK p : p = SubSeq(input, 1, k)
  OBVIOUS
<1>1. input \in Seq(Cell) /\ inside \in Seq(Plain)
  BY DEF InSeqs
<1>2. \A j \in 1 .. k : input[j] # Trailer
  BY DEF E!Call, E!Possible, E!IsEnd
<1>3. p \in Seq(Plain)
  <2>1. \A j \in 1 .. k : input[j] \in Plain
    BY <1>1, <1>2 DEF Plain
  <2> QED
    BY <2>1, SubSeqProperties
<1>z. PICK z : z = Cat(inside, p)
  OBVIOUS
<1>4. E!Inside(k) = z
  BY <1>z DEF E!Inside, Cat
<1>5. z \in Seq(Plain) /\ m \in 0 .. Len(z)
  <2>1. z \in Seq(Plain)
    BY <1>1, <1>3, <1>z, CatInSeq
  <2> QED
    BY <1>4, <2>1 DEF E!Call, E!Possible
<1>6. /\ E!Given(k, m) = SubSeq(z, 1, m) /\ inside' = SubSeq(z, m + 1, Len(z))
      /\ input' = SubSeq(input, k + 1, Len(input)) /\ ended' = FALSE
  BY <1>4 DEF E!Given, E!Call
<1>7. SubSeq(z, 1, m) \in Seq(Plain) /\ Len(SubSeq(z, 1, m)) = m /\ SubSeq(z, m + 1, Len(z)) \in Seq(Plain)
  BY <1>5, CatCut
<1>8. Cat(z, <<>>) = z
  BY <1>5, CatEmpty
<1>9. Moved(Cell, front, inside, input, back, <<>>, k, m)
  <2>1. inside \in Seq(Cell) /\ front \in Seq(Cell)
    BY <1>1, SeqMonotonic DEF Plain
  <2>2. m \in 0 .. Len(Cat(Cat(inside, SubSeq(input, 1, k)), <<>>))
    BY <1>5, <1>8, <1>z
  <2>3. <<>> \in Seq(Cell)
    OBVIOUS
  <2> QED
    BY <1>1, <2>1, <2>2, <2>3, Passed
<1>10. /\ input' \in Seq(Cell) /\ Len(input') = Len(input) - k
       /\ Cat(Cat(Cat(Cat(front, E!Given(k, m)), inside'), input'), back)
            = Cat(Cat(Cat(Cat(front, inside), input), back), <<>>)
  BY <1>6, <1>8, <1>9, <1>z DEF Moved
<1>11. Cat(Cat(Cat(Cat(front, inside), input), back), <<>>) = Cat(Cat(Cat(front, inside), input), back)
  <2>1. inside \in Seq(Cell) /\ front \in Seq(Cell)
    BY <1>1, SeqMonotonic DEF Plain
  <2>2. Cat(front, inside) \in Seq(Cell)
    BY <2>1, CatInSeq
  <2>3. Cat(Cat(front, inside), input) \in Seq(Cell)
    BY <1>1, <2>2, CatInSeq
  <2>4. Cat(Cat(Cat(front, inside), input), back) \in Seq(Cell)
    BY <2>3, CatInSeq
  <2> QED
    BY <2>4, CatEmpty
<1> QED
  BY <1>6, <1>7, <1>10, <1>11 DEF Shown, Held

LEMMA CallEnds ==
  ASSUME SizeAssumption, InSeqs, ended = FALSE, NEW front \in Seq(Plain), NEW back \in Seq(Cell),
         Held(front, back),
         NEW k \in 0 .. Len(input), NEW m \in 0 .. HalfSize, E!Call(k, m), E!IsEnd(k)
  PROVE  Shown(front, back, k, m)
<1> PICK p : p = SubSeq(input, 1, k - 1)
  OBVIOUS
<1> PICK q : q = SubSeq(input, k + 1, Len(input))
  OBVIOUS
<1>1. input \in Seq(Cell) /\ inside \in Seq(Plain) /\ content \in Seq(Byte) /\ junk \in Seq(Other)
  BY DEF InSeqs
<1>2. /\ k \in 1 .. Len(input) /\ input[k] = Trailer
      /\ \A j \in 1 .. k - 1 : input[j] # Trailer
  BY DEF E!Call, E!Possible, E!IsEnd
<1>3. p \in Seq(Plain)
  <2>1. \A j \in 1 .. k - 1 : input[j] \in Plain
    BY <1>1, <1>2 DEF Plain
  <2> QED
    BY <2>1, SubSeqProperties
<1>t. PICK t : t = <<Trailer>>
  OBVIOUS
<1>4. p \in Seq(Cell) /\ t \in Seq(Cell) /\ q \in Seq(Cell) /\ input = Cat(p, Cat(t, q))
  BY <1>1, <1>2, <1>t, CatAround
<1>z. PICK z : z = Cat(inside, p)
  OBVIOUS
<1>5. E!Inside(k) = z
  BY <1>z DEF E!Inside, Cat
<1>6. z \in Seq(Plain) /\ m = Len(z)
  <2>1. z \in Seq(Plain)
    BY <1>1, <1>3, <1>z, CatInSeq
  <2> QED
    BY <1>5, <2>1 DEF E!Call, E!Possible
<1>7. E!Given(k, m) = z /\ inside' = <<>> /\ input' = q /\ ended' = TRUE
  <2>1. E!Given(k, m) = SubSeq(z, 1, Len(z)) /\ inside' = SubSeq(z, Len(z) + 1, Len(z))
    BY <1>5, <1>6 DEF E!Given, E!Call
  <2>2. SubSeq(z, 1, Len(z)) = z
    BY <1>6, SubSeqFull
  <2>3. SubSeq(z, Len(z) + 1, Len(z)) = <<>>
    <3>1. Len(z) \in Nat
      BY <1>6
    <3>2. Len(z) + 1 \in Int /\ Len(z) \in Int /\ Len(z) < Len(z) + 1
      BY <3>1
    <3> QED
      BY <3>2, SubSeqEmpty
  <2> QED
    BY <2>1, <2>2, <2>3 DEF E!Call
<1>8. inside \in Seq(Cell) /\ front \in Seq(Cell)
  BY <1>1, SeqMonotonic DEF Plain
<1>9. Cat(Cat(Cat(front, inside), input), back) = Cat(Cat(Cat(front, z), t), Cat(q, back))
  <2>1. Cat(Cat(Cat(front, inside), Cat(p, Cat(t, q))), back)
          = Cat(Cat(Cat(front, Cat(inside, p)), t), Cat(q, back))
    <3>1. /\ front \in Seq(Cell) /\ inside \in Seq(Cell) /\ p \in Seq(Cell) /\ t \in Seq(Cell)
          /\ q \in Seq(Cell) /\ back \in Seq(Cell)
      BY <1>4, <1>8
    <3> QED
      BY ONLY <3>1, CatSix
  <2> QED
    BY <1>4, <1>z, <2>1
<1>10. Cat(front, z) = content /\ Cat(q, back) = junk
  <2>1. Cat(front, z) \in Seq(Plain)
    BY <1>6, CatInSeq
  <2>2. Cat(q, back) \in Seq(Cell) /\ junk \in Seq(Cell) /\ Trailer \in Cell
        /\ Plain \subseteq Cell /\ Trailer \notin Plain
    <3>1. Cat(q, back) \in Seq(Cell)
      BY <1>4, CatInSeq
    <3>2. junk \in Seq(Cell)
      BY <1>1, SeqMonotonic DEF Cell
    <3> QED
      BY <3>1, <3>2 DEF Cell, Plain
  <2>3. content \in Seq(Plain)
    <3>1. Byte \subseteq Plain
      BY SizeAssumption DEF Cell, Plain
    <3> QED
      BY <1>1, <3>1, SeqMonotonic
  <2>4. Cat(Cat(Cat(front, z), <<Trailer>>), Cat(q, back)) = Cat(Cat(content, <<Trailer>>), junk)
    BY <1>9, <1>t DEF Held
  <2> QED
    <3>1. PICK x, y, u, v : x = Cat(front, z) /\ y = content /\ u = Cat(q, back) /\ v = junk
      OBVIOUS
    <3>2. /\ x \in Seq(Plain) /\ y \in Seq(Plain)
          /\ u \in Seq(Cell) /\ v \in Seq(Cell) /\ Trailer \in Cell
          /\ Plain \subseteq Cell /\ Trailer \notin Plain
          /\ Cat(Cat(x, <<Trailer>>), u) = Cat(Cat(y, <<Trailer>>), v)
      BY <2>1, <2>2, <2>3, <2>4, <3>1
    <3>3. x = y /\ u = v
      BY ONLY <3>2, TrailerCuts
    <3> QED
      BY <3>1, <3>3
<1>11. Len(input') = Len(input) - k
  BY <1>1, <1>2, <1>7, CatCut
<1>12. <<>> \in Seq(Plain)
  OBVIOUS
<1> QED
  BY <1>4, <1>6, <1>7, <1>10, <1>11, <1>12 DEF Shown

LEMMA CallShows ==
  ASSUME SizeAssumption, InSeqs, ended = FALSE, NEW front \in Seq(Plain), NEW back \in Seq(Cell),
         Held(front, back),
         NEW k \in 0 .. Len(input), NEW m \in 0 .. HalfSize, E!Call(k, m)
  PROVE  Shown(front, back, k, m)
  BY CallKeeps, CallEnds

(* What is held has the elements that its parts have. *)
LEMMA InCells ==
  ASSUME InSeqs
  PROVE  /\ area \in Seq(Cell) /\ target \in Seq(Cell) /\ inside \in Seq(Cell)
         /\ file \in Seq(Cell) /\ input \in Seq(Cell)
         /\ Cat(target, area) \in Seq(Cell) /\ Cat(area, file) \in Seq(Cell)
         /\ Cat(Cat(target, area), inside) \in Seq(Cell) /\ Cat(target, inside) \in Seq(Cell)
         /\ mode = "in" => Cat(target, area) \in Seq(Plain)
<1>1. Plain \subseteq Cell
  BY DEF Plain
<1>2. /\ area \in Seq(Cell) /\ file \in Seq(Cell) /\ input \in Seq(Cell)
      /\ target \in Seq(Plain) /\ inside \in Seq(Plain) /\ (mode = "in" => area \in Seq(Plain))
  BY DEF InSeqs
<1>3. target \in Seq(Cell) /\ inside \in Seq(Cell)
  BY <1>1, <1>2, SeqMonotonic
<1>4. Cat(target, area) \in Seq(Cell) /\ Cat(area, file) \in Seq(Cell) /\ Cat(target, inside) \in Seq(Cell)
  BY <1>2, <1>3, CatInSeq
<1>5. Cat(Cat(target, area), inside) \in Seq(Cell)
  BY <1>3, <1>4, CatInSeq
<1>6. mode = "in" => Cat(target, area) \in Seq(Plain)
  BY <1>2, CatInSeq
<1> QED
  BY <1>2, <1>3, <1>4, <1>5, <1>6

LEMMA InRead ==
  ASSUME SizeAssumption, E!TypeOK, Expanding, E!Read, UNCHANGED out
  PROVE  E!TypeOK' /\ Expanding'
<1>1. /\ mode = "in" /\ reading = "idle" /\ (Len(target) < Len(content) \/ junk = <<>>)
      /\ UNCHANGED <<content, junk, mode, file, input, inside, ended, written>>
      /\ InSeqs /\ Getting /\ content = written
  BY DEF E!Read, E!library, Expanding, out
<1>2. CASE area = <<>>
  <2>1. reading' = "underflow" /\ area' = area /\ target' = target
    BY <1>2 DEF E!Read
  <2>2. InSeqs'
    BY <1>1, <2>1 DEF InSeqs
  <2>3. Getting'
    BY <1>1, <1>2, <2>1 DEF Getting, Held
  <2>4. E!TypeOK'
    BY <1>1, <2>1 DEF E!TypeOK
  <2> QED
    BY <1>1, <2>2, <2>3, <2>4 DEF Expanding
<1>3. CASE area # <<>>
  <2>1. target' = Append(target, Head(area)) /\ area' = Tail(area) /\ reading' = reading
    BY <1>3 DEF E!Read
  <2>2. target \in Seq(Plain) /\ area \in Seq(Plain) /\ area \in Seq(Cell)
    BY <1>1 DEF InSeqs
  <2>3. /\ Head(area) \in Plain /\ <<Head(area)>> \in Seq(Plain) /\ Tail(area) \in Seq(Plain)
        /\ Len(Tail(area)) = Len(area) - 1 /\ Cat(<<Head(area)>>, Tail(area)) = area
    BY <1>3, <2>2, CatHeadTail
  <2>4. target' = Cat(target, <<Head(area)>>) /\ target' \in Seq(Plain)
    <3>1. Append(target, Head(area)) = Cat(target, <<Head(area)>>)
      BY <2>2, <2>3, AppendCat
    <3>2. Append(target, Head(area)) \in Seq(Plain)
      BY <2>2, <2>3, AppendProperties
    <3> QED
      BY <2>1, <3>1, <3>2
  <2>5. Cat(target', area') = Cat(target, area)
    <3>1. PICK h, t : h = <<Head(area)>> /\ t = Tail(area)
      OBVIOUS
    <3>2. h \in Seq(Plain) /\ t \in Seq(Plain)
      BY <2>3, <3>1
    <3>3. Cat(Cat(target, h), t) = Cat(target, Cat(h, t))
      BY <2>2, <3>2, CatAssociative
    <3> QED
      BY <2>1, <2>3, <2>4, <3>1, <3>3
  <2>6. area' \in Seq(Plain) /\ area' \in Seq(Cell)
    <3>1. Tail(area) \in Seq(Cell)
      BY <1>3, <2>2, CatHeadTail
    <3> QED
      BY <2>1, <2>3, <3>1
  <2>7. InSeqs'
    BY <1>1, <2>4, <2>6 DEF InSeqs
  <2>8. Getting'
    BY <1>1, <2>1, <2>5 DEF Getting, Held
  <2>9. E!TypeOK'
    <3>1. Len(area') =< HalfSize
      BY <2>1, <2>2, <2>3, SizeAssumption DEF E!TypeOK
    <3> QED
      BY <1>1, <2>1, <3>1 DEF E!TypeOK
  <2> QED
    BY <1>1, <2>7, <2>8, <2>9 DEF Expanding
<1> QED
  BY <1>2, <1>3

LEMMA InFill ==
  ASSUME SizeAssumption, E!TypeOK, Expanding, E!Fill, UNCHANGED out
  PROVE  E!TypeOK' /\ Expanding'
<1>1. PICK n \in 1 .. HalfSize :
        n =< Len(file) /\ input' = SubSeq(file, 1, n) /\ file' = SubSeq(file, n + 1, Len(file))
  BY DEF E!Fill, E!FillSize
<1>2. /\ reading = "underflow" /\ mode = "in" /\ input = <<>>
      /\ UNCHANGED <<content, junk, mode, inside, ended, area, target, reading, written>>
      /\ InSeqs /\ Getting /\ content = written
  BY DEF E!Fill, E!NeedsInput, E!TypeOK, Expanding, out
<1>3. file \in Seq(Cell)
  BY <1>2 DEF InSeqs
<1>4. n \in 0 .. Len(file)
  BY <1>1, <1>3, SizeAssumption
<1>5. /\ input' \in Seq(Cell) /\ Len(input') = n /\ file' \in Seq(Cell)
      /\ Cat(input', file') = file
  BY <1>1, <1>3, <1>4, CatCut
<1>6. InSeqs'
  BY <1>2, <1>5 DEF InSeqs
<1> PICK x : x = Cat(Cat(target, area), inside)
  OBVIOUS
<1>7. Cat(Cat(x, input), file) = Cat(Cat(x, input'), file')
  <2>1. x \in Seq(Cell)
    BY <1>2, InCells
  <2>2. Cat(x, <<>>) = x
    BY <2>1, CatEmpty
  <2>3. PICK u, v : u = input' /\ v = file'
    OBVIOUS
  <2>4. Cat(Cat(x, u), v) = Cat(x, Cat(u, v))
    <3>1. u \in Seq(Cell) /\ v \in Seq(Cell)
      BY <1>5, <2>3
    <3> QED
      BY ONLY <2>1, <3>1, CatAssociative
  <2> QED
    BY <1>2, <1>5, <2>2, <2>3, <2>4
<1>8. Cat(input, file) = Cat(input', file')
  BY <1>2, <1>3, <1>5, CatEmpty
<1>9. Held(Cat(target, area), file)'
  BY <1>2, <1>7, <1>8 DEF Getting, Held
<1>10. Getting'
  BY <1>2, <1>9 DEF Getting
<1>11. E!TypeOK'
  BY <1>1, <1>2, <1>5, SizeAssumption DEF E!TypeOK
<1> QED
  BY <1>2, <1>6, <1>10, <1>11 DEF Expanding

LEMMA InEof ==
  ASSUME SizeAssumption, E!TypeOK, Expanding, E!Eof, UNCHANGED out
  PROVE  E!TypeOK' /\ Expanding'
<1>1. /\ reading = "underflow" /\ mode = "in" /\ input = <<>> /\ file = <<>> /\ reading' = "eof"
      /\ UNCHANGED <<content, junk, mode, file, input, inside, ended, area, target, written>>
      /\ InSeqs /\ Getting /\ content = written
  BY DEF E!Eof, E!NeedsInput, E!TypeOK, E!library, Expanding, out
<1>2. InSeqs'
  BY <1>1 DEF InSeqs
<1>3. Getting'
  BY <1>1 DEF Getting, Held
<1>4. E!TypeOK'
  BY <1>1 DEF E!TypeOK
<1> QED
  BY <1>1, <1>2, <1>3, <1>4 DEF Expanding

LEMMA InExpand ==
  ASSUME SizeAssumption, E!TypeOK, Expanding, E!Expand, UNCHANGED out
  PROVE  E!TypeOK' /\ Expanding'
<1>1. PICK k \in 0 .. Len(input), m \in 0 .. HalfSize :
        E!Call(k, m) /\ area' = E!Given(k, m) /\ reading' = E!Until(E!Given(k, m))
  BY DEF E!Expand
<1>2. /\ reading = "underflow" /\ mode = "in" /\ input # <<>>
      /\ UNCHANGED <<content, junk, mode, file, target, written>>
      /\ InSeqs /\ Getting /\ content = written
  BY DEF E!Expand, E!NeedsInput, E!TypeOK, Expanding, out
<1>3. area = <<>> /\ (Len(target) < Len(content) \/ junk = <<>>)
  BY <1>2 DEF Getting
<1>4. /\ target \in Seq(Plain) /\ file \in Seq(Cell) /\ input \in Seq(Cell)
      /\ content \in Seq(Byte)
  BY <1>2 DEF InSeqs
<1>5. Cat(target, area) = target
  BY <1>3, <1>4, CatEmpty
<1>6. Held(target, file)
  BY <1>2, <1>5 DEF Getting
<1>7. ended = FALSE
  <2>1. SUFFICES ASSUME ended PROVE FALSE
    BY DEF E!TypeOK
  <2>2. target = content /\ Cat(input, file) = junk
    BY <1>6, <2>1 DEF Held
  <2>3. junk = <<>>
    BY <1>3, <1>4, <2>2
  <2>4. input = <<>>
    BY <1>4, <2>2, <2>3, ConcatEqualIffEmpty DEF Cat
  <2> QED
    BY <1>2, <2>4
<1>8. Shown(target, file, k, m)
  BY <1>1, <1>2, <1>4, <1>6, <1>7, CallShows
<1>9. InSeqs'
  <2>1. area' \in Seq(Plain) /\ area' \in Seq(Cell)
    <3>1. area' \in Seq(Plain)
      BY <1>1, <1>8 DEF Shown
    <3>2. Plain \subseteq Cell
      BY DEF Plain
    <3> QED
      BY <3>1, <3>2, SeqMonotonic
  <2> QED
    BY <1>2, <1>8, <2>1 DEF InSeqs, Shown
<1>10. Held(Cat(target, area), file)'
  BY <1>1, <1>2, <1>8 DEF Shown, Held
<1>11. Getting'
  <2>1. reading' = "underflow" => area' = <<>>
    BY <1>1 DEF E!Until
  <2>2. reading' # "eof"
    BY <1>1 DEF E!Until
  <2> QED
    BY <1>2, <1>3, <1>10, <2>1, <2>2 DEF Getting
<1>12. E!TypeOK'
  <2>1. Len(area') =< HalfSize /\ Len(input') =< HalfSize /\ ended' \in BOOLEAN
    <3>1. Len(area') = m /\ Len(input') = Len(input) - k /\ ended' \in BOOLEAN
      BY <1>1, <1>8 DEF Shown
    <3>2. Len(input) =< HalfSize /\ Len(input) \in Nat
      BY <1>4 DEF E!TypeOK
    <3> QED
      BY <3>1, <3>2, SizeAssumption
  <2>2. reading' \in {"underflow", "idle"}
    BY <1>1 DEF E!Until
  <2> QED
    BY <1>2, <2>1, <2>2 DEF E!TypeOK
<1> QED
  BY <1>2, <1>9, <1>11, <1>12 DEF Expanding

LEMMA InPut ==
  ASSUME SizeAssumption, E!TypeOK, Expanding, E!Put \/ E!Flush, UNCHANGED out
  PROVE  E!TypeOK' /\ Expanding'
<1>1. /\ reading = "idle" /\ mode = "out" /\ UNCHANGED <<content, junk, mode, inside, ended, target, written>>
      /\ InSeqs /\ Passing /\ content = written /\ input = <<>>
      /\ area \in Seq(Cell) /\ file \in Seq(Cell)
  BY DEF E!Put, E!Flush, E!TypeOK, Expanding, Passing, InSeqs, out
<1>2. CASE /\ Len(area) < HalfSize /\ file # <<>>
           /\ area' = Append(area, Head(file)) /\ file' = Tail(file) /\ UNCHANGED <<input, reading>>
  <2>1. /\ Head(file) \in Cell /\ <<Head(file)>> \in Seq(Cell) /\ Tail(file) \in Seq(Cell)
        /\ Cat(<<Head(file)>>, Tail(file)) = file
    BY <1>1, <1>2, CatHeadTail
  <2>2. /\ area' \in Seq(Cell) /\ Len(area') = Len(area) + 1
        /\ area' = Cat(area, <<Head(file)>>)
    <3>1. Append(area, Head(file)) \in Seq(Cell) /\ Len(Append(area, Head(file))) = Len(area) + 1
      BY <1>1, <2>1, AppendProperties
    <3>2. Append(area, Head(file)) = Cat(area, <<Head(file)>>)
      BY <1>1, <2>1, AppendCat
    <3> QED
      BY <1>2, <3>1, <3>2
  <2>3. Cat(area', file') = Cat(area, file)
    <3>1. PICK h, t : h = <<Head(file)>> /\ t = Tail(file)
      OBVIOUS
    <3>2. h \in Seq(Cell) /\ t \in Seq(Cell) /\ area \in Seq(Cell)
      BY <1>1, <2>1, <3>1
    <3>3. Cat(Cat(area, h), t) = Cat(area, Cat(h, t))
      BY ONLY <3>2, CatAssociative
    <3> QED
      BY <1>2, <2>1, <2>2, <3>1, <3>3
  <2>4. InSeqs'
    BY <1>1, <1>2, <2>1, <2>2 DEF InSeqs
  <2>5. Passing'
    BY <1>1, <1>2, <2>3 DEF Passing, Held
  <2>6. E!TypeOK'
    <3>1. Len(area') =< HalfSize
      BY <1>1, <1>2, <2>2, SizeAssumption
    <3> QED
      BY <1>1, <1>2, <3>1 DEF E!TypeOK
  <2> QED
    BY <1>1, <2>4, <2>5, <2>6 DEF Expanding
<1>3. CASE input' = area /\ area' = <<>> /\ reading' = "overflow" /\ file' = file
  <2>1. InSeqs'
    BY <1>1, <1>3, EmptySeq DEF InSeqs
  <2>2. Cat(<<>>, file) = file /\ Cat(<<>>, Cat(area, file)) = Cat(area, file)
    <3>1. Cat(area, file) \in Seq(Cell)
      BY <1>1, CatInSeq
    <3> QED
      BY <1>1, <3>1, CatEmpty
  <2>3. PICK x : x = Cat(target, inside)
    OBVIOUS
  <2>4. Cat(Cat(x, <<>>), Cat(area, file)) = Cat(Cat(x, area), file)
    <3>1. x \in Seq(Cell) /\ area \in Seq(Cell) /\ file \in Seq(Cell)
      BY <1>1, <2>3, InCells
    <3>2. Cat(x, <<>>) = x
      BY <3>1, CatEmpty
    <3>3. Cat(Cat(x, area), file) = Cat(x, Cat(area, file))
      BY ONLY <3>1, CatAssociative
    <3> QED
      BY <3>2, <3>3
  <2>5. Held(target, Cat(area, file))'
    BY <1>1, <1>3, <2>2, <2>3, <2>4 DEF Passing, Held
  <2>6. Passing'
    BY <1>1, <1>3, <2>5 DEF Passing
  <2>7. E!TypeOK'
    <3>1. Len(area') =< HalfSize /\ Len(input') =< HalfSize
      BY <1>3, SizeAssumption DEF E!TypeOK
    <3> QED
      BY <1>1, <1>3, <3>1 DEF E!TypeOK
  <2> QED
    BY <1>1, <2>1, <2>6, <2>7 DEF Expanding
<1>4. CASE E!Put
  <2>1. CASE Len(area) < HalfSize
    BY <1>2, <1>4, <2>1 DEF E!Put
  <2>2. CASE ~(Len(area) < HalfSize)
    BY <1>3, <1>4, <2>2 DEF E!Put
  <2> QED
    BY <2>1, <2>2
<1>5. CASE E!Flush
  BY <1>3, <1>5 DEF E!Flush
<1> QED
  BY <1>4, <1>5

LEMMA InOverflow ==
  ASSUME SizeAssumption, E!TypeOK, Expanding, E!Overflow, UNCHANGED out
  PROVE  E!TypeOK' /\ Expanding'
<1>1. PICK k \in 0 .. Len(input), m \in 0 .. HalfSize :
        E!Call(k, m) /\ target' = target \o E!Given(k, m)
  BY DEF E!Overflow
<1>2. /\ reading = "overflow" /\ mode = "out"
      /\ UNCHANGED <<content, junk, mode, file, area, written>>
      /\ reading' = IF E!More(input', ended') THEN "overflow" ELSE "idle"
      /\ InSeqs /\ Passing /\ content = written
  BY DEF E!Overflow, E!TypeOK, Expanding, out
<1>3. /\ target \in Seq(Plain) /\ file \in Seq(Cell) /\ input \in Seq(Cell) /\ area = <<>>
      /\ content \in Seq(Byte) /\ inside \in Seq(Plain)
      /\ junk = <<>> /\ Held(target, Cat(area, file))
      /\ Len(input) =< HalfSize /\ Len(input) \in Nat
  BY <1>2 DEF InSeqs, Passing, E!TypeOK
<1>4. PICK back : back = Cat(area, file)
  OBVIOUS
<1>5. back \in Seq(Cell)
  BY <1>2, <1>4, InCells
<1>6. CASE ended
  <2>1. target = content /\ inside = <<>> /\ Cat(input, back) = <<>>
    BY <1>3, <1>4, <1>6 DEF Held
  <2>2. input = <<>>
    BY <1>3, <1>5, <2>1, ConcatEqualIffEmpty DEF Cat
  <2>3. k = 0
    BY <1>1, <2>2
  <2>4. E!Inside(k) = <<>> /\ ~E!IsEnd(k)
    BY <2>1, <2>2, <2>3 DEF E!Inside, E!IsEnd
  <2>5. m = 0
    BY <1>1, <2>4 DEF E!Call, E!Possible
  <2>6. E!Given(k, m) = <<>> /\ inside' = <<>> /\ input' = <<>> /\ ended' = ended
    <3>1. SubSeq(<<>>, 1, 0) = <<>> /\ Len(<<>>) = 0
      BY SubSeqEmpty
    <3>2. E!Given(k, m) = SubSeq(<<>>, 1, 0) /\ inside' = SubSeq(<<>>, 0 + 1, Len(<<>>))
      BY <1>1, <2>4, <2>5 DEF E!Given, E!Call
    <3>3. input' = SubSeq(<<>>, 0 + 1, Len(<<>>))
      BY <1>1, <2>2, <2>3 DEF E!Call
    <3>4. ended' = TRUE
      BY <1>1, <1>6, <2>4, Zenon DEF E!Call
    <3>5. ended = TRUE
      BY <1>6 DEF E!TypeOK
    <3> QED
      BY <3>1, <3>2, <3>3, <3>4, <3>5
  <2>7. target' = target
    BY <1>1, <1>3, <2>6, ConcatEmptySeq
  <2>8. reading' = "idle"
    BY <1>2, <2>6 DEF E!More
  <2>9. InSeqs' /\ Passing' /\ E!TypeOK'
    BY <1>2, <2>1, <2>2, <2>6, <2>7, <2>8 DEF InSeqs, Passing, Held, E!TypeOK
  <2> QED
    BY <1>2, <2>9 DEF Expanding
<1>7. CASE ended = FALSE
  <2>1. Shown(target, back, k, m)
    BY <1>1, <1>2, <1>3, <1>4, <1>5, <1>7, CallShows
  <2>2. target' = Cat(target, E!Given(k, m)) /\ target' \in Seq(Plain)
    <3>1. E!Given(k, m) \in Seq(Plain)
      BY <2>1 DEF Shown
    <3>2. Cat(target, E!Given(k, m)) \in Seq(Plain)
      BY <1>3, <3>1, CatInSeq
    <3>3. target' = Cat(target, E!Given(k, m))
      BY <1>1 DEF Cat
    <3> QED
      BY <3>2, <3>3
  <2>3. InSeqs'
    BY <1>2, <2>1, <2>2 DEF InSeqs, Shown
  <2>4. Held(target, Cat(area, file))'
    BY <1>2, <1>4, <2>1, <2>2 DEF Shown, Held
  <2>5. reading' # "overflow" => input' = <<>>
    <3>1. CASE ended'
      <4>1. Cat(input', back) = <<>>
        BY <1>3, <2>1, <3>1 DEF Shown
      <4>2. PICK i : i = input'
        OBVIOUS
      <4>3. i \in Seq(Cell) /\ i \o back = <<>>
        BY <2>1, <4>1, <4>2 DEF Shown, Cat
      <4>4. i = <<>>
        BY <1>5, <4>3, ConcatEqualIffEmpty
      <4> QED
        BY <4>2, <4>4
    <3>2. CASE ~ended'
      BY <1>2, <3>2 DEF E!More
    <3> QED
      BY <3>1, <3>2
  <2>6. reading' \in {"overflow", "idle"}
    BY <1>2
  <2>7. Passing'
    BY <1>2, <1>3, <2>4, <2>5, <2>6 DEF Passing
  <2>8. E!TypeOK'
    <3>1. Len(input') = Len(input) - k /\ ended' \in BOOLEAN
      BY <2>1 DEF Shown
    <3>2. Len(input') =< HalfSize
      BY <1>3, <3>1, SizeAssumption
    <3> QED
      BY <1>2, <2>6, <3>1, <3>2 DEF E!TypeOK
  <2> QED
    BY <1>2, <2>3, <2>7, <2>8 DEF Expanding
<1> QED
  BY <1>6, <1>7 DEF E!TypeOK

LEMMA InRest ==
  ASSUME SizeAssumption, E!TypeOK, Expanding, E!Refuse \/ E!Close, UNCHANGED out
  PROVE  E!TypeOK' /\ Expanding'
<1>1. /\ mode = "out" /\ UNCHANGED <<content, junk, mode, file, input, inside, ended, area, target, written>>
      /\ reading' \in {"failed", "closed"} /\ input = <<>>
      /\ reading' = "closed" => area = <<>> /\ file = <<>>
      /\ InSeqs /\ Passing /\ content = written
  BY DEF E!Refuse, E!Close, E!library, E!TypeOK, Expanding, Passing, out
<1>2. InSeqs'
  BY <1>1 DEF InSeqs
<1>3. Passing'
  BY <1>1 DEF Passing, Held
<1>4. E!TypeOK'
  BY <1>1 DEF E!TypeOK
<1> QED
  BY <1>1, <1>2, <1>3, <1>4 DEF Expanding

(* The stream that has been ended is what was written and the trailer.     *)
LEMMA OpenKeeps ==
  ASSUME SizeAssumption, JunkAssumption, C!TypeOK, C!NothingLost, Putting, E!TypeOK, Fresh, Open
  PROVE  E!TypeOK' /\ Expanding'
<1>1. /\ content' = written /\ mode' \in {"in", "out"} /\ junk' \in Junk
      /\ (mode' = "out" => junk' = <<>>) /\ file' = Cat(sink, junk')
      /\ UNCHANGED <<input, inside, ended, area, target, reading, written>>
      /\ writing = "ended"
  BY DEF Open, out, Cat
<1>2. /\ input = <<>> /\ inside = <<>> /\ ended = FALSE /\ area = <<>> /\ target = <<>>
      /\ reading = "idle"
  BY DEF Fresh
<1>3. /\ obuffer = <<>> /\ taken = <<>> /\ c = <<>> /\ finishing
      /\ sink \in Seq(OutByte) /\ written \in Seq(Byte)
  BY <1>1 DEF Putting, C!TypeOK, OutByte
<1>4. sink = Cat(written, <<Trailer>>)
  <2>1. Cat(Cat(Cat(sink, <<>>), <<>>), <<>>) = Cat(written, <<Trailer>>)
    BY <1>3, CatOut DEF C!Ending
  <2>2. Cat(sink, <<>>) = sink
    BY <1>3, CatEmpty
  <2> QED
    BY <2>1, <2>2
<1>5. junk' \in Seq(Other) /\ junk' \in Seq(Cell) /\ sink \in Seq(Cell)
  <2>1. Other \subseteq Cell /\ OutByte \subseteq Cell
    BY DEF Cell, OutByte
  <2>2. junk' \in Seq(Other)
    BY <1>1, JunkAssumption
  <2> QED
    BY <1>3, <2>1, <2>2, SeqMonotonic
<1>6. file' \in Seq(Cell)
  <2>1. Cat(sink, junk') \in Seq(Cell)
    BY <1>5, CatInSeq
  <2> QED
    BY <1>1, <2>1
<1>7. InSeqs'
  BY <1>1, <1>2, <1>3, <1>5, <1>6, EmptySeq DEF InSeqs
<1>8. /\ Cat(<<>>, file') = file' /\ Cat(<<>>, <<>>) = <<>>
  <2>1. PICK f : f = file'
    OBVIOUS
  <2>2. f \in Seq(Cell) /\ <<>> \in Seq(Cell)
    BY <1>6, <2>1
  <2>3. Cat(<<>>, f) = f /\ Cat(<<>>, <<>>) = <<>>
    BY ONLY <2>2, CatEmpty
  <2> QED
    BY <2>1, <2>3
<1>9. Held(Cat(target, area), file)' /\ Held(target, Cat(area, file))'
  BY <1>1, <1>2, <1>4, <1>8 DEF Held
<1>10. IF mode' = "in" THEN Getting' ELSE Passing'
  BY <1>1, <1>2, <1>9 DEF Getting, Passing
<1>11. E!TypeOK'
  BY <1>1, <1>2, SizeAssumption DEF E!TypeOK
<1> QED
  BY <1>1, <1>7, <1>10, <1>11 DEF Expanding

-----------------------------------------------------------------------------
(* The invariants.                                                         *)

LEMMA InitIInv == ASSUME SizeAssumption, Init PROVE IInv
<1>0. /\ BufSize \in Nat /\ HalfSize \in Nat /\ Len(<<>>) = 0
      /\ <<>> \in Seq(Byte) /\ <<>> \in Seq(Byte \cup {Trailer})
  BY SizeAssumption
<1>1. C!TypeOK
  <2>1. /\ kind \in Kind /\ obuffer = <<>> /\ taken = <<>> /\ finishing = FALSE /\ sink = <<>>
        /\ writing = "idle" /\ c = <<>> /\ written = <<>>
    BY DEF Init, C!Init
  <2>2. Len(obuffer) =< BufSize
    BY <1>0, <2>1
  <2> QED
    BY <1>0, <2>1, <2>2 DEF C!TypeOK
<1>2. C!NothingLost
  <2>1. <<>> \o <<>> = <<>>
    OBVIOUS
  <2> QED
    BY <2>1 DEF Init, C!Init, C!NothingLost, C!Ending
<1>3. Putting
  BY DEF Init, C!Init, Putting
<1>4. E!TypeOK
  <2>1. mode = "in" /\ ended = FALSE /\ input = <<>> /\ area = <<>> /\ reading = "idle"
    BY DEF Init
  <2>2. Len(input) =< HalfSize /\ Len(area) =< HalfSize
    BY <1>0, <2>1
  <2> QED
    BY <2>1, <2>2 DEF E!TypeOK
<1>5. Fresh /\ stage = "write"
  BY DEF Init, Fresh
<1> QED
  BY <1>1, <1>2, <1>3, <1>4, <1>5 DEF IInv

LEMMA NextIInv ==
  ASSUME SizeAssumption, JunkAssumption, IInv, [Next]_vars
  PROVE  IInv'
<1>1. CASE Write
  <2>1. /\ stage = "write" /\ stage' = stage /\ C!Next
        /\ UNCHANGED <<content, junk, mode, file, input, inside, ended, area, target, reading>>
    BY <1>1 DEF Write, in
  <2>2. C!TypeOK' /\ C!NothingLost' /\ Putting'
    BY <2>1, OutStep DEF IInv
  <2>3. E!TypeOK' /\ Fresh'
    BY <2>1 DEF IInv, E!TypeOK, Fresh
  <2> QED
    BY <2>1, <2>2, <2>3 DEF IInv
<1>2. CASE Open
  <2>1. /\ stage = "write" /\ stage' = "read"
        /\ UNCHANGED <<kind, obuffer, taken, finishing, sink, writing, c, written>>
    BY <1>2 DEF Open, out
  <2>2. C!TypeOK' /\ C!NothingLost' /\ Putting'
    BY <2>1 DEF IInv, C!TypeOK, C!NothingLost, C!Ending, Putting
  <2>3. E!TypeOK' /\ Expanding'
    BY <1>2, <2>1, OpenKeeps DEF IInv
  <2> QED
    BY <2>1, <2>2, <2>3 DEF IInv
<1>3. CASE Read
  <2>1. /\ stage = "read" /\ stage' = stage /\ E!Next /\ UNCHANGED out
        /\ E!TypeOK /\ Expanding
    BY <1>3 DEF Read, IInv
  <2>2. C!TypeOK' /\ C!NothingLost' /\ Putting'
    BY <2>1 DEF IInv, C!TypeOK, C!NothingLost, C!Ending, Putting, out
  <2>3. E!TypeOK' /\ Expanding'
    <3>1. CASE E!Read
      BY <2>1, <3>1, InRead
    <3>2. CASE E!Put \/ E!Flush
      BY <2>1, <3>2, InPut
    <3>3. CASE E!Fill
      BY <2>1, <3>3, InFill
    <3>4. CASE E!Eof
      BY <2>1, <3>4, InEof
    <3>5. CASE E!Expand
      BY <2>1, <3>5, InExpand
    <3>6. CASE E!Overflow
      BY <2>1, <3>6, InOverflow
    <3>7. CASE E!Refuse \/ E!Close
      BY <2>1, <3>7, InRest
    <3> QED
      BY <2>1, <3>1, <3>2, <3>3, <3>4, <3>5, <3>6, <3>7 DEF E!Next, E!Continue
  <2> QED
    BY <2>1, <2>2, <2>3 DEF IInv
<1>4. CASE UNCHANGED vars
  <2>1. UNCHANGED <<stage, kind, obuffer, taken, finishing, sink, writing, c, written>>
    BY <1>4 DEF vars, out
  <2>2. UNCHANGED <<content, junk, mode, file, input, inside, ended, area, target, reading>>
    BY <1>4 DEF vars, in
  <2>3. C!TypeOK' /\ C!NothingLost' /\ Putting'
    BY <2>1 DEF IInv, C!TypeOK, C!NothingLost, C!Ending, Putting
  <2>4. E!TypeOK' /\ stage' \in {"write", "read"}
    BY <2>1, <2>2 DEF IInv, E!TypeOK
  <2>5. CASE stage = "write"
    <3>1. Fresh'
      BY <2>2, <2>5 DEF IInv, Fresh
    <3> QED
      BY <2>1, <2>3, <2>4, <2>5, <3>1 DEF IInv
  <2>6. CASE stage = "read"
    <3>1. InSeqs'
      BY <2>2, <2>6 DEF IInv, Expanding, InSeqs
    <3>2. IF mode = "in" THEN Getting' ELSE Passing'
      BY <2>2, <2>6 DEF IInv, Expanding, Getting, Passing, Held
    <3>3. Expanding'
      BY <2>1, <2>2, <2>6, <3>1, <3>2 DEF IInv, Expanding
    <3> QED
      BY <2>1, <2>3, <2>4, <2>6, <3>3 DEF IInv
  <2> QED
    BY <2>5, <2>6 DEF IInv
<1> QED
  BY <1>1, <1>2, <1>3, <1>4 DEF Next

LEMMA SoundFromIInv == ASSUME IInv PROVE BuffersSound
<1>1. TypeOK /\ C!NothingLost
  BY DEF IInv, TypeOK
<1>2. ASSUME stage = "read", ended = FALSE PROVE E!NothingLost
  <2>1. Expanding /\ InSeqs
    BY <1>2 DEF IInv, Expanding
  <2>2. CASE mode = "in"
    <3>1. Cat(Cat(Cat(Cat(target, area), inside), input), file) = Cat(Cat(content, <<Trailer>>), junk)
      BY <1>2, <2>1, <2>2 DEF Expanding, Getting, Held
    <3>2. target \o area \o inside \o input \o file = content \o <<Trailer>> \o junk
      BY <3>1 DEF Cat
    <3> QED
      BY <2>2, <3>2 DEF E!NothingLost, E!Rest
  <2>3. CASE mode # "in"
    <3>1. Cat(Cat(Cat(target, inside), input), Cat(area, file)) = Cat(Cat(content, <<Trailer>>), junk)
      BY <1>2, <2>1, <2>3 DEF Expanding, Passing, Held
    <3>2. PICK x : x = Cat(Cat(target, inside), input)
      OBVIOUS
    <3>3. x \in Seq(Cell) /\ area \in Seq(Cell) /\ file \in Seq(Cell)
      BY <2>1, <3>2, InCells, CatInSeq
    <3>4. Cat(Cat(x, area), file) = Cat(x, Cat(area, file))
      BY ONLY <3>3, CatAssociative
    <3>5. Cat(Cat(Cat(Cat(target, inside), input), area), file) = Cat(Cat(content, <<Trailer>>), junk)
      BY <3>1, <3>2, <3>4
    <3>6. target \o inside \o input \o area \o file = content \o <<Trailer>> \o junk
      BY <3>5 DEF Cat
    <3> QED
      BY <2>3, <3>6 DEF E!NothingLost, E!Rest
  <2> QED
    BY <2>2, <2>3
<1>3. stage = "read" => E!NothingLost
  BY <1>2 DEF IInv, E!TypeOK, E!NothingLost
<1> QED
  BY <1>1, <1>3 DEF BuffersSound, NothingLost

(* All that is before the library and in it has no trailer; so a stream    *)
(* of which nothing is left has come to its end.                           *)
LEMMA AllIsBefore ==
  ASSUME SizeAssumption, InSeqs, ended \in BOOLEAN, input = <<>>, Held(target, <<>>)
  PROVE  target = content
<1>1. CASE ended
  BY <1>1 DEF Held
<1>2. CASE ended = FALSE
  <2>1. /\ target \in Seq(Plain) /\ inside \in Seq(Plain) /\ content \in Seq(Byte)
        /\ junk \in Seq(Other)
    BY DEF InSeqs
  <2>2. PICK x, y, v : x = Cat(target, inside) /\ y = content /\ v = junk
    OBVIOUS
  <2>3. x \in Seq(Plain)
    BY <2>1, <2>2, CatInSeq
  <2>4. Cat(x, <<>>) = x
    BY <2>3, CatEmpty
  <2>5. Cat(Cat(x, <<>>), <<>>) = Cat(Cat(y, <<Trailer>>), v)
    BY <1>2, <2>2 DEF Held
  <2>6. x = y \o <<Trailer>> \o v
    BY <2>4, <2>5 DEF Cat
  <2>7. y \in Seq(Cell) /\ v \in Seq(Cell) /\ <<Trailer>> \in Seq(Cell) /\ Len(<<Trailer>>) = 1
    <3>1. Byte \subseteq Cell /\ Other \subseteq Cell /\ Trailer \in Cell
      BY DEF Cell
    <3> QED
      BY <2>1, <2>2, <3>1, SeqMonotonic
  <2>8. PICK d : d = y \o <<Trailer>>
    OBVIOUS
  <2>9. /\ d \in Seq(Cell) /\ Len(d) = Len(y) + 1
        /\ \A i \in 1 .. Len(y) + 1 : d[i] = IF i <= Len(y) THEN y[i] ELSE <<Trailer>>[i - Len(y)]
    BY <2>7, <2>8, ConcatProperties
  <2>10. d[Len(y) + 1] = Trailer
    BY <2>7, <2>9
  <2>11. /\ Len(x) = Len(d) + Len(v)
         /\ \A i \in 1 .. Len(d) + Len(v) : x[i] = IF i <= Len(d) THEN d[i] ELSE v[i - Len(d)]
    BY <2>6, <2>7, <2>8, <2>9, ConcatProperties
  <2>12. Len(y) \in Nat /\ Len(v) \in Nat
    BY <2>7
  <2>13. Len(y) + 1 \in 1 .. Len(x) /\ x[Len(y) + 1] = Trailer
    BY <2>9, <2>10, <2>11, <2>12
  <2>14. x[Len(y) + 1] \in Plain
    BY <2>3, <2>13, ElementOfSeq
  <2> QED
    BY <2>13, <2>14 DEF Plain
<1> QED
  BY <1>1, <1>2

LEMMA ReadBackFromIInv == ASSUME SizeAssumption, IInv PROVE ReadBack
<1> SUFFICES ASSUME reading \in {"eof", "closed"} PROVE target = written
  BY DEF ReadBack
<1>1. Expanding /\ InSeqs /\ ended \in BOOLEAN /\ content = written
  BY DEF IInv, Fresh, Expanding, E!TypeOK
<1>2. input = <<>> /\ area = <<>> /\ file = <<>>
  BY <1>1 DEF IInv, Expanding, Getting, Passing, E!TypeOK
<1>3. Cat(target, <<>>) = target /\ Cat(<<>>, <<>>) = <<>>
  <2>1. target \in Seq(Plain) /\ <<>> \in Seq(Plain)
    BY <1>1 DEF InSeqs
  <2>2. \A s \in Seq(Plain) : Cat(s, <<>>) = s
    BY CatEmpty
  <2> QED
    BY <2>1, <2>2
<1>4. Held(target, <<>>)
  <2>1. CASE mode = "in"
    BY <1>1, <1>2, <1>3, <2>1 DEF Expanding, Getting
  <2>2. CASE mode # "in"
    BY <1>1, <1>2, <1>3, <2>2 DEF Expanding, Passing
  <2> QED
    BY <2>1, <2>2
<1> QED
  BY <1>1, <1>2, <1>4, AllIsBefore

LEMMA Invariance == Spec => []IInv
<1>1. Init => IInv
  BY InitIInv, SizeAssumption
<1>2. IInv /\ [Next]_vars => IInv'
  BY NextIInv, SizeAssumption, JunkAssumption
<1> QED
  BY <1>1, <1>2, PTL DEF Spec

(* However the compressor, the decompressor and the source take and give,  *)
(* and whatever the sizes of the buffers: none is overrun, and each byte   *)
(* that was put is in exactly one of them, or behind it, in its order (the *)
(* overflow and sync of the six buffers, underflow of the three).          *)
THEOREM BuffersTheorem == Spec => []BuffersSound
<1>1. IInv => BuffersSound
  BY SoundFromIInv
<1> QED
  BY <1>1, Invariance, PTL

(* A reader that comes to the end of a stream that was ended has got what  *)
(* was written, and so has the sink of a buffer that the stream was put    *)
(* through; bytes behind the stream are never taken for it.                *)
THEOREM ReadBackTheorem == Spec => []ReadBack
<1>1. IInv => ReadBack
  BY ReadBackFromIInv, SizeAssumption
<1> QED
  BY <1>1, Invariance, PTL
=============================================================================
