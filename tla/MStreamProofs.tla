--------------------------- MODULE MStreamProofs ---------------------------
(***************************************************************************)
(* Proofs about MStream for any words, buffer sizes and page size.         *)
(*                                                                         *)
(* The inductive invariant follows the chain of pages of every stream: the *)
(* pages are those of chain[w], linked in that order, all but the last     *)
(* full, and no page is on two chains; byte j of page i of a chain is byte *)
(* Off(i) + j of what was written to the word, and the buffer holds the    *)
(* rest.                                                                   *)
(***************************************************************************)
EXTENDS MStream, SequenceTheorems, TLAPS

(* Where the bytes of page i of a chain start in the stream, and how many  *)
(* bytes of a stream are in the page file.                                 *)
Off(i) == (i - 1) * DataSize

Flushed(w) ==
  IF chain[w] = <<>> THEN 0
  ELSE Off(Len(chain[w])) + Len(file[currentPage[w]].data)

ChainsInFile ==
  \A w \in Word : \A i \in 1 .. Len(chain[w]) : chain[w][i] \in 0 .. nextPage - 1

ChainEnds ==
  \A w \in Word :
    /\ chain[w] = <<>> => firstPage[w] = NoPage /\ currentPage[w] = NoPage
    /\ chain[w] # <<>> => /\ firstPage[w] = chain[w][1]
                          /\ currentPage[w] = chain[w][Len(chain[w])]
                          /\ file[currentPage[w]].nextPage = NoPage

ChainLinks ==
  \A w \in Word : \A i \in 1 .. Len(chain[w]) - 1 :
    /\ file[chain[w][i]].nextPage = chain[w][i + 1]
    /\ chain[w][i] < chain[w][i + 1]
    /\ Len(file[chain[w][i]].data) = DataSize

ChainsApart ==
  \A v, w \in Word : \A i \in 1 .. Len(chain[v]), j \in 1 .. Len(chain[w]) :
    chain[v][i] = chain[w][j] => v = w /\ i = j

ChainsCover ==
  \A p \in 0 .. nextPage - 1 :
    \E w \in Word : \E i \in 1 .. Len(chain[w]) : chain[w][i] = p

PagesHold ==
  \A w \in Word : \A i \in 1 .. Len(chain[w]) :
    /\ Off(i) + Len(file[chain[w][i]].data) =< Len(written[w])
    /\ \A j \in 1 .. Len(file[chain[w][i]].data) :
         file[chain[w][i]].data[j] = written[w][Off(i) + j]

BuffersHold ==
  \A w \in Word :
    /\ Len(written[w]) = Flushed(w) + Len(data[w])
    /\ \A j \in 1 .. Len(data[w]) : data[w][j] = written[w][Flushed(w) + j]

(* A read that has k pages behind it has read the bytes of these pages. *)
ReadLoop ==
  pc = "read" =>
    \E k \in 0 .. Len(chain[word]) :
      /\ page = IF k = Len(chain[word]) THEN NoPage ELSE chain[word][k + 1]
      /\ Len(s) = IF k = Len(chain[word]) THEN Flushed(word) ELSE Off(k + 1)
      /\ \A j \in 1 .. Len(s) : s[j] = written[word][j]

(* write() inserts the stream before it puts a byte. *)
NamesKnown ==
  /\ pc = "write" => word \in streams
  /\ \A w \in Word : w \notin streams => written[w] = <<>>

Chains == ChainsInFile /\ ChainEnds /\ ChainLinks /\ ChainsApart /\ ChainsCover
Bytes == PagesHold /\ BuffersHold
IInv == TypeOK /\ RoomForEveryByte /\ Chains /\ Bytes /\ ReadLoop

-----------------------------------------------------------------------------
(* Arithmetic of page offsets. *)
LEMMA OffFacts ==
  /\ Off(1) = 0
  /\ \A i \in Nat : Off(i + 1) = Off(i) + DataSize /\ Off(i) \in Int
  /\ \A i \in Nat \ {0} : Off(i) \in Nat
<1> USE BufferAssumption
<1>1. \A i \in Nat : Off(i + 1) = Off(i) + DataSize /\ Off(i) \in Int
  BY DEF Off
<1>2. \A i \in Nat \ {0} : Off(i) \in Nat
  BY DEF Off
<1> QED
  BY <1>1, <1>2 DEF Off

(* The history of a put: one stream grows by the byte put, and the call    *)
(* has one byte less to go.                                                *)
LEMMA PuttingFacts ==
  ASSUME TypeOK, Putting
  PROVE  /\ Head(rest) \in Byte
         /\ rest' \in Seq(Byte)
         /\ written' \in [Word -> Seq(Byte)]
         /\ \A w \in Word \ {word} : written'[w] = written[w]
         /\ Len(written'[word]) = Len(written[word]) + 1
         /\ written'[word][Len(written[word]) + 1] = Head(rest)
         /\ \A w \in Word : \A j \in 1 .. Len(written[w]) :
              written'[w][j] = written[w][j]
<1>1. Head(rest) \in Byte /\ rest' \in Seq(Byte)
  BY HeadTailProperties DEF TypeOK, Putting
<1>2. /\ written' = [written EXCEPT ![word] = Append(written[word], Head(rest))]
      /\ written \in [Word -> Seq(Byte)] /\ word \in Word
  BY DEF TypeOK, Putting
<1>3. /\ Append(written[word], Head(rest)) \in Seq(Byte)
      /\ Len(Append(written[word], Head(rest))) = Len(written[word]) + 1
      /\ \A i \in 1 .. Len(written[word]) :
           Append(written[word], Head(rest))[i] = written[word][i]
      /\ Append(written[word], Head(rest))[Len(written[word]) + 1] = Head(rest)
  BY <1>1, <1>2, AppendProperties
<1> QED
  BY <1>1, <1>2, <1>3

(* Types of what the invariant speaks about. *)
LEMMA PageFacts ==
  ASSUME TypeOK, NEW p \in 0 .. nextPage - 1
  PROVE  /\ file[p] \in Page
         /\ file[p].data \in Seq(Byte) /\ Len(file[p].data) \in Nat
         /\ file[p].nextPage \in Nat \cup {NoPage}
<1>1. file[p] \in Page
  BY DEF TypeOK
<1>2. file[p].data \in Seq(Byte) /\ file[p].nextPage \in Nat \cup {NoPage}
  BY <1>1 DEF Page
<1> QED
  BY <1>1, <1>2

LEMMA StreamFacts ==
  ASSUME IInv, NEW w \in Word
  PROVE  /\ chain[w] \in Seq(Nat) /\ Len(chain[w]) \in Nat
         /\ data[w] \in Seq(Byte) /\ Len(data[w]) \in Nat
         /\ written[w] \in Seq(Byte) /\ Len(written[w]) \in Nat
         /\ chain[w] # <<>> => /\ Len(chain[w]) \in 1 .. Len(chain[w])
                               /\ currentPage[w] \in 0 .. nextPage - 1
                               /\ currentPage[w] = chain[w][Len(chain[w])]
                               /\ Off(Len(chain[w])) \in Nat
         /\ Flushed(w) \in Nat
<1>1. /\ chain[w] \in Seq(Nat) /\ data[w] \in Seq(Byte) /\ written[w] \in Seq(Byte)
  BY DEF IInv, TypeOK
<1>2. Len(chain[w]) \in Nat /\ Len(data[w]) \in Nat /\ Len(written[w]) \in Nat
  BY <1>1
<1>3. ASSUME chain[w] # <<>>
      PROVE  /\ Len(chain[w]) \in 1 .. Len(chain[w])
             /\ currentPage[w] \in 0 .. nextPage - 1
             /\ currentPage[w] = chain[w][Len(chain[w])]
             /\ Off(Len(chain[w])) \in Nat
  <2>1. Len(chain[w]) \in Nat \ {0}
    BY <1>1, <1>3, EmptySeq
  <2>2. currentPage[w] = chain[w][Len(chain[w])] /\ Len(chain[w]) \in 1 .. Len(chain[w])
    BY <1>3, <2>1 DEF IInv, Chains, ChainEnds
  <2>3. currentPage[w] \in 0 .. nextPage - 1
    BY <2>2 DEF IInv, Chains, ChainsInFile
  <2> QED
    BY <2>1, <2>2, <2>3, OffFacts
<1>4. Flushed(w) \in Nat
  <2>1. CASE chain[w] = <<>>
    BY <2>1 DEF Flushed
  <2>2. CASE chain[w] # <<>>
    <3>1. Len(file[currentPage[w]].data) \in Nat
      BY <1>3, <2>2, PageFacts DEF IInv
    <3> QED
      BY <1>3, <2>2, <3>1 DEF Flushed
  <2> QED
    BY <2>1, <2>2
<1> QED
  BY <1>1, <1>2, <1>3, <1>4

(* Bytes that were in a stream before a put are where they were. *)
LEMMA PagesKeepBytes ==
  ASSUME IInv, Putting, NEW w \in Word, NEW i \in 1 .. Len(chain[w])
  PROVE  LET d == file[chain[w][i]].data
         IN /\ d \in Seq(Byte) /\ Len(d) \in Nat /\ Off(i) \in Nat
            /\ Off(i) + Len(d) =< Len(written'[w])
            /\ \A j \in 1 .. Len(d) : d[j] = written'[w][Off(i) + j]
<1> DEFINE d == file[chain[w][i]].data
<1>1. /\ Off(i) + Len(d) =< Len(written[w])
      /\ \A j \in 1 .. Len(d) : d[j] = written[w][Off(i) + j]
  BY DEF IInv, Bytes, PagesHold
<1>2. /\ i \in Nat \ {0} /\ Len(written[w]) \in Nat /\ Off(i) \in Nat
  <2>1. Len(chain[w]) \in Nat /\ Len(written[w]) \in Nat
    BY StreamFacts
  <2>2. i \in Nat \ {0}
    BY <2>1
  <2> QED
    BY <2>1, <2>2, OffFacts
<1>3. d \in Seq(Byte) /\ Len(d) \in Nat
  BY PageFacts DEF IInv, Chains, ChainsInFile
<1>4. Len(written'[w]) >= Len(written[w]) /\ Len(written'[w]) \in Nat
  BY <1>2, PuttingFacts DEF IInv
<1>5. Off(i) + Len(d) =< Len(written'[w])
  <2> HIDE DEF d
  <2> QED
    BY <1>1, <1>2, <1>3, <1>4
<1>6. ASSUME NEW j \in 1 .. Len(d) PROVE d[j] = written'[w][Off(i) + j]
  <2>1. j \in Nat \ {0} /\ j =< Len(d)
    BY <1>3
  <2>2. Off(i) + j \in 1 .. Len(written[w])
    BY <1>1, <1>2, <1>3, <2>1
  <2> QED
    BY <1>1, <2>2, PuttingFacts DEF IInv
<1> QED
  BY <1>2, <1>3, <1>5, <1>6

-----------------------------------------------------------------------------
(* The inductive invariant holds initially. *)
LEMMA InitIInv == Init => IInv
<1> SUFFICES ASSUME Init PROVE IInv
  OBVIOUS
<1> USE BufferAssumption DEF Init
<1>1. TypeOK
  BY DEF TypeOK, Page
<1>2. RoomForEveryByte
  BY DEF RoomForEveryByte
<1>3. Chains
  BY DEF Chains, ChainsInFile, ChainEnds, ChainLinks, ChainsApart, ChainsCover
<1>4. Bytes
  BY DEF Bytes, PagesHold, BuffersHold, Flushed
<1>5. ReadLoop
  BY DEF ReadLoop
<1> QED
  BY <1>1, <1>2, <1>3, <1>4, <1>5 DEF IInv

LEMMA ChainsFrame ==
  ASSUME Chains, UNCHANGED <<firstPage, currentPage, nextPage, file, chain>>
  PROVE  Chains'
BY DEF Chains, ChainsInFile, ChainEnds, ChainLinks, ChainsApart, ChainsCover

(* Steps that only start or end a call or advance a read leave streams,    *)
(* page file and history alone.                                            *)
LEMMA CallSteps ==
  ASSUME IInv, UNCHANGED <<streamVars, fileVars, history>>
  PROVE  RoomForEveryByte' /\ Chains' /\ Bytes'
<1> USE DEF streamVars, fileVars, history
<1>1. RoomForEveryByte'
  BY DEF IInv, RoomForEveryByte
<1>2. Chains'
  BY DEF IInv, Chains, ChainsInFile, ChainEnds, ChainLinks, ChainsApart, ChainsCover
<1>3. Bytes'
  BY DEF IInv, Bytes, PagesHold, BuffersHold, Flushed, Off
<1> QED
  BY <1>1, <1>2, <1>3

LEMMA BeginWriteStep ==
  ASSUME IInv, NEW w \in Word, NEW str \in Chunk, BeginWrite(w, str)
  PROVE  IInv'
<1>1. RoomForEveryByte' /\ Chains' /\ Bytes'
  BY CallSteps DEF BeginWrite
<1>2. TypeOK'
  BY ChunkAssumption DEF IInv, TypeOK, BeginWrite, streamVars, fileVars, history
<1>3. ReadLoop'
  BY DEF BeginWrite, ReadLoop
<1> QED
  BY <1>1, <1>2, <1>3 DEF IInv

LEMMA EndWriteStep ==
  ASSUME IInv, EndWrite
  PROVE  IInv'
<1>1. RoomForEveryByte' /\ Chains' /\ Bytes'
  BY CallSteps DEF EndWrite
<1>2. TypeOK'
  BY DEF IInv, TypeOK, EndWrite, streamVars, fileVars, history
<1>3. ReadLoop'
  BY DEF EndWrite, ReadLoop
<1> QED
  BY <1>1, <1>2, <1>3 DEF IInv

LEMMA ReadMissingStep ==
  ASSUME IInv, NEW w \in Word, ReadMissing(w)
  PROVE  IInv'
<1>1. RoomForEveryByte' /\ Chains' /\ Bytes'
  BY CallSteps DEF ReadMissing
<1>2. TypeOK'
  BY EmptySeq DEF IInv, TypeOK, ReadMissing, streamVars, fileVars, history
<1>3. ReadLoop'
  BY DEF ReadMissing, ReadLoop
<1> QED
  BY <1>1, <1>2, <1>3 DEF IInv

(* What the pages on the chain of the word being read give the loop. *)
LEMMA BeginReadStep ==
  ASSUME IInv, NEW w \in Word, BeginRead(w)
  PROVE  IInv'
<1>1. RoomForEveryByte' /\ Chains' /\ Bytes'
  BY CallSteps DEF BeginRead
<1>2. TypeOK'
  BY EmptySeq DEF IInv, TypeOK, BeginRead, streamVars, fileVars, history
<1>3. ReadLoop'
  <2>1. chain[w] \in Seq(Nat) /\ Len(chain[w]) \in Nat
    BY DEF IInv, TypeOK
  <2>2. /\ page' = IF 0 = Len(chain[w]) THEN NoPage ELSE chain[w][1]
        /\ 0 = Len(chain[w]) => Flushed(w) = 0
    <3>1. 0 = Len(chain[w]) <=> chain[w] = <<>>
      BY <2>1, EmptySeq
    <3>2. page' = firstPage[w]
      BY DEF BeginRead
    <3> QED
      BY <3>1, <3>2 DEF IInv, Chains, ChainEnds, Flushed
  <2>3. /\ word' = w /\ chain' = chain /\ Len(s') = 0
        /\ Flushed(w)' = Flushed(w)
    BY DEF BeginRead, Flushed, Off, streamVars, fileVars, history
  <2>4. /\ 0 \in 0 .. Len(chain[w])
        /\ \A j \in 1 .. Len(s') : s'[j] = written'[w][j]
    BY <2>1, <2>3
  <2>5. Len(s') = IF 0 = Len(chain[w]) THEN Flushed(w) ELSE Off(1)
    BY <2>2, <2>3, OffFacts
  <2> QED
    BY <2>2, <2>3, <2>4, <2>5 DEF ReadLoop, Off
<1> QED
  BY <1>1, <1>2, <1>3 DEF IInv

LEMMA ReadPageStep ==
  ASSUME IInv, ReadPage
  PROVE  IInv'
<1> DEFINE n == Len(chain[word])
<1>1. RoomForEveryByte' /\ Chains' /\ Bytes'
  BY CallSteps DEF ReadPage
<1>2. PICK k \in 0 .. n :
        /\ page = IF k = n THEN NoPage ELSE chain[word][k + 1]
        /\ Len(s) = IF k = n THEN Flushed(word) ELSE Off(k + 1)
        /\ \A j \in 1 .. Len(s) : s[j] = written[word][j]
  BY DEF IInv, ReadLoop, ReadPage
<1>3. /\ n \in Nat /\ word \in Word /\ s \in Seq(Byte)
      /\ chain[word] \in Seq(Nat) /\ written[word] \in Seq(Byte)
  BY DEF IInv, TypeOK
<1>4. /\ k \in 0 .. n - 1 /\ k + 1 \in 1 .. n
      /\ page = chain[word][k + 1]
      /\ Len(s) = Off(k + 1)
  BY <1>2, <1>3 DEF ReadPage
<1>5. /\ page \in 0 .. nextPage - 1
      /\ file[page] \in Page /\ file[page].data \in Seq(Byte)
      /\ file[page].nextPage \in Nat \cup {NoPage}
  <2>1. page \in 0 .. nextPage - 1
    BY <1>3, <1>4 DEF IInv, Chains, ChainsInFile
  <2>2. file[page] \in Page
    BY <2>1 DEF IInv, TypeOK
  <2> QED
    BY <2>1, <2>2 DEF Page
<1>6. /\ s' \in Seq(Byte)
      /\ Len(s') = Len(s) + Len(file[page].data)
      /\ \A j \in 1 .. Len(s) + Len(file[page].data) :
           s'[j] = IF j =< Len(s) THEN s[j] ELSE file[page].data[j - Len(s)]
  BY <1>3, <1>5, ConcatProperties DEF ReadPage
<1>7. TypeOK'
  BY <1>5, <1>6 DEF IInv, TypeOK, ReadPage, streamVars, fileVars, history
<1>8. ReadLoop'
  <2>1. \A j \in 1 .. Len(s') : s'[j] = written[word][j]
    <3> SUFFICES ASSUME NEW j \in 1 .. Len(s')
                 PROVE  s'[j] = written[word][j]
      OBVIOUS
    <3>0. Len(s) \in Nat /\ Len(file[page].data) \in Nat
      BY <1>3, <1>5
    <3>1. CASE j =< Len(s)
      BY <3>0, <3>1, <1>2, <1>6
    <3>2. CASE j > Len(s)
      <4>1. j - Len(s) \in 1 .. Len(file[page].data)
        BY <3>0, <3>2, <1>6
      <4>2. file[page].data[j - Len(s)] = written[word][Off(k + 1) + (j - Len(s))]
        BY <4>1, <1>3, <1>4 DEF IInv, Bytes, PagesHold
      <4>3. j \in 1 .. Len(s) + Len(file[page].data) /\ ~(j =< Len(s))
        BY <3>0, <3>2, <1>6
      <4>4. s'[j] = file[page].data[j - Len(s)]
        BY <4>3, <1>6
      <4>5. Off(k + 1) + (j - Len(s)) = j
        BY <3>0, <1>4
      <4> QED
        BY <4>2, <4>4, <4>5
    <3> QED
      BY <3>0, <3>1, <3>2
  <2>2. CASE k + 1 = n
    <3>1. /\ chain[word] # <<>> /\ page = currentPage[word]
          /\ file[page].nextPage = NoPage
      BY <2>2, <1>3, <1>4 DEF IInv, Chains, ChainEnds
    <3>2. page' = NoPage /\ Len(s') = Flushed(word)
      BY <3>1, <2>2, <1>4, <1>6 DEF ReadPage, Flushed
    <3>3. /\ word' = word /\ chain' = chain /\ written' = written
          /\ Flushed(word)' = Flushed(word)
      BY DEF ReadPage, Flushed, Off, streamVars, fileVars, history
    <3>4. n \in 0 .. n
      BY <1>3
    <3> QED
      BY <3>2, <3>3, <3>4, <2>1 DEF ReadLoop
  <2>3. CASE k + 1 # n
    <3>1. k + 1 \in 1 .. n - 1 /\ k + 1 \in 0 .. n
      BY <2>3, <1>3, <1>4
    <3>2. /\ file[page].nextPage = chain[word][k + 2]
          /\ Len(file[page].data) = DataSize
      BY <3>1, <1>3, <1>4 DEF IInv, Chains, ChainLinks
    <3>3. page' = chain[word][k + 2] /\ Len(s') = Off(k + 2)
      BY <3>1, <3>2, <1>4, <1>6, OffFacts DEF ReadPage
    <3>4. word' = word /\ chain' = chain /\ written' = written /\ Off(k + 2)' = Off(k + 2)
      BY DEF ReadPage, Off, streamVars, fileVars, history
    <3> QED
      BY <3>1, <3>3, <3>4, <2>1, <2>3 DEF ReadLoop
  <2> QED
    BY <2>2, <2>3
<1> QED
  BY <1>1, <1>7, <1>8 DEF IInv

(* What a read returns is what was written. *)
LEMMA EndReadAnswer ==
  ASSUME IInv, EndRead
  PROVE  s \o data[word] = written[word]
<1> DEFINE n == Len(chain[word])
<1>1. PICK k \in 0 .. n :
        /\ page = IF k = n THEN NoPage ELSE chain[word][k + 1]
        /\ Len(s) = IF k = n THEN Flushed(word) ELSE Off(k + 1)
        /\ \A j \in 1 .. Len(s) : s[j] = written[word][j]
  BY DEF IInv, ReadLoop, EndRead
<1>2. /\ n \in Nat /\ word \in Word /\ s \in Seq(Byte)
      /\ chain[word] \in Seq(Nat) /\ written[word] \in Seq(Byte)
      /\ data[word] \in Seq(Byte)
  BY DEF IInv, TypeOK
<1>3. k = n
  <2>1. ASSUME k # n PROVE FALSE
    <3>1. k + 1 \in 1 .. n
      BY <2>1, <1>2
    <3>2. chain[word][k + 1] \in Nat
      BY <3>1, <1>2, ElementOfSeq
    <3> QED
      BY <3>2, <2>1, <1>1 DEF EndRead, NoPage
  <2> QED
    BY <2>1
<1>4. /\ Len(s) = Flushed(word)
      /\ Len(written[word]) = Len(s) + Len(data[word])
      /\ \A j \in 1 .. Len(data[word]) : data[word][j] = written[word][Len(s) + j]
  BY <1>1, <1>2, <1>3 DEF IInv, Bytes, BuffersHold
<1>5. /\ s \o data[word] \in Seq(Byte)
      /\ Len(s \o data[word]) = Len(s) + Len(data[word])
      /\ \A i \in 1 .. Len(s) + Len(data[word]) :
           (s \o data[word])[i] = IF i =< Len(s) THEN s[i] ELSE data[word][i - Len(s)]
  BY <1>2, ConcatProperties
<1>6. ASSUME NEW i \in 1 .. Len(s) + Len(data[word])
      PROVE  (s \o data[word])[i] = written[word][i]
  <2>0. Len(s) \in Nat /\ Len(data[word]) \in Nat
    BY <1>2
  <2>1. CASE i =< Len(s)
    BY <2>0, <2>1, <1>1, <1>5
  <2>2. CASE i > Len(s)
    <3>1. i - Len(s) \in 1 .. Len(data[word]) /\ Len(s) + (i - Len(s)) = i
      BY <2>0, <2>2
    <3> QED
      BY SMTT(40), <2>0, <2>2, <3>1, <1>4, <1>5
  <2> QED
    BY <2>0, <2>1, <2>2
<1> QED
  BY <1>2, <1>4, <1>5, <1>6, SeqEqual

LEMMA EndReadStep ==
  ASSUME IInv, EndRead
  PROVE  IInv'
<1>1. RoomForEveryByte' /\ Chains' /\ Bytes'
  BY CallSteps DEF EndRead
<1>2. answer' = [word |-> word, bytes |-> written[word]]
  BY EndReadAnswer DEF EndRead
<1>3. answer' \in [word : Word, bytes : Seq(Byte)]
  BY <1>2 DEF IInv, TypeOK
<1>4. TypeOK'
  BY <1>3, EmptySeq DEF IInv, TypeOK, EndRead, streamVars, fileVars, history
<1>5. ReadLoop'
  BY DEF EndRead, ReadLoop
<1> QED
  BY <1>1, <1>4, <1>5 DEF IInv

-----------------------------------------------------------------------------
(* put() while the byte fits the buffer: pages and chains stay. *)
LEMMA PutInBuffer ==
  ASSUME IInv, Putting,
         data' = [data EXCEPT ![word] = Append(@, Head(rest))],
         UNCHANGED <<firstPage, currentPage, fileVars, chain>>
  PROVE  /\ Chains' /\ Bytes' /\ ReadLoop'
         /\ data' \in [Word -> Seq(Byte)]
         /\ Len(data'[word]) = Len(data[word]) + 1
         /\ \A w \in Word \ {word} : data'[w] = data[w]
<1> USE DEF fileVars
<1>1. /\ TypeOK /\ word \in Word /\ Head(rest) \in Byte
      /\ data[word] \in Seq(Byte) /\ data \in [Word -> Seq(Byte)]
      /\ \A w \in Word : Len(written[w]) \in Nat /\ Len(data[w]) \in Nat
  <2>1. TypeOK /\ word \in Word /\ data \in [Word -> Seq(Byte)]
    BY DEF IInv, TypeOK
  <2> QED
    BY <2>1, PuttingFacts, StreamFacts
<1>2. /\ data'[word] \in Seq(Byte)
      /\ Len(data'[word]) = Len(data[word]) + 1
      /\ \A i \in 1 .. Len(data[word]) : data'[word][i] = data[word][i]
      /\ data'[word][Len(data[word]) + 1] = Head(rest)
      /\ data' \in [Word -> Seq(Byte)]
      /\ \A w \in Word \ {word} : data'[w] = data[w]
  BY <1>1, AppendProperties
<1>3. Chains'
  BY ChainsFrame DEF IInv
<1>4. ASSUME NEW w \in Word PROVE Flushed(w)' = Flushed(w) /\ Flushed(w) \in Nat
  BY StreamFacts DEF Flushed, Off
<1>5. PagesHold'
  BY PagesKeepBytes DEF PagesHold, Off
<1>6. BuffersHold'
  <2> SUFFICES ASSUME NEW w \in Word
               PROVE  /\ Len(written'[w]) = Flushed(w) + Len(data'[w])
                      /\ \A j \in 1 .. Len(data'[w]) :
                           data'[w][j] = written'[w][Flushed(w) + j]
    BY <1>4 DEF BuffersHold
  <2>1. /\ Len(written[w]) = Flushed(w) + Len(data[w])
        /\ \A j \in 1 .. Len(data[w]) : data[w][j] = written[w][Flushed(w) + j]
    BY DEF IInv, Bytes, BuffersHold
  <2>2. CASE w # word
    BY <2>1, <2>2, <1>1, <1>2, PuttingFacts
  <2>3. CASE w = word
    <3>1. Len(written'[w]) = Flushed(w) + Len(data'[w])
      BY <2>1, <2>3, <1>1, <1>2, <1>4, PuttingFacts
    <3>2. ASSUME NEW j \in 1 .. Len(data'[w])
          PROVE  data'[w][j] = written'[w][Flushed(w) + j]
      <4>1. Flushed(w) \in Nat
        BY <1>4
      <4>2. CASE j \in 1 .. Len(data[w])
        <5>1. Flushed(w) + j \in 1 .. Len(written[w])
          BY <4>1, <4>2, <2>1, <1>1
        <5> QED
          BY <5>1, <4>2, <2>1, <2>3, <1>1, <1>2, PuttingFacts
      <4>3. CASE j = Len(data[w]) + 1
        BY <4>1, <4>3, <2>1, <2>3, <1>1, <1>2, PuttingFacts
      <4> QED
        BY <4>2, <4>3, <2>3, <1>1, <1>2
    <3> QED
      BY <3>1, <3>2
  <2> QED
    BY <2>2, <2>3
<1>7. ReadLoop'
  BY DEF ReadLoop, Putting
<1> QED
  BY <1>2, <1>3, <1>5, <1>6, <1>7 DEF Bytes

LEMMA PutBufferedStep ==
  ASSUME IInv, PutBuffered
  PROVE  IInv'
<1>1. /\ Putting /\ data' = [data EXCEPT ![word] = Append(@, Head(rest))]
      /\ UNCHANGED <<firstPage, currentPage, buffersize, fileVars, chain>>
  BY DEF PutBuffered
<1>2. Chains' /\ Bytes' /\ ReadLoop' /\ data' \in [Word -> Seq(Byte)]
  BY <1>1, PutInBuffer
<1>3. RoomForEveryByte'
  <2>1. /\ word \in Word /\ buffersize \in [Word -> Nat \ {0}]
        /\ \A w \in Word : Len(data[w]) \in Nat
    BY StreamFacts DEF IInv, TypeOK
  <2>2. Len(data[word]) < buffersize[word]
    BY <2>1 DEF PutBuffered, BufferFull
  <2>3. \A w \in Word : Len(data'[w]) =< buffersize[w]
    BY <1>1, <2>1, <2>2, PutInBuffer DEF IInv, RoomForEveryByte
  <2> QED
    BY <1>1, <2>3 DEF IInv, RoomForEveryByte, fileVars
<1>4. TypeOK'
  BY <1>1, <1>2, PuttingFacts DEF IInv, TypeOK, Putting, fileVars
<1> QED
  BY <1>2, <1>3, <1>4 DEF IInv

LEMMA PutGrowStep ==
  ASSUME IInv, PutGrow
  PROVE  IInv'
<1>1. /\ Putting /\ data' = [data EXCEPT ![word] = Append(@, Head(rest))]
      /\ UNCHANGED <<firstPage, currentPage, fileVars, chain>>
      /\ buffersize' = [buffersize EXCEPT ![word] = 2 * @]
      /\ buffersize[word] < MaxBuffersize
  BY DEF PutGrow
<1>2. Chains' /\ Bytes' /\ ReadLoop' /\ data' \in [Word -> Seq(Byte)]
  BY <1>1, PutInBuffer
<1>3. /\ word \in Word /\ buffersize \in [Word -> Nat \ {0}]
      /\ \A w \in Word : Len(data[w]) \in Nat
  BY StreamFacts DEF IInv, TypeOK
<1>4. RoomForEveryByte'
  <2>1. /\ Len(data[word]) =< buffersize[word]
        /\ 2 * buffersize[word] =< DataSize
    BY <1>1, <1>3, BufferAssumption DEF IInv, RoomForEveryByte
  <2>2. \A w \in Word : Len(data'[w]) =< buffersize'[w] /\ buffersize'[w] =< DataSize
    BY <1>1, <1>3, <2>1, PutInBuffer DEF IInv, RoomForEveryByte
  <2> QED
    BY <1>1, <2>2 DEF IInv, RoomForEveryByte, fileVars
<1>5. buffersize' \in [Word -> Nat \ {0}]
  BY <1>1, <1>3
<1>6. TypeOK'
  BY <1>1, <1>2, <1>5, PuttingFacts DEF IInv, TypeOK, Putting, fileVars
<1> QED
  BY <1>2, <1>4, <1>6 DEF IInv

-----------------------------------------------------------------------------
(* put() when the current page takes the front of the buffer: what the     *)
(* page file and the buffer are afterwards.                                *)
LEMMA PutFillFacts ==
  ASSUME IInv, PutFill
  PROVE  LET cur == currentPage[word]
             old == file[cur].data
             new == file'[cur].data
         IN /\ chain[word] # <<>> /\ cur \in 0 .. nextPage - 1
            /\ Count \in Nat \ {0}
            /\ Count =< Len(data[word]) /\ Len(old) + Count =< DataSize
            /\ Len(old) < DataSize /\ Len(old) \in Nat
            /\ file' \in [0 .. nextPage - 1 -> Page]
            /\ file'[cur].nextPage = file[cur].nextPage
            /\ \A p \in 0 .. nextPage - 1 : p # cur => file'[p] = file[p]
            /\ new \in Seq(Byte) /\ Len(new) = Len(old) + Count
            /\ \A j \in 1 .. Len(new) :
                 new[j] = IF j =< Len(old) THEN old[j] ELSE data[word][j - Len(old)]
            /\ data' \in [Word -> Seq(Byte)]
            /\ \A w \in Word \ {word} : data'[w] = data[w]
            /\ Len(data'[word]) = Len(data[word]) - Count + 1
            /\ \A j \in 1 .. Len(data[word]) - Count : data'[word][j] = data[word][Count + j]
            /\ data'[word][Len(data[word]) - Count + 1] = Head(rest)
<1> DEFINE cur == currentPage[word]
           old == file[cur].data
           new == file'[cur].data
           d   == data[word]
           moved == SubSeq(d, 1, Count)
           kept == SubSeq(d, Count + 1, Len(d))
<1>1. /\ word \in Word /\ d \in Seq(Byte) /\ Len(d) \in Nat
      /\ data \in [Word -> Seq(Byte)] /\ TypeOK
      /\ file \in [0 .. nextPage - 1 -> Page]
  <2>1. word \in Word /\ data \in [Word -> Seq(Byte)] /\ TypeOK
        /\ file \in [0 .. nextPage - 1 -> Page]
    BY DEF IInv, TypeOK
  <2> QED
    BY <2>1, StreamFacts
<1>2. chain[word] # <<>>
  BY <1>1 DEF PutFill, HasRoom, IInv, Chains, ChainEnds
<1>3. cur \in 0 .. nextPage - 1
  BY <1>1, <1>2, StreamFacts
<1>4. old \in Seq(Byte) /\ Len(old) \in Nat /\ file[cur] \in Page
  BY <1>1, <1>3, PageFacts
<1>5. Len(old) < DataSize
  BY <1>4, BufferAssumption DEF PutFill, HasRoom, Free
<1>6. Len(d) \in Nat \ {0}
  BY <1>1 DEF PutFill, BufferFull, IInv, TypeOK
<1>7. /\ Count \in Nat \ {0} /\ Count =< Len(d) /\ Len(old) + Count =< DataSize
  <2>1. Free(cur) = DataSize - Len(old) /\ Free(cur) \in Nat \ {0}
    BY <1>4, <1>5, BufferAssumption DEF Free
  <2>2. Count = IF Len(d) < Free(cur) THEN Len(d) ELSE Free(cur)
    BY DEF Count
  <2>3. DataSize \in Nat /\ Len(old) \in Nat /\ Len(d) \in Nat \ {0}
    BY <1>4, <1>6, BufferAssumption
  <2>4. CASE Len(d) < Free(cur)
    <3>1. Count = Len(d)
      BY <2>2, <2>4
    <3>2. Len(d) < DataSize - Len(old)
      BY <2>1, <2>4
    <3> HIDE DEF d, old
    <3> QED
      BY <2>3, <3>1, <3>2
  <2>5. CASE ~(Len(d) < Free(cur))
    <3>1. Count = Free(cur)
      BY <2>2, <2>5
    <3> HIDE DEF d, old, cur
    <3> QED
      BY <2>1, <2>3, <2>5, <3>1
  <2> QED
    BY <2>4, <2>5
<1>8. /\ moved \in Seq(Byte) /\ Len(moved) = Count
      /\ \A j \in 1 .. Count : moved[j] = d[j]
  <2>1. \A i \in 1 .. Count : d[i] \in Byte
    BY <1>1, <1>7, ElementOfSeq
  <2>2. /\ moved \in Seq(Byte)
        /\ Len(moved) = IF 1 =< Count THEN Count - 1 + 1 ELSE 0
        /\ \A i \in 1 .. Count - 1 + 1 : moved[i] = d[1 + i - 1]
    BY <1>7, <2>1, SubSeqProperties
  <2> QED
    BY <1>7, <2>2
<1>9. /\ kept \in Seq(Byte) /\ Len(kept) = Len(d) - Count
      /\ \A j \in 1 .. Len(d) - Count : kept[j] = d[Count + j]
  <2>1. \A i \in Count + 1 .. Len(d) : d[i] \in Byte
    BY <1>1, <1>7, ElementOfSeq
  <2>2. /\ kept \in Seq(Byte)
        /\ Len(kept) = IF Count + 1 =< Len(d) THEN Len(d) - (Count + 1) + 1 ELSE 0
        /\ \A i \in 1 .. Len(d) - (Count + 1) + 1 : kept[i] = d[Count + 1 + i - 1]
    BY <1>1, <1>7, <2>1, SubSeqProperties
  <2> QED
    BY <1>1, <1>7, <2>2
<1>10. /\ old \o moved \in Seq(Byte) /\ Len(old \o moved) = Len(old) + Count
       /\ \A j \in 1 .. Len(old) + Count :
            (old \o moved)[j] = IF j =< Len(old) THEN old[j] ELSE d[j - Len(old)]
  <2>1. /\ old \o moved \in Seq(Byte) /\ Len(old \o moved) = Len(old) + Len(moved)
        /\ \A i \in 1 .. Len(old) + Len(moved) :
             (old \o moved)[i] = IF i =< Len(old) THEN old[i] ELSE moved[i - Len(old)]
    BY <1>4, <1>8, ConcatProperties
  <2>2. ASSUME NEW j \in 1 .. Len(old) + Count
        PROVE  (old \o moved)[j] = IF j =< Len(old) THEN old[j] ELSE d[j - Len(old)]
    <3>1. Count \in Nat /\ Len(old) \in Nat /\ j \in Int /\ Len(moved) = Count
      BY <1>4, <1>7, <1>8
    <3>2. (old \o moved)[j] = IF j =< Len(old) THEN old[j] ELSE moved[j - Len(old)]
      BY <2>1, <3>1
    <3>3. j > Len(old) => j - Len(old) \in 1 .. Count
      BY <3>1
    <3> HIDE DEF old, d, moved
    <3> QED
      BY <3>1, <3>2, <3>3, <1>8
  <2> QED
    BY <2>1, <2>2, <1>8
<1>11. file' = [file EXCEPT ![cur].data = old \o moved]
  BY DEF PutFill
<1>12. /\ new = old \o moved /\ file'[cur].nextPage = file[cur].nextPage
       /\ \A p \in 0 .. nextPage - 1 : p # cur => file'[p] = file[p]
       /\ file' \in [0 .. nextPage - 1 -> Page]
  BY <1>1, <1>3, <1>4, <1>10, <1>11 DEF Page
<1>13. /\ Head(rest) \in Byte
       /\ data' = [data EXCEPT ![word] = Append(kept, Head(rest))]
  BY <1>1, PuttingFacts DEF PutFill, Remaining
<1>14. /\ Append(kept, Head(rest)) \in Seq(Byte)
       /\ Len(Append(kept, Head(rest))) = Len(kept) + 1
       /\ \A i \in 1 .. Len(kept) : Append(kept, Head(rest))[i] = kept[i]
       /\ Append(kept, Head(rest))[Len(kept) + 1] = Head(rest)
  BY <1>9, <1>13, AppendProperties
<1>15. /\ data' \in [Word -> Seq(Byte)]
       /\ \A w \in Word \ {word} : data'[w] = data[w]
       /\ data'[word] = Append(kept, Head(rest))
  BY <1>1, <1>13, <1>14
<1> HIDE DEF kept, moved
<1>16. /\ Len(data'[word]) = Len(d) - Count + 1
       /\ \A j \in 1 .. Len(d) - Count : data'[word][j] = d[Count + j]
       /\ data'[word][Len(d) - Count + 1] = Head(rest)
  BY <1>9, <1>14, <1>15
<1> QED
  BY <1>2, <1>3, <1>4, <1>5, <1>7, <1>10, <1>12, <1>15, <1>16

LEMMA PutFillStep ==
  ASSUME IInv, PutFill
  PROVE  IInv'
<1> DEFINE cur == currentPage[word]
           old == file[cur].data
           new == file'[cur].data
           n   == Len(chain[word])
<1>1. /\ Putting /\ TypeOK /\ word \in Word
      /\ UNCHANGED <<firstPage, currentPage, buffersize, nextPage, chain>>
  BY DEF PutFill, IInv, TypeOK
<1>2. /\ chain[word] # <<>> /\ cur \in 0 .. nextPage - 1
      /\ Count \in Nat \ {0}
      /\ Count =< Len(data[word]) /\ Len(old) + Count =< DataSize
      /\ Len(old) < DataSize /\ Len(old) \in Nat
      /\ file' \in [0 .. nextPage - 1 -> Page]
      /\ file'[cur].nextPage = file[cur].nextPage
      /\ \A p \in 0 .. nextPage - 1 : p # cur => file'[p] = file[p]
      /\ new \in Seq(Byte) /\ Len(new) = Len(old) + Count
  BY PutFillFacts
<1>3. \A j \in 1 .. Len(new) :
        new[j] = IF j =< Len(old) THEN old[j] ELSE data[word][j - Len(old)]
  BY PutFillFacts
<1>4. /\ data' \in [Word -> Seq(Byte)]
      /\ \A w \in Word \ {word} : data'[w] = data[w]
      /\ Len(data'[word]) = Len(data[word]) - Count + 1
      /\ \A j \in 1 .. Len(data[word]) - Count : data'[word][j] = data[word][Count + j]
      /\ data'[word][Len(data[word]) - Count + 1] = Head(rest)
  BY PutFillFacts
<1>5. /\ n \in 1 .. n /\ n \in Nat /\ cur = chain[word][n] /\ Off(n) \in Nat
      /\ \A w \in Word : /\ Len(data[w]) \in Nat /\ Len(chain[w]) \in Nat
                         /\ Len(written[w]) \in Nat /\ Flushed(w) \in Nat
  BY <1>1, <1>2, StreamFacts
<1>a. /\ Len(data[word]) \in Nat /\ Len(written[word]) \in Nat
      /\ Flushed(word) \in Nat /\ Count \in Nat
  BY <1>1, <1>2, <1>5
<1>6. \A w \in Word : \A i \in 1 .. Len(chain[w]) :
        /\ chain[w][i] \in 0 .. nextPage - 1
        /\ chain[w][i] = cur => w = word /\ i = n
  BY SMTT(40), <1>1, <1>5 DEF IInv, Chains, ChainsInFile, ChainsApart
<1>7. \A p \in 0 .. nextPage - 1 : file'[p].nextPage = file[p].nextPage
  BY <1>2
<1>8. TypeOK'
  BY <1>1, <1>2, <1>4, PuttingFacts DEF TypeOK, Putting
<1>9. RoomForEveryByte'
  <2>1. \A w \in Word : Len(data'[w]) =< buffersize[w]
    <3>1. buffersize[word] \in Nat
      BY <1>1 DEF TypeOK
    <3>2. Len(data[word]) =< buffersize[word]
      BY <1>1 DEF IInv, RoomForEveryByte
    <3>3. Len(data'[word]) =< buffersize[word]
      BY <1>1, <1>2, <1>4, <1>5, <3>1, <3>2
    <3> QED
      BY <1>4, <3>3 DEF IInv, RoomForEveryByte
  <2>2. \A p \in 0 .. nextPage - 1 : Len(file'[p].data) =< DataSize
    <3>1. Len(new) =< DataSize
      BY <1>2
    <3>2. DOMAIN file = 0 .. nextPage - 1
      BY <1>1 DEF TypeOK
    <3> QED
      BY <1>2, <3>1, <3>2 DEF IInv, RoomForEveryByte
  <2>3. DOMAIN file' = 0 .. nextPage - 1
    BY <1>2
  <2> QED
    BY <1>1, <2>1, <2>2, <2>3 DEF IInv, RoomForEveryByte
<1>10. Chains'
  <2>1. ChainsInFile' /\ ChainsApart' /\ ChainsCover'
    BY <1>1 DEF IInv, Chains, ChainsInFile, ChainsApart, ChainsCover
  <2>2. ChainEnds'
    <3>1. \A w \in Word : chain[w] # <<>> => currentPage[w] \in 0 .. nextPage - 1
      BY StreamFacts
    <3> QED
      BY <1>1, <1>7, <3>1 DEF IInv, Chains, ChainEnds
  <2>3. ChainLinks'
    <3> SUFFICES ASSUME NEW w \in Word, NEW i \in 1 .. Len(chain[w]) - 1
                 PROVE  file'[chain[w][i]] = file[chain[w][i]]
      BY <1>1 DEF IInv, Chains, ChainLinks
    <3>1. i \in 1 .. Len(chain[w]) /\ i # Len(chain[w])
      BY <1>5
    <3> QED
      BY <3>1, <1>2, <1>6
  <2> QED
    BY <2>1, <2>2, <2>3 DEF Chains
<1>11. /\ Flushed(word)' = Flushed(word) + Count
       /\ Flushed(word) = Off(n) + Len(old)
       /\ \A w \in Word \ {word} : Flushed(w)' = Flushed(w)
  <2>1. Flushed(word) = Off(n) + Len(old)
    BY <1>2 DEF Flushed
  <2>2. Flushed(word)' = Off(n) + Len(new)
    BY <1>1, <1>2 DEF Flushed, Off, Putting
  <2>3. ASSUME NEW w \in Word \ {word} PROVE Flushed(w)' = Flushed(w)
    <3>1. CASE chain[w] = <<>>
      BY <1>1, <3>1 DEF Flushed
    <3>2. CASE chain[w] # <<>>
      <4>1. currentPage[w] \in 0 .. nextPage - 1 /\ currentPage[w] # cur
        BY <3>2, <1>6, StreamFacts
      <4> QED
        BY <1>1, <1>2, <4>1 DEF Flushed, Off
    <3> QED
      BY <3>1, <3>2
  <2> QED
    BY <2>1, <2>2, <2>3, <1>2, <1>5
<1>12. /\ Len(written[word]) = Off(n) + Len(old) + Len(data[word])
       /\ \A j \in 1 .. Len(data[word]) :
            data[word][j] = written[word][Off(n) + Len(old) + j]
  BY <1>1, <1>11 DEF IInv, Bytes, BuffersHold
<1>13. \A j \in 1 .. Len(data[word]) :
         data[word][j] = written'[word][Off(n) + Len(old) + j]
  <2> SUFFICES ASSUME NEW j \in 1 .. Len(data[word])
               PROVE  data[word][j] = written'[word][Off(n) + Len(old) + j]
    OBVIOUS
  <2>1. Off(n) + Len(old) + j \in 1 .. Len(written[word])
    <3>1. Off(n) \in Nat /\ Len(old) \in Nat /\ j \in Nat \ {0} /\ j =< Len(data[word])
      BY <1>2, <1>5, <1>a
    <3>2. Len(written[word]) = Off(n) + Len(old) + Len(data[word])
      BY <1>12
    <3> HIDE DEF n, old
    <3> QED
      BY <3>1, <3>2, <1>a
  <2> QED
    BY <1>1, <1>12, <2>1, PuttingFacts
<1>14. PagesHold'
  <2> SUFFICES ASSUME NEW w \in Word, NEW i \in 1 .. Len(chain[w])
               PROVE  LET d == file'[chain[w][i]].data
                      IN /\ Off(i) + Len(d) =< Len(written'[w])
                         /\ \A j \in 1 .. Len(d) : d[j] = written'[w][Off(i) + j]
    BY <1>1 DEF PagesHold, Off
  <2>1. CASE chain[w][i] # cur
    <3>1. file'[chain[w][i]] = file[chain[w][i]]
      BY <2>1, <1>2, <1>6
    <3> QED
      BY <1>1, <3>1, PagesKeepBytes
  <2>2. CASE chain[w][i] = cur
    <3>1. w = word /\ i = n
      BY <2>2, <1>6
    <3>2. Len(written'[word]) = Len(written[word]) + 1
      BY <1>1, PuttingFacts
    <3>3. Off(n) + Len(new) =< Len(written'[word])
      <4>1. /\ Off(n) \in Nat /\ Len(old) \in Nat /\ Count =< Len(data[word])
            /\ Len(new) = Len(old) + Count
            /\ Len(written[word]) = Off(n) + Len(old) + Len(data[word])
        BY <1>2, <1>5, <1>12
      <4> HIDE DEF n, old, new
      <4> QED
        BY <4>1, <3>2, <1>a
    <3>4. ASSUME NEW j \in 1 .. Len(new) PROVE new[j] = written'[word][Off(n) + j]
      <4>1. CASE j =< Len(old)
        <5>1. j \in 1 .. Len(old)
          BY <4>1, <1>2
        <5>2. old[j] = written'[word][Off(n) + j]
          BY <5>1, <1>1, <1>5, PagesKeepBytes
        <5> QED
          BY <4>1, <5>2, <1>3
      <4>2. CASE j > Len(old)
        <5>1. j - Len(old) \in 1 .. Len(data[word])
          <6>1. /\ Len(old) \in Nat /\ Count =< Len(data[word])
                /\ Len(new) = Len(old) + Count
            BY <1>2
          <6> HIDE DEF old, new
          <6> QED
            BY <6>1, <4>2, <1>a
        <5>2. Off(n) + Len(old) + (j - Len(old)) = Off(n) + j
          BY <1>2, <1>5
        <5>3. new[j] = data[word][j - Len(old)]
          BY <4>2, <1>2, <1>3
        <5> QED
          BY <5>1, <5>2, <5>3, <1>13
      <4> QED
        BY <4>1, <4>2, <1>2
    <3> QED
      BY <2>2, <3>1, <3>3, <3>4
  <2> QED
    BY <2>1, <2>2
<1>15. BuffersHold'
  <2> DEFINE F(w) == IF w = word THEN Flushed(word) + Count ELSE Flushed(w)
  <2>0. ASSUME NEW w \in Word PROVE Flushed(w)' = F(w)
    <3>1. CASE w # word
      BY <3>1, <1>11
    <3>2. CASE w = word
      <4>1. chain[w] # <<>> /\ currentPage'[w] = cur /\ chain' = chain
        BY <3>2, <1>1, <1>2
      <4>2. Flushed(w)' = Off(Len(chain[w])) + Len(new)
        BY <4>1 DEF Flushed, Off
      <4> QED
        BY <4>2, <3>2, <1>2, <1>5, <1>11
    <3> QED
      BY <3>1, <3>2
  <2> SUFFICES ASSUME NEW w \in Word
               PROVE  /\ Len(written'[w]) = F(w) + Len(data'[w])
                      /\ \A j \in 1 .. Len(data'[w]) : data'[w][j] = written'[w][F(w) + j]
    BY <2>0 DEF BuffersHold
  <2>1. CASE w # word
    BY SMTT(40), <2>1, <1>1, <1>4, PuttingFacts DEF IInv, Bytes, BuffersHold
  <2>2. CASE w = word
    <3> DEFINE f == Flushed(word)
               k == Len(data[word])
               l == Len(written[word])
    <3>1. /\ f \in Nat /\ k \in Nat /\ l \in Nat /\ Count \in Nat /\ Count =< k
          /\ Len(data'[word]) = k - Count + 1
          /\ Len(written'[word]) = l + 1
          /\ l = f + k
      BY <1>1, <1>2, <1>4, <1>a, <1>11, <1>12, PuttingFacts
    <3>2. Len(written'[word]) = f + Count + Len(data'[word])
      <4> HIDE DEF f, k, l
      <4> QED BY <3>1
    <3>3. ASSUME NEW j \in 1 .. Len(data'[word])
          PROVE  data'[word][j] = written'[word][f + Count + j]
      <4>1. CASE j =< k - Count
        <5>1. /\ Count + j \in 1 .. k /\ j \in 1 .. k - Count
              /\ f + (Count + j) = f + Count + j
          <6> HIDE DEF f, k, l
          <6> QED BY <4>1, <3>1
        <5>2. data'[word][j] = data[word][Count + j]
          BY <5>1, <1>4
        <5>3. data[word][Count + j] = written'[word][f + (Count + j)]
          BY <5>1, <1>11, <1>13
        <5> QED
          BY <5>1, <5>2, <5>3
      <4>2. CASE ~(j =< k - Count)
        <5>1. j = k - Count + 1 /\ f + Count + j = l + 1
          <6> HIDE DEF f, k, l
          <6> QED BY <4>2, <3>1
        <5> QED
          BY <5>1, <1>1, <1>4, PuttingFacts
      <4> QED
        BY <4>1, <4>2
    <3> QED
      BY <2>2, <3>2, <3>3
  <2> QED
    BY <2>1, <2>2
<1>16. ReadLoop'
  BY <1>1 DEF ReadLoop, Putting
<1> QED
  BY <1>8, <1>9, <1>10, <1>14, <1>15, <1>16 DEF IInv, Bytes

-----------------------------------------------------------------------------
(* put() when the buffer goes to a new page: what the page file and the    *)
(* chain of the word are afterwards.                                       *)
LEMMA PutNewPageFacts ==
  ASSUME IInv, PutNewPage
  PROVE  LET n   == Len(chain[word])
             cur == currentPage[word]
         IN /\ nextPage' = nextPage + 1 /\ nextPage \in Nat
            /\ chain' \in [Word -> Seq(Nat)]
            /\ \A w \in Word \ {word} : chain'[w] = chain[w]
            /\ Len(chain'[word]) = n + 1
            /\ \A i \in 1 .. n : chain'[word][i] = chain[word][i]
            /\ chain'[word][n + 1] = nextPage
            /\ file' \in [0 .. nextPage -> Page]
            /\ file'[nextPage] = [nextPage |-> NoPage, data |-> data[word]]
            /\ n > 0 => /\ file'[cur].nextPage = nextPage
                        /\ file'[cur].data = file[cur].data
                        /\ Len(file[cur].data) = DataSize
            /\ \A p \in 0 .. nextPage - 1 : n = 0 \/ p # cur => file'[p] = file[p]
            /\ firstPage' = IF n = 0 THEN [firstPage EXCEPT ![word] = nextPage] ELSE firstPage
            /\ Off(n + 1) = Flushed(word)
<1> DEFINE n   == Len(chain[word])
           cur == currentPage[word]
<1>1. /\ TypeOK /\ word \in Word /\ nextPage \in Nat
      /\ file \in [0 .. nextPage - 1 -> Page] /\ chain \in [Word -> Seq(Nat)]
      /\ data[word] \in Seq(Byte) /\ chain[word] \in Seq(Nat) /\ n \in Nat
  BY DEF IInv, TypeOK
<1>2. /\ nextPage' = nextPage + 1
      /\ chain' = [chain EXCEPT ![word] = Append(chain[word], nextPage)]
  BY DEF PutNewPage, PagesAfterNew
<1>3. n = 0 <=> chain[word] = <<>>
  BY <1>1, EmptySeq
<1>4. /\ Append(chain[word], nextPage) \in Seq(Nat)
      /\ Len(Append(chain[word], nextPage)) = n + 1
      /\ \A i \in 1 .. n : Append(chain[word], nextPage)[i] = chain[word][i]
      /\ Append(chain[word], nextPage)[n + 1] = nextPage
  BY <1>1, AppendProperties
<1>5. /\ n = 0 => firstPage[word] = NoPage
      /\ n # 0 => firstPage[word] # NoPage /\ cur # NoPage /\ cur \in 0 .. nextPage - 1
  <2>1. CASE n = 0
    BY <2>1, <1>1, <1>3 DEF IInv, Chains, ChainEnds
  <2>2. CASE n # 0
    <3>1. cur \in 0 .. nextPage - 1
      BY <2>2, <1>1, <1>3, StreamFacts
    <3>2. 1 \in 1 .. n /\ firstPage[word] = chain[word][1]
      BY <2>2, <1>1, <1>3 DEF IInv, Chains, ChainEnds
    <3>3. firstPage[word] \in 0 .. nextPage - 1
      BY <3>2, <1>1 DEF IInv, Chains, ChainsInFile
    <3> QED
      BY <2>2, <3>1, <3>3, <1>1 DEF NoPage
  <2> QED
    BY <2>1, <2>2
<1>6. NewPage \in Page /\ NewPage = [nextPage |-> NoPage, data |-> data[word]]
  BY <1>1 DEF NewPage, Page
<1>7. file' = [p \in 0 .. nextPage |->
                 IF p = nextPage THEN NewPage
                 ELSE IF firstPage[word] # NoPage /\ p = cur
                      THEN [file[cur] EXCEPT !.nextPage = nextPage]
                 ELSE file[p]]
  BY DEF PutNewPage, FileWithNewPage, FileWith
<1>8. n # 0 => /\ file[cur] \in Page
               /\ [file[cur] EXCEPT !.nextPage = nextPage] \in Page
               /\ [file[cur] EXCEPT !.nextPage = nextPage].nextPage = nextPage
               /\ [file[cur] EXCEPT !.nextPage = nextPage].data = file[cur].data
  BY <1>1, <1>5 DEF Page
<1>9. /\ file' \in [0 .. nextPage -> Page]
      /\ file'[nextPage] = [nextPage |-> NoPage, data |-> data[word]]
      /\ n # 0 => /\ file'[cur].nextPage = nextPage
                  /\ file'[cur].data = file[cur].data
      /\ \A p \in 0 .. nextPage - 1 : n = 0 \/ p # cur => file'[p] = file[p]
  <2>1. \A p \in 0 .. nextPage : p # nextPage => p \in 0 .. nextPage - 1
    BY <1>1
  <2>2. nextPage \in 0 .. nextPage /\ nextPage \notin 0 .. nextPage - 1
    BY <1>1
  <2>3. \A p \in 0 .. nextPage - 1 : p \in 0 .. nextPage
    BY <1>1
  <2>4. CASE n = 0
    BY <2>1, <2>2, <2>3, <2>4, <1>1, <1>5, <1>6, <1>7
  <2>5. CASE n # 0
    BY <2>1, <2>2, <2>3, <2>5, <1>1, <1>5, <1>6, <1>7, <1>8
  <2> QED
    BY <2>4, <2>5
<1>10. n # 0 => Len(file[cur].data) = DataSize
  <2> SUFFICES ASSUME n # 0 PROVE Len(file[cur].data) = DataSize
    OBVIOUS
  <2>1. Len(file[cur].data) \in Nat /\ cur \in DOMAIN file
    BY <1>1, <1>5, PageFacts
  <2>2. ~(DataSize - Len(file[cur].data) > 0)
    BY <1>5 DEF PutNewPage, HasRoom, Free
  <2>3. Len(file[cur].data) =< DataSize
    BY <2>1 DEF IInv, RoomForEveryByte
  <2> HIDE DEF cur
  <2> QED
    BY <2>1, <2>2, <2>3, BufferAssumption
<1>11. Off(n + 1) = Flushed(word)
  <2>1. CASE n = 0
    BY <2>1, <1>1, <1>3, OffFacts DEF Flushed
  <2>2. CASE n # 0
    BY <2>2, <1>1, <1>3, <1>10, OffFacts DEF Flushed
  <2> QED
    BY <2>1, <2>2
<1>12. firstPage' = IF n = 0 THEN [firstPage EXCEPT ![word] = nextPage] ELSE firstPage
  BY <1>5 DEF PutNewPage
<1>13. /\ chain' \in [Word -> Seq(Nat)]
       /\ \A w \in Word \ {word} : chain'[w] = chain[w]
       /\ chain'[word] = Append(chain[word], nextPage)
  BY <1>1, <1>2, <1>4
<1>14. n > 0 <=> n # 0
  BY <1>1
<1> QED
  BY <1>1, <1>2, <1>4, <1>9, <1>10, <1>11, <1>12, <1>13, <1>14

LEMMA PutNewPageStep ==
  ASSUME IInv, PutNewPage
  PROVE  IInv'
<1> DEFINE n   == Len(chain[word])
           cur == currentPage[word]
<1>1. /\ Putting /\ TypeOK /\ word \in Word /\ nextPage \in Nat
      /\ buffersize' = buffersize
      /\ currentPage' = [currentPage EXCEPT ![word] = nextPage]
      /\ data' = [data EXCEPT ![word] = <<Head(rest)>>]
      /\ data \in [Word -> Seq(Byte)] /\ currentPage \in [Word -> Nat \cup {NoPage}]
      /\ firstPage \in [Word -> Nat \cup {NoPage}]
  BY DEF PutNewPage, IInv, TypeOK
<1>2. /\ nextPage' = nextPage + 1
      /\ chain' \in [Word -> Seq(Nat)]
      /\ \A w \in Word \ {word} : chain'[w] = chain[w]
      /\ Len(chain'[word]) = n + 1
      /\ \A i \in 1 .. n : chain'[word][i] = chain[word][i]
      /\ chain'[word][n + 1] = nextPage
  BY PutNewPageFacts
<1>3. /\ file' \in [0 .. nextPage -> Page]
      /\ file'[nextPage] = [nextPage |-> NoPage, data |-> data[word]]
      /\ n > 0 => /\ file'[cur].nextPage = nextPage
                  /\ file'[cur].data = file[cur].data
                  /\ Len(file[cur].data) = DataSize
      /\ \A p \in 0 .. nextPage - 1 : n = 0 \/ p # cur => file'[p] = file[p]
      /\ firstPage' = IF n = 0 THEN [firstPage EXCEPT ![word] = nextPage] ELSE firstPage
      /\ Off(n + 1) = Flushed(word)
  BY PutNewPageFacts
<1>4. /\ n \in Nat /\ Flushed(word) \in Nat
      /\ chain[word] = <<>> <=> n = 0
      /\ n > 0 => cur = chain[word][n] /\ cur \in 0 .. nextPage - 1
      /\ \A w \in Word : Len(chain[w]) \in Nat /\ Len(written[w]) \in Nat
  BY <1>1, StreamFacts, EmptySeq
<1>5. \A w \in Word : \A i \in 1 .. Len(chain[w]) :
        /\ chain[w][i] \in 0 .. nextPage - 1
        /\ n > 0 /\ chain[w][i] = cur => w = word /\ i = n
  <2>1. \A w \in Word : \A i \in 1 .. Len(chain[w]) : chain[w][i] \in 0 .. nextPage - 1
    BY DEF IInv, Chains, ChainsInFile
  <2>2. n > 0 => n \in 1 .. n /\ cur = chain[word][n]
    BY <1>4
  <2>3. \A w \in Word : \A i \in 1 .. Len(chain[w]) :
          n > 0 /\ chain[w][i] = cur => w = word /\ i = n
    <3> SUFFICES ASSUME NEW w \in Word, NEW i \in 1 .. Len(chain[w]),
                        n > 0, chain[w][i] = cur
                 PROVE  w = word /\ i = n
      OBVIOUS
    <3>1. chain[w][i] = chain[word][n] /\ n \in 1 .. n
      BY <2>2
    <3>2. ChainsApart /\ word \in Word
      BY <1>1 DEF IInv, Chains
    <3> QED
      BY <3>1, <3>2 DEF ChainsApart
  <2> QED
    BY <2>1, <2>3
<1>6. \A p \in 0 .. nextPage - 1 : file'[p].data = file[p].data
  BY <1>3, <1>4
<1>7. /\ Head(rest) \in Byte /\ <<Head(rest)>> \in Seq(Byte)
      /\ Len(<<Head(rest)>>) = 1 /\ <<Head(rest)>>[1] = Head(rest)
      /\ data' \in [Word -> Seq(Byte)]
      /\ data'[word] = <<Head(rest)>>
      /\ \A w \in Word \ {word} : data'[w] = data[w]
  BY <1>1, PuttingFacts
<1>8. TypeOK'
  <2>1. /\ firstPage' \in [Word -> Nat \cup {NoPage}]
        /\ currentPage' \in [Word -> Nat \cup {NoPage}]
    BY <1>1, <1>3
  <2>2. nextPage' \in Nat /\ file' \in [0 .. nextPage' - 1 -> Page]
    BY <1>1, <1>2, <1>3
  <2> QED
    BY <1>1, <1>2, <1>7, <2>1, <2>2, PuttingFacts DEF TypeOK, Putting
<1>9. RoomForEveryByte'
  <2>1. \A w \in Word : Len(data'[w]) =< buffersize[w] /\ buffersize[w] =< DataSize
    <3>1. buffersize[word] \in Nat \ {0}
      BY <1>1 DEF TypeOK
    <3>2. Len(data'[word]) =< buffersize[word]
      BY <1>7, <3>1
    <3> QED
      BY <1>7, <3>2 DEF IInv, RoomForEveryByte
  <2>2. Len(data[word]) =< DataSize
    <3>1. buffersize[word] \in Nat /\ Len(data[word]) \in Nat
      BY <1>1 DEF TypeOK
    <3>2. Len(data[word]) =< buffersize[word] /\ buffersize[word] =< DataSize
      BY <1>1 DEF IInv, RoomForEveryByte
    <3> QED
      BY <3>1, <3>2, BufferAssumption
  <2>3. ASSUME NEW p \in 0 .. nextPage PROVE Len(file'[p].data) =< DataSize
    <3>1. CASE p = nextPage
      BY <3>1, <2>2, <1>3
    <3>2. CASE p # nextPage
      <4>1. p \in 0 .. nextPage - 1 /\ p \in DOMAIN file
        BY <3>2, <1>1 DEF TypeOK
      <4> QED
        BY <4>1, <1>6 DEF IInv, RoomForEveryByte
    <3> QED
      BY <3>1, <3>2
  <2>4. DOMAIN file' = 0 .. nextPage
    BY <1>3
  <2> QED
    BY <1>1, <2>1, <2>3, <2>4 DEF RoomForEveryByte
<1>10. ChainsInFile'
  <2> SUFFICES ASSUME NEW w \in Word, NEW i \in 1 .. Len(chain'[w])
               PROVE  chain'[w][i] \in 0 .. nextPage
    BY <1>1, <1>2 DEF ChainsInFile
  <2>1. CASE w = word /\ i = n + 1
    BY <2>1, <1>1, <1>2
  <2>2. CASE ~(w = word /\ i = n + 1)
    <3>1. i \in 1 .. Len(chain[w]) /\ chain'[w][i] = chain[w][i]
      BY <2>2, <1>2, <1>4
    <3> QED
      BY <3>1, <1>1, <1>5
  <2> QED
    BY <2>1, <2>2
<1>11. ChainEnds'
  <2> SUFFICES ASSUME NEW w \in Word
               PROVE  /\ chain'[w] = <<>> => firstPage'[w] = NoPage /\ currentPage'[w] = NoPage
                      /\ chain'[w] # <<>> =>
                           /\ firstPage'[w] = chain'[w][1]
                           /\ currentPage'[w] = chain'[w][Len(chain'[w])]
                           /\ file'[currentPage'[w]].nextPage = NoPage
    BY DEF ChainEnds
  <2>1. CASE w # word
    <3>1. chain[w] # <<>> => currentPage[w] \in 0 .. nextPage - 1 /\ (n > 0 => currentPage[w] # cur)
      BY <2>1, <1>5, StreamFacts
    <3>2. n = 0 \/ n > 0
      BY <1>4
    <3> QED
      BY <2>1, <3>1, <3>2, <1>1, <1>2, <1>3 DEF IInv, Chains, ChainEnds
  <2>2. CASE w = word
    <3>1. chain'[w] # <<>>
      BY <2>2, <1>2, <1>4
    <3>2. currentPage'[w] = chain'[w][Len(chain'[w])] /\ currentPage'[w] = nextPage
      BY <2>2, <1>1, <1>2
    <3>3. file'[currentPage'[w]].nextPage = NoPage
      BY <3>2, <1>3
    <3>4. firstPage'[w] = chain'[w][1]
      <4>1. CASE n = 0
        BY <4>1, <2>2, <1>1, <1>2, <1>3
      <4>2. CASE n # 0
        <5>1. 1 \in 1 .. n
          BY <4>2, <1>4
        <5> QED
          BY <4>2, <5>1, <2>2, <1>2, <1>3, <1>4 DEF IInv, Chains, ChainEnds
      <4> QED
        BY <4>1, <4>2
    <3> QED
      BY <3>1, <3>2, <3>3, <3>4
  <2> QED
    BY <2>1, <2>2
<1>12. ChainLinks'
  <2> SUFFICES ASSUME NEW w \in Word, NEW i \in 1 .. Len(chain'[w]) - 1
               PROVE  /\ file'[chain'[w][i]].nextPage = chain'[w][i + 1]
                      /\ chain'[w][i] < chain'[w][i + 1]
                      /\ Len(file'[chain'[w][i]].data) = DataSize
    BY DEF ChainLinks
  <2>1. CASE w = word /\ i = n
    <3>0. n \in Nat /\ i \in 1 .. n + 1 - 1
      BY <2>1, <1>2, <1>4
    <3>a. n > 0 /\ n \in 1 .. n
      BY <2>1, <3>0
    <3>1. n > 0 /\ n \in 1 .. n /\ chain'[w][i] = cur /\ chain'[w][i + 1] = nextPage
      BY <2>1, <3>a, <1>2, <1>4
    <3>2. cur < nextPage
      BY <3>1, <1>1, <1>4
    <3> QED
      BY <3>1, <3>2, <1>3
  <2>2. CASE ~(w = word /\ i = n)
    <3>1. /\ i \in 1 .. Len(chain[w]) - 1 /\ i \in 1 .. Len(chain[w])
          /\ i + 1 \in 1 .. Len(chain[w]) /\ i # Len(chain[w])
      BY <2>2, <1>2, <1>4
    <3>2. chain'[w][i] = chain[w][i] /\ chain'[w][i + 1] = chain[w][i + 1]
      BY <3>1, <1>2
    <3>3. chain[w][i] \in 0 .. nextPage - 1 /\ (n > 0 => chain[w][i] # cur)
      BY <3>1, <1>5
    <3>4. file'[chain[w][i]] = file[chain[w][i]]
      BY <3>3, <1>3, <1>4
    <3> QED
      BY <3>1, <3>2, <3>4 DEF IInv, Chains, ChainLinks
  <2> QED
    BY <2>1, <2>2
<1>13. ChainsApart'
  <2> SUFFICES ASSUME NEW v \in Word, NEW w \in Word,
                      NEW i \in 1 .. Len(chain'[v]), NEW j \in 1 .. Len(chain'[w]),
                      chain'[v][i] = chain'[w][j]
               PROVE  v = w /\ i = j
    BY DEF ChainsApart
  <2> DEFINE Old(x, k) == k \in 1 .. Len(chain[x]) /\ chain'[x][k] = chain[x][k]
             New(x, k) == x = word /\ k = n + 1 /\ chain'[x][k] = nextPage
  <2>0. ASSUME NEW x \in Word, NEW k \in 1 .. Len(chain'[x])
        PROVE  Old(x, k) \/ New(x, k)
    <3>1. CASE x # word
      BY <3>1, <1>2
    <3>2. CASE x = word
      <4>1. k \in 1 .. n \/ k = n + 1
        BY SMTT(40), <3>2, <1>2, <1>4
      <4> QED
        BY <3>2, <4>1, <1>2
    <3> QED
      BY <3>1, <3>2
  <2>1. (Old(v, i) \/ New(v, i)) /\ (Old(w, j) \/ New(w, j))
    BY <2>0
  <2>2. nextPage \notin 0 .. nextPage - 1
    BY <1>1
  <2> QED
    BY <2>1, <2>2, <1>5 DEF IInv, Chains, ChainsApart
<1>14. ChainsCover'
  <2> SUFFICES ASSUME NEW p \in 0 .. nextPage
               PROVE  \E w \in Word : \E i \in 1 .. Len(chain'[w]) : chain'[w][i] = p
    <3>1. nextPage' - 1 = nextPage
      BY <1>1, <1>2
    <3> QED
      BY <3>1 DEF ChainsCover
  <2>1. CASE p = nextPage
    <3>1. n + 1 \in 1 .. Len(chain'[word])
      BY <1>2, <1>4
    <3> QED
      BY <2>1, <3>1, <1>1, <1>2
  <2>2. CASE p # nextPage
    <3>0. p \in 0 .. nextPage - 1
      BY <2>2, <1>1
    <3>1. PICK w \in Word : \E i \in 1 .. Len(chain[w]) : chain[w][i] = p
      BY <3>0 DEF IInv, Chains, ChainsCover
    <3>2. PICK i \in 1 .. Len(chain[w]) : chain[w][i] = p
      BY <3>1
    <3>3. i \in 1 .. Len(chain'[w]) /\ chain'[w][i] = p
      BY <3>2, <1>2, <1>4
    <3> QED
      BY <3>3
  <2> QED
    BY <2>1, <2>2
<1>15. /\ Len(written[word]) = Flushed(word) + Len(data[word])
       /\ \A j \in 1 .. Len(data[word]) : data[word][j] = written[word][Flushed(word) + j]
       /\ Len(data[word]) \in Nat /\ Len(written[word]) \in Nat
       /\ Len(written'[word]) = Len(written[word]) + 1
       /\ written'[word][Len(written[word]) + 1] = Head(rest)
       /\ \A j \in 1 .. Len(written[word]) : written'[word][j] = written[word][j]
  BY <1>1, StreamFacts, PuttingFacts DEF IInv, Bytes, BuffersHold
<1>16. PagesHold'
  <2> SUFFICES ASSUME NEW w \in Word, NEW i \in 1 .. Len(chain'[w])
               PROVE  /\ Off(i) + Len(file'[chain'[w][i]].data) =< Len(written'[w])
                      /\ \A j \in 1 .. Len(file'[chain'[w][i]].data) :
                           file'[chain'[w][i]].data[j] = written'[w][Off(i) + j]
    BY DEF PagesHold, Off
  <2>1. CASE w = word /\ i = n + 1
    <3>1. file'[chain'[w][i]].data = data[word] /\ Off(i) = Flushed(word)
      BY <2>1, <1>2, <1>3
    <3>2. Flushed(word) + Len(data[word]) =< Len(written'[word])
      BY <1>4, <1>15
    <3>3. ASSUME NEW j \in 1 .. Len(data[word])
          PROVE  data[word][j] = written'[word][Flushed(word) + j]
      <4>1. Flushed(word) + j \in 1 .. Len(written[word])
        BY <1>4, <1>15
      <4> QED
        BY <4>1, <1>15
    <3> DEFINE d == file'[chain'[w][i]].data
    <3>4. d = data[word] /\ Off(i) = Flushed(word) /\ w = word
      BY <2>1, <3>1
    <3> HIDE DEF d
    <3>5. Off(i) + Len(d) =< Len(written'[w])
      BY <3>2, <3>4
    <3>6. ASSUME NEW j \in 1 .. Len(d)
          PROVE  d[j] = written'[w][Off(i) + j]
      BY <3>3, <3>4
    <3> QED
      BY <3>5, <3>6 DEF d
  <2>2. CASE ~(w = word /\ i = n + 1)
    <3>1. i \in 1 .. Len(chain[w]) /\ chain'[w][i] = chain[w][i]
      BY <2>2, <1>2, <1>4
    <3>2. file'[chain[w][i]].data = file[chain[w][i]].data
      BY <3>1, <1>5, <1>6
    <3>3. /\ Off(i) + Len(file[chain[w][i]].data) =< Len(written'[w])
          /\ \A j \in 1 .. Len(file[chain[w][i]].data) :
               file[chain[w][i]].data[j] = written'[w][Off(i) + j]
      BY <1>1, <3>1, PagesKeepBytes
    <3>4. file'[chain'[w][i]].data = file[chain[w][i]].data
      BY <3>1, <3>2
    <3> QED
      BY <3>3, <3>4
  <2> QED
    BY <2>1, <2>2
<1>17. BuffersHold'
  <2> DEFINE F(w) == IF w = word THEN Off(n + 1) + Len(data[word]) ELSE Flushed(w)
  <2>1. ASSUME NEW w \in Word PROVE Flushed(w)' = F(w)
    <3>1. CASE w # word
      <4>1. chain[w] # <<>> => currentPage[w] \in 0 .. nextPage - 1
        BY StreamFacts
      <4> QED
        BY <3>1, <4>1, <1>1, <1>2, <1>6 DEF Flushed, Off
    <3>2. CASE w = word
      <4>1. /\ chain'[w] # <<>> /\ currentPage'[w] = nextPage
            /\ Len(chain'[w]) = n + 1 /\ file'[nextPage].data = data[word]
        BY <3>2, <1>1, <1>2, <1>3, <1>4
      <4>2. Flushed(w)' = Off(n + 1) + Len(data[word])
        BY <4>1 DEF Flushed, Off
      <4> QED
        BY <4>2, <3>2
    <3> QED
      BY <3>1, <3>2
  <2> SUFFICES ASSUME NEW w \in Word
               PROVE  /\ Len(written'[w]) = F(w) + Len(data'[w])
                      /\ \A j \in 1 .. Len(data'[w]) : data'[w][j] = written'[w][F(w) + j]
    BY <2>1 DEF BuffersHold
  <2>2. CASE w # word
    <3>1. F(w) = Flushed(w) /\ data'[w] = data[w] /\ written'[w] = written[w]
      BY <2>2, <1>1, <1>7, PuttingFacts
    <3> HIDE DEF F
    <3> QED
      BY <3>1 DEF IInv, Bytes, BuffersHold
  <2>3. CASE w = word
    <3>1. F(w) = Len(written[word]) /\ Len(data'[w]) = 1
      BY <2>3, <1>3, <1>7, <1>15
    <3>2. \A j \in 1 .. Len(data'[w]) : j = 1
      BY <3>1
    <3> HIDE DEF F
    <3>3. Len(written'[w]) = F(w) + Len(data'[w])
      BY <2>3, <3>1, <1>15
    <3>4. data'[w][1] = written'[w][F(w) + 1]
      BY <2>3, <3>1, <1>7, <1>15
    <3>5. ASSUME NEW j \in 1 .. Len(data'[w])
          PROVE  data'[w][j] = written'[w][F(w) + j]
      <4>1. j = 1
        BY <3>2
      <4> QED
        BY <4>1, <3>4
    <3> QED
      BY <3>3, <3>5
  <2> QED
    BY <2>2, <2>3
<1>18. ReadLoop'
  BY <1>1 DEF ReadLoop, Putting
<1> QED
  BY <1>8, <1>9, <1>10, <1>11, <1>12, <1>13, <1>14, <1>16, <1>17, <1>18
     DEF IInv, Chains, Bytes

-----------------------------------------------------------------------------
(* Results                                                                 *)

LEMMA NextIInv ==
  ASSUME IInv, [Next]_vars
  PROVE  IInv'
<1>1. CASE PutBuffered
  BY <1>1, PutBufferedStep
<1>2. CASE PutGrow
  BY <1>2, PutGrowStep
<1>3. CASE PutFill
  BY <1>3, PutFillStep
<1>4. CASE PutNewPage
  BY <1>4, PutNewPageStep
<1>5. CASE EndWrite
  BY <1>5, EndWriteStep
<1>6. CASE ReadPage
  BY <1>6, ReadPageStep
<1>7. CASE EndRead
  BY <1>7, EndReadStep
<1>8. ASSUME NEW w \in Word, NEW str \in Chunk, BeginWrite(w, str) PROVE IInv'
  BY <1>8, BeginWriteStep
<1>9. ASSUME NEW w \in Word, ReadMissing(w) PROVE IInv'
  BY <1>9, ReadMissingStep
<1>10. ASSUME NEW w \in Word, BeginRead(w) PROVE IInv'
  BY <1>10, BeginReadStep
<1>11. CASE UNCHANGED vars
  <2>1. UNCHANGED <<streamVars, fileVars, history, streams, pc, word, rest, page, s, answer>>
    BY <1>11 DEF vars, callVars
  <2>2. RoomForEveryByte' /\ Chains' /\ Bytes'
    BY <2>1, CallSteps
  <2>3. TypeOK'
    BY <2>1 DEF IInv, TypeOK, streamVars, fileVars, history
  <2>4. ReadLoop'
    BY <2>1 DEF IInv, ReadLoop, Flushed, Off, streamVars, fileVars, history
  <2> QED
    BY <2>2, <2>3, <2>4 DEF IInv
<1> QED
  BY <1>1, <1>2, <1>3, <1>4, <1>5, <1>6, <1>7, <1>8, <1>9, <1>10, <1>11 DEF Next, Running

(* The chains of pages are well formed and hold the bytes written, in      *)
(* every reachable state.                                                  *)
THEOREM Invariance == Spec => []IInv
<1>1. Init => IInv
  BY InitIInv
<1>2. IInv /\ [Next]_vars => IInv'
  BY NextIInv
<1> QED
  BY <1>1, <1>2, PTL DEF Spec

(* Every variable keeps its type, whatever is written and read. *)
THEOREM TypeCorrect == Spec => []TypeOK
<1>1. IInv => TypeOK
  BY DEF IInv
<1> QED
  BY <1>1, Invariance, PTL

(* put() and overflow() never write past the end of a buffer or a page. *)
THEOREM NoOverrun == Spec => []RoomForEveryByte
<1>1. IInv => RoomForEveryByte
  BY DEF IInv
<1> QED
  BY <1>1, Invariance, PTL

LEMMA NextNamesKnown ==
  ASSUME IInv, NamesKnown, [Next]_vars
  PROVE  NamesKnown'
<1> USE DEF NamesKnown
<1>1. ASSUME Putting PROVE NamesKnown'
  BY <1>1, PuttingFacts DEF IInv, Putting
<1>2. CASE PutBuffered \/ PutGrow \/ PutFill \/ PutNewPage
  BY <1>1, <1>2 DEF PutBuffered, PutGrow, PutFill, PutNewPage
<1>3. CASE EndWrite
  BY <1>3 DEF EndWrite, history
<1>4. CASE ReadPage
  BY <1>4 DEF ReadPage, history
<1>5. CASE EndRead
  BY <1>5 DEF EndRead, history
<1>6. ASSUME NEW w \in Word, NEW str \in Chunk, BeginWrite(w, str) PROVE NamesKnown'
  BY <1>6 DEF BeginWrite, history
<1>7. ASSUME NEW w \in Word, ReadMissing(w) PROVE NamesKnown'
  BY <1>7 DEF ReadMissing, history
<1>8. ASSUME NEW w \in Word, BeginRead(w) PROVE NamesKnown'
  BY <1>8 DEF BeginRead, history
<1>9. CASE UNCHANGED vars
  BY <1>9 DEF vars, callVars, history
<1> QED
  BY <1>2, <1>3, <1>4, <1>5, <1>6, <1>7, <1>8, <1>9 DEF Next, Running

(* Every page has a place on a chain, and the place decides what its link  *)
(* says: nothing at the end of the chain, else the next page of the chain. *)
LEMMA PagePlace ==
  ASSUME IInv, NEW p \in DOMAIN file
  PROVE  \E w \in Word : \E i \in 1 .. Len(chain[w]) :
           /\ chain[w][i] = p /\ p # NoPage
           /\ i = Len(chain[w]) => file[p].nextPage = NoPage /\ currentPage[w] = p
           /\ i # Len(chain[w]) => /\ i + 1 \in 1 .. Len(chain[w])
                                  /\ file[p].nextPage = chain[w][i + 1]
                                  /\ file[p].nextPage > p
                                  /\ file[p].nextPage # NoPage
                                  /\ Len(file[p].data) = DataSize
<1>1. p \in 0 .. nextPage - 1 /\ nextPage \in Nat
  BY DEF IInv, TypeOK
<1>2. PICK w \in Word : \E i \in 1 .. Len(chain[w]) : chain[w][i] = p
  BY <1>1 DEF IInv, Chains, ChainsCover
<1>3. PICK i \in 1 .. Len(chain[w]) : chain[w][i] = p
  BY <1>2
<1>4. Len(chain[w]) \in Nat /\ (chain[w] = <<>> => Len(chain[w]) = 0)
  BY StreamFacts, EmptySeq
<1>5. i = Len(chain[w]) => file[p].nextPage = NoPage /\ currentPage[w] = p
  BY <1>3, <1>4 DEF IInv, Chains, ChainEnds
<1>6. ASSUME i # Len(chain[w])
      PROVE  /\ i + 1 \in 1 .. Len(chain[w])
             /\ file[p].nextPage = chain[w][i + 1]
             /\ file[p].nextPage > p
             /\ file[p].nextPage # NoPage
             /\ Len(file[p].data) = DataSize
  <2>1. i \in 1 .. Len(chain[w]) - 1 /\ i + 1 \in 1 .. Len(chain[w])
    BY <1>4, <1>6
  <2>2. /\ file[p].nextPage = chain[w][i + 1] /\ p < chain[w][i + 1]
        /\ Len(file[p].data) = DataSize
    BY <2>1, <1>3 DEF IInv, Chains, ChainLinks
  <2>3. chain[w][i + 1] \in 0 .. nextPage - 1
    BY <2>1 DEF IInv, Chains, ChainsInFile
  <2> QED
    BY <2>1, <2>2, <2>3, <1>1 DEF NoPage
<1> QED
  BY <1>1, <1>3, <1>5, <1>6 DEF NoPage

(* Only the page a stream ends with is partly filled. *)
THEOREM NoGaps == Spec => []OnlyLastPagePartial
<1>1. IInv => OnlyLastPagePartial
  BY PagePlace DEF OnlyLastPagePartial
<1> QED
  BY <1>1, Invariance, PTL

(* Links lead to later pages: every read ends. *)
THEOREM ReadsEnd == Spec => []LinksGoForward
<1>1. IInv => LinksGoForward
  BY PagePlace DEF LinksGoForward
<1> QED
  BY <1>1, Invariance, PTL

(* No page is shared by two words, lost, or reached twice. *)
THEOREM PagesNeverShared == Spec => []PagesLinkedOnce
<1>1. ASSUME IInv PROVE PagesLinkedOnce
  <2> SUFFICES ASSUME NEW p \in DOMAIN file
               PROVE  \/ /\ {q \in DOMAIN file : file[q].nextPage = p} = {}
                         /\ \E w \in Word : {v \in Word : firstPage[v] = p} = {w}
                      \/ /\ {v \in Word : firstPage[v] = p} = {}
                         /\ \E r \in DOMAIN file :
                              {q \in DOMAIN file : file[q].nextPage = p} = {r}
    BY DEF PagesLinkedOnce
  <2>1. PICK w \in Word : \E i \in 1 .. Len(chain[w]) : chain[w][i] = p /\ p # NoPage
    BY <1>1, PagePlace
  <2>2. PICK i \in 1 .. Len(chain[w]) : chain[w][i] = p /\ p # NoPage
    BY <2>1
  <2>3. Len(chain[w]) \in Nat /\ \A v \in Word : Len(chain[v]) \in Nat
    BY <1>1, StreamFacts
  <2>4. ASSUME NEW v \in Word, firstPage[v] = p PROVE v = w /\ i = 1
    <3>1. chain[v] # <<>> /\ chain[v][1] = p
      BY <1>1, <2>2, <2>4 DEF IInv, Chains, ChainEnds
    <3>2. 1 \in 1 .. Len(chain[v])
      BY <1>1, <3>1, StreamFacts
    <3> QED
      BY <1>1, <2>2, <3>1, <3>2 DEF IInv, Chains, ChainsApart
  <2>5. ASSUME NEW q \in DOMAIN file, file[q].nextPage = p
        PROVE  i - 1 \in 1 .. Len(chain[w]) /\ q = chain[w][i - 1]
    <3>1. PICK v \in Word : \E k \in 1 .. Len(chain[v]) :
             /\ chain[v][k] = q
             /\ k = Len(chain[v]) => file[q].nextPage = NoPage
             /\ k # Len(chain[v]) => /\ k + 1 \in 1 .. Len(chain[v])
                                    /\ file[q].nextPage = chain[v][k + 1]
      BY <1>1, PagePlace
    <3>2. PICK k \in 1 .. Len(chain[v]) :
             /\ chain[v][k] = q
             /\ k = Len(chain[v]) => file[q].nextPage = NoPage
             /\ k # Len(chain[v]) => /\ k + 1 \in 1 .. Len(chain[v])
                                    /\ file[q].nextPage = chain[v][k + 1]
      BY <3>1
    <3>3. k + 1 \in 1 .. Len(chain[v]) /\ chain[v][k + 1] = p
      BY <2>2, <2>5, <3>2
    <3>4. v = w /\ k + 1 = i
      BY <1>1, <2>2, <3>3 DEF IInv, Chains, ChainsApart
    <3>5. k = i - 1
      BY <3>2, <3>4, <2>3
    <3> QED
      BY <3>2, <3>4, <3>5
  <2>6. CASE i = 1
    <3>1. chain[w] # <<>> => firstPage[w] = p
      BY <1>1, <2>2, <2>6 DEF IInv, Chains, ChainEnds
    <3>2. chain[w] # <<>>
      BY <2>2, <2>3, EmptySeq
    <3>3. {v \in Word : firstPage[v] = p} = {w}
      BY <3>1, <3>2, <2>4
    <3>4. {q \in DOMAIN file : file[q].nextPage = p} = {}
      BY <2>5, <2>6, <2>3
    <3> QED
      BY <3>3, <3>4
  <2>7. CASE i # 1
    <3> DEFINE r == chain[w][i - 1]
    <3>1. /\ i - 1 \in 1 .. Len(chain[w]) - 1 /\ i - 1 \in 1 .. Len(chain[w])
          /\ (i - 1) + 1 = i
      BY <2>2, <2>3, <2>7
    <3>2. r \in DOMAIN file
      BY <1>1, <3>1 DEF IInv, TypeOK, Chains, ChainsInFile
    <3>3. file[r].nextPage = p
      BY <1>1, <2>2, <3>1 DEF IInv, Chains, ChainLinks
    <3>4. {q \in DOMAIN file : file[q].nextPage = p} = {r}
      BY <3>2, <3>3, <2>5
    <3>5. {v \in Word : firstPage[v] = p} = {}
      BY <2>4, <2>7
    <3> QED
      BY <3>2, <3>4, <3>5
  <2> QED
    BY <2>6, <2>7
<1> QED
  BY <1>1, Invariance, PTL

(* Bytes and links on a page are never overwritten. *)
THEOREM PagesAppendOnly == Spec => FileAppendOnly
<1>1. ASSUME IInv, [Next]_vars
      PROVE  [\A p \in DOMAIN file : PageKept(p)]_vars
  <2> SUFFICES ASSUME NEW p \in DOMAIN file PROVE PageKept(p)
    OBVIOUS
  <2>1. /\ p \in 0 .. nextPage - 1 /\ DOMAIN file = 0 .. nextPage - 1 /\ nextPage \in Nat
        /\ file[p].data \in Seq(Byte) /\ Len(file[p].data) \in Nat /\ word \in Word
        /\ DOMAIN file[p].data = 1 .. Len(file[p].data)
    <3>1. TypeOK
      BY <1>1 DEF IInv
    <3>2. /\ DOMAIN file = 0 .. nextPage - 1 /\ nextPage \in Nat /\ word \in Word
      BY <3>1 DEF TypeOK
    <3>3. p \in 0 .. nextPage - 1
      BY <3>2
    <3>4. file[p].data \in Seq(Byte)
      BY <3>1, <3>3, PageFacts
    <3>5. Len(file[p].data) \in Nat /\ DOMAIN file[p].data = 1 .. Len(file[p].data)
      BY <3>4
    <3> QED
      BY <3>2, <3>3, <3>4, <3>5
  <2>2. ASSUME file' = file PROVE PageKept(p)
    BY <2>1, <2>2 DEF PageKept
  <2>3. CASE PutFill
    <3> DEFINE cur == currentPage[word]
               old == file[cur].data
               new == file'[cur].data
    <3>1. /\ DOMAIN file' = 0 .. nextPage - 1 /\ Count \in Nat
          /\ file'[cur].nextPage = file[cur].nextPage
          /\ p # cur => file'[p] = file[p]
          /\ Len(new) = Len(old) + Count /\ Len(old) \in Nat
          /\ \A j \in 1 .. Len(new) :
               new[j] = IF j =< Len(old) THEN old[j] ELSE data[word][j - Len(old)]
      BY <1>1, <2>1, <2>3, PutFillFacts
    <3>2. CASE p # cur
      BY <2>1, <3>1, <3>2 DEF PageKept
    <3>3. CASE p = cur
      <4>1. Len(old) =< Len(new) /\ \A i \in 1 .. Len(old) : i \in 1 .. Len(new) /\ i =< Len(old)
        BY <3>1
      <4>2. \A i \in 1 .. Len(old) : new[i] = old[i]
        BY <3>1, <4>1
      <4> QED
        BY <2>1, <3>1, <3>3, <4>1, <4>2 DEF PageKept
    <3> QED
      BY <3>2, <3>3
  <2>4. CASE PutNewPage
    <3> DEFINE cur == currentPage[word]
               n   == Len(chain[word])
    <3>1. /\ DOMAIN file' = 0 .. nextPage
          /\ n > 0 => file'[cur].data = file[cur].data
          /\ n = 0 \/ p # cur => file'[p] = file[p]
      BY <1>1, <2>1, <2>4, PutNewPageFacts
    <3>2. p \in DOMAIN file'
      BY <2>1, <3>1
    <3>3. n \in Nat /\ (n > 0 => chain[word] # <<>>)
      BY <1>1, <2>1, StreamFacts, EmptySeq
    <3>4. CASE n = 0 \/ p # cur
      BY <2>1, <3>1, <3>2, <3>4 DEF PageKept
    <3>5. CASE n > 0 /\ p = cur
      <4>1. file[p].nextPage = NoPage
        BY <1>1, <2>1, <3>3, <3>5 DEF IInv, Chains, ChainEnds
      <4> QED
        BY <2>1, <3>1, <3>2, <3>5, <4>1 DEF PageKept
    <3> QED
      BY <3>3, <3>4, <3>5
  <2>5. CASE PutBuffered \/ PutGrow \/ EndWrite \/ ReadPage \/ EndRead
    BY <2>2, <2>5 DEF PutBuffered, PutGrow, EndWrite, ReadPage, EndRead, fileVars
  <2>6. ASSUME NEW w \in Word, NEW str \in Chunk, BeginWrite(w, str)
        PROVE  PageKept(p)
    BY <2>2, <2>6 DEF BeginWrite, fileVars
  <2>7. ASSUME NEW w \in Word, ReadMissing(w) \/ BeginRead(w)
        PROVE  PageKept(p)
    BY <2>2, <2>7 DEF ReadMissing, BeginRead, fileVars
  <2>8. CASE UNCHANGED vars
    BY <2>2, <2>8 DEF vars, fileVars
  <2> QED
    BY <1>1, <2>3, <2>4, <2>5, <2>6, <2>7, <2>8 DEF Next, Running
<1> QED
  BY <1>1, Invariance, PTL DEF Spec, FileAppendOnly

(* A read returns exactly what was written to its word: the page file with *)
(* its buffers implements one byte sequence per word.                      *)
THEOREM StreamsImplementStore == Spec => ImplementsStore
<1>1. Init => Store!Init
  BY DEF Init, Store!Init
<1>2. ASSUME IInv, NamesKnown, [Next]_vars
      PROVE  [Store!Next]_<<written, answer>>
  <2>1. ASSUME Putting PROVE Store!Next
    <3>1. /\ word \in Word /\ Head(rest) \in Byte
          /\ written' = [written EXCEPT ![word] = Append(@, Head(rest))]
          /\ answer' = answer
      BY <1>2, <2>1, PuttingFacts DEF IInv, TypeOK, Putting
    <3> QED
      BY <3>1 DEF Store!Next, Store!Extend
  <2>2. CASE PutBuffered \/ PutGrow \/ PutFill \/ PutNewPage
    BY <2>1, <2>2 DEF PutBuffered, PutGrow, PutFill, PutNewPage
  <2>3. CASE EndRead
    <3>1. /\ word \in Word /\ answer' = [word |-> word, bytes |-> written[word]]
          /\ written' = written
      BY <1>2, <2>3, EndReadAnswer DEF IInv, TypeOK, EndRead, history
    <3> QED
      BY <3>1 DEF Store!Next, Store!Reply
  <2>4. ASSUME NEW w \in Word, ReadMissing(w) PROVE Store!Next
    <3>1. written[w] = <<>> /\ answer' = [word |-> w, bytes |-> <<>>] /\ written' = written
      BY <1>2, <2>4 DEF NamesKnown, ReadMissing, history
    <3> QED
      BY <3>1 DEF Store!Next, Store!Reply
  <2>5. CASE UNCHANGED <<written, answer>>
    BY <2>5
  <2>6. CASE EndWrite \/ ReadPage
    BY <2>5, <2>6 DEF EndWrite, ReadPage, history
  <2>7. ASSUME NEW w \in Word, NEW str \in Chunk, BeginWrite(w, str)
        PROVE UNCHANGED <<written, answer>>
    BY <2>7 DEF BeginWrite, history
  <2>8. CASE UNCHANGED vars
    BY <2>5, <2>8 DEF vars, callVars, history
  <2>9. ASSUME NEW w \in Word, BeginRead(w)
        PROVE UNCHANGED <<written, answer>>
    BY <2>9 DEF BeginRead, history
  <2> QED
    BY <1>2, <2>2, <2>3, <2>4, <2>6, <2>7, <2>8, <2>9 DEF Next, Running
<1>3. Init => NamesKnown
  BY DEF Init, NamesKnown
<1>4. IInv /\ NamesKnown /\ [Next]_vars => NamesKnown'
  BY NextNamesKnown
<1> QED
  BY <1>1, <1>2, <1>3, <1>4, Invariance, PTL DEF Spec, ImplementsStore, Store!Spec
=============================================================================
