-------------------------------- MODULE ZInt --------------------------------
(***************************************************************************)
(* The compressed integers of the full text index                          *)
(* (zimlib/src/zintstream.cpp).  The ones that lead the first byte count   *)
(* the bytes that follow; its other bits are the lowest of the number, and *)
(* numbers that fewer bytes can hold are counted out.                      *)
(***************************************************************************)
EXTENDS Integers, Sequences

CONSTANTS
  Width,    \* the bits of a byte, 8
  Word      \* the bits of a size_type, 32 (assumed of them: WidthAssumption)

Byte == 0 .. 2 ^ Width - 1
Number == 0 .. 2 ^ Word - 1

(* How many bits the first byte has left beside n bytes that follow. *)
Left(n) == Width - 1 - n

(* nmask: n ones and zeros behind them *)
Mask(n) == 2 ^ Width - 2 ^ (Width - n)

(* ubound: how many numbers have n bytes that follow *)
Bound(n) == 2 ^ ((Width - 1) * (n + 1))

(* The numbers that fewer than n bytes hold. *)
Fewer[n \in Nat] == IF n = 0 THEN 0 ELSE Fewer[n - 1] + Bound(n - 1)

(* The loop of put. *)
Following(value) ==
  CHOOSE n \in 0 .. Width - 1 :
    Fewer[n] =< value /\ value < Fewer[n + 1]

(* The k lowest bytes of a number, the lowest first. *)
LowBytes(number, k) == [i \in 1 .. k |-> (number \div 2 ^ (Width * (i - 1))) % 2 ^ Width]

Put(value) ==
  LET n == Following(value)
      rest == value - Fewer[n]
  IN <<Mask(n) + (rest % 2 ^ Left(n))>> \o LowBytes(rest \div 2 ^ Left(n), n)

(* The ones that lead a byte. *)
Ones(byte) == CHOOSE n \in 0 .. Width : Mask(n) =< byte /\ (n < Width => byte < Mask(n + 1))

(* The bytes that follow count from the lowest. *)
Part(bytes, n, i) == bytes[i + 1] * 2 ^ (Left(n) + Width * (i - 1))

Sum[s \in Seq(Int)] == IF s = <<>> THEN 0 ELSE Head(s) + Sum[Tail(s)]

(* What get reads, and how many bytes it takes: a byte of ones alone is    *)
(* invalid, and bytes may be missing at the end.                           *)
CanGet(bytes) ==
  /\ bytes # <<>>
  /\ Ones(bytes[1]) < Width
  /\ Len(bytes) > Ones(bytes[1])

Get(bytes) ==
  LET n == Ones(bytes[1])
      high == Sum[[i \in 1 .. n |-> Part(bytes, n, i)]]
  IN ((bytes[1] % 2 ^ Left(n)) + high + Fewer[n]) % 2 ^ Word

After(bytes) == SubSeq(bytes, Ones(bytes[1]) + 2, Len(bytes))

PutAll[values \in Seq(Number)] ==
  IF values = <<>> THEN <<>> ELSE Put(Head(values)) \o PutAll[Tail(values)]

(* All numbers up to the first that cannot be read. *)
GetAll[bytes \in Seq(Byte)] ==
  IF CanGet(bytes) THEN <<Get(bytes)>> \o GetAll[After(bytes)] ELSE <<>>
=============================================================================
