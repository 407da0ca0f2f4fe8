----------------------------- MODULE MCIndexing -----------------------------
(***************************************************************************)
(* Indexing with articles of up to four tokens, and with a word that       *)
(* occurs up to four times: several times in an article, also in its       *)
(* first, the first one of the file among them, in two categories.  In     *)
(* bytes of four bits the first two lengths of numbers end at 7 and 71;    *)
(* the articles and positions, and the differences of both, lie on either  *)
(* side.                                                                   *)
(*                                                                         *)
(* "a" and "1" are letters and digits, and C x and D x y the two           *)
(* characters of UTF-8 that are.  The entities stand for one of them (u),  *)
(* for another character (p), for nothing (s) and for an ampersand (m).    *)
(***************************************************************************)
EXTENDS Indexing

(* ZIntStream gets back every number of a word, whatever follows it.       *)
ASSUME EveryNumber ==
  \A value \in ZInt!Number, behind \in {<<>>} \cup {ZInt!Put(v) : v \in {0, 7, 8, 71, 72}} :
    LET bytes == ZInt!Put(value) \o behind
    IN /\ \A i \in DOMAIN bytes : bytes[i] \in ZInt!Byte
       /\ ZInt!CanGet(bytes)
       /\ ZInt!Get(bytes) = value
       /\ ZInt!After(bytes) = behind

MCFollow == [ch \in {"C", "D"} |-> IF ch = "C" THEN 1 ELSE 2]

MCAlphanumeric == {<<"C", "x">>, <<"D", "x", "y">>}

MCEntity ==
  [e \in {<<"u">>, <<"p">>, <<"s">>, <<"m">>} |->
     CASE e = <<"u">> -> <<"C", "x">>
       [] e = <<"p">> -> <<"C", "y">>
       [] e = <<"s">> -> <<>>
       [] e = <<"m">> -> <<"&">>]

(* h2, whose weight is neither that of a title nor that of text. *)
MCHeading == [h \in {<<"1">>} |-> 1]

MCTrivialWords == {<<"a", "a">>}

Is(is, bytes, as) == [is |-> is, bytes |-> bytes, as |-> as]

Plain(is, bytes) == Is(is, bytes, bytes)

MCToken ==
  {Plain("letter", <<"a">>), Plain("letter", <<"D", "x", "y">>),
   Is("letter", <<"&", "u", ";">>, <<"C", "x">>),
   Plain("break", <<" ">>), Plain("break", <<"C", "y">>),
   Plain("break", <<"&", "p", ";">>), Plain("break", <<"<", "a", " ", "a", ">">>),
   Plain("shy", <<"&", "s", ";">>),
   Is("open", <<"<", "1", ">">>, <<"1">>), Is("close", <<"<", "/", "1", ">">>, <<"1">>),
   Plain("odd", <<"&", "m", ";">>), Plain("odd", <<"C">>)}
=============================================================================
