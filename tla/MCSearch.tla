------------------------------ MODULE MCSearch ------------------------------
(***************************************************************************)
(* Search in files of four entries: two articles, a redirect to one of     *)
(* them, and a redirect to it or an article of another namespace.  Their   *)
(* titles may be equal, or begin with each other.  The index knows one     *)
(* word, with two or three occurrences, or none, or one without entries.   *)
(***************************************************************************)
EXTENDS Search

Titles == {<<1>>, <<1, 2>>, <<1, 1, 1, 1, 1>>, <<2>>}

E(ns, title, to) == [ns |-> ns, title |-> title, to |-> to]

Occurrence(a, pos) == [index |-> a, pos |-> pos]

MCWords ==
  {Nothing,
   <<1, 2>> :> << <<>>, <<>>, <<>>, <<>> >>,
   <<2>> :> << <<>>, <<>>, <<>>, <<Occurrence(0, 3), Occurrence(1, 0)>> >>,
   <<2>> :> << <<Occurrence(1, 0)>>, <<>>, <<>>, <<Occurrence(0, 4), Occurrence(1, 4)>> >>}

(* The articles in the order of their titles, equal ones in that of urls.  *)
TitleOrder(entry) ==
  SetToSortSeq(0 .. Len(entry) - 1,
    LAMBDA a, b : LET s == entry[a + 1] t == entry[b + 1]
                  IN \/ s.ns < t.ns
                     \/ s.ns = t.ns /\ Greater(t.title, s.title)
                     \/ s.ns = t.ns /\ s.title = t.title /\ a < b)

MCFile ==
  {[entry |-> e, byTitle |-> TitleOrder(e), words |-> w] :
     w \in MCWords,
     e \in {<<E(1, s, -1), E(1, t, -1), E(1, r, to), last>> :
              s \in Titles, t \in Titles, r \in {<<1, 2>>, <<1, 2, 1>>}, to \in {0, 1},
              last \in {E(1, <<2, 2>>, 2), E(2, <<1>>, -1)}}}

Tokens == {[word |-> word, plus |-> plus] : word \in {<<1>>, <<1, 2>>, <<2>>, <<>>}, plus \in {0, 1}}

MCExpr == {<<t>> : t \in Tokens} \cup {<<t, u>> : t \in Tokens, u \in Tokens}

MCPrefix == {<<>>, <<1>>, <<1, 1>>, <<1, 2>>, <<2, 1>>, <<3>>}
=============================================================================
