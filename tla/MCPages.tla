------------------------------ MODULE MCPages ------------------------------
(***************************************************************************)
(* Pages of files of three articles.  In some, a template has any three    *)
(* pieces, broken ones among them; in the others, two templates of up to   *)
(* two pieces include each other, or a redirect or an article that is not  *)
(* there, and may be the layout page.                                      *)
(***************************************************************************)
EXTENDS Pages

MCByte == {"<", "%", "/", ">", " ", "x", "t", "u", "n", "c", "A", "B", "1", "2", "3"}

Piece(is, bytes) == [is |-> is, bytes |-> bytes]
Link(name) == [is |-> "link", to |-> name, bytes |-> <<"<", "%", "/", "A", "/", name, "%", ">">>]

X == Piece("text", <<"x">>)
Content == Piece("content", <<"<", "%", "c", "%", ">">>)
Dead == Piece("dead", <<"<", "%", "/", "B", "/", "1", "%", ">">>)

(* Pieces of one template alone: it has no link to a template. *)
Flat ==
  {X, Dead, Link("3"),
   Piece("text", <<"<", "%", "x", "%", ">">>), Piece("text", <<"<", "x">>),
   Piece("text", <<"%", ">">>),
   Piece("name", <<"<", "%", "t", "%", ">">>), Piece("name", <<"<", "%", "u", "%", ">">>),
   Piece("ns", <<"<", "%", "n", "%", ">">>),
   [Link("3") EXCEPT !.bytes = <<"<", "%", "/", "A", "/", "3", "%", "x", "%", ">">>],
   Piece("odd", <<"<">>), Piece("odd", <<"<", "%">>), Piece("odd", <<"<", "%", "/", "A">>),
   Piece("odd", <<"/">>), Piece("odd", <<"<", "%", "/", "A", "/", "3", "%">>)}

Including == {X, Content, Link("1"), Link("2"), Link("3")}

Upto(S, n) == UNION {[1 .. k -> S] : k \in 0 .. n}

Article(mime, pieces) == [mime |-> mime, pieces |-> pieces]

Of(first, second, third, layout) ==
  [layout |-> layout,
   article |-> [a \in Name |-> CASE a = "1" -> first [] a = "2" -> second [] a = "3" -> third]]

MCFile ==
  {Of(Article("template", t), Article("other", <<X>>), Article("html", <<X, X>>), "0") :
     t \in Upto(Flat, 3)}
  \cup
  {Of(Article("template", s), Article("template", t), Article(mime, <<X>>), layout) :
     s \in Upto(Including, 2), t \in Upto(Including, 2),
     mime \in {"html", "redirect"}, layout \in Name \cup {"0"}}
=============================================================================
