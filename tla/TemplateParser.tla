--------------------------- MODULE TemplateParser ---------------------------
(***************************************************************************)
(* The TemplateParser of zimlib (template.h, template.cpp): a parser is a  *)
(* record of its members, and parsing a character yields the parser after  *)
(* it, with the calls of its Event: onData(text), then what is in calls.   *)
(* Offsets count from 0, as in the code.                                   *)
(***************************************************************************)
EXTENDS Integers, Sequences

NewParser ==
  [state |-> "data", data |-> <<>>, save |-> 0, token |-> 0, token_e |-> 0,
   ns |-> " ", text |-> <<>>, calls |-> [on |-> "nothing"]]

OnToken(token)  == [on |-> "token", token |-> token]
OnLink(ns, url) == [on |-> "link", ns |-> ns, url |-> url]

(* std::string::substr(first, size) *)
Part(text, first, size) == SubSeq(text, first + 1, first + size)

In(p, state) == [p EXCEPT !.state = state]

(* The parser has put the character in its data; the offset of that.       *)
At(p) == Len(p.data) - 1

InData(p, ch) == IF ch = "<" THEN [In(p, "lt") EXCEPT !.save = At(p)] ELSE p

InLt(p, ch) == In(p, IF ch = "%" THEN "token0" ELSE "data")

InToken0(p, ch) ==
  IF ch = "/" THEN In(p, "link0") ELSE [In(p, "token") EXCEPT !.token = At(p)]

InToken(p, ch) == IF ch = "%" THEN In(p, "token_end") ELSE p

BugKeepsData(p) == p
Cleared(p) == [p EXCEPT !.data = <<>>]

(* The > of a token is not put in the data, which ends with its % here.    *)
InTokenEnd(p, ch) ==
  IF ch = ">"
  THEN [In(Cleared(p), "data") EXCEPT
          !.text = Part(p.data, 0, p.save),
          !.calls = OnToken(Part(p.data, p.token, Len(p.data) - p.token - 1))]
  ELSE [In(p, "data") EXCEPT !.data = Append(@, ch)]

InLink0(p, ch) == [In(p, "link") EXCEPT !.ns = ch]

InLink(p, ch) ==
  IF ch = "/" THEN [In(p, "title") EXCEPT !.token = Len(p.data)] ELSE In(p, "data")

InTitle(p, ch) ==
  IF ch = "%" THEN [In(p, "title_end") EXCEPT !.token_e = At(p)] ELSE p

(* Whatever comes between the % and the > of a link is dropped.            *)
InTitleEnd(p, ch) ==
  IF ch = ">"
  THEN [In(Cleared(p), "data") EXCEPT
          !.text = Part(p.data, 0, p.save),
          !.calls = OnLink(p.ns, Part(p.data, p.token, p.token_e - p.token))]
  ELSE p

Parse(parser, ch) ==
  LET p == [parser EXCEPT !.text = <<>>, !.calls = [on |-> "nothing"]]
      q == [p EXCEPT !.data = Append(@, ch)]
  IN CASE p.state = "data"      -> InData(q, ch)
       [] p.state = "lt"        -> InLt(q, ch)
       [] p.state = "token0"    -> InToken0(q, ch)
       [] p.state = "token"     -> InToken(q, ch)
       [] p.state = "token_end" -> InTokenEnd(p, ch)
       [] p.state = "link0"     -> InLink0(q, ch)
       [] p.state = "link"      -> InLink(q, ch)
       [] p.state = "title"     -> InTitle(q, ch)
       [] p.state = "title_end" -> InTitleEnd(q, ch)

(* A piece of a token or link at the end is text. *)
Flush(p) == [In(Cleared(p), "data") EXCEPT !.text = p.data]
=============================================================================
