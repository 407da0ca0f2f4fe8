------------------------------- MODULE Pages -------------------------------
(***************************************************************************)
(* Pages of articles: Article::getPage (zimlib/src/article.cpp), which has *)
(* the TemplateParser read the layout page or a template and puts in the   *)
(* pages of the articles that it names, by calling itself.                 *)
(*                                                                         *)
(* The calls of getPage that run a parser are the frames of a stack, the   *)
(* last one running.  A template comes in pieces, each a few characters:   *)
(* text, tokens and links, and pieces of them.  All articles are in        *)
(* namespace A, and their names are their urls and titles, a character     *)
(* each.  Parsing a character is a step, with the calls it makes up to the *)
(* next parser.                                                            *)
(***************************************************************************)
EXTENDS TemplateParser, SequencesExt

CONSTANTS
  Byte,          \* what templates are made of
  File,          \* the files there may be
  Name,          \* the articles of a file
  NoLayout,      \* no article: the file has no layout page
  MaxRecurse     \* the limit of getPage, 10 unless the caller says so

ASSUME PagesAssumption ==
  /\ {"<", "%", "/", ">", " "} \subseteq Byte
  /\ NoLayout \notin Name /\ MaxRecurse \in Nat
  /\ \A f \in File :
       /\ f.layout \in Name \cup {NoLayout}
       /\ \A a \in Name : LET pieces == f.article[a].pieces
                         IN [i \in DOMAIN pieces |-> pieces[i].bytes] \in Seq(Seq(Byte))

VARIABLES
  file,          \* the articles of the file, and which one is the layout page
  stack,         \* the calls of getPage
  out,           \* what has been written to the stream
  how,           \* "idle", "busy", and how the call ended: "done", "limit", ...
  asked          \* the article whose page is asked for

vars == <<file, stack, out, how, asked>>

(* The tokens that onToken knows. *)
TokenTitle   == <<"t">>
TokenUrl     == <<"u">>
TokenNs      == <<"n">>
TokenContent == <<"c">>

Bytes(pieces) == FlattenSeq([i \in DOMAIN pieces |-> pieces[i].bytes])

(* getData(): nothing for a redirect. *)
Data(a) == IF file.article[a].mime = "redirect" THEN <<>> ELSE Bytes(file.article[a].pieces)

Frame(a, max, src) ==
  [art |-> a, max |-> max, src |-> src, pos |-> 0, parser |-> NewParser,
   told |-> <<>>, dropped |-> FALSE]      \* history: see TextKept

Init ==
  /\ file \in File
  /\ stack = <<>> /\ out = <<>> /\ how = "idle"
  /\ asked \in Name

-----------------------------------------------------------------------------
(* What a call leaves behind: [stack, out, how]. *)

Now == [stack |-> stack, out |-> out, how |-> "busy"]

Write(s, text) == [s EXCEPT !.out = @ \o text]
Push(s, frame) == [s EXCEPT !.stack = Append(@, frame)]
Throw(s, what) == [s EXCEPT !.stack = <<>>, !.how = what]

BugLayoutAlways(layout, a) == file.layout # NoLayout

UsesLayout(layout, a) == layout /\ file.layout # NoLayout

(* getPage(out, layout, maxRecurse) of an article that is in the file. The *)
(* mime type of a redirect is none of the file's.                          *)
GetPage(s, a, layout, max) ==
  LET mime == file.article[a].mime
  IN CASE mime = "redirect" -> Throw(s, "mime")
       [] mime \in {"html", "template"} /\ UsesLayout(layout, a) ->
            Push(s, Frame(a, max, Data(file.layout)))
       [] mime = "template" /\ ~UsesLayout(layout, a) -> Push(s, Frame(a, max, Data(a)))
       [] OTHER -> Write(s, Data(a))

Deeper(max) == max - 1

(* A page in a page: without layout, and as long as the limit allows.      *)
Nested(s, a, max) ==
  IF max = 0 THEN Throw(s, "limit") ELSE GetPage(s, a, FALSE, Deeper(max))

(* Ev::onToken; an unknown one is put back as it was. *)
HandleToken(s, token, frame) ==
  CASE token \in {TokenTitle, TokenUrl} -> Write(s, <<frame.art>>)
    [] token = TokenNs -> Write(s, <<"A">>)
    [] token = TokenContent -> Nested(s, frame.art, frame.max)
    [] OTHER -> Write(s, <<"<", "%">> \o token \o <<"%", ">">>)

InFile(ns, url) == ns = "A" /\ \E a \in Name : url = <<a>>

(* Ev::onLink.  An article that is not there has no file to get anything   *)
(* from: getPage dereferences a null pointer.                              *)
HandleLink(s, ns, url, frame) ==
  CASE frame.max = 0 -> Throw(s, "limit")
    [] frame.max > 0 /\ InFile(ns, url) -> Nested(s, Head(url), frame.max)
    [] frame.max > 0 /\ ~InFile(ns, url) -> Throw(s, "crash")

(* The calls that a parser has made. *)
Handle(s, parser, frame) ==
  LET t == Write(s, parser.text) IN
  CASE parser.calls.on = "nothing" -> t
    [] parser.calls.on = "token" -> HandleToken(t, parser.calls.token, frame)
    [] parser.calls.on = "link" -> HandleLink(t, parser.calls.ns, parser.calls.url, frame)

(* The call is done when no parser is left. *)
Become(s) ==
  /\ stack' = s.stack
  /\ out' = s.out
  /\ how' = IF s.how = "busy" /\ s.stack = <<>> THEN "done" ELSE s.how

-----------------------------------------------------------------------------
(* getPage(out) by the user of the library *)
Ask ==
  /\ how # "busy"
  /\ asked' \in Name
  /\ Become(GetPage([Now EXCEPT !.out = <<>>], asked', TRUE, MaxRecurse))
  /\ UNCHANGED file

(* history: the template that a parser has told about *)
Source(parser) ==
  parser.text \o
    CASE parser.calls.on = "nothing" -> <<>>
      [] parser.calls.on = "token" -> <<"<", "%">> \o parser.calls.token \o <<"%", ">">>
      [] parser.calls.on = "link" ->
           <<"<", "%", "/", parser.calls.ns, "/">> \o parser.calls.url \o <<"%", ">">>

(* The running parser goes on to the next character. *)
Advance(frame, parser) ==
  [frame EXCEPT
     !.pos = @ + 1, !.parser = parser,
     !.told = @ \o Source(parser),
     !.dropped = @ \/ (frame.parser.state = "title_end" /\ parser.state = "title_end")]

BugStops(frame) == frame.pos = Len(frame.src) /\ frame.parser.state # "title_end"

AtEnd(frame) == frame.pos = Len(frame.src)

(* The next character of the template that is parsed. *)
Char ==
  /\ how = "busy"
  /\ Last(stack).pos < Len(Last(stack).src)
  /\ \E frame \in {Last(stack)} :
       \E parser \in {Parse(frame.parser, frame.src[frame.pos + 1])} :
         \E s \in {Handle([Now EXCEPT !.stack = Append(Front(@), Advance(frame, parser))],
                        parser, frame)} : Become(s)
  /\ UNCHANGED <<file, asked>>

(* flush, and the end of this call of getPage *)
Return ==
  /\ how = "busy"
  /\ AtEnd(Last(stack))
  /\ Become(Write([Now EXCEPT !.stack = Front(@)], Flush(Last(stack).parser).text))
  /\ UNCHANGED <<file, asked>>

Next == Ask \/ Char \/ Return

(* A call runs on once it has begun; nobody need ask for another page.     *)
Spec == Init /\ [][Next]_vars /\ WF_vars(Char) /\ WF_vars(Return)

-----------------------------------------------------------------------------
(* The offsets of a parser lie in its data, each state with those it uses, *)
(* and each call of getPage has a limit below that of its caller.          *)
PagesTypeOK ==
  /\ how \in {"idle", "busy", "done", "limit", "mime", "crash"}
  /\ (how = "busy") <=> (stack # <<>>)
  /\ \A i \in DOMAIN stack :
       LET p == stack[i].parser IN
       /\ stack[i].max = MaxRecurse - (i - 1)
       /\ stack[i].pos \in 0 .. Len(stack[i].src)
       /\ p.state # "data" => p.save < Len(p.data)
       /\ p.state \in {"token", "token_end"} => p.save + 2 \in 1 .. p.token
       /\ p.state \in {"title", "title_end"} => p.token \in p.save + 5 .. Len(p.data)
       /\ p.state = "title_end" => p.token_e \in p.token .. At(p)

(* What a parser has told its Event and what it still holds is the         *)
(* template as far as it has read: no text is lost or comes twice, however *)
(* tokens and links are broken off or run into each other.  Only what      *)
(* follows the % of a link is dropped, up to the next >.                   *)
TextKept ==
  \A i \in DOMAIN stack :
    ~stack[i].dropped =>
      stack[i].told \o stack[i].parser.data = SubSeq(stack[i].src, 1, stack[i].pos)

(* A parser keeps what it will need of the template, and no substr begins  *)
(* behind its end.                                                         *)
ParsersSound == PagesTypeOK /\ TextKept

(* What a page should be: the pieces of a template in their order, each    *)
(* token and link replaced by what it names, to a depth of MaxRecurse.     *)
Text(text)  == [out |-> text, how |-> "done"]
Fail(what)  == [out |-> <<>>, how |-> what]
Then(r, s)  == IF r.how = "done" THEN [s EXCEPT !.out = r.out \o @] ELSE r

Meaning(piece, a, inner) ==
  CASE piece.is = "text"    -> Text(piece.bytes)
    [] piece.is = "name"    -> Text(<<a>>)
    [] piece.is = "ns"      -> Text(<<"A">>)
    [] piece.is = "content" -> inner[a]
    [] piece.is = "link"    -> inner[piece.to]
    [] piece.is = "dead"    -> inner[NoLayout]

Expand(pieces, a, inner) ==
  FoldLeft(LAMBDA r, piece : Then(r, Meaning(piece, a, inner)), Text(<<>>), pieces)

Plain(a, inner) ==
  CASE file.article[a].mime = "redirect" -> Fail("mime")
    [] file.article[a].mime = "template" -> Expand(file.article[a].pieces, a, inner)
    [] OTHER -> Text(Bytes(file.article[a].pieces))

(* The pages that may be put in a page at a limit. *)
Inner[max \in 0 .. MaxRecurse] ==
  [a \in Name \cup {NoLayout} |->
     CASE max = 0 -> Fail("limit")
       [] max > 0 /\ a = NoLayout -> Fail("crash")
       [] max > 0 /\ a # NoLayout -> Plain(a, Inner[max - 1])]

ExpectedPage ==
  IF file.layout # NoLayout /\ file.article[asked].mime \in {"html", "template"}
  THEN IF file.article[file.layout].mime = "redirect" THEN Text(<<>>)
       ELSE Expand(file.article[file.layout].pieces, asked, Inner[MaxRecurse])
  ELSE Plain(asked, Inner[MaxRecurse])

(* Templates made of text, tokens and links only. *)
Proper == \A a \in Name : \A i \in DOMAIN file.article[a].pieces :
            file.article[a].pieces[i].is # "odd"

(* A page is its layout page with the content in it, templates expanded,   *)
(* and a call fails just where it must: where pages are nested deeper than *)
(* the limit, as a template that holds its own content or a link back      *)
(* always is, where a redirect is put in, or where an article is not there *)
(* (which ends the program).  What was written by then has been written.   *)
PageRight ==
  Proper /\ how \notin {"idle", "busy"} => ExpectedPage = [out |-> out, how |-> how]

(* Every page comes to an end, also those of templates that include each   *)
(* other.                                                                  *)
PagesEnd == (how = "busy") ~> (how # "busy")
=============================================================================
