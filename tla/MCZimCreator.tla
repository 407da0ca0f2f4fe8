---------------------------- MODULE MCZimCreator ----------------------------
(***************************************************************************)
(* ZimCreator with up to three entries, handed out in any order.  Each is  *)
(* an article or a redirect to any entry or to none, in two namespaces.    *)
(* Urls come in every order, titles are missing, equal to the url or tell  *)
(* their own order.                                                        *)
(*                                                                         *)
(* Articles are empty, of one or of six bytes, to be stored compressed or  *)
(* not, of two mime types; a third one does not fit.  Two compressed       *)
(* articles fill a cluster if one has data, one does with six bytes.       *)
(***************************************************************************)
EXTENDS ZimCreator

MCAid == 1 .. 3

Plain(aid, place) ==
  [aid |-> aid, ns |-> place % 2, url |-> (place % 3) + 1, title |-> (aid * 2) % 3,
   param |-> aid % 2, redirect |-> FALSE, redirectAid |-> NoAid, mime |-> 1,
   compress |-> TRUE, size |-> 1]

Redirect(aid, place, target) ==
  [Plain(aid, place) EXCEPT !.redirect = TRUE, !.redirectAid = target]

With(aid, mime, compress, size) ==
  [Plain(aid, aid) EXCEPT !.mime = mime, !.compress = compress, !.size = size]

MCCandidate ==
  {Redirect(aid, place, target) : aid \in MCAid, place \in MCAid, target \in 1 .. 4}
    \cup {Plain(aid, place) : aid \in MCAid, place \in MCAid}
    \cup {With(aid, 1, TRUE, size) : aid \in MCAid, size \in {0, 6}}
    \cup {With(aid, 2, FALSE, size) : aid \in MCAid, size \in {1, 6}}
    \cup {With(3, 3, TRUE, 1)}
=============================================================================
