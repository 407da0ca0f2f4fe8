------------------------------ MODULE MCLookup ------------------------------
(***************************************************************************)
(* Lookup in all directories that have up to three entries, with any urls  *)
(* and titles out of three, in the namespace 2, and a few in namespaces    *)
(* around it; asked for are 2, which may be missing anywhere, and 0, which *)
(* is before all.                                                          *)
(***************************************************************************)
EXTENDS Lookup, FiniteSets, SequencesExt

Entry(n, u, t) == [ns |-> n, url |-> u, title |-> t]

(* How the entries of namespaces 1 and 3 may be: their number. *)
Around == {<<0, 0>>, <<1, 0>>, <<1, 2>>}

InOrder(entries, idx) ==
  \A p, q \in DOMAIN idx :
    p < q => LET a == entries[idx[p] + 1] b == entries[idx[q] + 1]
             IN a.ns < b.ns \/ (a.ns = b.ns /\ a.title =< b.title)

(* All the orders that sorting by namespace and title may end in. *)
TitleIdx(entries) ==
  {idx \in {[i \in DOMAIN entries |-> perm[i] - 1] :
              perm \in {s \in [DOMAIN entries -> DOMAIN entries] : IsInjective(s)}} :
     InOrder(entries, idx)}

Others(n, count) == [i \in 1 .. count |-> Entry(n, i, 3 - i)]

Own(urls, titleOf) ==
  LET list == SetToSortSeq(urls, LAMBDA a, b : a < b)
  IN [i \in DOMAIN list |-> Entry(2, list[i], titleOf[list[i]])]

MCDirectory ==
  UNION {LET entries == Others(1, a[1]) \o Own(urls, titleOf) \o Others(3, a[2])
         IN {[entries |-> entries, titleIdx |-> idx] : idx \in TitleIdx(entries)} :
           a \in Around, urls \in SUBSET {1, 2, 3}, titleOf \in [{1, 2, 3} -> {1, 2}]}

MCNamespace == {0, 2}
MCKey == {2, 3}
=============================================================================
