---------------------------- MODULE MCEmptySelect ----------------------------
(***************************************************************************)
(* Every trash with up to four entries in two trash directories: items of  *)
(* two seconds (2 and 4), orphans of the first (3) or of the second (4),   *)
(* dangling infos, in every place; two sizes.                              *)
(***************************************************************************)
EXTENDS EmptySelect

Keys == {<<1, 1>>, <<1, 2>>, <<1, 3>>, <<2, 1>>}
Found == [kind : {"item"}, date : {2, 4}, bytes : {1, 3}]
         \cup [kind : {"orphan"}, date : {3, 4}, bytes : {1, 3}]
         \cup [kind : {"dangling"}, date : {0}, bytes : {0}]

(* load_all() gives the items first, then the orphans.                     *)
Loaded(f, kind) ==
  LET s == SetToSortSeq({k \in Keys : f[k].kind = kind}, Before)
  IN [n \in DOMAIN s |-> [key |-> s[n], date |-> f[s[n]].date,
                          kind |-> kind, bytes |-> f[s[n]].bytes]]
MCLoads == {[entries |-> Loaded(f, "item") \o Loaded(f, "orphan"),
             dangling |-> {k \in Keys : f[k].kind = "dangling"}] :
              f \in [Keys -> Found]}
MCCutoffs == {None, 3}
MCMaxima == {None, 4, 7}
=============================================================================
