----------------------------- MODULE MCPlacement -----------------------------
(***************************************************************************)
(* Two filesystems.  1 has the subvolumes "r" (the root of the namespace)  *)
(* and "p" with the home trash in p/h, and a directory p/d; 2 has a        *)
(* directory "a" and, some way down, what a top directory may hold.        *)
(***************************************************************************)
EXTENDS Placement

MCIno == 1..64
MCNames == STRING
D(fs, dev) == [kind |-> "dir", fs |-> fs, dev |-> dev, mine |-> TRUE, sticky |-> FALSE,
               full |-> FALSE, fresh |-> FALSE]
F(fs, dev) == [D(fs, dev) EXCEPT !.kind = "file"]
New(fs, dev) == [D(fs, dev) EXCEPT !.fresh = TRUE]

(* 1 top, 2 r, 3 p, 4-7 mount points in r, 8 r/f; 9 p/h, 10 p/d, 11 p/d/x, *)
(* 12 p/d/x/y, 13 p/f and p/d/g; 20 the top of 2, 21 a, 22 a/x, 23 b (a    *)
(* subvolume), 24 b/x, 51-57, 60 c, a copy of a part of 1; 17-19, 25-30,   *)
(* 39-40, 61-63 what there may be in its top directory; 58 r/s, sticky.    *)
Base == (<<1, "r">> :> 2) @@ (<<1, "p">> :> 3)
  @@ (<<2, "p">> :> 4) @@ (<<2, "d">> :> 5) @@ (<<2, "m">> :> 6) @@ (<<2, "n">> :> 7)
  @@ (<<2, "f">> :> 8) @@ (<<3, "h">> :> 9) @@ (<<3, "d">> :> 10) @@ (<<10, "x">> :> 11)
  @@ (<<11, "y">> :> 12) @@ (<<3, "f">> :> 13)
  @@ (<<9, "Trash">> :> 14) @@ (<<14, "files">> :> 15) @@ (<<14, "info">> :> 16)
  @@ (<<20, "a">> :> 21) @@ (<<21, "x">> :> 22) @@ (<<20, "b">> :> 23) @@ (<<23, "x">> :> 24)
  @@ (<<20, "c">> :> 51) @@ (<<51, "p">> :> 52) @@ (<<52, "d">> :> 53) @@ (<<53, "x">> :> 60)
  @@ (<<52, "h">> :> 54) @@ (<<54, "Trash">> :> 55) @@ (<<55, "files">> :> 56)
  @@ (<<2, "s">> :> 58) @@ (<<10, "g">> :> 13)
MCAttr == [i \in MCIno |->
  CASE i = 1 -> D(1, 1) [] i \in 2..7 \ {3} -> D(1, 2) [] i = 8 -> F(1, 2)
    [] i \in {3, 9, 10, 11, 14, 15, 16} -> D(1, 3) [] i \in {12, 13, 64} -> F(1, 3)
    [] i \in {20, 21} -> D(2, 4) [] i = 22 -> F(2, 4) [] i = 23 -> D(2, 5) [] i = 24 -> F(2, 5)
    [] i = 25 -> [D(2, 4) EXCEPT !.mine = FALSE, !.sticky = TRUE]
    [] i \in {26, 61, 63} -> [D(2, 4) EXCEPT !.mine = FALSE]
    [] i \in {27, 62} -> [F(2, 4) EXCEPT !.kind = "link"]
    [] i \in 17..19 \cup 28..30 -> D(2, 4) [] i = 39 -> F(2, 4)
    [] i \in 31..33 -> New(1, 3) [] i \in 34..36 \cup 41..47 -> New(2, 4) [] i \in 37..38 -> New(2, 5)
    [] i = 40 -> D(2, 5)
    [] i \in 48..50 -> New(1, 2) [] i \in 51..57 -> D(2, 4)
    [] i = 58 -> [D(1, 2) EXCEPT !.sticky = TRUE] [] i \in 59..60 -> F(2, 4)]

Mnt(id, up, at, i, r, point) ==
  [id |-> id, parent |-> up, at |-> at, top |-> i, fs |-> MCAttr[i].fs,
   root |-> r, point |-> point, ro |-> FALSE, auto |-> FALSE]
Root == Mnt(1, 0, 1, 2, <<"r">>, <<>>)
P == Mnt(2, 1, 4, 3, <<"p">>, <<"p">>)
Dd == Mnt(3, 1, 5, 10, <<"p", "d">>, <<"d">>)
M == Mnt(4, 1, 6, 20, <<>>, <<"m">>)
N == Mnt(5, 1, 7, 1, <<>>, <<"n">>)
OverD == Mnt(6, 2, 10, 21, <<"a">>, <<"p", "d">>)         \* covers /p/d
OverM == Mnt(7, 4, 20, 3, <<"p">>, <<"m">>)               \* covers /m
Again == Mnt(8, 3, 10, 10, <<"p", "d">>, <<"d">>)         \* /d once more, on itself
OverN == Mnt(10, 5, 1, 51, <<"c">>, <<"n">>)              \* covers /n
Self == Mnt(11, 2, 10, 10, <<"p", "d">>, <<"p", "d">>)    \* /p/d on itself
OnAdmin == Mnt(12, 4, 25, 58, <<"r", "s">>, <<"m", Admin>>)
OnUser == Mnt(13, 4, 28, 58, <<"r", "s">>, <<"m", User>>)
OnTrash == Mnt(14, 2, 14, 58, <<"r", "s">>, <<"p", "h", "Trash">>)
InFiles == Mnt(15, 1, 7, 15, <<"p", "h", "Trash", "files">>, <<"n">>)
InUser == Mnt(16, 1, 7, 29, <<User, "files">>, <<"n">>)
Ro(m) == [m EXCEPT !.ro = TRUE]

World == [attr |-> MCAttr, tops |-> <<1, 20>>, ent |-> Base, mounts |-> <<Root, P, Dd, M, N>>, data |-> <<"p", "h">>,
          args |-> <<>>, ask |-> FALSE, edits |-> 0, spare |-> {}, swaps |-> {}]

Lists == {<<<<"d", "x">>>>, <<<<"n", "p", "d", "x">>>>, <<<<"p", "f">>>>, <<<<"f">>>>,
          <<<<"m", "a", "x">>>>, <<<<"m", "b", "x">>>>, <<<<"m", "a">>, <<"m", User>>>>,
          <<<<"m">>>>, <<<<"p", "d">>>>, <<<<"p", "h">>>>, <<<<"n", "p", "h">>>>, <<<<"n", "p">>>>,
          <<<<"p", "h", "Trash", "files">>>>, <<<<"d", "x", "y">>, <<"d", "x">>>>}
Tables == {<<Root, P, Dd, M, N>>, <<Root, M, N, P, Dd>>, <<Root, P, Dd, M>>,
           <<Root, Ro(P), Dd, M, N>>, <<Root, P, Ro(Dd), M, N>>, <<Root, P, OverD, Dd, M, N>>,
           <<Root, P, Dd, M, N, OverM>>, <<Root, P, Dd, Again, M, N>>, <<Root, P, Dd, M, Ro(N)>>,
           <<Root, Ro(P), Dd, M, N, OverN>>, <<Root, P, Self, Dd, M, N>>, <<Root, P, Self, Dd, M>>}
Mounted == {[World EXCEPT !.mounts = t, !.args = l, !.edits = 1,
                          !.spare = {OverD, OverM, Again, Dd, M} ] :
              t \in Tables, l \in Lists}

(* Top directories of 2: .Trash sticky, plain or a link, with a UID in it  *)
(* or not; .Trash-UID whole, without info/, another's, or a link.          *)
At(d, n, i) == <<d, n>> :> i
Nothing == [e \in {} |-> 0]
Whole == At(20, User, 28) @@ At(28, "files", 29) @@ At(28, "info", 30) @@ At(29, "z", 39)
Admins == {Nothing, At(20, Admin, 25), At(20, Admin, 26), At(20, Admin, 27),
           At(20, Admin, 25) @@ At(25, Uid, 17) @@ At(17, "files", 18) @@ At(17, "info", 19),
           At(20, Admin, 25) @@ At(25, Uid, 63)}
Users == {Nothing, Whole, At(20, User, 61), At(20, User, 62),
          At(20, User, 28) @@ At(28, "files", 29) @@ At(29, "z", 39)}
OverFiles == Mnt(9, 4, 29, 21, <<"a">>, <<"m", User, "files">>)
Swaps == {<<20, User, None>>, <<20, User, 26>>, <<20, User, 27>>, <<20, Admin, 27>>,
          <<25, Uid, 26>>, <<28, "files", 40>>, <<28, "info", None>>}
TopLists == {<<<<"m", "a", "x">>, <<"m", User>>>>, <<<<"m", "b", "x">>>>,
             <<<<"m", User, "files", "z">>>>, <<<<"m", "a", "x">>, <<"m", Admin>>>>}
Tops == {[World EXCEPT !.ent = a @@ u @@ Base, !.args = l, !.edits = n, !.ask = (n = 0),
                       !.attr[25].full = f, !.swaps = Swaps, !.spare = {OverFiles, OverM}] :
           a \in Admins, u \in Users, l \in TopLists, f \in BOOLEAN, n \in {0, 1}}
Bare == [e \in {x \in DOMAIN Base : x[1] # 14 /\ x # <<9, "Trash">>} |-> Base[e]]
NoHome == {[World EXCEPT !.ent = Bare, !.mounts = t, !.args = <<<<"d", "x">>>>] : t \in Tables}
(* A directory of the home filesystem mounted on .Trash, or on .Trash-UID. *)
Astray == {[World EXCEPT !.ent = At(20, Admin, 25) @@ u @@ Base, !.args = <<<<"m", "a", "x">>>>,
                         !.mounts = Append(@, OnAdmin)] : u \in Users}
  \cup {[World EXCEPT !.ent = Whole @@ Base, !.args = <<<<"m", "a", "x">>>>,
                      !.mounts = Append(@, OnUser)]}
(* A directory of the home filesystem mounted on the home trash; files/ of *)
(* a trash, with an entry, mounted elsewhere.                              *)
OnHome == {[World EXCEPT !.mounts = Append(@, OnTrash), !.args = l] :
             l \in {<<<<"f">>>>, <<<<"d", "x">>>>, <<<<"p", "h">>>>, <<<<"s", "x">>>>}}
Rooted == {[World EXCEPT !.ent = At(15, "z", 64) @@ Base, !.mounts = <<Root, P, Dd, M, InFiles>>,
                         !.args = <<<<"n", "z">>>>],
           [World EXCEPT !.ent = Whole @@ Base, !.mounts = <<Root, P, Dd, M, InUser>>,
                         !.args = <<<<"n", "z">>>>]}
MCWorlds == OnHome \cup Rooted \cup Astray \cup Mounted \cup Tops \cup NoHome
=============================================================================
