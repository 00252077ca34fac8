----------------------------- MODULE MCCopyPut -----------------------------
(***************************************************************************)
(* Trees for CopyPut.  Inode 1 holds the argument "a" and, outside it, the *)
(* file 6; 2 is the argument, 3 and 5 files, 4 a directory in it; 7 is a   *)
(* file yet to be made, 8 the root of a mount.                             *)
(***************************************************************************)
EXTENDS CopyPut

MCIno == 1..8
MCPath == UNION {[1..d -> Name] : d \in 0..3}

Plain == [kind |-> "file", mine |-> TRUE, sticky |-> FALSE, fixed |-> FALSE,
          open |-> TRUE, far |-> FALSE]
Dir == [Plain EXCEPT !.kind = "dir"]
Kinds == <<Dir, Dir, Plain, Dir, Plain, Plain, Plain, [Dir EXCEPT !.far = TRUE]>>

No == [n \in Name |-> None]
Two(x, y) == [n \in Name |-> IF n = "a" THEN x ELSE y]
Nested == <<Two(2, 6), Two(3, 4), No, Two(5, None), No, No, No, No>>
HardLink == <<Two(2, 6), Two(3, 4), No, Two(3, None), No, No, No, No>>
Single == <<Two(3, 6), No, No, No, No, No, No, No>>

Tree(e, a, n) == [ent |-> e, attr |-> a, edits |-> n]
MCTrees ==
  {Tree(e, Kinds, 2) : e \in {Nested, HardLink, Single}} \cup
  {Tree(e, [Kinds EXCEPT ![i].sticky = s, ![i].mine = ~s, ![j].mine = m,
                         ![j].fixed = f, ![j].open = o,
                         ![j].kind = IF @ = "file" THEN k ELSE @], 0) :
     e \in {Nested, Single}, i \in {1, 2, 4}, j \in 1..5,
     s, m, f, o \in BOOLEAN, k \in {"file", "link"}}
=============================================================================
