------------------------------- MODULE CopyPut -------------------------------
(***************************************************************************)
(* The tree under one argument of a `put` that copies: the preflight walk, *)
(* cp, verify_copy(), and remove_tree() with Policy::Source, entry by      *)
(* entry, while other programs rename, write, create and mount in the same *)
(* tree.  To Put all of this is one content; here the trash directory is   *)
(* one place that a copy is in or not.                                     *)
(***************************************************************************)
EXTENDS Naturals, SequencesExt

CONSTANTS
  Ino,        \* inodes
  Name,       \* names in a directory
  Path,       \* paths below the argument: sequences of names, <<>> is itself
  Parent,     \* the directory the argument is in
  Arg,        \* its name there
  Trees,      \* file trees at the start; the bound on the calls of others
  None

ASSUME PathAssumption == Path \subseteq Seq(Name) /\ <<>> \in Path

(* What identifies an entry and its content, and what cp makes of it.      *)
Stamps == [ino : Ino, dir : BOOLEAN, ver : Nat]
Copies == [ino : Ino, dir : BOOLEAN, ver : Nat, data : Nat]

ASSUME NoneAssumption ==
  /\ Parent \in Ino /\ Arg \in Name
  /\ None \notin Ino \cup Stamps \cup Copies \cup {"copied", "kept"}

(* open: readable, and a directory writable and searchable; fixed:         *)
(* immutable or append-only; far: the root of another mount.               *)
Attr == [kind : {"dir", "file", "link"}, mine : BOOLEAN, sticky : BOOLEAN,
         fixed : BOOLEAN, open : BOOLEAN, far : BOOLEAN]

ASSUME TreesAssumption == \A t \in Trees :
  /\ t.ent \in [Ino -> [Name -> Ino \cup {None}]]
  /\ t.attr \in [Ino -> Attr]
  /\ \A i \in Ino : t.attr[i].far => t.attr[i].kind = "dir"
  /\ t.edits \in Nat

VARIABLES
  start,      \* the tree at the start
  ent,        \* the entries of the directories
  ver,        \* size and mtime of a file: every write changes them
  edits,      \* calls other programs still make
  moved,      \* inodes they moved, made or covered (history)
  pc, out,    \* the phase of the put; how it ended
  stack,      \* frames of walk() and remove_tree(), the innermost first
  pre, snap,  \* Manifest: the walk's `pre`, and `copy` by verify_copy()
  problem,    \* Walk::problem
  todo,       \* what cp has still to copy
  reading,    \* path of the file cp is reading
  copy,       \* what cp made in the box, then the entry in the trash
  trash,      \* where that is: "none", "box" or "entry"
  durable,    \* syncfs() has returned
  captured,   \* `published` could be read
  gone, kept, \* Removal::removed_any, Removal::kept
  removed,    \* files removed, as they were (history)
  fault       \* a call failed, or the process was killed (history)

fs == <<ent, ver>>
others == <<start, edits, moved>>
walked == <<pre, problem>>
copied == <<todo, reading, copy, snap>>
trashed == <<trash, durable, captured>>
removal == <<gone, kept, removed>>
vars == <<fs, others, pc, out, stack, walked, copied, trashed, removal, fault>>

-----------------------------------------------------------------------------
attr == start.attr
IsDir(i) == attr[i].kind = "dir"
Empty(i) == \A n \in Name : ent[i][n] = None
Linked(i) == \E d \in Ino, n \in Name : ent[d][n] = i

(* The inode at path p below i, or None.                                   *)
From(i, p) ==
  LET f[k \in 0..Len(p)] ==
        IF k = 0 THEN i
        ELSE IF f[k - 1] = None THEN None ELSE ent[f[k - 1]][p[k]]
  IN f[Len(p)]
At(p) == From(ent[Parent][Arg], p)

(* The kernel's rules for unlink and rmdir of i in directory d.            *)
MayUnlink(d, i) ==
  /\ attr[d].open /\ ~attr[d].fixed /\ ~attr[i].fixed /\ ~attr[i].far
  /\ attr[d].sticky => attr[d].mine \/ attr[i].mine

(* PreEntry and Snapshot.  Two files of one size and mtime are not         *)
(* modelled, so the stamp holds the inode.                                 *)
Seen(i) == [ino |-> i, dir |-> IsDir(i), ver |-> IF IsDir(i) THEN 0 ELSE ver[i]]
Stamp(c) == [ino |-> c.ino, dir |-> c.dir, ver |-> c.ver]

Frame(i, p) ==
  [dir |-> i, rel |-> p, todo |-> {n \in Name : ent[i][n] # None}]
Without(f, n) == [f EXCEPT !.todo = @ \ {n}]

Goto(l) == pc' = l
End(o) == pc' = "end" /\ out' = o

Init ==
  /\ start \in Trees /\ ent = start.ent
  /\ ver = [i \in Ino |-> 0]
  /\ edits = start.edits /\ moved = {}
  /\ pc = "top" /\ out = None /\ stack = <<>>
  /\ pre = [p \in Path |-> None] /\ problem = FALSE
  /\ todo = {} /\ reading = None
  /\ copy = [p \in Path |-> None] /\ snap = [p \in Path |-> None]
  /\ trash = "none" /\ durable = FALSE /\ captured = FALSE
  /\ gone = FALSE /\ kept = {} /\ removed = {}
  /\ fault = FALSE

-----------------------------------------------------------------------------
(* walk() with Check::Removable: one pass before any write, which records  *)
(* what is where and the first reason a copy or the removal would fail.    *)

(* Mutant: the sticky bit is not looked at.                                *)
FlaggedFree(d, i) == attr[i].fixed \/ (attr[i].kind = "file" /\ ~attr[i].open)

(* flag_immutable(), the sticky rule, and a file cp could not read.        *)
Flagged(d, i) ==
  \/ attr[i].fixed
  \/ attr[d].sticky /\ ~attr[d].mine /\ ~attr[i].mine
  \/ attr[i].kind = "file" /\ ~attr[i].open

(* removable_top_checks(): the parent too must let the argument go.        *)
TopFlagged(i) == ~attr[Parent].open \/ attr[Parent].fixed \/ Flagged(Parent, i)

(* walk_open_dir(): another mount, or not readable and writable.           *)
Shut(i) == IsDir(i) /\ (attr[i].far \/ ~attr[i].open)
Opened(i, p) == IF IsDir(i) /\ ~Shut(i) THEN <<Frame(i, p)>> ELSE <<>>

WalkTop ==
  /\ pc = "top"
  /\ LET i == ent[Parent][Arg] IN
     \/ /\ i = None /\ End("refused")
        /\ UNCHANGED <<stack, walked>>
     \/ /\ i # None
        /\ pre' = [pre EXCEPT ![<<>>] = Seen(i)]
        /\ problem' = (TopFlagged(i) \/ Shut(i))
        /\ stack' = Opened(i, <<>>)
        /\ Goto("walk") /\ UNCHANGED out
  /\ UNCHANGED <<fs, others, copied, trashed, removal, fault>>

(* walk_child(): what has gone since the names were read is passed over.   *)
WalkChild ==
  /\ pc = "walk" /\ stack # <<>>
  /\ \E n \in Head(stack).todo, p \in Path :
       LET f == Head(stack)
           i == ent[f.dir][n]
           rest == <<Without(f, n)>> \o Tail(stack) IN
       /\ p = Append(f.rel, n)
       /\ \/ /\ i = None /\ stack' = rest
             /\ UNCHANGED walked
          \/ /\ i # None
             /\ pre' = [pre EXCEPT ![p] = Seen(i)]
             /\ problem' = (problem \/ Flagged(f.dir, i) \/ Shut(i))
             /\ stack' = Opened(i, p) \o rest
  /\ UNCHANGED <<fs, others, pc, out, copied, trashed, removal, fault>>

WalkPop ==
  /\ pc = "walk" /\ stack # <<>> /\ Head(stack).todo = {}
  /\ stack' = Tail(stack)
  /\ UNCHANGED <<fs, others, pc, out, walked, copied, trashed, removal, fault>>

(* A directory changed between its lstat and its open, or an I/O error.    *)
WalkProblem ==
  /\ pc = "walk" /\ ~problem
  /\ problem' = TRUE
  /\ UNCHANGED <<fs, others, pc, out, stack, pre, copied, trashed, removal, fault>>

(* A problem, "no" to the size prompt, no lock or no box: all of them      *)
(* before anything is written.                                             *)
Refuse ==
  /\ pc = "walk" /\ stack = <<>>
  /\ End("refused")
  /\ UNCHANGED <<fs, others, stack, walked, copied, trashed, removal, fault>>

StartCopy ==
  /\ pc = "walk" /\ stack = <<>> /\ ~problem
  /\ trash' = "box"
  /\ todo' = {[dir |-> Parent, name |-> Arg, rel |-> <<>>]}
  /\ Goto("cp")
  /\ UNCHANGED <<fs, others, out, stack, walked, reading, copy, snap, durable,
                 captured, removal, fault>>

-----------------------------------------------------------------------------
(* `cp -a -T`, another program: it opens what is at a name now, keeps the  *)
(* mtime it saw then, makes hard links of what it has copied already, and  *)
(* fails on the first error.                                               *)
CpEntry ==
  /\ pc = "cp" /\ reading = None
  /\ \E t \in todo :
       LET i == ent[t.dir][t.name]
           below == {[dir |-> i, name |-> n, rel |-> Append(t.rel, n)] :
                       n \in {m \in Name : ent[i][m] # None}} IN
       /\ i # None /\ t.rel \in Path
       /\ attr[i].open \/ attr[i].kind = "link"
       /\ \/ /\ IsDir(i)
             /\ copy' = [copy EXCEPT ![t.rel] =
                           [ino |-> i, dir |-> TRUE, ver |-> 0, data |-> 0]]
             /\ todo' = (todo \ {t}) \cup below
             /\ UNCHANGED reading
          \/ /\ ~IsDir(i)
             /\ copy' = [copy EXCEPT ![t.rel] =
                           [ino |-> i, dir |-> FALSE, ver |-> ver[i], data |-> ver[i]]]
             /\ todo' = todo \ {t}
             /\ reading' = t.rel
          \/ \E q \in Path :
               /\ ~IsDir(i) /\ copy[q] # None /\ copy[q].ino = i
               /\ copy' = [copy EXCEPT ![t.rel] = copy[q]]
               /\ todo' = todo \ {t}
               /\ UNCHANGED reading
  /\ UNCHANGED <<fs, others, pc, out, stack, walked, snap, trashed, removal, fault>>

(* The bytes are read after the mtime.                                     *)
CpRead ==
  /\ pc = "cp" /\ reading # None
  /\ copy' = [copy EXCEPT ![reading].data = ver[copy[reading].ino]]
  /\ reading' = None
  /\ UNCHANGED <<fs, others, pc, out, stack, walked, todo, snap, trashed,
                 removal, fault>>

(* An I/O error, ENOSPC, a file that cannot be read or is gone: the box is *)
(* dropped.  Likewise verify_copy() and a reservation that fail.           *)
CopyFails ==
  /\ pc \in {"cp", "publish"}
  /\ trash' = "none"
  /\ End("refused")
  /\ UNCHANGED <<fs, others, stack, walked, copied, durable, captured, removal, fault>>

(* cp is done: verify_copy() records what is in the box.                   *)
Verify ==
  /\ pc = "cp" /\ todo = {} /\ reading = None
  /\ snap' = [p \in Path |-> IF copy[p] = None THEN None ELSE Stamp(copy[p])]
  /\ Goto("publish")
  /\ UNCHANGED <<fs, others, out, stack, walked, todo, reading, copy, trashed,
                 removal, fault>>

(* The box's entry is renamed into files/.  Its identity may be unreadable.*)
Publish ==
  /\ pc = "publish"
  /\ trash' = "entry" /\ captured' \in BOOLEAN
  /\ Goto("sync")
  /\ UNCHANGED <<fs, others, out, stack, walked, copied, durable, removal, fault>>

(* If syncfs() fails, the copy and the source both stay.                   *)
Sync ==
  /\ pc = "sync"
  /\ \/ durable' = TRUE /\ Goto("rmtop") /\ UNCHANGED <<out, fault>>
     \/ End("both") /\ fault' = TRUE /\ UNCHANGED durable
  /\ UNCHANGED <<fs, others, stack, walked, copied, trash, captured, removal>>

-----------------------------------------------------------------------------
(* remove_tree() with Policy::Source.                                      *)

(* Mutant: the identity and stamp the walk saw are enough.                 *)
UnchangedPre(p, i) == ~IsDir(i) /\ pre[p] = Seen(i)

(* Manifest::unchanged, Manifest::dir_ok: as the walk saw it, and the      *)
(* verified copy has the same at the same path.                            *)
Unchanged(p, i) ==
  /\ ~IsDir(i) /\ pre[p] = Seen(i)
  /\ snap[p] # None /\ snap[p] = Stamp(Seen(i))
DirOK(p, i) ==
  /\ IsDir(i) /\ pre[p] = Seen(i)
  /\ snap[p] # None /\ snap[p].dir

(* enter_or_unlink(): a file goes if it is unchanged and the kernel lets   *)
(* it; a directory is entered; anything else is kept.                      *)
EnterOrUnlink(d, n, p, rest) ==
  LET i == ent[d][n] IN
  \/ /\ i = None /\ stack' = rest
     /\ UNCHANGED <<ent, removal, fault>>
  \/ /\ i # None /\ Unchanged(p, i) /\ MayUnlink(d, i)
     /\ ent' = [ent EXCEPT ![d][n] = None]
     /\ gone' = TRUE
     /\ removed' = removed \cup {[path |-> p, ino |-> i, ver |-> ver[i]]}
     /\ stack' = rest
     /\ UNCHANGED <<kept, fault>>
  \/ /\ i # None /\ DirOK(p, i) /\ attr[i].open /\ ~attr[i].far
     /\ stack' = <<Frame(i, p)>> \o rest
     /\ UNCHANGED <<ent, removal, fault>>
  \/ /\ i # None
     /\ ~(Unchanged(p, i) /\ MayUnlink(d, i)) /\ ~(DirOK(p, i) /\ ~Shut(i))
     /\ kept' = kept \cup {p} /\ stack' = rest
     /\ UNCHANGED <<ent, gone, removed, fault>>
  \/ /\ i # None      \* changed since the lstat, or an I/O error
     /\ kept' = kept \cup {p} /\ stack' = rest /\ fault' = TRUE
     /\ UNCHANGED <<ent, gone, removed>>

RmTop ==
  /\ pc = "rmtop"
  /\ EnterOrUnlink(Parent, Arg, <<>>, <<>>)
  /\ Goto("rm")
  /\ UNCHANGED <<ver, others, out, walked, copied, trashed>>

RmChild ==
  /\ pc = "rm" /\ stack # <<>>
  /\ \E n \in Head(stack).todo, p \in Path :
       /\ p = Append(Head(stack).rel, n)
       /\ EnterOrUnlink(Head(stack).dir, n, p, <<Without(Head(stack), n)>> \o Tail(stack))
  /\ UNCHANGED <<ver, others, pc, out, walked, copied, trashed>>

(* Mutant: rmdir's ENOTEMPTY is passed over like its ENOENT.               *)
RmDirQuiet ==
  /\ pc = "rm" /\ stack # <<>> /\ Head(stack).todo = {}
  /\ LET f == Head(stack)
         up == IF Len(stack) = 1 THEN Parent ELSE stack[2].dir
         n == IF f.rel = <<>> THEN Arg ELSE Last(f.rel)
         i == ent[up][n] IN
     \/ /\ i # None /\ IsDir(i) /\ Empty(i) /\ MayUnlink(up, i)
        /\ ent' = [ent EXCEPT ![up][n] = None] /\ gone' = TRUE
     \/ UNCHANGED <<ent, gone>>
  /\ stack' = Tail(stack)
  /\ UNCHANGED <<ver, others, pc, out, walked, copied, trashed, kept, removed, fault>>

(* When its names are done a directory is removed, by name, in the one     *)
(* above; with something left in it, it is kept.                           *)
RmDir ==
  /\ pc = "rm" /\ stack # <<>> /\ Head(stack).todo = {}
  /\ LET f == Head(stack)
         up == IF Len(stack) = 1 THEN Parent ELSE stack[2].dir
         n == IF f.rel = <<>> THEN Arg ELSE Last(f.rel)
         i == ent[up][n]
         can == i # None /\ IsDir(i) /\ Empty(i) /\ MayUnlink(up, i) IN
     \/ /\ can
        /\ ent' = [ent EXCEPT ![up][n] = None] /\ gone' = TRUE
        /\ UNCHANGED kept
     \/ /\ i = None /\ UNCHANGED <<ent, gone, kept>>
     \/ /\ i # None /\ ~can
        /\ kept' = kept \cup {f.rel} /\ UNCHANGED <<ent, gone>>
  /\ stack' = Tail(stack)
  /\ UNCHANGED <<ver, others, pc, out, walked, copied, trashed, removed, fault>>

(* Nothing removed: the published copy is discarded, if it can be told.    *)
(* Something kept: both stay, as far as they are there, and it is an error.*)
Settle ==
  /\ pc = "rm" /\ stack = <<>>
  /\ \/ /\ ~gone /\ captured /\ End("rolledback")
        /\ trash' = "none" /\ UNCHANGED fault
     \/ /\ ~gone /\ End("both")        \* not captured, or discard fails
        /\ fault' = TRUE /\ UNCHANGED trash
     \/ /\ gone /\ End(IF kept = {} THEN "copied" ELSE "kept")
        /\ UNCHANGED <<trash, fault>>
  /\ UNCHANGED <<fs, others, stack, walked, copied, durable, captured, removal>>

(* kill -9, or the power fails: then a copy not yet synced may be lost.    *)
Kill ==
  /\ pc # "end" /\ End("killed") /\ fault' = TRUE
  /\ trash' \in IF durable THEN {trash} ELSE {trash, "none"}
  /\ UNCHANGED <<fs, others, stack, walked, copied, durable, captured, removal>>

PutNext ==
  \/ WalkTop \/ WalkChild \/ WalkPop \/ WalkProblem \/ Refuse \/ StartCopy
  \/ CpEntry \/ CpRead \/ CopyFails \/ Verify \/ Publish \/ Sync
  \/ RmTop \/ RmChild \/ RmDir \/ Settle \/ Kill

-----------------------------------------------------------------------------
(* Users and other programs, at any time, on what they can reach.          *)
Free(i) == i \notin moved \cup {Parent} /\ \A d \in Ino, n \in Name : start.ent[d][n] # i
Reach == {Parent} \cup {i \in Ino : IsDir(i) /\ Linked(i)}
Inside(d, i) == \E p \in Path : From(i, p) = d

Edit ==
  /\ edits > 0 /\ edits' = edits - 1
  /\ UNCHANGED <<start, pc, out, stack, walked, copied, trashed, removal, fault>>

Write(i) ==
  /\ Edit
  /\ Linked(i) /\ ~IsDir(i)
  /\ ver' = [ver EXCEPT ![i] = @ + 1]
  /\ UNCHANGED <<ent, moved>>

Unlink(d, n) ==
  /\ Edit
  /\ ent[d][n] # None /\ ~IsDir(ent[d][n])
  /\ ent' = [ent EXCEPT ![d][n] = None]
  /\ UNCHANGED <<ver, moved>>

(* rename(2): over nothing, a file over a file, a directory over an empty  *)
(* one, never into itself.                                                 *)
Rename(d, n, e, m) ==
  /\ Edit
  /\ LET i == ent[d][n]
         j == ent[e][m] IN
     /\ i # None /\ d \in Reach /\ e \in Reach /\ i # j
     /\ j # None => (IsDir(i) <=> IsDir(j)) /\ (IsDir(j) => Empty(j))
     /\ ~Inside(e, i)
     /\ ent' = [ent EXCEPT ![d][n] = None, ![e][m] = i]
     /\ moved' = moved \cup {i}
  /\ UNCHANGED ver

Create(d, n, i) ==
  /\ Edit
  /\ d \in Reach /\ ent[d][n] = None /\ Free(i) /\ ~attr[i].far
  /\ ent' = [ent EXCEPT ![d][n] = i]
  /\ moved' = moved \cup {i}
  /\ UNCHANGED ver

(* A mount covers a directory.                                             *)
Mount(d, n, i) ==
  /\ Edit
  /\ Free(i) /\ attr[i].far /\ ent[d][n] # None /\ IsDir(ent[d][n])
  /\ ent' = [ent EXCEPT ![d][n] = i]
  /\ moved' = moved \cup {i, ent[d][n]}
  /\ UNCHANGED ver

Others ==
  \/ \E i \in Ino : Write(i)
  \/ \E d, e \in Ino, n, m \in Name : Rename(d, n, e, m)
  \/ \E d \in Ino, n \in Name :
       Unlink(d, n) \/ \E i \in Ino : Create(d, n, i) \/ Mount(d, n, i)

Next == PutNext \/ Others
Spec == Init /\ [][Next]_vars

-----------------------------------------------------------------------------
(* Every source file that was removed is, byte for byte, at the same path  *)
(* of the copy, and that copy is in the trash: whatever was moved, written *)
(* or created while the tree was walked, copied and removed, whatever      *)
(* failed, and after a kill or a power failure (design.md, 5.2 and 6).     *)
RemovedKept == \A r \in removed :
  /\ trash = "entry"
  /\ copy[r.path] # None /\ copy[r.path].data = r.ver

(* In a tree nobody else touches, what the walk lets through can also be   *)
(* removed: if no call fails the source is gone and the copy is in the     *)
(* trash, or everything is as it was (design.md, 6: "Copy complete but the *)
(* source half-deleted").                                                  *)
AllOrNothing == pc = "end" /\ edits = start.edits /\ ~fault =>
  \/ ent = start.ent /\ trash = "none"
  \/ ent[Parent][Arg] = None /\ trash = "entry" /\ out = "copied"

(* The report is true: when the put says that it copied and deleted all,   *)
(* or all but what it names, an entry the walk saw, that nobody moved on   *)
(* the way, is gone, or is named, itself or with a directory it is under.  *)
Still(p) == /\ pre[p] # None /\ At(p) = pre[p].ino
            /\ \A k \in 0..Len(p) : At(SubSeq(p, 1, k)) \notin moved
Reported == out \in {"copied", "kept"} =>
  \A p \in Path : Still(p) => \E k \in kept : IsPrefix(k, p)

=============================================================================
