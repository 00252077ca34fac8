--------------------------- MODULE CopyPutProofs ---------------------------
(***************************************************************************)
(* A put that copies removes no file whose content the trash does not hold *)
(* (RemovedKept), for trees of any shape and size and any number of calls  *)
(* of others.  cp keeps a file's mtime before it reads the bytes, so a     *)
(* copy's stamp is never newer than its bytes, and its bytes never newer   *)
(* than the file (Faithful); verify_copy() records those stamps (Recorded),*)
(* and a file that still has its stamp when it is removed has the bytes.   *)
(*                                                                         *)
(* And where nobody else touches the tree and no call fails, a put by copy *)
(* is all or nothing (AllOrNothing): what the walk saw is all there is     *)
(* (Whole) and, when it found nothing wrong, can be removed (Walked); cp   *)
(* copied all of it (Copied); so nothing the removal comes to is kept, and *)
(* a directory it leaves is empty (Removing).                              *)
(*                                                                         *)
(* And what a put says it removed or kept is so, whoever interferes        *)
(* (Reported).                                                             *)
(***************************************************************************)
EXTENDS CopyPut, DataLemmas

Faithful(c) == c \in Copies /\ c.ver <= c.data /\ c.data <= ver[c.ino]

TreeOK ==
  /\ ent \in [Ino -> [Name -> Ino \cup {None}]]
  /\ ver \in [Ino -> Nat]
  /\ \A t \in todo : t.dir \in Ino /\ t.name \in Name

CopyOK ==
  /\ DOMAIN copy = Path
  /\ \A p \in Path : copy[p] # None => Faithful(copy[p])
  /\ reading # None => reading \in Path /\ Faithful(copy[reading])

Recorded == pc \in {"publish", "sync", "rmtop", "rm"} =>
  \A p \in Path : snap[p] = IF copy[p] = None THEN None ELSE Stamp(copy[p])

(* Nothing is removed before the copy is published and on the disk.        *)
Kept ==
  /\ pc \in {"sync", "rmtop", "rm"} => trash = "entry"
  /\ pc \in {"rmtop", "rm"} => durable
  /\ removed # {} => pc \in {"rm", "end"} /\ gone /\ durable /\ trash = "entry"
  /\ \A r \in removed : copy[r.path] # None /\ copy[r.path].data = r.ver

IInv == TreeOK /\ CopyOK /\ Recorded /\ Kept

(* At the start nothing is copied, trashed or removed.                     *)
LEMMA Initially == Init => IInv
<1> SUFFICES ASSUME Init PROVE IInv
  OBVIOUS
<1>1. TreeOK
  BY TreesAssumption DEF Init, TreeOK
<1>2. CopyOK /\ Recorded /\ Kept
  BY DEF Init, CopyOK, Recorded, Kept
<1> QED
  BY <1>1, <1>2 DEF IInv

(* What leaves the copies and the files alone keeps the copies faithful,   *)
(* and so does a write, which only makes a file newer.                     *)
LEMMA CopyStays ==
  ASSUME CopyOK, TreeOK, UNCHANGED <<copy, reading>>, ver' \in [Ino -> Nat],
         \A i \in Ino : ver[i] <= ver'[i]
  PROVE  CopyOK'
<1>1. ASSUME NEW c, Faithful(c) PROVE c \in Copies /\ c.ver <= c.data /\ c.data <= ver'[c.ino]
  BY <1>1 DEF Faithful, Copies, TreeOK
<1> QED
  BY <1>1 DEF CopyOK, Faithful

(* Where no file is removed, what was is kept.                             *)
LEMMA KeptStays ==
  ASSUME Kept, UNCHANGED <<pc, copy, trash, durable, gone, removed>>
  PROVE  Kept'
BY DEF Kept

-----------------------------------------------------------------------------
(* cp: the stamp of a copy, then its bytes.                                *)
LEMMA CpEntrySteps == ASSUME IInv, CpEntry PROVE IInv'
<1> USE DEF IInv
<1>1. PICK t \in todo :
        /\ t.rel \in Path /\ ent[t.dir][t.name] # None
        /\ \/ /\ IsDir(ent[t.dir][t.name])
              /\ copy' = [copy EXCEPT ![t.rel] =
                           [ino |-> ent[t.dir][t.name], dir |-> TRUE, ver |-> 0, data |-> 0]]
              /\ todo' = (todo \ {t}) \cup
                   {[dir |-> ent[t.dir][t.name], name |-> n, rel |-> Append(t.rel, n)] :
                      n \in {m \in Name : ent[ent[t.dir][t.name]][m] # None}}
              /\ UNCHANGED reading
           \/ /\ copy' = [copy EXCEPT ![t.rel] =
                           [ino |-> ent[t.dir][t.name], dir |-> FALSE,
                            ver |-> ver[ent[t.dir][t.name]], data |-> ver[ent[t.dir][t.name]]]]
              /\ todo' = todo \ {t}
              /\ reading' = t.rel
           \/ \E q \in Path :
                /\ copy[q] # None
                /\ copy' = [copy EXCEPT ![t.rel] = copy[q]]
                /\ todo' = todo \ {t}
                /\ UNCHANGED reading
  BY DEF CpEntry
<1>2. pc = "cp" /\ reading = None
  BY SMTT(30) DEF CpEntry
<1>3. UNCHANGED <<ent, ver, pc, snap, trash, durable, gone, removed>>
  BY DEF CpEntry, fs, trashed, removal
<1> DEFINE i == ent[t.dir][t.name]
<1>4. i \in Ino /\ ver[i] \in Nat
  BY <1>1 DEF TreeOK
<1>5. \A u \in todo' : u.dir \in Ino /\ u.name \in Name
  BY <1>1, <1>4 DEF TreeOK
<1>6. TreeOK'
  BY <1>3, <1>5 DEF TreeOK
<1>7. \A c : Faithful(c)' <=> Faithful(c)
  BY <1>3 DEF Faithful
<1>8. CopyOK'
  <2>1. \E c : /\ copy' = [copy EXCEPT ![t.rel] = c] /\ Faithful(c)
               /\ reading' = None \/ reading' = t.rel
    <3>1. CASE IsDir(i) /\ reading' = reading
               /\ copy' = [copy EXCEPT ![t.rel] = [ino |-> i, dir |-> TRUE, ver |-> 0, data |-> 0]]
      <4>1. Faithful([ino |-> i, dir |-> TRUE, ver |-> 0, data |-> 0])
        BY <1>4 DEF Faithful, Copies
      <4> QED
        BY <3>1, <4>1, <1>2
    <3>2. CASE reading' = t.rel
               /\ copy' = [copy EXCEPT ![t.rel] =
                            [ino |-> i, dir |-> FALSE, ver |-> ver[i], data |-> ver[i]]]
      <4>1. Faithful([ino |-> i, dir |-> FALSE, ver |-> ver[i], data |-> ver[i]])
        BY <1>4 DEF Faithful, Copies
      <4> QED
        BY <3>2, <4>1
    <3>3. CASE reading' = reading
               /\ \E q \in Path : copy[q] # None /\ copy' = [copy EXCEPT ![t.rel] = copy[q]]
      BY <3>3, <1>2 DEF CopyOK
    <3> QED
      BY <1>1, <3>1, <3>2, <3>3
  <2> QED
    BY <1>1, <1>7, <2>1 DEF CopyOK
<1>9. Recorded' /\ Kept'
  BY <1>2, <1>3 DEF Recorded, Kept
<1> QED
  BY <1>6, <1>8, <1>9, SMTT(30)

(* A file of the copy gets the content the file has when it is read.       *)
LEMMA CpReadSteps == ASSUME IInv, CpRead PROVE IInv'
<1> USE DEF IInv
<1>1. /\ pc = "cp" /\ reading # None /\ reading' = None
      /\ copy' = [copy EXCEPT ![reading].data = ver[copy[reading].ino]]
      /\ UNCHANGED <<ent, ver, todo, pc, snap, trash, durable, gone, removed>>
  BY DEF CpRead, fs, trashed, removal
<1>2. TreeOK'
  BY <1>1 DEF TreeOK
<1> DEFINE c == [copy[reading] EXCEPT !.data = ver[copy[reading].ino]]
<1>3. Faithful(c)
  <2>1. copy[reading] \in Copies /\ ver[copy[reading].ino] \in Nat
        /\ copy[reading].ver <= copy[reading].data
        /\ copy[reading].data <= ver[copy[reading].ino]
    BY <1>1 DEF CopyOK, Faithful, Copies, TreeOK
  <2> QED
    BY <2>1 DEF Faithful, Copies
<1>4. \A x : Faithful(x)' <=> Faithful(x)
  BY <1>1 DEF Faithful
<1>5. CopyOK'
  BY <1>1, <1>3, <1>4 DEF CopyOK
<1>6. Recorded' /\ Kept'
  BY <1>1 DEF Recorded, Kept
<1> QED
  BY <1>2, <1>5, <1>6

-----------------------------------------------------------------------------
(* The step that matters: a file is unlinked.                              *)
LEMMA RemovedHasCopy ==
  ASSUME IInv, pc \in {"rmtop", "rm"}, NEW p \in Path, NEW i, Unchanged(p, i)
  PROVE  copy[p] # None /\ copy[p].data = ver[i]
<1>1. snap[p] = Stamp(copy[p]) /\ copy[p] # None
  BY DEF IInv, Recorded, Unchanged
<1>2. copy[p].ino = i /\ copy[p].ver = ver[i]
  BY <1>1 DEF Unchanged, Stamp, Seen
<1>3. Faithful(copy[p])
  BY <1>1 DEF IInv, CopyOK
<1>4. ver[i] \in Nat
  BY <1>2, <1>3 DEF IInv, TreeOK, Faithful, Copies
<1> QED
  BY <1>1, <1>2, <1>3, <1>4 DEF Faithful, Copies

(* discard_verified() removes an entry only if it is the one that was      *)
(* copied.                                                                 *)
LEMMA EntryGoes ==
  ASSUME IInv, pc \in {"rmtop", "rm"}, pc' = "rm", NEW d, NEW n, NEW p \in Path, NEW rest,
         EnterOrUnlink(d, n, p, rest),
         UNCHANGED <<ver, todo, reading, copy, snap, trash, durable>>
  PROVE  IInv'
<1> USE DEF IInv
<1>1. /\ ent' = ent \/ ent' = [ent EXCEPT ![d][n] = None]
      /\ \/ UNCHANGED <<gone, removed>>
         \/ /\ Unchanged(p, ent[d][n]) /\ gone' = TRUE
            /\ removed' = removed \cup
                 {[path |-> p, ino |-> ent[d][n], ver |-> ver[ent[d][n]]]}
  BY DEF EnterOrUnlink, removal
<1>2. TreeOK'
  BY <1>1 DEF TreeOK
<1>3. CopyOK'
  BY CopyStays DEF TreeOK
<1>4. Recorded'
  BY DEF Recorded
<1>5. Kept'
  BY <1>1, RemovedHasCopy DEF Kept
<1> QED
  BY <1>2, <1>3, <1>4, <1>5

-----------------------------------------------------------------------------
(* Every step of the put keeps the invariant.                              *)
LEMMA PutSteps == ASSUME IInv, PutNext PROVE IInv'
<1> USE DEF IInv
<1>1. CASE WalkTop \/ WalkChild \/ WalkPop \/ WalkProblem \/ Refuse
  <2>1. /\ UNCHANGED <<ent, ver, todo, reading, copy, snap, trash, durable, gone, removed>>
        /\ pc \in {"top", "walk"} /\ pc' \in {"walk", "end"}
    BY <1>1
    DEF WalkTop, WalkChild, WalkPop, WalkProblem, Refuse, End, Goto, fs, copied, trashed, removal
  <2> QED
    BY <2>1, CopyStays, SMTT(30) DEF TreeOK, Recorded, Kept
<1>2. CASE StartCopy
  <2>1. /\ UNCHANGED <<ent, ver, reading, copy, snap, durable, gone, removed>>
        /\ pc = "walk" /\ pc' = "cp"
        /\ todo' = {[dir |-> Parent, name |-> Arg, rel |-> <<>>]}
    BY <1>2 DEF StartCopy, Goto, fs, removal
  <2>2. TreeOK'
    BY <2>1, NoneAssumption DEF TreeOK
  <2> QED
    BY <2>1, <2>2, CopyStays DEF TreeOK, Recorded, Kept
<1>3. CASE CpEntry
  BY <1>3, CpEntrySteps
<1>4. CASE CpRead
  BY <1>4, CpReadSteps
<1>5. CASE CopyFails \/ Settle \/ Kill
  <2>1. /\ UNCHANGED <<ent, ver, todo, reading, copy, snap, durable, gone, removed>>
        /\ pc' = "end" /\ (removed # {} => trash' = trash /\ pc \in {"rm", "end"})
    BY <1>5
    DEF CopyFails, Settle, Kill, End, Kept, fs, copied, trashed, removal
  <2> QED
    BY <2>1, CopyStays DEF TreeOK, Recorded, Kept
<1>6. CASE Verify
  <2>1. /\ UNCHANGED <<ent, ver, todo, reading, copy, trash, durable, gone, removed>>
        /\ pc = "cp" /\ pc' = "publish"
        /\ snap' = [p \in Path |-> IF copy[p] = None THEN None ELSE Stamp(copy[p])]
    BY <1>6 DEF Verify, Goto, fs, trashed, removal
  <2>2. Recorded'
    BY <2>1 DEF Recorded, Stamp
  <2> QED
    BY <2>1, <2>2, CopyStays DEF TreeOK, Kept
<1>7. CASE Publish \/ Sync
  <2>1. /\ UNCHANGED <<ent, ver, todo, reading, copy, snap, gone, removed>>
        /\ pc \in {"publish", "sync"} /\ pc' \in {"sync", "rmtop", "end"}
        /\ trash' = "entry" /\ (pc' = "rmtop" => durable')
    BY <1>7 DEF Publish, Sync, End, Goto, Kept, fs, copied, removal
  <2> QED
    BY <2>1, CopyStays DEF TreeOK, Recorded, Kept
<1>8. CASE RmTop
  BY <1>8, EntryGoes, PathAssumption DEF RmTop, Goto, copied, trashed
<1>9. CASE RmChild
  BY <1>9, EntryGoes DEF RmChild, copied, trashed
<1>10. CASE RmDir
  <2>1. /\ UNCHANGED <<ver, pc, todo, reading, copy, snap, trash, durable, removed>>
        /\ gone => gone'
        /\ ent' = ent \/ \E d, n : ent' = [ent EXCEPT ![d][n] = None]
    BY <1>10 DEF RmDir, copied, trashed
  <2>2. TreeOK'
    BY <2>1 DEF TreeOK
  <2> QED
    BY <2>1, <2>2, CopyStays, SMTT(30) DEF TreeOK, Recorded, Kept
<1> QED
  BY <1>1, <1>2, <1>3, <1>4, <1>5, <1>6, <1>7, <1>8, <1>9, <1>10 DEF PutNext

(* So does every change by another program: contents only get newer.       *)
LEMMA OthersStep == ASSUME IInv, Others PROVE IInv'
<1> USE DEF IInv
<1>1. UNCHANGED <<todo, reading, copy, snap, pc, trash, durable, gone, removed>>
  <2>1. Edit
    BY ZenonT(40) DEF Others, Write, Rename, Unlink, Create, Mount
  <2> QED
    BY <2>1 DEF Edit, copied, trashed, removal
<1> DEFINE Newer == /\ ver' \in [Ino -> Nat] /\ \A i \in Ino : ver[i] <= ver'[i]
                    /\ ent' \in [Ino -> [Name -> Ino \cup {None}]]
<1>2. Newer
  <2>1. ASSUME NEW i \in Ino, Write(i) PROVE Newer
    BY <2>1 DEF Write, TreeOK
  <2>2. ASSUME NEW d \in Ino, NEW e \in Ino, NEW n \in Name, NEW m \in Name, Rename(d, n, e, m)
        PROVE  Newer
    <3>1. ver' = ver /\ ent' = [ent EXCEPT ![d][n] = None, ![e][m] = ent[d][n]]
      BY <2>2 DEF Rename
    <3>2. ent[d][n] \in Ino \cup {None}
      BY DEF TreeOK
    <3>3. [ent EXCEPT ![d][n] = None] \in [Ino -> [Name -> Ino \cup {None}]]
      BY DEF TreeOK
    <3>4. ent' = [[ent EXCEPT ![d][n] = None] EXCEPT ![e][m] = ent[d][n]]
      BY <3>1 DEF TreeOK
    <3>5. ASSUME NEW f \in [Ino -> [Name -> Ino \cup {None}]], NEW j \in Ino \cup {None}
          PROVE  [f EXCEPT ![e][m] = j] \in [Ino -> [Name -> Ino \cup {None}]]
      OBVIOUS
    <3>6. ent' \in [Ino -> [Name -> Ino \cup {None}]]
      BY <3>2, <3>3, <3>4, <3>5
    <3>7. ver' \in [Ino -> Nat] /\ \A k \in Ino : ver[k] <= ver'[k]
      BY <3>1 DEF TreeOK
    <3> QED
      BY <3>6, <3>7
  <2>3. ASSUME NEW d \in Ino, NEW n \in Name, NEW i \in Ino,
               Unlink(d, n) \/ Create(d, n, i) \/ Mount(d, n, i)
        PROVE  Newer
    <3>1. ver' = ver
      BY <2>3 DEF Unlink, Create, Mount
    <3>2. \E j \in Ino \cup {None} : ent' = [ent EXCEPT ![d][n] = j]
      BY <2>3 DEF Unlink, Create, Mount
    <3>3. ver \in [Ino -> Nat] /\ ent \in [Ino -> [Name -> Ino \cup {None}]]
      BY DEF TreeOK
    <3>4. ent' \in [Ino -> [Name -> Ino \cup {None}]]
      BY <3>2, <3>3
    <3> QED
      BY <3>1, <3>3, <3>4
  <2> QED
    BY <2>1, <2>2, <2>3 DEF Others
<1> QED
  BY <1>1, <1>2, CopyStays DEF TreeOK, Recorded, Kept

(* The invariant is inductive.                                             *)
LEMMA Inductive == IInv /\ [Next]_vars => IInv'
<1> SUFFICES ASSUME IInv, [Next]_vars PROVE IInv'
  OBVIOUS
<1>1. CASE UNCHANGED vars
  BY <1>1, CopyStays
  DEF vars, fs, copied, trashed, removal, IInv, TreeOK, Recorded, Kept
<1> QED
  BY <1>1, PutSteps, OthersStep DEF Next

(* Every source file that a put has removed after copying it is, byte for  *)
(* byte, in the trash: for every tree, whatever others do to it meanwhile, *)
(* whatever fails, and after a kill or a power failure.                    *)
THEOREM RemovedIsKept == Spec => []RemovedKept
<1>1. IInv => RemovedKept
  BY DEF IInv, Kept, RemovedKept
<1> QED
  BY <1>1, Initially, Inductive, PTL DEF Spec

-----------------------------------------------------------------------------
(***************************************************************************)
(* In a tree that nobody else touches, and if no call fails (Untouched):   *)
(***************************************************************************)
Untouched == edits = start.edits /\ ~fault

Frames == [dir : Ino, rel : Path, todo : SUBSET Name]
Typed ==
  /\ start \in Trees /\ edits \in 0..start.edits
  /\ stack \in Seq(Frames)
  /\ DOMAIN pre = Path /\ DOMAIN snap = Path

(* What the walk has seen is so,                                           *)
SeenAt(p) ==
  /\ pre[p] \in Stamps /\ pre[p].ver = 0 /\ (pre[p].dir <=> IsDir(pre[p].ino))
  /\ p = <<>> => pre[p].ino = start.ent[Parent][Arg]
  /\ p # <<>> => /\ Front(p) \in Path /\ pre[Front(p)] # None /\ pre[Front(p)].dir
                 /\ pre[p].ino = start.ent[pre[Front(p)].ino][Last(p)]
(* can be removed, if it found nothing wrong,                              *)
FreeAt(p) ==
  /\ ~Shut(pre[p].ino)
  /\ p = <<>> => ~TopFlagged(pre[p].ino)
  /\ p # <<>> => ~Flagged(pre[Front(p)].ino, pre[p].ino)
Walked == \A p \in Path : pre[p] # None => SeenAt(p) /\ (~problem => FreeAt(p))

(* and it is all there is, but for what its frames have still to name.     *)
Awaited(q, n) == pc = "walk" /\ \E k \in DOMAIN stack : stack[k].rel = q /\ n \in stack[k].todo
Whole == ~problem =>
  /\ pc \notin {"top", "end"} => pre[<<>>] # None
  /\ \A q \in Path, n \in Name :
       pre[q] # None /\ pre[q].dir /\ start.ent[pre[q].ino][n] # None =>
         (Append(q, n) \in Path /\ pre[Append(q, n)] # None) \/ Awaited(q, n)
Framed == pc \in {"walk", "rm"} => \A k \in DOMAIN stack :
  LET f == stack[k] IN pre[f.rel] # None /\ pre[f.rel].dir /\ f.dir = pre[f.rel].ino

AfterWalk == {"cp", "publish", "sync", "rmtop", "rm"}
Phases ==
  /\ ver = [i \in Ino |-> 0]
  /\ pc = "top" => ~problem /\ \A p \in Path : pre[p] = None
  /\ pc \in {"top", "walk"} => trash = "none" /\ \A p \in Path : copy[p] = None
  /\ pc \in AfterWalk => ~problem
  /\ pc \notin {"rm", "end"} => ent = start.ent /\ ~gone /\ kept = {}
  /\ pc \in AfterWalk \ {"rm"} => stack = <<>>

(* cp copies all of it,                                                    *)
Copied == pc \in AfterWalk =>
  /\ \A t \in todo : /\ t.rel \in Path /\ pre[t.rel] # None
                     /\ pre[t.rel].ino = start.ent[t.dir][t.name]
  /\ pc # "cp" => todo = {}
  /\ \A p \in Path : copy[p] # None => pre[p] # None /\ Stamp(copy[p]) = pre[p]
  /\ \A p \in Path : pre[p] # None /\ (p # <<>> => copy[Front(p)] # None) =>
       copy[p] # None \/ \E t \in todo : t.rel = p

(* and of each directory that is entered to be removed, what is not yet    *)
(* removed is still to come, or is the one that was entered next.          *)
Up(s, k) == IF k = Len(s) THEN Parent ELSE s[k + 1].dir
By(s, k) == IF s[k].rel = <<>> THEN Arg ELSE Last(s[k].rel)
Link(s, e, k) ==
  /\ s[k].rel = <<>> <=> k = Len(s)
  /\ k < Len(s) => Front(s[k].rel) = s[k + 1].rel
  /\ e[Up(s, k)][By(s, k)] = s[k].dir
  /\ \A n \in Name : e[s[k].dir][n] # None => n \in s[k].todo \/ (k > 1 /\ n = By(s, k - 1))
Removing == pc = "rm" =>
  /\ kept = {}
  /\ \A d \in Ino, n \in Name : ent[d][n] \in {start.ent[d][n], None}
  /\ stack = <<>> => ent[Parent][Arg] = None /\ gone
  /\ \A k \in DOMAIN stack : Link(stack, ent, k)

Ended == pc = "end" =>
  \/ ent = start.ent /\ trash = "none"
  \/ ent[Parent][Arg] = None /\ trash = "entry" /\ out = "copied"

Clean == Walked /\ Whole /\ Framed /\ Phases /\ Copied /\ Removing /\ Ended

-----------------------------------------------------------------------------
(* A path is the one above it and a name.                                  *)
LEMMA PathEnds ==
  ASSUME NEW q \in Seq(Name), NEW n \in Name
  PROVE  Append(q, n) # <<>> /\ Front(Append(q, n)) = q /\ Last(Append(q, n)) = n
<1> DEFINE p == Append(q, n)
<1>1. /\ p \in Seq(Name) /\ Len(p) = Len(q) + 1 /\ Len(q) \in Nat /\ p # <<>>
      /\ p[Len(p)] = n /\ \A k \in 1..Len(q) : p[k] = q[k]
  OBVIOUS
<1> DEFINE f == SubSeq(p, 1, Len(p) - 1)
<1>2. f \in Seq(Name) /\ Len(f) = Len(q) /\ \A k \in 1..Len(q) : f[k] = p[k]
  BY <1>1
<1>3. f = q
  BY <1>1, <1>2, SeqEqual
<1> QED
  BY <1>1, <1>3 DEF Front, Last

(* What is above a path, and its last name.                                *)
LEMMA PathParts ==
  ASSUME NEW p \in Seq(Name), p # <<>>
  PROVE  /\ Front(p) \in Seq(Name) /\ Last(p) \in Name /\ Len(Front(p)) = Len(p) - 1
         /\ Len(p) \in Nat /\ Len(p) > 0
<1>1. Len(p) \in Nat /\ Len(p) > 0
  OBVIOUS
<1>2. p[Len(p)] \in Name
  BY <1>1, ElementOfSeq
<1>3. SubSeq(p, 1, Len(p) - 1) \in Seq(Name) /\ Len(SubSeq(p, 1, Len(p) - 1)) = Len(p) - 1
  <2> DEFINE n == Len(p) - 1
  <2>1. n \in Nat /\ 1 \in Int /\ n \in Int /\ \A k \in 1..n : p[k] \in Name
    BY <1>1, ElementOfSeq
  <2> HIDE DEF n
  <2>2. SubSeq(p, 1, n) \in Seq(Name) /\ Len(SubSeq(p, 1, n)) = IF 1 <= n THEN n - 1 + 1 ELSE 0
    BY <2>1, SubSeqProperties
  <2>3. Len(SubSeq(p, 1, n)) = n
    BY <2>1, <2>2
  <2> QED
    BY <2>2, <2>3 DEF n
<1> QED
  BY <1>1, <1>2, <1>3 DEF Front, Last

(* The stack, without its head, with another head, and with one pushed.    *)
LEMMA Stacks ==
  ASSUME NEW s \in Seq(Frames), s # <<>>, NEW x \in Frames, NEW y \in Frames
  PROVE  /\ Len(s) \in Nat /\ Len(s) > 0 /\ Head(s) = s[1]
         /\ Tail(s) \in Seq(Frames) /\ Len(Tail(s)) = Len(s) - 1
         /\ \A k \in 1..(Len(s) - 1) : Tail(s)[k] = s[k + 1]
         /\ <<x>> \o Tail(s) \in Seq(Frames) /\ Len(<<x>> \o Tail(s)) = Len(s)
         /\ (<<x>> \o Tail(s))[1] = x
         /\ \A k \in 2..Len(s) : (<<x>> \o Tail(s))[k] = s[k]
         /\ LET t == <<y>> \o (<<x>> \o Tail(s)) IN
            /\ t \in Seq(Frames) /\ Len(t) = Len(s) + 1 /\ t[1] = y /\ t[2] = x
            /\ \A k \in 3..(Len(s) + 1) : t[k] = s[k - 1]
<1>1. /\ Len(s) \in Nat /\ Len(s) > 0 /\ Head(s) = s[1]
      /\ Tail(s) \in Seq(Frames) /\ Len(Tail(s)) = Len(s) - 1
      /\ \A k \in 1..(Len(s) - 1) : Tail(s)[k] = s[k + 1]
  OBVIOUS
<1> DEFINE r == Tail(s)
           u == <<x>> \o r
           t == <<y>> \o u
<1>2. /\ u \in Seq(Frames) /\ Len(u) = 1 + Len(r) /\ u[1] = x
      /\ \A k \in 2..(1 + Len(r)) : u[k] = r[k - 1]
  BY <1>1
<1>3. u \in Seq(Frames) /\ Len(u) = Len(s) /\ u[1] = x /\ \A k \in 2..Len(s) : u[k] = s[k]
  BY <1>1, <1>2
<1> HIDE DEF u
<1>4. /\ t \in Seq(Frames) /\ Len(t) = 1 + Len(u) /\ t[1] = y
      /\ \A k \in 2..(1 + Len(u)) : t[k] = u[k - 1]
  BY <1>3
<1>5. t[2] = x /\ \A k \in 3..(Len(s) + 1) : t[k] = s[k - 1]
  BY <1>1, <1>3, <1>4
<1> QED
  BY <1>1, <1>3, <1>4, <1>5 DEF u

(* A path is what is above it and its last name.                           *)
LEMMA PathIs ==
  ASSUME NEW p \in Seq(Name), p # <<>>
  PROVE  Append(Front(p), Last(p)) = p
<1> DEFINE n == Len(p) - 1
           f == SubSeq(p, 1, n)
           a == Append(f, p[Len(p)])
<1>1. n \in Nat /\ Len(p) = n + 1 /\ 1 \in Int /\ n \in Int /\ p[Len(p)] \in Name
      /\ \A k \in 1..n : p[k] \in Name
  BY ElementOfSeq
<1> HIDE DEF n
<1>2. /\ f \in Seq(Name) /\ Len(f) = IF 1 <= n THEN n - 1 + 1 ELSE 0
      /\ \A k \in 1..(n - 1 + 1) : f[k] = p[1 + k - 1]
  BY <1>1, SubSeqProperties
<1> HIDE DEF f
<1>3. f \in Seq(Name) /\ Len(f) = n /\ \A k \in 1..n : f[k] = p[k]
  BY <1>1, <1>2
<1>4. /\ a \in Seq(Name) /\ Len(a) = n + 1 /\ a[n + 1] = p[Len(p)]
      /\ \A k \in 1..n : a[k] = f[k]
  BY <1>1, <1>3
<1> HIDE DEF a
<1>5. ASSUME NEW k \in 1..(n + 1) PROVE a[k] = p[k]
  <2>1. k \in 1..n \/ k = n + 1
    BY <1>1
  <2> QED
    BY <1>1, <1>3, <1>4, <2>1
<1>6. a = p
  BY <1>1, <1>4, <1>5, SeqEqual
<1> QED
  BY <1>6 DEF a, f, n, Front, Last

-----------------------------------------------------------------------------
(* What holds of every put, disturbed or not.                              *)
Basic == Typed /\ IInv

(* The inode of an entry, if there is one.                                 *)
LEMMA EntryIs ==
  ASSUME TreeOK, NEW d \in Ino, NEW n \in Name
  PROVE  ent[d][n] \in Ino \cup {None}
BY DEF TreeOK

(* The frame of a directory that is opened.                                *)
LEMMA FrameIs ==
  ASSUME NEW i \in Ino, NEW p \in Path
  PROVE  Frame(i, p) \in Frames
BY DEF Frame, Frames

(* The frame a step works on, with or without one of its names.            *)
LEMMA HeadIs ==
  ASSUME Typed, stack # <<>>, NEW n
  PROVE  Head(stack) \in Frames /\ Without(Head(stack), n) \in Frames
<1>1. Head(stack) \in Frames
  BY DEF Typed
<1> QED
  BY <1>1 DEF Without, Frames

(* The types of the put's own state are kept.                              *)
LEMMA TypedNext == Basic /\ [Next]_vars => Typed'
<1> SUFFICES ASSUME Basic, [Next]_vars PROVE Typed'
  OBVIOUS
<1>0. /\ Typed /\ TreeOK /\ edits \in 0..start.edits /\ start.edits \in Nat
      /\ Parent \in Ino /\ Arg \in Name /\ <<>> \in Path
  BY TreesAssumption, NoneAssumption, PathAssumption DEF Basic, IInv, Typed
<1>1. CASE UNCHANGED vars
  BY <1>0, <1>1 DEF vars, Typed, others, walked, copied
<1>2. CASE Others
  <2>1. Edit
    BY <1>2, ZenonT(40) DEF Others, Write, Rename, Unlink, Create, Mount
  <2> QED
    BY <1>0, <2>1 DEF Edit, Typed, walked, copied
<1>3. CASE PutNext
  <2>1. UNCHANGED <<start, edits>>
    BY <1>3, ZenonT(40)
    DEF PutNext, WalkTop, WalkChild, WalkPop, WalkProblem, Refuse, StartCopy, CpEntry, CpRead,
        CopyFails, Verify, Publish, Sync, RmTop, RmChild, RmDir, Settle, Kill, others
  <2>2. DOMAIN pre' = Path
    <3>1. pre' = pre \/ \E p, x : pre' = [pre EXCEPT ![p] = x]
      BY <1>3, ZenonT(40)
      DEF PutNext, WalkTop, WalkChild, WalkPop, WalkProblem, Refuse, StartCopy, CpEntry, CpRead,
          CopyFails, Verify, Publish, Sync, RmTop, RmChild, RmDir, Settle, Kill, walked
    <3> QED
      BY <1>0, <3>1 DEF Typed
  <2>3. DOMAIN snap' = Path
    <3>1. snap' = snap \/ \E f : snap' = [p \in Path |-> f[p]]
      <4>1. CASE Verify
        <5> DEFINE f == [p \in Path |-> IF copy[p] = None THEN None ELSE Stamp(copy[p])]
        <5>1. snap' = f /\ f = [p \in Path |-> f[p]]
          BY <4>1 DEF Verify
        <5> HIDE DEF f
        <5> QED
          BY <5>1
      <4>2. CASE ~Verify
        BY <1>3, <4>2, ZenonT(40)
        DEF PutNext, WalkTop, WalkChild, WalkPop, WalkProblem, Refuse, StartCopy, CpEntry,
            CpRead, CopyFails, Publish, Sync, RmTop, RmChild, RmDir, Settle, Kill, copied
      <4> QED
        BY <4>1, <4>2
    <3> QED
      BY <1>0, <3>1 DEF Typed
  <2>4. stack' \in Seq(Frames)
    <3>0. stack \in Seq(Frames)
      BY <1>0 DEF Typed
    <3>1. ASSUME NEW i \in Ino, NEW p \in Path, NEW s \in Seq(Frames)
          PROVE  Opened(i, p) \o s \in Seq(Frames) /\ Opened(i, p) \in Seq(Frames)
                 /\ <<Frame(i, p)>> \o s \in Seq(Frames)
      BY FrameIs DEF Opened
    <3>2. ASSUME stack # <<>>, NEW n
          PROVE  /\ <<Without(Head(stack), n)>> \o Tail(stack) \in Seq(Frames)
                 /\ Tail(stack) \in Seq(Frames)
      BY <1>0, <3>0, <3>2, HeadIs, Stacks
    <3>3. ASSUME NEW d \in Ino, NEW n \in Name, NEW p \in Path, NEW s \in Seq(Frames),
                 EnterOrUnlink(d, n, p, s)
          PROVE  stack' \in Seq(Frames)
      <4>1. stack' = s \/ (ent[d][n] # None /\ stack' = <<Frame(ent[d][n], p)>> \o s)
        BY <3>3 DEF EnterOrUnlink
      <4> QED
        BY <1>0, <3>1, <4>1, EntryIs
    <3>4. ASSUME stack # <<>>, NEW n \in Head(stack).todo
          PROVE  n \in Name /\ Head(stack).dir \in Ino
      BY <1>0, <3>4, HeadIs DEF Frames
    <3>5. CASE WalkTop
      BY <1>0, <3>0, <3>1, <3>5, EntryIs DEF WalkTop
    <3>6. CASE WalkChild
      <4>1. PICK n \in Head(stack).todo, p \in Path :
              LET i == ent[Head(stack).dir][n]
                  rest == <<Without(Head(stack), n)>> \o Tail(stack) IN
              stack' = rest \/ (i # None /\ stack' = Opened(i, p) \o rest)
        BY <3>6, ZenonT(40) DEF WalkChild
      <4>2. stack # <<>>
        BY <3>6 DEF WalkChild
      <4> DEFINE i == ent[Head(stack).dir][n]
                 rest == <<Without(Head(stack), n)>> \o Tail(stack)
      <4>3. rest \in Seq(Frames)
        BY <3>2, <4>2
      <4>4. i \in Ino \cup {None}
        BY <1>0, <3>4, <4>2, EntryIs, SMTT(30)
      <4> HIDE DEF i, rest
      <4>5. stack' = rest \/ (i # None /\ stack' = Opened(i, p) \o rest)
        BY <4>1 DEF i, rest
      <4> QED
        BY <3>1, <4>3, <4>4, <4>5
    <3>7. CASE RmTop
      <4>1. EnterOrUnlink(Parent, Arg, <<>>, <<>>)
        BY <3>7 DEF RmTop
      <4>2. <<>> \in Seq(Frames)
        OBVIOUS
      <4> QED
        BY <1>0, <3>3, <4>1, <4>2
    <3>8. CASE RmChild
      BY <1>0, <3>2, <3>3, <3>4, <3>8 DEF RmChild
    <3>9. CASE WalkPop \/ RmDir
      BY <3>2, <3>9 DEF WalkPop, RmDir
    <3>10. CASE \/ WalkProblem \/ Refuse \/ StartCopy \/ CpEntry \/ CpRead \/ CopyFails
                \/ Verify \/ Publish \/ Sync \/ Settle \/ Kill
      BY <3>0, <3>10
      DEF WalkProblem, Refuse, StartCopy, CpEntry, CpRead, CopyFails, Verify, Publish, Sync,
          Settle, Kill
    <3> QED
      BY <1>3, <3>5, <3>6, <3>7, <3>8, <3>9, <3>10 DEF PutNext
  <2> QED
    BY <1>0, <2>1, <2>2, <2>3, <2>4 DEF Typed
<1> QED
  BY <1>1, <1>2, <1>3 DEF Next

(* What others change, and what fails, is not undone.                      *)
LEMMA StillUntouched ==
  ASSUME Basic, [Next]_vars, Untouched'
  PROVE  Untouched /\ start' = start /\ (PutNext \/ UNCHANGED vars)
<1>0. edits \in 0..start.edits /\ start.edits \in Nat
  BY TreesAssumption DEF Basic, Typed
<1>1. ~Others
  <2> SUFFICES ASSUME Others PROVE FALSE
    OBVIOUS
  <2>1. Edit
    BY ZenonT(40) DEF Others, Write, Rename, Unlink, Create, Mount
  <2>2. start' = start /\ edits' = edits - 1
    BY <2>1 DEF Edit
  <2>3. edits' = start'.edits
    BY DEF Untouched
  <2> QED
    BY <1>0, <2>2, <2>3
<1>2. CASE PutNext
  <2>1. UNCHANGED <<start, edits>>
    BY <1>2, ZenonT(40)
    DEF PutNext, WalkTop, WalkChild, WalkPop, WalkProblem, Refuse, StartCopy, CpEntry, CpRead,
        CopyFails, Verify, Publish, Sync, RmTop, RmChild, RmDir, Settle, Kill, others
  <2>2. fault => fault'
    BY <1>2, ZenonT(40)
    DEF PutNext, WalkTop, WalkChild, WalkPop, WalkProblem, Refuse, StartCopy, CpEntry, CpRead,
        CopyFails, Verify, Publish, Sync, RmTop, RmChild, EnterOrUnlink, RmDir, Settle, Kill
  <2> QED
    BY <1>2, <2>1, <2>2 DEF Untouched
<1>3. CASE UNCHANGED vars
  BY <1>3 DEF vars, others, Untouched
<1> QED
  BY <1>1, <1>2, <1>3 DEF Next

-----------------------------------------------------------------------------
(* The walk.  What it looks at in a file does not change.                  *)
LEMMA SameTree ==
  ASSUME start' = start
  PROVE  \A d, i : /\ IsDir(i)' <=> IsDir(i)
                   /\ Shut(i)' <=> Shut(i)
                   /\ Flagged(d, i)' <=> Flagged(d, i)
                   /\ TopFlagged(i)' <=> TopFlagged(i)
BY DEF IsDir, Shut, Flagged, TopFlagged, attr

(* In a tree nobody writes to, all stamps are of the first version.        *)
LEMMA StampIs ==
  ASSUME Phases, NEW i \in Ino
  PROVE  /\ Seen(i) \in Stamps /\ Seen(i) # None
         /\ Seen(i).ino = i /\ Seen(i).dir = IsDir(i) /\ Seen(i).ver = 0
<1>1. ver[i] = 0 /\ IsDir(i) \in BOOLEAN
  BY DEF Phases, IsDir
<1>2. /\ Seen(i).ino = i /\ Seen(i).dir = IsDir(i) /\ Seen(i).ver = 0
      /\ Seen(i) \in Stamps
  BY <1>1 DEF Seen, Stamps
<1> QED
  BY <1>2, NoneAssumption

(* What is seen at one more path is so, and nothing else changes.          *)
LEMMA SeenMore ==
  ASSUME Typed, Walked, Phases, UNCHANGED start, NEW p \in Path, NEW i \in Ino,
         pre' = [pre EXCEPT ![p] = Seen(i)],
         p = <<>> => i = start.ent[Parent][Arg],
         p # <<>> => /\ Front(p) \in Path /\ pre[Front(p)] # None /\ pre[Front(p)].dir
                     /\ i = start.ent[pre[Front(p)].ino][Last(p)],
         ~problem' => /\ ~problem /\ ~Shut(i)
                      /\ p = <<>> => ~TopFlagged(i)
                      /\ p # <<>> => ~Flagged(pre[Front(p)].ino, i)
  PROVE  /\ Walked' /\ pre'[p] # None /\ pre'[p].ino = i /\ (pre'[p].dir <=> IsDir(i))
         /\ \A q \in Path : (pre[q] # None => pre'[q] = pre[q]) /\ (q # p => pre'[q] = pre[q])
<1>1. /\ pre'[p] = Seen(i) /\ \A q \in Path : q # p => pre'[q] = pre[q]
      /\ Seen(i) \in Stamps /\ Seen(i) # None
      /\ Seen(i).ino = i /\ Seen(i).dir = IsDir(i) /\ Seen(i).ver = 0
  BY StampIs DEF Typed
<1>2. ASSUME pre[p] # None PROVE pre[p] = Seen(i)
  <2>1. SeenAt(p)
    BY <1>2 DEF Walked
  <2>2. pre[p] \in Stamps /\ pre[p].ino = i /\ pre[p].ver = 0 /\ (pre[p].dir <=> IsDir(i))
    BY <2>1 DEF SeenAt
  <2>3. IsDir(i) \in BOOLEAN
    BY DEF IsDir
  <2> QED
    BY <1>1, <2>2, <2>3 DEF Stamps
<1>3. \A q \in Path : (pre[q] # None => pre'[q] = pre[q]) /\ (q # p => pre'[q] = pre[q])
  BY <1>1, <1>2
<1>4. ASSUME NEW q \in Path, pre'[q] # None PROVE SeenAt(q)'
  <2>1. CASE q = p
    <3>1. p # <<>> => pre'[Front(p)] = pre[Front(p)]
      BY <1>3
    <3> QED
      BY <1>1, <2>1, <3>1, SameTree DEF SeenAt
  <2>2. CASE q # p
    <3>1. SeenAt(q) /\ pre'[q] = pre[q]
      BY <1>1, <1>4, <2>2 DEF Walked
    <3>2. q # <<>> => pre'[Front(q)] = pre[Front(q)]
      BY <1>3, <3>1 DEF SeenAt
    <3> QED
      BY <3>1, <3>2, SameTree DEF SeenAt
  <2> QED
    BY <2>1, <2>2
<1>5. ASSUME NEW q \in Path, pre'[q] # None, ~problem' PROVE FreeAt(q)'
  <2>1. CASE q = p
    <3>1. p # <<>> => pre'[Front(p)] = pre[Front(p)]
      BY <1>3
    <3> QED
      BY <1>1, <1>5, <2>1, <3>1, SameTree DEF FreeAt
  <2>2. CASE q # p
    <3>1. SeenAt(q) /\ FreeAt(q) /\ pre'[q] = pre[q]
      BY <1>1, <1>5, <2>2 DEF Walked
    <3>2. q # <<>> => pre'[Front(q)] = pre[Front(q)]
      BY <1>3, <3>1 DEF SeenAt
    <3> QED
      BY <3>1, <3>2, SameTree DEF FreeAt
  <2> QED
    BY <2>1, <2>2
<1>6. Walked'
  BY <1>4, <1>5 DEF Walked
<1> QED
  BY <1>1, <1>3, <1>6

(* The walk sees the argument, and enters it if it is a directory.         *)
LEMMA WalkTopClean ==
  ASSUME Basic, Clean, Untouched, WalkTop
  PROVE  Clean'
<1> DEFINE i == ent[Parent][Arg]
<1>0. /\ pc = "top" /\ UNCHANGED <<start, ent, ver, copy, trash, gone, kept>>
      /\ Typed /\ TreeOK /\ Parent \in Ino /\ Arg \in Name /\ <<>> \in Path
      /\ Walked /\ Phases /\ ent = start.ent
  BY NoneAssumption, PathAssumption
  DEF WalkTop, Basic, IInv, Clean, Phases, fs, others, copied, trashed, removal
<1>1. CASE i = None
  <2>1. pc' = "end" /\ UNCHANGED <<pre, problem, stack>>
    BY <1>1 DEF WalkTop, Goto, End, walked
  <2>2. Walked'
    BY <1>0, <2>1, SameTree DEF Walked, SeenAt, FreeAt
  <2>3. Whole'
    BY <1>0, <2>1 DEF Whole, Phases
  <2> QED
    BY <1>0, <2>1, <2>2, <2>3
    DEF Clean, Framed, Phases, Copied, Removing, Ended, AfterWalk
<1>2. CASE i # None
  <2>1. /\ pc' = "walk" /\ pre' = [pre EXCEPT ![<<>>] = Seen(i)]
        /\ problem' = (TopFlagged(i) \/ Shut(i)) /\ stack' = Opened(i, <<>>)
    BY <1>2 DEF WalkTop, Goto, End
  <2>2. i \in Ino
    BY <1>0, <1>2, EntryIs
  <2>3. ~problem /\ \A p \in Path : pre[p] = None
    BY <1>0 DEF Phases
  <2>4. /\ Walked' /\ pre'[<<>>] # None /\ pre'[<<>>].ino = i /\ (pre'[<<>>].dir <=> IsDir(i))
        /\ \A q \in Path : q # <<>> => pre'[q] = pre[q]
    BY <1>0, <2>1, <2>2, <2>3, SeenMore, ZenonT(40)
  <2>5. ASSUME ~problem', NEW q \in Path, NEW n \in Name, pre'[q] # None, pre'[q].dir,
               start.ent[pre'[q].ino][n] # None
        PROVE  Awaited(q, n)'
    <3>1. q = <<>> /\ IsDir(i) /\ ~Shut(i)
      BY <2>1, <2>3, <2>4, <2>5
    <3>2. stack' = <<Frame(i, <<>>)>>
      BY <2>1, <3>1 DEF Opened
    <3>3. Frame(i, <<>>).rel = <<>> /\ n \in Frame(i, <<>>).todo
      BY <1>0, <2>4, <2>5, <3>1 DEF Frame
    <3>4. 1 \in DOMAIN stack' /\ stack'[1] = Frame(i, <<>>)
      BY <3>2, SMTT(30)
    <3> QED
      BY <2>1, <3>1, <3>3, <3>4 DEF Awaited
  <2>6. Whole'
    BY <1>0, <2>1, <2>4, <2>5 DEF Whole
  <2>7. Framed'
    <3>1. ASSUME NEW k \in DOMAIN stack' PROVE IsDir(i) /\ stack'[k] = Frame(i, <<>>)
      BY <2>1, <3>1 DEF Opened
    <3>2. Frame(i, <<>>).rel = <<>> /\ Frame(i, <<>>).dir = i
      BY DEF Frame
    <3>3. ASSUME NEW k \in DOMAIN stack'
          PROVE  /\ pre'[stack'[k].rel] # None /\ pre'[stack'[k].rel].dir
                 /\ stack'[k].dir = pre'[stack'[k].rel].ino
      BY <2>4, <3>1, <3>2
    <3> QED
      BY <3>3 DEF Framed
  <2> QED
    BY <1>0, <2>1, <2>4, <2>6, <2>7
    DEF Clean, Phases, Copied, Removing, Ended, AfterWalk
<1> QED
  BY <1>1, <1>2

(* It sees one more entry, and enters it if it is a directory it can read. *)
LEMMA WalkChildClean ==
  ASSUME Basic, Clean, Untouched, WalkChild
  PROVE  Clean'
<1>1. PICK n \in Head(stack).todo, p \in Path :
        /\ p = Append(Head(stack).rel, n)
        /\ LET f == Head(stack)
               i == ent[f.dir][n]
               rest == <<Without(f, n)>> \o Tail(stack) IN
           \/ i = None /\ stack' = rest /\ UNCHANGED walked
           \/ /\ i # None /\ pre' = [pre EXCEPT ![p] = Seen(i)]
              /\ problem' = (problem \/ Flagged(f.dir, i) \/ Shut(i))
              /\ stack' = Opened(i, p) \o rest
  BY ZenonT(40) DEF WalkChild
<1> DEFINE f == Head(stack)
           i == ent[f.dir][n]
           rest == <<Without(f, n)>> \o Tail(stack)
<1>2. /\ pc = "walk" /\ pc' = "walk" /\ stack # <<>>
      /\ UNCHANGED <<start, ent, ver, copy, trash, gone, kept>>
      /\ Typed /\ TreeOK /\ Walked /\ Whole /\ Phases /\ Framed /\ ent = start.ent
  BY DEF WalkChild, Basic, IInv, Clean, Phases, fs, others, copied, trashed, removal
<1>3. /\ f \in Frames /\ f = stack[1] /\ stack \in Seq(Frames) /\ Len(stack) \in Nat
      /\ Len(stack) > 0 /\ Without(f, n) \in Frames
      /\ Without(f, n).rel = f.rel /\ Without(f, n).dir = f.dir
      /\ Without(f, n).todo = f.todo \ {n}
  <2>1. f \in Frames /\ Without(f, n) \in Frames /\ stack \in Seq(Frames)
    BY <1>2, HeadIs, SMTT(30) DEF Typed
  <2> QED
    BY <1>2, <2>1, Stacks DEF Without, Frames
<1>4. /\ n \in Name /\ f.dir \in Ino /\ f.rel \in Path /\ f.rel \in Seq(Name)
      /\ pre[f.rel] # None /\ pre[f.rel].dir /\ f.dir = pre[f.rel].ino
  <2>1. f.todo \subseteq Name /\ f.dir \in Ino /\ f.rel \in Path
    BY <1>3 DEF Frames
  <2>2. 1 \in DOMAIN stack
    BY <1>3
  <2>3. pre[f.rel] # None /\ pre[f.rel].dir /\ f.dir = pre[f.rel].ino
    BY <1>2, <1>3, <2>2, SMTT(30) DEF Framed
  <2> QED
    BY <1>1, <2>1, <2>3, PathAssumption
<1>5. p # <<>> /\ Front(p) = f.rel /\ Last(p) = n
  BY <1>1, <1>4, PathEnds
<1>6. /\ rest \in Seq(Frames) /\ Len(rest) = Len(stack) /\ rest[1] = Without(f, n)
      /\ \A k \in 2..Len(stack) : rest[k] = stack[k]
  BY <1>2, <1>3, Stacks
<1>7. /\ DOMAIN rest = DOMAIN stack
      /\ \A k \in DOMAIN rest : rest[k].rel = stack[k].rel /\ rest[k].dir = stack[k].dir
      /\ \A k \in DOMAIN stack : \A m \in stack[k].todo : m \in rest[k].todo \/ (k = 1 /\ m = n)
  <2>1. DOMAIN rest = 1..Len(stack) /\ DOMAIN stack = 1..Len(stack)
    BY <1>3, <1>6
  <2>2. ASSUME NEW k \in 1..Len(stack)
        PROVE  /\ rest[k].rel = stack[k].rel /\ rest[k].dir = stack[k].dir
               /\ \A m \in stack[k].todo : m \in rest[k].todo \/ (k = 1 /\ m = n)
    <3>1. k = 1 \/ k \in 2..Len(stack)
      BY <1>3
    <3> QED
      BY <1>3, <1>6, <3>1
  <2> QED
    BY <2>1, <2>2
<1> HIDE DEF rest
<1>8. Phases' /\ Copied' /\ Removing' /\ Ended'
  BY <1>2 DEF Phases, Copied, Removing, Ended, AfterWalk
<1>9. CASE i = None
  <2>1. stack' = rest /\ UNCHANGED <<pre, problem>>
    BY <1>1, <1>9 DEF walked, rest
  <2>2. Walked'
    BY <1>2, <2>1, SameTree DEF Walked, SeenAt, FreeAt
  <2>3. Framed'
    BY <1>2, <1>7, <2>1 DEF Framed
  <2>4. ASSUME NEW q \in Path, NEW m \in Name, start.ent[pre[q].ino][m] # None, Awaited(q, m)
        PROVE  Awaited(q, m)'
    <3>1. PICK k \in DOMAIN stack : stack[k].rel = q /\ m \in stack[k].todo
      BY <2>4 DEF Awaited
    <3>2. ~(k = 1 /\ m = n)
      BY <1>2, <1>3, <1>4, <1>9, <2>4, <3>1
    <3> QED
      BY <1>2, <1>7, <2>1, <3>1, <3>2 DEF Awaited
  <2>5. Whole'
    BY <1>2, <2>1, <2>4 DEF Whole
  <2> QED
    BY <1>8, <2>2, <2>3, <2>5 DEF Clean
<1>10. CASE i # None
  <2>1. /\ pre' = [pre EXCEPT ![p] = Seen(i)]
        /\ problem' = (problem \/ Flagged(f.dir, i) \/ Shut(i))
        /\ stack' = Opened(i, p) \o rest
    BY <1>1, <1>10 DEF rest
  <2>2. i \in Ino
    BY <1>2, <1>4, <1>10, EntryIs, SMTT(30)
  <2>3. /\ Walked' /\ pre'[p] # None /\ pre'[p].ino = i /\ (pre'[p].dir <=> IsDir(i))
        /\ \A q \in Path : (pre[q] # None => pre'[q] = pre[q]) /\ (q # p => pre'[q] = pre[q])
    <3>1. /\ p \in Path /\ p # <<>> /\ Front(p) \in Path /\ pre[Front(p)] # None
          /\ pre[Front(p)].dir /\ i = start.ent[pre[Front(p)].ino][Last(p)]
      BY <1>1, <1>2, <1>4, <1>5
    <3>2. ~problem' => ~problem /\ ~Shut(i) /\ ~Flagged(pre[Front(p)].ino, i)
      BY <1>4, <1>5, <2>1
    <3> HIDE DEF i
    <3> QED
      BY <1>2, <2>1, <2>2, <3>1, <3>2, SeenMore, ZenonT(40)
  <2> DEFINE opens == IsDir(i) /\ ~Shut(i)
             o == IF opens THEN 1 ELSE 0
  <2>4. Frame(i, p) \in Frames /\ Frame(i, p).rel = p /\ Frame(i, p).dir = i
        /\ Frame(i, p).todo = {m \in Name : ent[i][m] # None}
    BY <2>2, FrameIs DEF Frame
  <2>5. /\ opens => stack'[1] = Frame(i, p)
        /\ Len(stack') = Len(stack) + o /\ DOMAIN stack' = 1..(Len(stack) + o)
        /\ \A k \in 1..Len(stack) : stack'[k + o] = rest[k]
    <3>1. CASE opens
      <4>1. stack' = <<Frame(i, p)>> \o rest
        BY <2>1, <3>1 DEF Opened
      <4> QED
        BY <1>3, <1>6, <2>4, <3>1, <4>1
    <3>2. CASE ~opens
      <4>1. stack' = <<>> \o rest
        BY <2>1, <3>2 DEF Opened
      <4>2. stack' = rest
        BY <1>6, <4>1
      <4> QED
        BY <1>3, <1>6, <3>2, <4>2, SMTT(30)
    <3> QED
      BY <3>1, <3>2, SMTT(30)
  <2>6. Framed'
    <3>1. ASSUME NEW k \in DOMAIN stack'
          PROVE  /\ pre'[stack'[k].rel] # None /\ pre'[stack'[k].rel].dir
                 /\ stack'[k].dir = pre'[stack'[k].rel].ino
      <4>1. CASE opens /\ k = 1
        BY <2>3, <2>4, <2>5, <4>1, SMTT(30)
      <4>2. CASE ~(opens /\ k = 1)
        <5>1. k - o \in 1..Len(stack) /\ (k - o) + o = k
          BY <1>3, <2>5, <4>2, SMTT(30)
        <5>2. stack'[k] = rest[k - o] /\ rest[k - o].rel = stack[k - o].rel
              /\ rest[k - o].dir = stack[k - o].dir /\ k - o \in DOMAIN stack
          BY <1>3, <1>7, <2>5, <5>1, SMTT(30)
        <5>3. /\ stack[k - o].rel \in Path /\ pre[stack[k - o].rel] # None
              /\ pre[stack[k - o].rel].dir /\ stack[k - o].dir = pre[stack[k - o].rel].ino
          <6>1. stack[k - o] \in Frames
            BY <1>3, <5>1
          <6> QED
            BY <1>2, <5>2, <6>1 DEF Framed, Frames
        <5> QED
          BY <2>3, <5>2, <5>3
      <4> QED
        BY <4>1, <4>2, SMTT(30)
    <3> QED
      BY <3>1 DEF Framed
  <2>7. ASSUME ~problem', NEW q \in Path, NEW m \in Name, pre'[q] # None, pre'[q].dir,
               start.ent[pre'[q].ino][m] # None,
               ~(Append(q, m) \in Path /\ pre'[Append(q, m)] # None)
        PROVE  Awaited(q, m)'
    <3>1. CASE q = p
      <4>1. opens /\ m \in Frame(i, p).todo
        BY <1>2, <2>1, <2>3, <2>4, <2>7, <3>1, ZenonT(40)
      <4>2. 1 \in DOMAIN stack' /\ stack'[1] = Frame(i, p)
        BY <1>3, <2>5, <4>1
      <4> QED
        BY <1>2, <2>4, <3>1, <4>1, <4>2, ZenonT(40) DEF Awaited
    <3>2. CASE q # p
      <4>1. pre'[q] = pre[q] /\ ~problem
        BY <2>1, <2>3, <2>7, <3>2
      <4>2. Awaited(q, m)
        BY <1>2, <2>3, <2>7, <4>1 DEF Whole
      <4>3. PICK k \in DOMAIN stack : stack[k].rel = q /\ m \in stack[k].todo
        BY <4>2, SMTT(30) DEF Awaited
      <4>4. ~(k = 1 /\ m = n)
        BY <1>1, <1>3, <2>3, <2>7, <4>3
      <4>5. rest[k].rel = q /\ m \in rest[k].todo /\ k \in 1..Len(stack)
        BY <1>3, <1>7, <4>3, <4>4
      <4>6. k + o \in DOMAIN stack' /\ stack'[k + o] = rest[k]
        BY <1>3, <2>5, <4>5
      <4> QED
        BY <1>2, <4>5, <4>6 DEF Awaited
    <3> QED
      BY <3>1, <3>2, SMTT(30)
  <2>8. Whole'
    <3>1. ~problem' => pre'[<<>>] # None
      BY <1>2, <2>1, <2>3, PathAssumption DEF Whole
    <3> QED
      BY <1>2, <2>7, <3>1, SMTT(30) DEF Whole
  <2> QED
    BY <1>8, <2>3, <2>6, <2>8, SMTT(30) DEF Clean
<1> QED
  BY <1>9, <1>10, SMTT(30)

(* A directory with no name left is closed.                                *)
LEMMA WalkPopClean ==
  ASSUME Basic, Clean, WalkPop
  PROVE  Clean'
<1>1. /\ pc = "walk" /\ pc' = "walk" /\ stack # <<>> /\ Head(stack).todo = {}
      /\ stack' = Tail(stack) /\ stack \in Seq(Frames)
      /\ UNCHANGED <<start, ent, ver, pre, problem, copy, trash, gone, kept>>
  BY DEF WalkPop, Basic, Typed, fs, others, walked, copied, trashed, removal
<1>2. /\ DOMAIN stack = 1..Len(stack) /\ DOMAIN stack' = 1..(Len(stack) - 1)
      /\ Len(stack) \in Nat /\ stack[1].todo = {}
      /\ \A k \in 1..(Len(stack) - 1) : stack'[k] = stack[k + 1] /\ k + 1 \in DOMAIN stack
  BY <1>1
<1>3. ASSUME NEW q \in Path, NEW m \in Name, Awaited(q, m) PROVE Awaited(q, m)'
  <2>1. PICK k \in DOMAIN stack : stack[k].rel = q /\ m \in stack[k].todo
    BY <1>3 DEF Awaited
  <2>2. k - 1 \in DOMAIN stack' /\ stack'[k - 1] = stack[k]
    <3>1. k # 1
      BY <1>2, <2>1
    <3>2. k - 1 \in 1..(Len(stack) - 1) /\ (k - 1) + 1 = k
      BY <1>2, <3>1
    <3> QED
      BY <1>2, <3>2
  <2> QED
    BY <1>1, <2>1, <2>2 DEF Awaited
<1>4. Whole'
  BY <1>1, <1>3 DEF Clean, Whole
<1>5. Framed'
  BY <1>1, <1>2 DEF Clean, Framed
<1>6. Walked'
  BY <1>1, SameTree DEF Clean, Walked, SeenAt, FreeAt
<1> QED
  BY <1>1, <1>4, <1>5, <1>6 DEF Clean, Phases, Copied, Removing, Ended, AfterWalk

-----------------------------------------------------------------------------
(* The copy.                                                               *)

(* The walk's findings and the source stay as they are.                    *)
LEMMA SeenStays ==
  ASSUME UNCHANGED <<start, pre, problem>>
  PROVE  Walked => Walked'
BY SameTree DEF Walked, SeenAt, FreeAt

(* And all that it found is still all there is.                            *)
LEMMA WholeStays ==
  ASSUME UNCHANGED <<start, pre, problem, stack>>, pc' = pc \/ (pc = "walk" => stack = <<>>),
         pc # "end", pc' # "top", pc = "top" => pc' = "end"
  PROVE  Whole => Whole'
<1>1. ASSUME NEW q, NEW n, Awaited(q, n), pc' # pc PROVE FALSE
  BY <1>1 DEF Awaited
<1>2. ASSUME NEW q, NEW n, Awaited(q, n), pc' = pc PROVE Awaited(q, n)'
  BY <1>2 DEF Awaited
<1> QED
  BY <1>1, <1>2 DEF Whole

(* cp starts at the argument, which the walk saw.                          *)
LEMMA StartCopyClean ==
  ASSUME Basic, Clean, StartCopy
  PROVE  Clean'
<1>1. /\ pc = "walk" /\ pc' = "cp" /\ stack = <<>> /\ ~problem
      /\ todo' = {[dir |-> Parent, name |-> Arg, rel |-> <<>>]}
      /\ UNCHANGED <<start, ent, ver, pre, problem, stack, copy, gone, kept>>
  BY DEF StartCopy, Goto, fs, others, walked, removal
<1>2. Walked' /\ Whole'
  BY <1>1, SeenStays, WholeStays DEF Clean
<1>3. pre[<<>>] # None /\ <<>> \in Path /\ pre[<<>>].ino = start.ent[Parent][Arg]
  BY <1>1, PathAssumption DEF Clean, Walked, SeenAt, Whole
<1>4. Copied'
  <2>1. \A p \in Path : copy'[p] = None
    BY <1>1 DEF Clean, Phases
  <2>2. \A p \in Path : pre[p] # None /\ p # <<>> => Front(p) \in Path
    BY DEF Clean, Walked, SeenAt
  <2>3. \A t \in todo' : t.rel = <<>> /\ t.dir = Parent /\ t.name = Arg
    BY <1>1
  <2>4. \E t \in todo' : t.rel = <<>>
    BY <1>1
  <2> QED
    BY <1>1, <1>3, <2>1, <2>2, <2>3, <2>4 DEF Copied
<1>5. Phases'
  BY <1>1 DEF Clean, Phases, AfterWalk
<1> QED
  BY <1>1, <1>2, <1>4, <1>5 DEF Clean, Framed, Removing, Ended

(* What cp makes of an entry has its stamp.                                *)
LEMMA CpEntryClean ==
  ASSUME Basic, Clean, Untouched, CpEntry
  PROVE  Clean'
<1>1. /\ pc = "cp" /\ pc' = "cp"
      /\ UNCHANGED <<start, ent, ver, pre, problem, stack, trash, gone, kept>>
  BY SMTT(30) DEF CpEntry, fs, others, walked, trashed, removal
<1>2. /\ Walked /\ Phases /\ Copied /\ Whole /\ ~problem /\ ent = start.ent /\ TreeOK
      /\ CopyOK /\ Typed
  BY <1>1, SMTT(30) DEF Clean, Phases, AfterWalk, Basic, IInv
<1>3. PICK t \in todo :
        LET i == ent[t.dir][t.name] IN
        /\ i # None
        /\ \/ /\ IsDir(i)
              /\ copy' = [copy EXCEPT ![t.rel] = [ino |-> i, dir |-> TRUE, ver |-> 0, data |-> 0]]
              /\ todo' = (todo \ {t}) \cup
                   {[dir |-> i, name |-> n, rel |-> Append(t.rel, n)] :
                      n \in {m \in Name : ent[i][m] # None}}
           \/ /\ ~IsDir(i)
              /\ copy' = [copy EXCEPT ![t.rel] =
                            [ino |-> i, dir |-> FALSE, ver |-> ver[i], data |-> ver[i]]]
              /\ todo' = todo \ {t}
           \/ \E q \in Path :
                /\ ~IsDir(i) /\ copy[q] # None /\ copy[q].ino = i
                /\ copy' = [copy EXCEPT ![t.rel] = copy[q]]
                /\ todo' = todo \ {t}
  BY ZenonT(40) DEF CpEntry
<1> DEFINE i == ent[t.dir][t.name]
           r == t.rel
<1>4. /\ r \in Path /\ pre[r] # None /\ pre[r].ino = i /\ i \in Ino /\ ver[i] = 0
      /\ r \in Seq(Name)
  <2>1. t.dir \in Ino /\ t.name \in Name
    BY <1>2, SMTT(30) DEF TreeOK
  <2>2. i \in Ino
    BY <1>2, <1>3, <2>1, EntryIs
  <2> QED
    BY <1>1, <1>2, <2>2, PathAssumption DEF Copied, Phases, AfterWalk
<1>5. SeenAt(r)
  BY <1>2, <1>4 DEF Walked
<1>6. pre[r] = [ino |-> i, dir |-> IsDir(i), ver |-> 0] /\ IsDir(i) \in BOOLEAN
  <2>1. pre[r] \in Stamps /\ pre[r].ver = 0 /\ (pre[r].dir <=> IsDir(i)) /\ pre[r].ino = i
    BY <1>4, <1>5 DEF SeenAt
  <2>2. IsDir(i) \in BOOLEAN
    BY SMTT(30) DEF IsDir
  <2> QED
    BY <2>1, <2>2 DEF Stamps
<1> HIDE DEF i, r
<1>7. PICK c : copy' = [copy EXCEPT ![r] = c] /\ c # None /\ Stamp(c) = pre[r]
  <2>1. ASSUME NEW c \in Copies PROVE c # None
    BY NoneAssumption
  <2>2. CASE IsDir(i) /\ copy' = [copy EXCEPT ![r] = [ino |-> i, dir |-> TRUE, ver |-> 0, data |-> 0]]
    <3>1. [ino |-> i, dir |-> TRUE, ver |-> 0, data |-> 0] \in Copies
      BY <1>4 DEF Copies
    <3>2. Stamp([ino |-> i, dir |-> TRUE, ver |-> 0, data |-> 0]) = pre[r]
      BY <1>6, <2>2 DEF Stamp
    <3> QED
      BY <2>1, <2>2, <3>1, <3>2
  <2>3. CASE ~IsDir(i) /\ copy' = [copy EXCEPT ![r] =
                            [ino |-> i, dir |-> FALSE, ver |-> ver[i], data |-> ver[i]]]
    <3>1. [ino |-> i, dir |-> FALSE, ver |-> ver[i], data |-> ver[i]] \in Copies
      BY <1>4 DEF Copies
    <3>2. Stamp([ino |-> i, dir |-> FALSE, ver |-> ver[i], data |-> ver[i]]) = pre[r]
      BY <1>4, <1>6, <2>3 DEF Stamp
    <3> QED
      BY <2>1, <2>3, <3>1, <3>2
  <2>4. ASSUME NEW q \in Path, ~IsDir(i), copy[q] # None, copy[q].ino = i
        PROVE  Stamp(copy[q]) = pre[r]
    <3>1. Stamp(copy[q]) = pre[q] /\ pre[q] # None /\ SeenAt(q)
      BY <1>1, <1>2, <2>4 DEF Copied, AfterWalk, Walked
    <3>2. pre[q] \in Stamps /\ pre[q].ver = 0 /\ (pre[q].dir <=> IsDir(pre[q].ino))
      BY <3>1 DEF SeenAt
    <3>3. pre[q].ino = i
      BY <2>4, <3>1 DEF Stamp
    <3> QED
      BY <1>6, <2>4, <3>1, <3>2, <3>3 DEF Stamps
  <2> QED
    BY <1>3, <2>2, <2>3, <2>4 DEF i, r
<1>8. \A p \in Path : copy'[p] = IF p = r THEN c ELSE copy[p]
  BY <1>2, <1>7 DEF CopyOK
<1>9. \A p \in Path : copy'[p] # None => pre'[p] # None /\ Stamp(copy'[p]) = pre'[p]
  BY <1>1, <1>2, <1>4, <1>7, <1>8, SMTT(30) DEF Copied, AfterWalk
<1> DEFINE children == {[dir |-> i, name |-> n, rel |-> Append(r, n)] :
                          n \in {m \in Name : ent[i][m] # None}}
<1>10. todo \ {t} \subseteq todo' /\ todo' \subseteq (todo \ {t}) \cup children
       /\ (IsDir(i) => children \subseteq todo')
  BY <1>3 DEF i, r
<1>11. ASSUME NEW n \in Name, IsDir(i), start.ent[i][n] # None
       PROVE  Append(r, n) \in Path /\ pre[Append(r, n)] # None
              /\ pre[Append(r, n)].ino = start.ent[i][n]
  <2>1. pre[r].dir /\ pre[r].ino = i /\ pre[r] # None
    BY <1>4, <1>6, <1>11
  <2>2. ~Awaited(r, n)
    BY <1>1 DEF Awaited
  <2>3. Append(r, n) \in Path /\ pre[Append(r, n)] # None
    BY <1>2, <1>4, <1>11, <2>1, <2>2 DEF Whole
  <2>4. SeenAt(Append(r, n))
    BY <1>2, <2>3 DEF Walked
  <2> QED
    BY <1>4, <2>1, <2>3, <2>4, PathEnds DEF SeenAt
<1>12. ASSUME NEW u \in todo'
       PROVE  u.rel \in Path /\ pre[u.rel] # None /\ pre[u.rel].ino = start.ent[u.dir][u.name]
  <2>1. CASE u \in todo
    BY <1>1, <1>2, <2>1 DEF Copied, AfterWalk
  <2>2. CASE u \in children /\ IsDir(i)
    <3>1. PICK n \in Name : /\ u = [dir |-> i, name |-> n, rel |-> Append(r, n)]
                             /\ ent[i][n] # None
      BY <2>2
    <3>2. u.dir = i /\ u.name = n /\ u.rel = Append(r, n)
      BY <3>1, SMTT(30)
    <3> QED
      BY <1>2, <1>11, <2>2, <3>1, <3>2
  <2>3. u \in children => IsDir(i) \/ u \in todo
    BY <1>3 DEF i, r
  <2> QED
    BY <1>10, <2>1, <2>2, <2>3
<1>13. ASSUME NEW p \in Path, pre[p] # None, p # <<>> => copy'[Front(p)] # None, copy'[p] = None
       PROVE  \E u \in todo' : u.rel = p
  <2>1. p # r /\ copy[p] = None
    BY <1>7, <1>8, <1>13
  <2>2. CASE p # <<>> /\ Front(p) = r
    <3>1. SeenAt(p)
      BY <1>2, <1>13 DEF Walked
    <3>2. pre[r].dir /\ pre[p].ino = start.ent[pre[r].ino][Last(p)] /\ pre[p].ino \in Ino
      BY <2>2, <3>1 DEF SeenAt, Stamps
    <3>3. p \in Seq(Name) /\ Last(p) \in Name
      BY <2>2, PathAssumption, PathParts
    <3>4. Append(r, Last(p)) = p
      BY <2>2, <3>3, PathIs
    <3>5. IsDir(i) /\ ent[i][Last(p)] # None
      BY <1>2, <1>4, <1>6, <3>2, NoneAssumption
    <3>6. [dir |-> i, name |-> Last(p), rel |-> Append(r, Last(p))] \in children
      BY <3>3, <3>5
    <3>7. [dir |-> i, name |-> Last(p), rel |-> p] \in todo'
      BY <1>10, <3>4, <3>5, <3>6
    <3> QED
      BY <3>7
  <2>3. CASE p = <<>> \/ Front(p) # r
    <3>1. p # <<>> => Front(p) \in Path /\ copy[Front(p)] # None
      <4>1. SeenAt(p)
        BY <1>2, <1>13 DEF Walked
      <4> QED
        BY <1>8, <1>13, <2>3, <4>1 DEF SeenAt
    <3>2. PICK u \in todo : u.rel = p
      BY <1>1, <1>2, <1>13, <2>1, <3>1 DEF Copied, AfterWalk
    <3>3. u # t
      BY <2>1, <3>2 DEF r
    <3> QED
      BY <1>10, <3>2, <3>3
  <2> QED
    BY <2>2, <2>3
<1>14. Copied'
  BY <1>1, <1>9, <1>12, <1>13 DEF Copied
<1>15. Walked' /\ Whole'
  BY <1>1, <1>2, SeenStays, WholeStays
<1>16. Phases'
  BY <1>1, <1>2 DEF Phases, AfterWalk
<1> QED
  BY <1>1, <1>14, <1>15, <1>16, SMTT(30) DEF Clean, Framed, Removing, Ended

(* A file's bytes do not change the stamp that its copy has.               *)
LEMMA CpReadClean ==
  ASSUME Basic, Clean, CpRead
  PROVE  Clean'
<1>1. /\ pc = "cp" /\ pc' = "cp" /\ reading # None
      /\ copy' = [copy EXCEPT ![reading].data = ver[copy[reading].ino]]
      /\ UNCHANGED <<start, ent, ver, pre, problem, stack, todo, gone, kept>>
  BY DEF CpRead, fs, others, walked, removal
<1>2. /\ reading \in Path /\ copy[reading] \in Copies /\ DOMAIN copy = Path
      /\ Walked /\ Whole /\ Copied /\ Phases
  BY <1>1 DEF Basic, IInv, CopyOK, Faithful, Clean
<1> DEFINE c == [copy[reading] EXCEPT !.data = ver[copy[reading].ino]]
<1>3. copy[reading].ino \in Ino /\ ver[copy[reading].ino] = 0
  BY <1>2 DEF Copies, Phases
<1>4. c \in Copies /\ Stamp(c) = Stamp(copy[reading])
  BY <1>2, <1>3 DEF Copies, Stamp
<1>5. \A p \in Path : copy'[p] = IF p = reading THEN c ELSE copy[p]
  BY <1>1, <1>2
<1>6. c # None /\ copy[reading] # None
  BY <1>2, <1>4, NoneAssumption
<1> HIDE DEF c
<1>7. \A p \in Path : /\ copy'[p] # None <=> copy[p] # None
                      /\ copy[p] # None => Stamp(copy'[p]) = Stamp(copy[p])
  BY <1>4, <1>5, <1>6
<1>8. \A p \in Path : pre[p] # None /\ p # <<>> => Front(p) \in Path
  BY <1>2 DEF Walked, SeenAt
<1>9. Copied'
  <2>1. \A p \in Path : copy'[p] # None => pre'[p] # None /\ Stamp(copy'[p]) = pre'[p]
    BY <1>1, <1>2, <1>7 DEF Copied, AfterWalk
  <2>2. ASSUME NEW p \in Path, pre[p] # None, p # <<>> => copy'[Front(p)] # None, copy'[p] = None
        PROVE  \E t \in todo' : t.rel = p
    <3>1. p # <<>> => copy[Front(p)] # None
      BY <1>7, <1>8, <2>2
    <3>2. copy[p] = None
      BY <1>7, <2>2
    <3> QED
      BY <1>1, <1>2, <2>2, <3>1, <3>2 DEF Copied, AfterWalk
  <2> QED
    BY <1>1, <1>2, <2>1, <2>2 DEF Copied, AfterWalk
<1>10. Walked' /\ Whole'
  BY <1>1, <1>2, SeenStays, WholeStays
<1>11. Phases'
  BY <1>1, <1>2 DEF Phases, AfterWalk
<1> QED
  BY <1>1, <1>9, <1>10, <1>11 DEF Clean, Framed, Removing, Ended

(* The steps that only go on, or end before anything is removed.           *)
LEMMA GoesOnClean ==
  ASSUME Basic, Clean, Untouched', start' = start,
         \/ WalkProblem \/ Refuse \/ CopyFails \/ Verify \/ Publish \/ Sync \/ Kill
  PROVE  Clean'
<1>1. ~Kill
  BY DEF Kill, Untouched
<1>2. CASE WalkProblem
  <2>1. /\ pc = "walk" /\ pc' = "walk" /\ problem'
        /\ UNCHANGED <<start, ent, ver, pre, stack, todo, copy, trash, gone, kept>>
    BY <1>2 DEF WalkProblem, fs, others, copied, trashed, removal
  <2>2. Walked'
    BY <2>1, SameTree DEF Clean, Walked, SeenAt
  <2>3. Whole'
    BY <2>1 DEF Whole
  <2> QED
    BY <2>1, <2>2, <2>3 DEF Clean, Framed, Phases, Copied, Removing, Ended, AfterWalk
<1>3. CASE Refuse \/ CopyFails \/ Verify \/ Publish \/ Sync
  <2>1. /\ pc \in {"walk", "cp", "publish", "sync"} /\ pc' \in {"publish", "sync", "rmtop", "end"}
        /\ (pc = "walk" => stack = <<>> /\ pc' = "end")
        /\ (pc' = "end" => trash' = "none") /\ (pc = "cp" /\ pc' # "end" => todo = {})
        /\ UNCHANGED <<start, ent, ver, pre, problem, stack, todo, copy, gone, kept>>
    <3>1. CASE Refuse
      BY <3>1 DEF Refuse, Clean, Phases, End, fs, others, walked, copied, trashed, removal
    <3>2. CASE CopyFails \/ Verify
      BY <3>2 DEF CopyFails, Verify, Goto, End, fs, others, walked, copied, removal
    <3>3. CASE Publish \/ Sync
      BY <3>3 DEF Publish, Sync, Goto, End, Untouched, fs, others, walked, copied, removal
    <3> QED
      BY <1>3, <3>1, <3>2, <3>3
  <2>2. Walked' /\ Whole'
    BY <2>1, SeenStays, WholeStays DEF Clean
  <2>3. Phases'
    BY <2>1 DEF Clean, Phases, AfterWalk
  <2>4. Copied'
    BY <2>1 DEF Clean, Copied, AfterWalk
  <2>5. Ended'
    BY <2>1 DEF Clean, Phases, Ended
  <2> QED
    BY <2>1, <2>2, <2>3, <2>4, <2>5 DEF Clean, Framed, Removing
<1> QED
  BY <1>1, <1>2, <1>3

(* When cp is done, all that the walk saw is in the copy.                  *)
LEMMA AllCopied ==
  ASSUME Walked, Copied, pc \in AfterWalk, todo = {}
  PROVE  \A p \in Path : pre[p] # None => copy[p] # None
<1> SUFFICES ASSUME NEW x \in Path, pre[x] # None PROVE copy[x] # None
  OBVIOUS
<1> DEFINE G == {k \in Nat : \A p \in Path : Len(p) = k /\ pre[p] # None => copy[p] # None}
<1>1. ASSUME NEW p \in Path, pre[p] # None, p # <<>> => copy[Front(p)] # None
      PROVE  copy[p] # None
  BY <1>1 DEF Copied
<1>2. \A k : k \in G <=> k \in Nat /\ \A p \in Path : Len(p) = k /\ pre[p] # None => copy[p] # None
  OBVIOUS
<1> HIDE DEF G
<1>3. 0 \in G
  <2>1. ASSUME NEW p \in Path, Len(p) = 0, pre[p] # None PROVE copy[p] # None
    <3>1. p = <<>>
      BY <2>1, PathAssumption
    <3> QED
      BY <1>1, <2>1, <3>1
  <2> QED
    BY <1>2, <2>1
<1>4. Len(x) \in Nat
  BY PathAssumption
<1>5. ASSUME NEW k \in 1..Len(x), k - 1 \in G PROVE k \in G
  <2>1. ASSUME NEW p \in Path, Len(p) = k, pre[p] # None PROVE copy[p] # None
    <3>1. p # <<>>
      BY <1>4, <2>1
    <3>2. Front(p) \in Path /\ pre[Front(p)] # None
      BY <2>1, <3>1 DEF Walked, SeenAt
    <3>3. Len(Front(p)) = k - 1
      BY <2>1, <3>1, PathAssumption, PathParts
    <3>4. copy[Front(p)] # None
      BY <1>2, <1>5, <3>2, <3>3
    <3> QED
      BY <1>1, <2>1, <3>4
  <2> QED
    BY <1>2, <1>4, <2>1
<1>6. \A k \in 0..Len(x) : k \in G
  BY <1>3, <1>4, <1>5, UpTo
<1>7. Len(x) \in G
  BY <1>4, <1>6
<1> QED
  BY <1>2, <1>7

-----------------------------------------------------------------------------
(* The removal.  Nothing that is found keeps it from going.                *)
OwnerOf(p) == IF p = <<>> THEN Parent ELSE pre[Front(p)].ino

(* What the walk passed and cp copied can be unlinked, or entered.         *)
LEMMA Removable ==
  ASSUME Basic, Clean, pc \in {"rmtop", "rm"}, NEW p \in Path, pre[p] # None
  PROVE  LET i == pre[p].ino IN
         /\ MayUnlink(OwnerOf(p), i) /\ (pre[p].dir <=> IsDir(i))
         /\ ~IsDir(i) => Unchanged(p, i)
         /\ IsDir(i) => DirOK(p, i) /\ attr[i].open /\ ~attr[i].far
<1> DEFINE i == pre[p].ino
           d == OwnerOf(p)
<1>1. /\ Walked /\ Phases /\ Copied /\ Recorded /\ Typed /\ ~problem /\ todo = {}
      /\ \A q \in Path : pre[q] # None => SeenAt(q) /\ FreeAt(q)
  BY DEF Basic, IInv, Clean, Phases, Copied, AfterWalk, Walked
<1>2. SeenAt(p) /\ FreeAt(p)
  BY <1>1
<1>3. /\ pre[p] \in Stamps /\ i \in Ino /\ pre[p].ver = 0 /\ (pre[p].dir <=> IsDir(i))
      /\ ~Shut(i)
  BY <1>2 DEF SeenAt, FreeAt, Stamps
<1>4. /\ attr[d].open /\ ~attr[d].fixed /\ ~attr[i].fixed
      /\ attr[d].sticky => attr[d].mine \/ attr[i].mine
  <2>1. CASE p = <<>>
    BY <1>2, <2>1 DEF FreeAt, TopFlagged, Flagged, OwnerOf
  <2>2. CASE p # <<>>
    <3> DEFINE q == Front(p)
    <3>1. q \in Path /\ pre[q] # None /\ pre[q].dir /\ d = pre[q].ino /\ ~Flagged(d, i)
      BY <1>2, <2>2 DEF SeenAt, FreeAt, OwnerOf
    <3>2. SeenAt(q) /\ FreeAt(q)
      BY <1>1, <3>1
    <3>3. IsDir(d) /\ ~Shut(d)
      BY <3>1, <3>2 DEF SeenAt, FreeAt
    <3>4. ~attr[d].fixed
      BY <3>1, <3>2 DEF FreeAt, TopFlagged, Flagged
    <3> QED
      BY <3>1, <3>3, <3>4 DEF Shut, Flagged
  <2> QED
    BY <2>1, <2>2
<1>5. ~attr[i].far
  <2>1. attr[i].far => IsDir(i)
    BY <1>1, <1>3, TreesAssumption DEF Typed, attr, IsDir
  <2> QED
    BY <1>3, <2>1 DEF Shut
<1>6. MayUnlink(d, i)
  BY <1>4, <1>5 DEF MayUnlink
<1>7. Seen(i) = pre[p]
  <2>1. Seen(i) \in Stamps /\ Seen(i).ino = i /\ Seen(i).dir = IsDir(i) /\ Seen(i).ver = 0
    BY <1>1, <1>3, StampIs
  <2> QED
    BY <1>3, <2>1 DEF Stamps
<1>8. snap[p] = pre[p]
  <2>1. copy[p] # None
    BY <1>1, AllCopied DEF AfterWalk
  <2>2. snap[p] = Stamp(copy[p])
    BY <1>1, <2>1 DEF Recorded
  <2> QED
    BY <1>1, <2>1, <2>2 DEF Copied, AfterWalk
<1>9. Stamp(Seen(i)) = pre[p]
  <2>1. Stamp(pre[p]) = pre[p]
    BY <1>3 DEF Stamp, Stamps
  <2> QED
    BY <1>7, <2>1
<1> HIDE DEF i, d
<1>10. ~IsDir(i) => Unchanged(p, i)
  BY <1>7, <1>8, <1>9 DEF Unchanged
<1>11. IsDir(i) => DirOK(p, i) /\ attr[i].open /\ ~attr[i].far
  BY <1>3, <1>5, <1>7, <1>8 DEF DirOK, Shut
<1> QED
  BY <1>3, <1>6, <1>10, <1>11 DEF i, d

(* So an entry that is there goes, or is a directory and is entered.       *)
LEMMA GoesOrEntered ==
  ASSUME Basic, Clean, Untouched', pc \in {"rmtop", "rm"}, NEW n, NEW p \in Path,
         pre[p] # None, NEW rest, EnterOrUnlink(OwnerOf(p), n, p, rest),
         ent[OwnerOf(p)][n] \in {pre[p].ino, None}
  PROVE  /\ UNCHANGED kept /\ (gone => gone')
         /\ \/ ent[OwnerOf(p)][n] = None /\ stack' = rest /\ UNCHANGED ent
            \/ /\ ent[OwnerOf(p)][n] = pre[p].ino /\ ~pre[p].dir /\ stack' = rest /\ gone'
               /\ ent' = [ent EXCEPT ![OwnerOf(p)][n] = None]
            \/ /\ ent[OwnerOf(p)][n] = pre[p].ino /\ pre[p].dir /\ UNCHANGED ent
               /\ stack' = <<Frame(pre[p].ino, p)>> \o rest
<1> DEFINE d == OwnerOf(p)
           i == ent[d][n]
<1>1. i = None \/ i = pre[p].ino
  OBVIOUS
<1>2. CASE i = None
  BY <1>2 DEF EnterOrUnlink, removal
<1>3. CASE i # None
  <2>1. /\ i = pre[p].ino /\ MayUnlink(d, i) /\ (pre[p].dir <=> IsDir(i))
        /\ ~IsDir(i) => Unchanged(p, i)
        /\ IsDir(i) => DirOK(p, i) /\ attr[i].open /\ ~attr[i].far
    BY <1>1, <1>3, Removable
  <2>2. ~IsDir(i) \/ (DirOK(p, i) /\ ~Shut(i))
    BY <2>1 DEF Shut
  <2>3. ~fault'
    BY DEF Untouched
  <2>4. Unchanged(p, i) => ~IsDir(i)
    BY DEF Unchanged
  <2>5. DirOK(p, i) => IsDir(i)
    BY DEF DirOK
  <2> HIDE DEF d
  <2>6. EnterOrUnlink(d, n, p, rest)
    BY DEF d
  <2>7. \/ /\ Unchanged(p, i) /\ stack' = rest /\ gone' = TRUE /\ UNCHANGED kept
           /\ ent' = [ent EXCEPT ![d][n] = None]
        \/ /\ DirOK(p, i) /\ stack' = <<Frame(i, p)>> \o rest /\ UNCHANGED <<ent, gone, kept>>
    BY <1>3, <2>1, <2>2, <2>3, <2>6 DEF EnterOrUnlink, removal
  <2>8. CASE Unchanged(p, i) /\ stack' = rest /\ gone' = TRUE /\ UNCHANGED kept
             /\ ent' = [ent EXCEPT ![d][n] = None]
    BY <2>1, <2>4, <2>8 DEF d
  <2>9. CASE DirOK(p, i) /\ stack' = <<Frame(i, p)>> \o rest /\ UNCHANGED <<ent, gone, kept>>
    BY <2>1, <2>5, <2>9 DEF d
  <2> QED
    BY <2>7, <2>8, <2>9
<1> QED
  BY <1>2, <1>3

(* A step of the removal touches none of what the walk and cp left.        *)
LEMMA RemovalKeeps ==
  ASSUME Clean, UNCHANGED <<start, pre, problem, ver, todo, copy>>, pc \in {"rmtop", "rm"},
         pc' \in {"rm", "end"}
  PROVE  Walked' /\ Whole' /\ Phases' /\ Copied'
<1>1. Walked'
  BY SeenStays DEF Clean
<1>2. Whole'
  BY DEF Clean, Whole, Awaited
<1>3. Phases' /\ Copied'
  BY DEF Clean, Phases, Copied, AfterWalk
<1> QED
  BY <1>1, <1>2, <1>3

(* The argument goes, or is the first directory to be entered.             *)
LEMMA RmTopClean ==
  ASSUME Basic, Clean, Untouched', RmTop
  PROVE  Clean'
<1> DEFINE i == pre[<<>>].ino
<1>1. /\ pc = "rmtop" /\ pc' = "rm" /\ EnterOrUnlink(Parent, Arg, <<>>, <<>>)
      /\ UNCHANGED <<start, pre, problem, ver, todo, copy>>
  BY DEF RmTop, Goto, others, walked, copied
<1>2. /\ <<>> \in Path /\ Parent \in Ino /\ Arg \in Name /\ pre[<<>>] # None
      /\ Typed /\ Walked /\ ent = start.ent /\ kept = {}
  BY <1>1, NoneAssumption, PathAssumption DEF Basic, Clean, Whole, Phases, AfterWalk
<1>3. SeenAt(<<>>)
  BY <1>2 DEF Walked
<1>4. i \in Ino /\ i # None /\ ent[Parent][Arg] = i
  BY <1>2, <1>3, NoneAssumption DEF SeenAt, Stamps
<1>5. OwnerOf(<<>>) = Parent
  BY DEF OwnerOf
<1>6. /\ UNCHANGED kept
      /\ \/ /\ stack' = <<>> /\ gone' /\ ent' = [ent EXCEPT ![Parent][Arg] = None]
         \/ /\ pre[<<>>].dir /\ UNCHANGED ent /\ stack' = <<Frame(i, <<>>)>> \o <<>>
  <2> HIDE DEF i
  <2>1. EnterOrUnlink(OwnerOf(<<>>), Arg, <<>>, <<>>) /\ ent[OwnerOf(<<>>)][Arg] = i
    BY <1>1, <1>4, <1>5
  <2>2. ent[OwnerOf(<<>>)][Arg] \in {pre[<<>>].ino, None}
    BY <2>1, SMTT(30) DEF i
  <2>3. /\ UNCHANGED kept
        /\ \/ i = None /\ stack' = <<>> /\ UNCHANGED ent
           \/ stack' = <<>> /\ gone' /\ ent' = [ent EXCEPT ![Parent][Arg] = None]
           \/ pre[<<>>].dir /\ UNCHANGED ent /\ stack' = <<Frame(i, <<>>)>> \o <<>>
    BY <1>1, <1>2, <1>5, <2>1, <2>2, GoesOrEntered, ZenonT(40) DEF i, EnterOrUnlink
  <2> QED
    BY <1>4, <2>3
<1>7. Walked' /\ Whole' /\ Phases' /\ Copied'
  BY <1>1, RemovalKeeps
<1>8. ent \in [Ino -> [Name -> Ino \cup {None}]]
  BY DEF Basic, IInv, TreeOK
<1>9. CASE stack' = <<>> /\ gone' /\ ent' = [ent EXCEPT ![Parent][Arg] = None]
  <2>1. ent'[Parent][Arg] = None
    BY <1>2, <1>8, <1>9
  <2>2. \A d \in Ino, n \in Name : ent'[d][n] \in {start.ent[d][n], None}
    BY <1>2, <1>8, <1>9
  <2>3. Removing' /\ Framed'
    BY <1>1, <1>2, <1>6, <1>9, <2>1, <2>2 DEF Removing, Framed
  <2> QED
    BY <1>1, <1>7, <2>3 DEF Clean, Ended
<1>10. CASE pre[<<>>].dir /\ UNCHANGED ent /\ stack' = <<Frame(i, <<>>)>> \o <<>>
  <2> DEFINE f == Frame(i, <<>>)
  <2>1. f.rel = <<>> /\ f.dir = i /\ f.todo = {n \in Name : ent[i][n] # None}
    BY DEF Frame
  <2>2. f \in Frames
    BY <1>2, <1>4, FrameIs
  <2> HIDE DEF f
  <2>3. stack' = <<f>>
    BY <1>10, <2>2 DEF f
  <2>4. DOMAIN stack' = {1} /\ Len(stack') = 1 /\ stack'[1] = f /\ stack' # <<>>
    BY <2>3
  <2>5. Link(stack', ent', 1)
    BY <1>4, <1>10, <2>1, <2>4 DEF Link, Up, By
  <2>6. Removing'
    BY <1>1, <1>2, <1>6, <1>10, <2>4, <2>5 DEF Removing
  <2>7. Framed'
    BY <1>1, <1>2, <1>10, <2>1, <2>4 DEF Framed
  <2> QED
    BY <1>1, <1>7, <2>6, <2>7 DEF Clean, Ended
<1> QED
  BY <1>6, <1>9, <1>10

(* The stack while a tree is removed.                                      *)
LEMMA StackIs ==
  ASSUME Basic, Clean, pc = "rm", NEW k \in DOMAIN stack
  PROVE  /\ stack[k] \in Frames /\ stack[k].rel \in Path /\ stack[k].dir \in Ino
         /\ pre[stack[k].rel] # None /\ pre[stack[k].rel].dir
         /\ stack[k].dir = pre[stack[k].rel].ino /\ IsDir(stack[k].dir)
         /\ Link(stack, ent, k) /\ By(stack, k) \in Name /\ Up(stack, k) \in Ino
         /\ Up(stack, k) = OwnerOf(stack[k].rel) /\ stack[k].dir # None
         /\ DOMAIN stack = 1..Len(stack) /\ Len(stack) \in Nat
         /\ stack[k].rel # <<>> => k + 1 \in DOMAIN stack
<1>1. /\ stack \in Seq(Frames) /\ Walked /\ Parent \in Ino /\ Arg \in Name
      /\ DOMAIN stack = 1..Len(stack) /\ Len(stack) \in Nat
  BY NoneAssumption DEF Basic, Typed, Clean
<1>2. \A j \in DOMAIN stack : /\ stack[j] \in Frames /\ stack[j].rel \in Path
                              /\ stack[j].dir \in Ino /\ pre[stack[j].rel] # None
                              /\ pre[stack[j].rel].dir /\ Link(stack, ent, j)
                              /\ stack[j].dir = pre[stack[j].rel].ino
  <2>1. ASSUME NEW j \in DOMAIN stack PROVE stack[j] \in Frames
    BY <1>1, <2>1
  <2>2. ASSUME NEW j \in DOMAIN stack
        PROVE  /\ pre[stack[j].rel] # None /\ pre[stack[j].rel].dir
               /\ stack[j].dir = pre[stack[j].rel].ino /\ Link(stack, ent, j)
    BY DEF Clean, Framed, Removing
  <2> QED
    BY <2>1, <2>2 DEF Frames
<1>3. SeenAt(stack[k].rel)
  BY <1>1, <1>2 DEF Walked
<1>4. IsDir(stack[k].dir) /\ stack[k].dir # None
  BY <1>2, <1>3, NoneAssumption DEF SeenAt
<1>5. By(stack, k) \in Name
  BY <1>1, <1>2, PathAssumption, PathParts DEF By
<1>6. stack[k].rel # <<>> => k + 1 \in DOMAIN stack /\ k < Len(stack)
  BY <1>1, <1>2 DEF Link
<1>7. Up(stack, k) \in Ino /\ Up(stack, k) = OwnerOf(stack[k].rel)
  <2>1. CASE stack[k].rel = <<>>
    <3>1. k = Len(stack)
      BY <1>2, <2>1 DEF Link
    <3> QED
      BY <1>1, <2>1, <3>1 DEF Up, OwnerOf
  <2>2. CASE stack[k].rel # <<>>
    <3>1. Front(stack[k].rel) = stack[k + 1].rel /\ k # Len(stack)
      BY <1>1, <1>2, <1>6, <2>2 DEF Link
    <3> QED
      BY <1>2, <1>6, <2>2, <3>1 DEF Up, OwnerOf
  <2> QED
    BY <2>1, <2>2
<1> QED
  BY <1>1, <1>2, <1>4, <1>5, <1>6, <1>7

(* A directory whose names are done is empty, and goes.                    *)
LEMMA RmDirClean ==
  ASSUME Basic, Clean, RmDir
  PROVE  Clean'
<1> DEFINE f == stack[1]
           up == Up(stack, 1)
           n == By(stack, 1)
<1>1. /\ pc = "rm" /\ pc' = "rm" /\ stack # <<>> /\ Head(stack).todo = {}
      /\ stack' = Tail(stack) /\ UNCHANGED <<start, pre, problem, ver, todo, copy>>
  BY DEF RmDir, others, walked, copied
<1>2. /\ stack \in Seq(Frames) /\ Head(stack) = f /\ 1 \in DOMAIN stack
      /\ DOMAIN stack = 1..Len(stack) /\ Len(stack) \in Nat
      /\ DOMAIN stack' = 1..(Len(stack) - 1) /\ Len(stack') = Len(stack) - 1
      /\ \A k \in DOMAIN stack' : stack'[k] = stack[k + 1] /\ k + 1 \in DOMAIN stack
                                 /\ k \in DOMAIN stack
      /\ ent \in [Ino -> [Name -> Ino \cup {None}]]
  BY <1>1 DEF Basic, Typed, IInv, TreeOK
<1>3. /\ f.rel \in Path /\ f.dir \in Ino /\ pre[f.rel] # None /\ f.dir = pre[f.rel].ino
      /\ IsDir(f.dir) /\ Link(stack, ent, 1) /\ n \in Name /\ up \in Ino
      /\ up = OwnerOf(f.rel) /\ f.dir # None
  BY <1>1, <1>2, StackIs
<1>4. ent[up][n] = f.dir /\ Empty(f.dir)
  BY <1>1, <1>2, <1>3 DEF Link, Empty
<1>5. MayUnlink(up, f.dir)
  BY <1>1, <1>3, Removable
<1>6. ent' = [ent EXCEPT ![up][n] = None] /\ gone' /\ UNCHANGED kept
  <2>1. /\ up = IF Len(stack) = 1 THEN Parent ELSE stack[2].dir
        /\ n = IF Head(stack).rel = <<>> THEN Arg ELSE Last(Head(stack).rel)
    BY <1>2, SMTT(30) DEF Up, By
  <2> HIDE DEF up, n
  <2>2. LET i == ent[up][n]
            can == i # None /\ IsDir(i) /\ Empty(i) /\ MayUnlink(up, i) IN
        \/ can /\ ent' = [ent EXCEPT ![up][n] = None] /\ gone' = TRUE /\ UNCHANGED kept
        \/ i = None
        \/ i # None /\ ~can
    BY <2>1 DEF RmDir
  <2> QED
    BY <1>3, <1>4, <1>5, <2>2
<1>7. /\ ent'[up][n] = None
      /\ \A d \in Ino, m \in Name : ent'[d][m] = IF d = up /\ m = n THEN None ELSE ent[d][m]
  BY <1>2, <1>3, <1>6
<1> HIDE DEF up, n, f
<1>8. Walked' /\ Whole' /\ Phases' /\ Copied'
  BY <1>1, RemovalKeeps
<1>9. Framed'
  BY <1>1, <1>2 DEF Clean, Framed
<1>10. ASSUME NEW k \in DOMAIN stack' PROVE Link(stack', ent', k)
  <2>1. /\ k + 1 \in DOMAIN stack /\ k \in DOMAIN stack /\ stack'[k] = stack[k + 1]
        /\ k \in Nat /\ k > 0 /\ k < Len(stack)
    BY <1>2
  <2>2. /\ Link(stack, ent, k + 1) /\ stack[k + 1].dir \in Ino /\ By(stack, k + 1) \in Name
        /\ Up(stack, k + 1) \in Ino
    BY <1>1, <2>1, StackIs
  <2>3. /\ Link(stack, ent, k) /\ stack[k].dir # None /\ By(stack, k) \in Name
        /\ Up(stack, k) = stack[k + 1].dir
    BY <1>1, <1>2, <2>1, StackIs DEF Up
  <2>4. Up(stack', k) = Up(stack, k + 1) /\ By(stack', k) = By(stack, k + 1)
    <3>1. CASE k = Len(stack')
      BY <1>2, <2>1, <3>1 DEF Up, By
    <3>2. CASE k # Len(stack')
      <4>1. k + 1 \in DOMAIN stack' /\ stack'[k + 1] = stack[(k + 1) + 1]
        BY <1>2, <3>2
      <4> QED
        BY <1>2, <2>1, <3>2, <4>1 DEF Up, By
    <3> QED
      BY <3>1, <3>2
  <2>5. stack[k + 1].dir # f.dir
    <3>1. ent[stack[k + 1].dir][By(stack, k)] # None
      BY <2>3 DEF Link
    <3> QED
      BY <1>4, <2>3, <3>1 DEF Empty
  <2>6. ent'[Up(stack', k)][By(stack', k)] = stack'[k].dir
    <3>1. ent[Up(stack, k + 1)][By(stack, k + 1)] = stack[k + 1].dir
      BY <2>2 DEF Link
    <3> QED
      BY <1>4, <1>7, <2>1, <2>2, <2>4, <2>5, <3>1
  <2>7. ASSUME NEW m \in Name, ent'[stack'[k].dir][m] # None
        PROVE  m \in stack'[k].todo \/ (k > 1 /\ m = By(stack', k - 1))
    <3>1. ent[stack[k + 1].dir][m] # None /\ ~(stack[k + 1].dir = up /\ m = n)
      BY <1>7, <2>1, <2>2, <2>7
    <3>2. m \in stack[k + 1].todo \/ m = By(stack, k)
      <4>1. (k + 1) - 1 = k
        BY <2>1
      <4> QED
        BY <2>2, <3>1, <4>1 DEF Link
    <3>3. CASE m \in stack[k + 1].todo
      BY <2>1, <3>3
    <3>4. CASE m = By(stack, k)
      <4>1. k # 1
        BY <2>3, <3>1, <3>4 DEF up, n
      <4>2. k - 1 \in DOMAIN stack' /\ stack'[k - 1] = stack[k]
        <5>1. k - 1 \in 1..(Len(stack) - 1) /\ (k - 1) + 1 = k
          BY <1>2, <2>1, <4>1
        <5> QED
          BY <1>2, <5>1
      <4> QED
        BY <2>1, <3>4, <4>1, <4>2 DEF By
    <3> QED
      BY <3>2, <3>3, <3>4
  <2>8. /\ stack'[k].rel = <<>> <=> k = Len(stack')
        /\ k < Len(stack') => Front(stack'[k].rel) = stack'[k + 1].rel
    <3>1. k < Len(stack') => stack'[k + 1] = stack[(k + 1) + 1] /\ k + 1 < Len(stack)
      BY <1>2, <2>1
    <3>2. k + 1 = Len(stack) <=> k = Len(stack')
      BY <1>2, <2>1
    <3> QED
      BY <2>1, <2>2, <3>1, <3>2 DEF Link
  <2> QED
    BY <2>6, <2>7, <2>8 DEF Link
<1>11. stack' = <<>> => ent'[Parent][Arg] = None
  <2> SUFFICES ASSUME stack' = <<>> PROVE ent'[Parent][Arg] = None
    OBVIOUS
  <2>1. Len(stack) = 1
    <3>1. Len(stack') = 0
      OBVIOUS
    <3>2. Len(stack') = Len(stack) - 1 /\ Len(stack) \in Nat
      BY <1>2
    <3> QED
      BY <3>1, <3>2
  <2>2. up = Parent /\ n = Arg
    BY <1>3, <2>1 DEF up, n, f, Up, By, Link
  <2> QED
    BY <1>7, <2>2
<1>12. Removing'
  <2>1. kept = {} /\ \A d \in Ino, m \in Name : ent[d][m] \in {start.ent[d][m], None}
    BY <1>1 DEF Clean, Removing
  <2>2. \A d \in Ino, m \in Name : ent'[d][m] \in {start'.ent[d][m], None}
    BY <1>1, <1>7, <2>1
  <2> QED
    BY <1>6, <1>10, <1>11, <2>1, <2>2 DEF Removing
<1> QED
  BY <1>1, <1>8, <1>9, <1>12, SMTT(30) DEF Clean, Ended

(* When all is gone the put ends, with the copy in the trash.              *)
LEMMA SettleClean ==
  ASSUME Basic, Clean, Settle
  PROVE  Clean'
<1>1. /\ pc = "rm" /\ pc' = "end" /\ stack = <<>>
      /\ UNCHANGED <<start, pre, problem, ver, todo, copy, ent>>
  BY DEF Settle, End, fs, others, walked, copied
<1>2. gone /\ kept = {} /\ ent[Parent][Arg] = None /\ trash = "entry"
  BY <1>1 DEF Clean, Removing, Basic, IInv, Kept
<1>3. out' = "copied" /\ trash' = trash
  BY <1>2 DEF Settle, End
<1>4. Walked' /\ Whole' /\ Phases' /\ Copied'
  BY <1>1, RemovalKeeps
<1> QED
  BY <1>1, <1>2, <1>3, <1>4 DEF Clean, Framed, Removing, Ended

(* An entry of the directory on top of the stack.                          *)
LEMMA RmChildClean ==
  ASSUME Basic, Clean, Untouched', RmChild
  PROVE  Clean'
<1> DEFINE f == stack[1]
<1>1. PICK n \in f.todo, p \in Path :
        /\ p = Append(f.rel, n)
        /\ EnterOrUnlink(f.dir, n, p, <<Without(f, n)>> \o Tail(stack))
  <2>1. Head(stack) = f
    BY DEF RmChild, Basic, Typed
  <2> QED
    BY <2>1 DEF RmChild
<1> DEFINE i == ent[f.dir][n]
           rest == <<Without(f, n)>> \o Tail(stack)
<1>2. /\ pc = "rm" /\ pc' = "rm" /\ stack # <<>> /\ stack \in Seq(Frames)
      /\ UNCHANGED <<start, pre, problem, ver, todo, copy>>
      /\ Typed /\ Walked /\ Whole /\ Removing /\ TreeOK /\ ~problem
  BY DEF RmChild, Basic, Typed, IInv, Clean, Phases, AfterWalk, others, walked, copied
<1>3. /\ 1 \in DOMAIN stack /\ Len(stack) \in Nat /\ Len(stack) > 0
      /\ DOMAIN stack = 1..Len(stack)
  BY <1>2
<1>4. /\ f \in Frames /\ f.rel \in Path /\ f.dir \in Ino /\ pre[f.rel] # None /\ pre[f.rel].dir
      /\ f.dir = pre[f.rel].ino
  BY <1>2, <1>3, StackIs
<1>5. /\ n \in Name /\ f.rel \in Seq(Name) /\ p # <<>> /\ Front(p) = f.rel /\ Last(p) = n
      /\ OwnerOf(p) = f.dir
  <2>1. n \in Name /\ f.rel \in Seq(Name)
    BY <1>1, <1>4, PathAssumption DEF Frames
  <2> QED
    BY <1>1, <1>4, <2>1, PathEnds DEF OwnerOf
<1>6. /\ Without(f, n) \in Frames /\ Without(f, n).rel = f.rel
      /\ Without(f, n).dir = f.dir /\ Without(f, n).todo = f.todo \ {n}
  BY <1>4 DEF Without, Frames
<1>7. /\ rest \in Seq(Frames) /\ Len(rest) = Len(stack) /\ DOMAIN rest = DOMAIN stack
      /\ \A k \in DOMAIN stack : /\ rest[k].rel = stack[k].rel /\ rest[k].dir = stack[k].dir
                                 /\ k # 1 => rest[k] = stack[k]
      /\ rest[1].todo = f.todo \ {n}
  <2>1. /\ rest \in Seq(Frames) /\ Len(rest) = Len(stack) /\ rest[1] = Without(f, n)
        /\ \A k \in 2..Len(stack) : rest[k] = stack[k]
    BY <1>2, <1>6, Stacks
  <2> HIDE DEF rest
  <2>2. DOMAIN rest = 1..Len(stack)
    BY <2>1
  <2>3. ASSUME NEW k \in DOMAIN stack
        PROVE  rest[k].rel = stack[k].rel /\ rest[k].dir = stack[k].dir /\ (k # 1 => rest[k] = stack[k])
    <3>1. k = 1 \/ k \in 2..Len(stack)
      BY <1>3
    <3> QED
      BY <1>6, <2>1, <3>1
  <2> QED
    BY <1>3, <1>6, <2>1, <2>2, <2>3
<1>8. EnterOrUnlink(f.dir, n, p, rest)
  BY <1>1
<1> HIDE DEF rest, f, i
<1>9. Walked' /\ Whole' /\ Phases' /\ Copied'
  BY <1>2, RemovalKeeps
<1>10. \A d \in Ino, m \in Name : ent[d][m] \in {start.ent[d][m], None}
  BY <1>2 DEF Removing
<1>11. ent \in [Ino -> [Name -> Ino \cup {None}]] /\ i \in Ino \cup {None}
  BY <1>2, <1>4, <1>5 DEF TreeOK, i
<1>12. i # None => pre[p] # None /\ pre[p].ino = i
  <2> SUFFICES ASSUME i # None PROVE pre[p] # None /\ pre[p].ino = i
    OBVIOUS
  <2>1. start.ent[f.dir][n] = i
    BY <1>4, <1>5, <1>10 DEF i
  <2>2. ~Awaited(f.rel, n)
    BY <1>2 DEF Awaited
  <2>3. pre[p] # None
    BY <1>1, <1>2, <1>4, <1>5, <2>1, <2>2 DEF Whole, f
  <2>4. SeenAt(p)
    BY <1>2, <2>3 DEF Walked
  <2> QED
    BY <1>4, <1>5, <2>1, <2>3, <2>4 DEF SeenAt
<1>13. /\ UNCHANGED kept /\ (gone => gone')
       /\ \/ i = None /\ stack' = rest /\ UNCHANGED ent
          \/ /\ i # None /\ ~pre[p].dir /\ stack' = rest
             /\ ent' = [ent EXCEPT ![f.dir][n] = None]
          \/ /\ i # None /\ pre[p].dir /\ UNCHANGED ent /\ stack' = <<Frame(i, p)>> \o rest
  <2>1. CASE i = None
    BY <1>8, <2>1 DEF EnterOrUnlink, removal, i
  <2>2. CASE i # None
    <3>1. /\ EnterOrUnlink(OwnerOf(p), n, p, rest) /\ pre[p] # None
          /\ ent[OwnerOf(p)][n] \in {pre[p].ino, None} /\ ent[OwnerOf(p)][n] = i
      BY <1>5, <1>8, <1>12, <2>2 DEF i
    <3> QED
      <4>1. pc \in {"rmtop", "rm"}
        BY <1>2
      <4>2. /\ UNCHANGED kept /\ (gone => gone')
            /\ \/ ent[OwnerOf(p)][n] = None /\ stack' = rest /\ UNCHANGED ent
               \/ /\ ent[OwnerOf(p)][n] = pre[p].ino /\ ~pre[p].dir /\ stack' = rest /\ gone'
                  /\ ent' = [ent EXCEPT ![OwnerOf(p)][n] = None]
               \/ /\ ent[OwnerOf(p)][n] = pre[p].ino /\ pre[p].dir /\ UNCHANGED ent
                  /\ stack' = <<Frame(pre[p].ino, p)>> \o rest
        BY <3>1, <4>1, GoesOrEntered DEF EnterOrUnlink
      <4>3. i = pre[p].ino /\ f.dir = OwnerOf(p) /\ ent[OwnerOf(p)][n] = i
        BY <1>5, <1>12, <2>2, <3>1
      <4> QED
        BY <2>2, <4>2, <4>3
  <2> QED
    BY <2>1, <2>2
<1>14. ASSUME NEW k \in DOMAIN stack
       PROVE  /\ Link(stack, ent, k) /\ stack[k] \in Frames /\ stack[k].dir \in Ino
              /\ By(stack, k) \in Name /\ Up(stack, k) \in Ino /\ k \in 1..Len(stack)
              /\ stack[k].dir = pre[stack[k].rel].ino /\ IsDir(stack[k].dir)
              /\ Up(rest, k) = Up(stack, k) /\ By(rest, k) = By(stack, k)
  <2>1. /\ Link(stack, ent, k) /\ stack[k] \in Frames /\ stack[k].dir \in Ino
        /\ By(stack, k) \in Name /\ Up(stack, k) \in Ino /\ k \in 1..Len(stack)
        /\ stack[k].dir = pre[stack[k].rel].ino /\ IsDir(stack[k].dir)
    BY <1>2, <1>3, StackIs
  <2>2. k # Len(stack) => k + 1 \in DOMAIN stack
    BY <1>3
  <2> QED
    BY <1>7, <2>1, <2>2 DEF Up, By
<1>15. \A d \in Ino, m \in Name : ent'[d][m] \in {start'.ent[d][m], None}
  <2> TAKE d \in Ino, m \in Name
  <2>1. ent' = ent \/ ent' = [ent EXCEPT ![f.dir][n] = None]
    BY <1>13
  <2>2. ent'[d][m] \in {ent[d][m], None}
    <3>1. CASE ent' = ent
      BY <3>1
    <3>2. CASE ent' = [ent EXCEPT ![f.dir][n] = None]
      <4>1. ent[d] \in [Name -> Ino \cup {None}] /\ f.dir \in Ino
        BY <1>4, <1>11
      <4> QED
        BY <1>5, <1>11, <3>2, <4>1
    <3> QED
      BY <2>1, <3>1, <3>2
  <2>3. start' = start
    BY <1>2
  <2> QED
    BY <1>10, <2>2, <2>3
<1>16. CASE stack' = rest /\ \/ i = None /\ UNCHANGED ent
                             \/ /\ i # None /\ ~pre[p].dir
                                /\ ent' = [ent EXCEPT ![f.dir][n] = None]
  <2>1. ent'[f.dir][n] = None
    BY <1>4, <1>5, <1>11, <1>16 DEF i
  <2>2. ASSUME NEW d \in Ino, NEW m \in Name PROVE ent'[d][m] = None \/ ent'[d][m] = ent[d][m]
    BY <1>4, <1>5, <1>11, <1>16
  <2>3. ASSUME NEW d \in Ino, NEW m \in Name, IsDir(ent[d][m]) PROVE ent'[d][m] = ent[d][m]
    <3>1. CASE UNCHANGED ent
      BY <3>1
    <3>2. CASE i # None /\ ~pre[p].dir /\ ent' = [ent EXCEPT ![f.dir][n] = None]
      <4>1. ~IsDir(i)
        <5>1. SeenAt(p)
          BY <1>2, <1>12, <3>2 DEF Walked
        <5> QED
          BY <1>12, <3>2, <5>1 DEF SeenAt
      <4>2. d # f.dir \/ m # n
        BY <2>3, <4>1 DEF i
      <4> QED
        BY <1>4, <1>5, <1>11, <3>2, <4>2
    <3> QED
      BY <1>16, <3>1, <3>2
  <2>4. ASSUME NEW k \in DOMAIN stack' PROVE Link(stack', ent', k)
    <3>1. k \in DOMAIN stack /\ k \in 1..Len(stack) /\ stack' = rest
      BY <1>3, <1>7, <1>16
    <3>2. rest[k].rel = stack[k].rel /\ rest[k].dir = stack[k].dir
      BY <1>7, <3>1
    <3>3. ent'[Up(rest, k)][By(rest, k)] = rest[k].dir
      <4>1. ent[Up(stack, k)][By(stack, k)] = stack[k].dir
        BY <1>14, <3>1 DEF Link
      <4> QED
        BY <1>14, <2>3, <3>1, <3>2, <4>1
    <3>4. ASSUME NEW m \in Name, ent'[rest[k].dir][m] # None
          PROVE  m \in rest[k].todo \/ (k > 1 /\ m = By(rest, k - 1))
      <4>1. ent[stack[k].dir][m] # None
        BY <1>14, <2>2, <3>1, <3>2, <3>4
      <4>2. m \in stack[k].todo \/ (k > 1 /\ m = By(stack, k - 1))
        BY <1>14, <3>1, <4>1 DEF Link
      <4>3. CASE k > 1 /\ m = By(stack, k - 1)
        <5>1. k - 1 \in DOMAIN stack
          BY <1>3, <3>1, <4>3
        <5> QED
          BY <1>14, <4>3, <5>1
      <4>4. CASE m \in stack[k].todo /\ k # 1
        BY <1>7, <3>1, <4>4
      <4>5. CASE m \in stack[k].todo /\ k = 1
        <5>1. m # n
          BY <2>1, <3>2, <3>4, <4>5 DEF f
        <5> QED
          BY <1>7, <4>5, <5>1 DEF f
      <4> QED
        BY <4>2, <4>3, <4>4, <4>5
    <3>5. /\ rest[k].rel = <<>> <=> k = Len(rest)
          /\ k < Len(rest) => Front(rest[k].rel) = rest[k + 1].rel
      <4>1. k < Len(rest) => k + 1 \in DOMAIN stack
        BY <1>3, <1>7, <3>1
      <4> QED
        BY <1>7, <1>14, <3>1, <4>1 DEF Link
    <3> QED
      BY <3>1, <3>3, <3>4, <3>5 DEF Link
  <2>5. stack' # <<>>
    BY <1>3, <1>7, <1>16
  <2>6. Removing'
    BY <1>2, <1>13, <1>15, <2>4, <2>5 DEF Removing
  <2>7. Framed'
    BY <1>2, <1>7, <1>16 DEF Clean, Framed
  <2> QED
    BY <1>2, <1>9, <2>6, <2>7 DEF Clean, Ended
<1>17. CASE i # None /\ pre[p].dir /\ UNCHANGED ent /\ stack' = <<Frame(i, p)>> \o rest
  <2> DEFINE g == Frame(i, p)
  <2>1. /\ g \in Frames /\ g.rel = p /\ g.dir = i
        /\ g.todo = {m \in Name : ent[i][m] # None}
    BY <1>11, <1>17, FrameIs DEF Frame
  <2> HIDE DEF g
  <2>2. /\ Len(stack') = Len(stack) + 1 /\ DOMAIN stack' = 1..(Len(stack) + 1) /\ stack'[1] = g
        /\ \A k \in DOMAIN stack : stack'[k + 1] = rest[k] /\ k + 1 \in DOMAIN stack'
    <3>1. stack' = <<g>> \o rest
      BY <1>17 DEF g
    <3>2. /\ stack' \in Seq(Frames) /\ Len(stack') = 1 + Len(rest) /\ stack'[1] = g
          /\ \A k \in 1..Len(rest) : stack'[1 + k] = rest[k]
      BY <1>7, <2>1, <3>1
    <3> QED
      BY <1>3, <1>7, <3>2
  <2>3. ASSUME NEW k \in DOMAIN stack', k # 1
        PROVE  k - 1 \in DOMAIN stack /\ stack'[k] = rest[k - 1] /\ (k - 1) + 1 = k /\ k > 1
    <3>1. k - 1 \in DOMAIN stack /\ (k - 1) + 1 = k /\ k > 1
      BY <1>3, <2>2, <2>3
    <3> QED
      BY <2>2, <3>1
  <2>4. Link(stack', ent', 1)
    <3>1. stack'[2] = rest[1] /\ rest[1].rel = f.rel /\ rest[1].dir = f.dir
      BY <1>3, <1>7, <2>2 DEF f
    <3>2. Up(stack', 1) = f.dir /\ By(stack', 1) = n
      BY <1>3, <1>5, <2>1, <2>2, <3>1 DEF Up, By
    <3>3. ent'[Up(stack', 1)][By(stack', 1)] = stack'[1].dir
      BY <1>17, <2>1, <2>2, <3>2 DEF i
    <3>4. 1 # Len(stack') /\ 1 + 1 = 2
      BY <1>3, <2>2
    <3>5. \A m \in Name : ent'[stack'[1].dir][m] # None => m \in stack'[1].todo
      BY <1>17, <2>1, <2>2
    <3> QED
      BY <1>5, <2>1, <2>2, <3>1, <3>3, <3>4, <3>5 DEF Link
  <2>5. ASSUME NEW k \in DOMAIN stack', k # 1 PROVE Link(stack', ent', k)
    <3> DEFINE j == k - 1
    <3>1. j \in DOMAIN stack /\ j \in 1..Len(stack) /\ k = j + 1 /\ stack'[k] = rest[j]
      BY <1>3, <2>3, <2>5
    <3> HIDE DEF j
    <3>2. rest[j].rel = stack[j].rel /\ rest[j].dir = stack[j].dir
      BY <1>7, <3>1
    <3>3. k = Len(stack') <=> j = Len(stack)
      BY <1>3, <2>2, <3>1
    <3>4. j # Len(stack) => /\ j + 1 \in DOMAIN stack /\ stack'[k + 1] = rest[j + 1]
                            /\ rest[j + 1].rel = stack[j + 1].rel
                            /\ rest[j + 1].dir = stack[j + 1].dir
      <4>1. j # Len(stack) => j + 1 \in DOMAIN stack
        BY <1>3, <3>1
      <4> QED
        BY <1>7, <2>2, <3>1, <4>1
    <3>5. Up(stack', k) = Up(stack, j) /\ By(stack', k) = By(stack, j)
      BY <3>1, <3>2, <3>3, <3>4 DEF Up, By
    <3>6. ent'[Up(stack', k)][By(stack', k)] = stack'[k].dir
      BY <1>14, <1>17, <3>1, <3>2, <3>5 DEF Link
    <3>7. ASSUME NEW m \in Name, ent'[stack'[k].dir][m] # None
          PROVE  m \in stack'[k].todo \/ (k > 1 /\ m = By(stack', k - 1))
      <4>1. m \in stack[j].todo \/ (j > 1 /\ m = By(stack, j - 1))
        BY <1>14, <1>17, <3>1, <3>2, <3>7 DEF Link
      <4>2. CASE m \in stack[j].todo /\ j # 1
        BY <1>7, <3>1, <4>2
      <4>3. CASE m \in stack[j].todo /\ j = 1
        <5>1. By(stack', k - 1) = n /\ k > 1
          BY <1>5, <2>1, <2>2, <3>1, <4>3 DEF By
        <5>2. m # n => m \in rest[1].todo
          BY <1>7, <4>3 DEF f
        <5> QED
          BY <3>1, <4>3, <5>1, <5>2
      <4>4. CASE j > 1 /\ m = By(stack, j - 1)
        <5>1. j - 1 \in DOMAIN stack /\ (j - 1) + 1 = k - 1 /\ k > 1
          BY <1>3, <3>1, <4>4
        <5>2. stack'[k - 1] = rest[j - 1] /\ rest[j - 1].rel = stack[j - 1].rel
          BY <1>7, <2>2, <5>1
        <5> QED
          BY <4>4, <5>1, <5>2 DEF By
      <4> QED
        BY <4>1, <4>2, <4>3, <4>4
    <3>8. /\ stack'[k].rel = <<>> <=> k = Len(stack')
          /\ k < Len(stack') => Front(stack'[k].rel) = stack'[k + 1].rel
      <4>1. /\ stack[j].rel = <<>> <=> j = Len(stack)
            /\ j < Len(stack) => Front(stack[j].rel) = stack[j + 1].rel
        BY <1>14, <3>1 DEF Link
      <4>2. k < Len(stack') <=> j < Len(stack)
        BY <1>3, <2>2, <3>1
      <4> QED
        BY <1>3, <3>1, <3>2, <3>3, <3>4, <4>1, <4>2
    <3> QED
      BY <3>6, <3>7, <3>8 DEF Link
  <2>6. Removing'
    <3>1. stack' # <<>>
      BY <1>3, <2>2
    <3> QED
      BY <1>2, <1>13, <1>15, <2>4, <2>5, <3>1 DEF Removing
  <2>7. Framed'
    <3>1. ASSUME NEW k \in DOMAIN stack'
          PROVE  /\ pre[stack'[k].rel] # None /\ pre[stack'[k].rel].dir
                 /\ stack'[k].dir = pre[stack'[k].rel].ino
      <4>1. CASE k = 1
        BY <1>12, <1>17, <2>1, <2>2, <4>1
      <4>2. CASE k # 1
        BY <1>2, <1>7, <2>3, <4>2 DEF Clean, Framed
      <4> QED
        BY <4>1, <4>2
    <3> QED
      BY <1>2, <3>1 DEF Framed
  <2> QED
    BY <1>2, <1>9, <2>6, <2>7 DEF Clean, Ended
<1> QED
  BY <1>13, <1>16, <1>17

-----------------------------------------------------------------------------
(* Every step of a put that nobody and nothing disturbs keeps all of it.   *)
LEMMA CleanNext ==
  Basic /\ (Untouched => Clean) /\ [Next]_vars => (Untouched' => Clean')
<1> SUFFICES ASSUME Basic, Untouched => Clean, [Next]_vars, Untouched' PROVE Clean'
  OBVIOUS
<1>1. Untouched /\ Clean /\ start' = start /\ (PutNext \/ UNCHANGED vars)
  BY StillUntouched
<1>2. CASE WalkTop
  BY <1>1, <1>2, WalkTopClean
<1>3. CASE WalkChild
  BY <1>1, <1>3, WalkChildClean
<1>4. CASE WalkPop
  BY <1>1, <1>4, WalkPopClean
<1>5. CASE WalkProblem \/ Refuse \/ CopyFails \/ Verify \/ Publish \/ Sync \/ Kill
  BY <1>1, <1>5, GoesOnClean
<1>6. CASE StartCopy
  BY <1>1, <1>6, StartCopyClean
<1>7. CASE CpEntry
  BY <1>1, <1>7, CpEntryClean
<1>8. CASE CpRead
  BY <1>1, <1>8, CpReadClean
<1>9. CASE RmTop
  BY <1>1, <1>9, RmTopClean
<1>10. CASE RmChild
  BY <1>1, <1>10, RmChildClean, SMTT(30)
<1>11. CASE RmDir
  BY <1>1, <1>11, RmDirClean
<1>12. CASE Settle
  BY <1>1, <1>12, SettleClean
<1>13. CASE UNCHANGED vars
  BY <1>1, <1>13
  DEF vars, fs, walked, copied, trashed, removal, Clean, Walked, SeenAt, FreeAt, Whole, Awaited,
      Framed, Phases, Copied, Removing, Link, Up, By, Ended,
      Shut, Flagged, TopFlagged, IsDir, attr
<1> QED
  BY <1>1, <1>2, <1>3, <1>4, <1>5, <1>6, <1>7, <1>8, <1>9, <1>10, <1>11, <1>12, <1>13 DEF PutNext

(* Before its first step a put has seen, copied and removed nothing.       *)
LEMMA CleanInit == Init => Typed /\ Clean
<1> SUFFICES ASSUME Init PROVE Typed /\ Clean
  OBVIOUS
<1>1. /\ pc = "top" /\ ~problem /\ pre = [p \in Path |-> None] /\ copy = [p \in Path |-> None]
      /\ snap = [p \in Path |-> None] /\ stack = <<>> /\ ent = start.ent /\ trash = "none"
      /\ ver = [i \in Ino |-> 0] /\ ~gone /\ kept = {} /\ start \in Trees /\ edits = start.edits
  BY DEF Init
<1>2. Typed
  BY <1>1, TreesAssumption DEF Typed
<1>3. Walked /\ Whole /\ Framed
  BY <1>1 DEF Walked, Whole, Framed
<1>4. Phases /\ Copied /\ Removing /\ Ended
  BY <1>1 DEF Phases, Copied, Removing, Ended, AfterWalk
<1> QED
  BY <1>2, <1>3, <1>4 DEF Clean

(* A put that copies, in a tree that nobody else touches and where no call *)
(* fails, either leaves everything as it was or removes all of the source, *)
(* with the copy in the trash: what the walk lets through can be removed,  *)
(* for trees of every shape and size (design.md, 6: "Copy complete but the *)
(* source half-deleted").                                                  *)
THEOREM AllOrNothingHolds == Spec => []AllOrNothing
<1> DEFINE Inv == Basic /\ (Untouched => Clean)
<1>1. Init => Inv
  BY Initially, CleanInit DEF Basic
<1>2. Inv /\ [Next]_vars => Inv'
  BY Inductive, TypedNext, CleanNext DEF Basic
<1>3. Inv => AllOrNothing
  BY DEF Untouched, Clean, Ended, AllOrNothing
<1> QED
  BY <1>1, <1>2, <1>3, PTL DEF Spec

-----------------------------------------------------------------------------
(***************************************************************************)
(* And the report is true, whoever interferes and whatever fails.  An      *)
(* entry that changes is empty or holds what was moved (EntriesGo), so     *)
(* what is there after a step was there before it, at the same path        *)
(* (Fewer); what is there of what the walk recorded is what it recorded    *)
(* (Followed), and the frames of the removal are of such directories, one  *)
(* in the other (Chain): nothing of it is left out without a name (Told).  *)
(***************************************************************************)
(* The inode that each path leads to,                                      *)
way == [p \in Seq(Name) |-> At(p)]
(* and the paths of what is there, with nothing on the way that was moved. *)
there == {p \in Seq(Name) : /\ At(p) # None
                            /\ \A k \in 0..Len(p) : At(SubSeq(p, 1, k)) \notin moved}

(* A path leads through the inodes of the paths above it.                  *)
LEMMA Steps ==
  ASSUME TreeOK, NEW p \in Seq(Name)
  PROVE  \E w \in [0..Len(p) -> Ino \cup {None}] :
           /\ w[0] = ent[Parent][Arg] /\ At(p) = w[Len(p)]
           /\ \A k \in 1..Len(p) :
                w[k] = IF w[k - 1] = None THEN None ELSE ent[w[k - 1]][p[k]]
<1> DEFINE n == Len(p)
           a == ent[Parent][Arg]
           S == Ino \cup {None}
           Next1(x) == IF x[2] = None THEN None ELSE ent[x[2]][p[x[1]]]
           step == [x \in (1..n) \X S |-> Next1(x)]
           F == CHOOSE f : f = [k \in 0..n |->
                  IF k = 0 THEN a
                  ELSE IF f[k - 1] = None THEN None ELSE ent[f[k - 1]][p[k]]]
<1>1. n \in Nat /\ a \in S /\ \A k \in 1..n : p[k] \in Name
  BY ElementOfSeq, NoneAssumption, EntryIs
<1>2. At(p) = F[n]
  BY DEF At, From
<1> HIDE DEF n, a
<1>3. step \in [(1..n) \X S -> S]
  <2>1. ASSUME NEW k \in 1..n, NEW x \in S
        PROVE  (IF x = None THEN None ELSE ent[x][p[k]]) \in S
    BY <1>1, <2>1, EntryIs
  <2> QED
    BY <2>1
<1>4. \A k \in 1..n, x \in S : step[<<k, x>>] = IF x = None THEN None ELSE ent[x][p[k]]
  OBVIOUS
<1> HIDE DEF step, S
<1>5. PICK f : Unfolds(f, n, S, a, step)
  BY <1>1, <1>3, Recursion
<1>6. f \in [0..n -> S] /\ f[0] = a /\ \A k \in 1..n : f[k] = step[<<k, f[k - 1]>>]
  BY <1>5 DEF Unfolds
<1>7. \A k \in 1..n : k - 1 \in 0..n /\ k \in 0..n /\ k # 0
  BY <1>1
<1>8. \A k \in 1..n : f[k] = IF f[k - 1] = None THEN None ELSE ent[f[k - 1]][p[k]]
  BY <1>4, <1>6, <1>7
<1>9. f = [k \in 0..n |-> IF k = 0 THEN a
             ELSE IF f[k - 1] = None THEN None ELSE ent[f[k - 1]][p[k]]]
  <2>1. \A k \in 0..n : k = 0 \/ k \in 1..n
    BY <1>1
  <2> QED
    BY <1>6, <1>8, <2>1
<1>10. F = [k \in 0..n |-> IF k = 0 THEN a
              ELSE IF F[k - 1] = None THEN None ELSE ent[F[k - 1]][p[k]]]
  BY <1>9
<1> HIDE DEF F
<1>11. F[0] = a /\ \A k \in 1..n : F[k] = IF F[k - 1] = None THEN None ELSE ent[F[k - 1]][p[k]]
  <2>1. 0 \in 0..n
    BY <1>1
  <2> QED
    BY <1>7, <1>10, <2>1
<1> DEFINE G == {k \in 0..n : F[k] \in S}
<1>12. \A k \in 0..n : k \in G
  <2>1. 0 \in G
    BY <1>1, <1>11
  <2>2. ASSUME NEW k \in 1..n, k - 1 \in G PROVE k \in G
    <3>1. F[k - 1] \in Ino \cup {None} /\ p[k] \in Name /\ k \in 0..n
      BY <1>1, <1>7, <2>2 DEF S
    <3>2. F[k] \in Ino \cup {None}
      <4>1. CASE F[k - 1] = None
        BY <1>11, <4>1
      <4>2. CASE F[k - 1] # None
        BY <1>11, <3>1, <4>2, EntryIs
      <4> QED
        BY <4>1, <4>2
    <3> QED
      BY <3>1, <3>2 DEF S
  <2> HIDE DEF G
  <2> QED
    BY <1>1, <2>1, <2>2, UpTo
<1>13. F \in [0..n -> Ino \cup {None}]
  <2>1. \A k \in 0..n : F[k] \in Ino \cup {None}
    BY <1>12 DEF S
  <2> QED
    BY <1>10, <2>1
<1> QED
  BY <1>2, <1>11, <1>13 DEF a, n

(* The inode of a path is that of its name in the directory above it.      *)
LEMMA Ways ==
  TreeOK =>
    /\ way \in [Seq(Name) -> Ino \cup {None}]
    /\ way[<<>>] = ent[Parent][Arg]
    /\ \A q \in Seq(Name), n \in Name :
         way[Append(q, n)] = IF way[q] = None THEN None ELSE ent[way[q]][n]
<1> SUFFICES ASSUME TreeOK
             PROVE  /\ way \in [Seq(Name) -> Ino \cup {None}]
                    /\ way[<<>>] = ent[Parent][Arg]
                    /\ \A q \in Seq(Name), n \in Name :
                         way[Append(q, n)] = IF way[q] = None THEN None ELSE ent[way[q]][n]
  OBVIOUS
<1>0. \A p \in Seq(Name) : way[p] = At(p) /\ Len(p) \in Nat
  BY DEF way
<1>1. ASSUME NEW p \in Seq(Name) PROVE At(p) \in Ino \cup {None}
  <2>1. PICK w \in [0..Len(p) -> Ino \cup {None}] : At(p) = w[Len(p)]
    BY Steps
  <2>2. Len(p) \in 0..Len(p)
    BY <1>0
  <2> QED
    BY <2>1, <2>2
<1>2. way \in [Seq(Name) -> Ino \cup {None}]
  BY <1>1 DEF way
<1>3. way[<<>>] = ent[Parent][Arg]
  <2>1. <<>> \in Seq(Name) /\ Len(<<>>) = 0
    OBVIOUS
  <2>2. \E w \in [0..Len(<<>>) -> Ino \cup {None}] :
          w[0] = ent[Parent][Arg] /\ At(<<>>) = w[Len(<<>>)]
    BY <2>1, Steps
  <2> QED
    BY <1>0, <2>1, <2>2
<1>4. ASSUME NEW q \in Seq(Name), NEW n \in Name
      PROVE  way[Append(q, n)] = IF way[q] = None THEN None ELSE ent[way[q]][n]
  <2> DEFINE p == Append(q, n)
             l == Len(q)
  <2>1. /\ p \in Seq(Name) /\ Len(p) = l + 1 /\ l \in Nat /\ p[l + 1] = n
        /\ \A k \in 1..l : p[k] = q[k]
    OBVIOUS
  <2> HIDE DEF p
  <2>2. PICK v \in [0..l -> Ino \cup {None}] :
          /\ v[0] = ent[Parent][Arg] /\ At(q) = v[l]
          /\ \A k \in 1..l : v[k] = IF v[k - 1] = None THEN None ELSE ent[v[k - 1]][q[k]]
    BY Steps
  <2>3. PICK w \in [0..(l + 1) -> Ino \cup {None}] :
          /\ w[0] = ent[Parent][Arg] /\ At(p) = w[l + 1]
          /\ \A k \in 1..(l + 1) : w[k] = IF w[k - 1] = None THEN None ELSE ent[w[k - 1]][p[k]]
    <3>1. p \in Seq(Name) /\ Len(p) = l + 1
      BY <2>1
    <3>2. \E w \in [0..Len(p) -> Ino \cup {None}] :
            /\ w[0] = ent[Parent][Arg] /\ At(p) = w[Len(p)]
            /\ \A k \in 1..Len(p) :
                 w[k] = IF w[k - 1] = None THEN None ELSE ent[w[k - 1]][p[k]]
      BY <3>1, Steps
    <3> QED
      BY <3>1, <3>2
  <2> DEFINE G == {k \in 0..l : v[k] = w[k]}
  <2> HIDE DEF l
  <2>4. \A k \in 0..l : k \in G
    <3>1. 0 \in G
      BY <2>1, <2>2, <2>3
    <3>2. ASSUME NEW k \in 1..l, k - 1 \in G PROVE k \in G
      <4>1. k \in 0..l /\ k \in 1..(l + 1) /\ v[k - 1] = w[k - 1] /\ p[k] = q[k]
        BY <2>1, <3>2
      <4>2. v[k] = w[k]
        BY <2>2, <2>3, <4>1
      <4> QED
        BY <4>1, <4>2
    <3> HIDE DEF G
    <3> QED
      BY <2>1, <3>1, <3>2, UpTo
  <2>5. v[l] = w[l] /\ l + 1 \in 1..(l + 1) /\ (l + 1) - 1 = l
    BY <2>1, <2>4
  <2>6. At(p) = IF w[l] = None THEN None ELSE ent[w[l]][n]
    BY <2>1, <2>3, <2>5
  <2> QED
    BY <1>0, <2>1, <2>2, <2>5, <2>6 DEF p
<1> QED
  BY <1>2, <1>3, <1>4

(* The paths above a path, one name longer.                                *)
LEMMA PathsAbove ==
  ASSUME NEW q \in Seq(Name), NEW n \in Name
  PROVE  LET a == Append(q, n) IN
         /\ a \in Seq(Name) /\ Len(a) = Len(q) + 1 /\ SubSeq(a, 1, Len(q) + 1) = a
         /\ \A k \in 0..Len(q) : SubSeq(a, 1, k) = SubSeq(q, 1, k)
         /\ SubSeq(q, 1, Len(q)) = q
<1> DEFINE a == Append(q, n)
           l == Len(q)
<1>1. /\ a \in Seq(Name) /\ Len(a) = l + 1 /\ l \in Nat /\ 1 \in Int
      /\ \A k \in 1..l : a[k] = q[k] /\ q[k] \in Name
      /\ \A k \in 1..(l + 1) : a[k] \in Name
  BY ElementOfSeq
<1> HIDE DEF a, l
<1>2. ASSUME NEW s \in Seq(Name), NEW k \in 0..Len(s)
      PROVE  /\ SubSeq(s, 1, k) \in Seq(Name) /\ Len(SubSeq(s, 1, k)) = k
             /\ \A i \in 1..k : SubSeq(s, 1, k)[i] = s[i]
  <2>1. k \in Nat /\ k \in Int /\ 1 \in Int /\ Len(s) \in Nat
    OBVIOUS
  <2>2. \A i \in 1..k : s[i] \in Name
    BY <2>1, ElementOfSeq
  <2> HIDE DEF a, l
  <2>3. /\ SubSeq(s, 1, k) \in Seq(Name)
        /\ Len(SubSeq(s, 1, k)) = IF 1 <= k THEN k - 1 + 1 ELSE 0
        /\ \A i \in 1..(k - 1 + 1) : SubSeq(s, 1, k)[i] = s[1 + i - 1]
    BY <2>1, <2>2, SubSeqProperties
  <2> QED
    BY <2>1, <2>3
<1>3. SubSeq(a, 1, l + 1) = a
  <2> DEFINE u == SubSeq(a, 1, l + 1)
  <2>0. l + 1 \in 0..Len(a)
    BY <1>1
  <2>1. u \in Seq(Name) /\ Len(u) = l + 1 /\ \A i \in 1..(l + 1) : u[i] = a[i]
    BY <1>1, <1>2, <2>0
  <2> HIDE DEF u
  <2>2. u = a
    BY <1>1, <2>1, SeqEqual
  <2> QED
    BY <2>2 DEF u
<1>4. SubSeq(q, 1, l) = q
  <2> DEFINE u == SubSeq(q, 1, l)
  <2>1. u \in Seq(Name) /\ Len(u) = l /\ \A i \in 1..l : u[i] = q[i]
    BY <1>1, <1>2 DEF l
  <2> HIDE DEF u
  <2>2. u = q
    BY <1>1, <2>1, SeqEqual DEF l
  <2> QED
    BY <2>2 DEF u
<1>5. ASSUME NEW k \in 0..l PROVE SubSeq(a, 1, k) = SubSeq(q, 1, k)
  <2> DEFINE u == SubSeq(a, 1, k)
             v == SubSeq(q, 1, k)
  <2>0. k \in 0..Len(a) /\ k \in 0..Len(q) /\ k \in Nat
    BY <1>1 DEF l
  <2>1. /\ u \in Seq(Name) /\ Len(u) = k /\ v \in Seq(Name) /\ Len(v) = k
        /\ \A i \in 1..k : u[i] = a[i] /\ v[i] = q[i]
    BY <1>1, <1>2, <2>0
  <2> HIDE DEF u, v
  <2>2. \A i \in 1..k : u[i] = v[i]
    BY <1>1, <2>0, <2>1
  <2>3. u = v
    BY <2>1, <2>2, SeqEqual
  <2> QED
    BY <2>3 DEF u, v
<1> QED
  BY <1>1, <1>3, <1>4, <1>5 DEF a, l

(* What is there is in a directory that is there.                          *)
LEMMA Theres ==
  TreeOK =>
    /\ there \subseteq Seq(Name)
    /\ <<>> \in there <=> way[<<>>] \notin {None} \cup moved
    /\ \A q \in Seq(Name), n \in Name :
         Append(q, n) \in there <=>
           q \in there /\ way[Append(q, n)] \notin {None} \cup moved
    /\ \A p \in there : way[p] \notin {None} \cup moved
<1> SUFFICES ASSUME TreeOK
             PROVE  /\ there \subseteq Seq(Name)
                    /\ <<>> \in there <=> way[<<>>] \notin {None} \cup moved
                    /\ \A q \in Seq(Name), n \in Name :
                         Append(q, n) \in there <=>
                           q \in there /\ way[Append(q, n)] \notin {None} \cup moved
                    /\ \A p \in there : way[p] \notin {None} \cup moved
  OBVIOUS
<1>1. \A p \in Seq(Name) : way[p] = At(p) /\ Len(p) \in Nat
  BY DEF way
<1>2. \A p : p \in there <=> /\ p \in Seq(Name) /\ At(p) # None
                             /\ \A k \in 0..Len(p) : At(SubSeq(p, 1, k)) \notin moved
  BY DEF there
<1>3. <<>> \in there <=> way[<<>>] \notin {None} \cup moved
  <2>1. <<>> \in Seq(Name) /\ Len(<<>>) = 0 /\ SubSeq(<<>>, 1, 0) = <<>>
    OBVIOUS
  <2>2. \A k \in 0..Len(<<>>) : k = 0
    BY <2>1
  <2>3. 0 \in 0..Len(<<>>)
    BY <2>1
  <2>4. \A k \in 0..Len(<<>>) : SubSeq(<<>>, 1, k) = <<>>
    BY <2>1, <2>2
  <2>5. (\A k \in 0..Len(<<>>) : At(SubSeq(<<>>, 1, k)) \notin moved) <=> At(<<>>) \notin moved
    BY <2>3, <2>4, Zenon
  <2>6. <<>> \in there <=> At(<<>>) # None /\ At(<<>>) \notin moved
    BY <1>2, <2>1, <2>5, Zenon
  <2> QED
    BY <1>1, <2>1, <2>6
<1>4. ASSUME NEW q \in Seq(Name), NEW n \in Name
      PROVE  /\ Append(q, n) \in there <=>
                  q \in there /\ way[Append(q, n)] \notin {None} \cup moved
             /\ Append(q, n) \in there => way[Append(q, n)] \notin {None} \cup moved
  <2> DEFINE a == Append(q, n)
             l == Len(q)
  <2>1. /\ a \in Seq(Name) /\ Len(a) = l + 1 /\ SubSeq(a, 1, l + 1) = a
        /\ \A k \in 0..l : SubSeq(a, 1, k) = SubSeq(q, 1, k)
    BY PathsAbove
  <2>2. l \in Nat
    BY <1>1
  <2>3. At(a) # None => At(q) # None
    BY <1>1, <2>1, Ways
  <2> HIDE DEF a, l
  <2>4. \A k : k \in 0..(l + 1) <=> k \in 0..l \/ k = l + 1
    BY <2>2
  <2>5. (\A k \in 0..(l + 1) : At(SubSeq(a, 1, k)) \notin moved) <=>
          (\A k \in 0..l : At(SubSeq(q, 1, k)) \notin moved) /\ At(a) \notin moved
    <3>1. (\A k \in 0..(l + 1) : At(SubSeq(a, 1, k)) \notin moved) <=>
            (\A k \in 0..l : At(SubSeq(a, 1, k)) \notin moved) /\ At(SubSeq(a, 1, l + 1)) \notin moved
      BY <2>4, Zenon
    <3>2. \A k \in 0..l : At(SubSeq(a, 1, k)) = At(SubSeq(q, 1, k))
      BY <2>1, Zenon
    <3>3. At(SubSeq(a, 1, l + 1)) = At(a)
      BY <2>1, Zenon
    <3> QED
      BY <3>1, <3>2, <3>3, Zenon
  <2>6. a \in there <=> /\ At(a) # None
                        /\ (\A k \in 0..l : At(SubSeq(q, 1, k)) \notin moved) /\ At(a) \notin moved
    BY <1>2, <2>1, <2>5, Zenon
  <2>7. q \in there <=> At(q) # None /\ \A k \in 0..l : At(SubSeq(q, 1, k)) \notin moved
    BY <1>2, Zenon DEF l
  <2>8. way[a] = At(a)
    BY <1>1, <2>1
  <2>9. a \in there <=> q \in there /\ way[a] \notin {None} \cup moved
    BY <2>3, <2>6, <2>7, <2>8
  <2> QED
    BY <2>9 DEF a
<1>5. ASSUME NEW p \in there PROVE way[p] \notin {None} \cup moved
  <2>1. p \in Seq(Name)
    BY <1>2
  <2>2. CASE p = <<>>
    BY <1>3, <2>2
  <2>3. CASE p # <<>>
    <3>1. Front(p) \in Seq(Name) /\ Last(p) \in Name /\ Append(Front(p), Last(p)) = p
      BY <2>1, <2>3, PathParts, PathIs
    <3> QED
      BY <1>4, <3>1
  <2> QED
    BY <2>2, <2>3
<1> QED
  BY <1>2, <1>3, <1>4, <1>5

(* A prefix, name by name; it is below a longer one's front, or is it.     *)
LEMMA PrefixAbove ==
  ASSUME NEW q \in Seq(Name), NEW f \in Seq(Name), NEW n \in Name, IsPrefix(q, Append(f, n))
  PROVE  q = Append(f, n) \/ IsPrefix(q, f)
<1> DEFINE p == Append(f, n)
<1>1. /\ p \in Seq(Name) /\ Len(p) = Len(f) + 1 /\ \A k \in 1..Len(f) : p[k] = f[k]
      /\ Len(f) \in Nat /\ Len(q) \in Nat
  OBVIOUS
<1>0. IsPrefix(q, p)
  OBVIOUS
<1> HIDE DEF p
<1>2. Len(q) <= Len(p) /\ \A k \in 1..Len(q) : q[k] = p[k]
  BY <1>0, <1>1, PrefixOf
<1>3. CASE Len(q) = Len(p)
  <2>1. q = p
    BY <1>1, <1>2, <1>3, SeqEqual
  <2> QED
    BY <2>1 DEF p
<1>4. CASE Len(q) # Len(p)
  <2>1. Len(q) <= Len(f) /\ \A k \in 1..Len(q) : q[k] = f[k]
    BY <1>1, <1>2, <1>4
  <2> QED
    BY <2>1, PrefixOf
<1> QED
  BY <1>3, <1>4

(* Above what is there is what is there, and the name that leads down.     *)
LEMMA Above ==
  TreeOK =>
    \A p \in there, q \in Seq(Name) : IsPrefix(q, p) =>
      /\ q \in there
      /\ q # p => /\ p[Len(q) + 1] \in Name
                  /\ ent[way[q]][p[Len(q) + 1]] # None
<1> SUFFICES ASSUME TreeOK, NEW x \in there, NEW y \in Seq(Name), IsPrefix(y, x)
             PROVE  /\ y \in there
                    /\ y # x => /\ x[Len(y) + 1] \in Name
                                /\ ent[way[y]][x[Len(y) + 1]] # None
  OBVIOUS
<1> DEFINE Below(p, q) == p[Len(q) + 1] \in Name /\ ent[way[q]][p[Len(q) + 1]] # None
           Good(p) == \A q \in Seq(Name) :
                        IsPrefix(q, p) => q \in there /\ (q # p => Below(p, q))
           G == {k \in Nat : \A p \in there : Len(p) = k => Good(p)}
<1>0. there \subseteq Seq(Name) /\ \A p \in Seq(Name) : Len(p) \in Nat
  BY Theres
<1>1. \A k : k \in G <=> k \in Nat /\ \A p \in there : Len(p) = k => Good(p)
  OBVIOUS
<1> HIDE DEF G
<1>2. 0 \in G
  <2>1. ASSUME NEW p \in there, Len(p) = 0, NEW q \in Seq(Name), IsPrefix(q, p)
        PROVE  q = p
    <3>1. Len(q) <= Len(p)
      BY <1>0, <2>1, PrefixOf
    <3>2. q = <<>> /\ p = <<>>
      BY <1>0, <2>1, <3>1
    <3> QED
      BY <3>2
  <2>2. \A p \in there : Len(p) = 0 => Good(p)
    BY <2>1
  <2> QED
    BY <1>1, <2>2
<1>3. ASSUME NEW k \in 1..Len(x), k - 1 \in G PROVE k \in G
  <2>1. ASSUME NEW p \in there, Len(p) = k PROVE Good(p)
    <3> DEFINE f == Front(p)
               n == Last(p)
    <3>1. p \in Seq(Name) /\ p # <<>>
      BY <1>0, <2>1
    <3>2. f \in Seq(Name) /\ n \in Name /\ Append(f, n) = p /\ Len(f) = k - 1
      BY <2>1, <3>1, PathParts, PathIs
    <3> HIDE DEF f, n
    <3>3. f \in there /\ way[p] \notin {None} \cup moved /\ way[p] = ent[way[f]][n]
      BY <3>2, Theres, Ways
    <3>4. Good(f)
      <4> HIDE DEF Good
      <4> QED
        BY <1>1, <1>3, <3>2, <3>3
    <3>5. Len(f) \in Nat /\ p[Len(f) + 1] = n /\ \A j \in 1..Len(f) : p[j] = f[j]
      BY <3>2
    <3>6. ASSUME NEW q \in Seq(Name), IsPrefix(q, p), q # p
          PROVE  q \in there /\ Below(p, q)
      <4>1. IsPrefix(q, f)
        BY <3>2, <3>6, PrefixAbove
      <4>2. CASE q = f
        BY <3>2, <3>3, <3>5, <4>2
      <4>3. CASE q # f
        <5>1. q \in there /\ Below(f, q)
          BY <3>4, <4>1, <4>3
        <5>2. Len(q) <= Len(f) /\ Len(q) \in Nat /\ \A j \in 1..Len(q) : q[j] = f[j]
          BY <1>0, <3>2, <4>1, PrefixOf
        <5>3. Len(q) # Len(f)
          <6> SUFFICES ASSUME Len(q) = Len(f) PROVE FALSE
            OBVIOUS
          <6>1. q = f
            BY <3>2, <5>2, SeqEqual
          <6> QED
            BY <4>3, <6>1
        <5>4. p[Len(q) + 1] = f[Len(q) + 1]
          BY <3>5, <5>2, <5>3
        <5> QED
          BY <5>1, <5>4
      <4> QED
        BY <4>2, <4>3
    <3> QED
      BY <2>1, <3>6
  <2> HIDE DEF Good
  <2> QED
    BY <1>1, <1>3, <2>1
<1>4. Len(x) \in Nat
  BY <1>0
<1>5. \A k \in 0..Len(x) : k \in G
  BY <1>2, <1>3, <1>4, UpTo
<1>6. Good(x)
  <2> HIDE DEF Good
  <2>1. Len(x) \in G
    BY <1>4, <1>5
  <2> QED
    BY <1>1, <2>1
<1> QED
  BY <1>6

(* A step takes an entry away, or puts there what it has moved: whoever    *)
(* makes it, and whatever it does to a tree.                               *)
LEMMA EntriesGo ==
  ASSUME Basic, [Next]_vars
  PROVE  /\ moved \subseteq moved'
         /\ \A d \in Ino, n \in Name : ent'[d][n] \in {ent[d][n], None} \cup moved'
<1>0. ent \in [Ino -> [Name -> Ino \cup {None}]]
  BY DEF Basic, IInv, TreeOK
<1>1. CASE UNCHANGED <<ent, moved>>
  BY <1>1
<1>2. ASSUME NEW u, NEW m, ent' = [ent EXCEPT ![u][m] = None], moved' = moved
      PROVE  \A d \in Ino, n \in Name : ent'[d][n] \in {ent[d][n], None}
  BY <1>0, <1>2
<1>3. CASE PutNext
  <2>1. moved' = moved
    BY <1>3, ZenonT(40)
    DEF PutNext, WalkTop, WalkChild, WalkPop, WalkProblem, Refuse, StartCopy, CpEntry, CpRead,
        CopyFails, Verify, Publish, Sync, RmTop, RmChild, RmDir, Settle, Kill, others
  <2>2. ent' = ent \/ \E u, m : ent' = [ent EXCEPT ![u][m] = None]
    BY <1>3, ZenonT(40)
    DEF PutNext, WalkTop, WalkChild, WalkPop, WalkProblem, Refuse, StartCopy, CpEntry, CpRead,
        CopyFails, Verify, Publish, Sync, RmTop, RmChild, RmDir, EnterOrUnlink, Settle, Kill, fs
  <2> QED
    BY <1>1, <1>2, <2>1, <2>2
<1>4. CASE Others
  <2>1. ASSUME NEW i \in Ino, Write(i) PROVE UNCHANGED <<ent, moved>>
    BY <2>1 DEF Write
  <2>2. ASSUME NEW d \in Ino, NEW n \in Name, Unlink(d, n)
        PROVE  ent' = [ent EXCEPT ![d][n] = None] /\ moved' = moved
    BY <2>2 DEF Unlink
  <2>3. ASSUME NEW d \in Ino, NEW n \in Name, NEW i \in Ino, Create(d, n, i) \/ Mount(d, n, i)
        PROVE  /\ ent' = [ent EXCEPT ![d][n] = i] /\ moved \subseteq moved' /\ i \in moved'
    BY <2>3 DEF Create, Mount
  <2>4. ASSUME NEW d \in Ino, NEW n \in Name, NEW e \in Ino, NEW m \in Name, Rename(d, n, e, m)
        PROVE  \E i : /\ ent' = [ent EXCEPT ![d][n] = None, ![e][m] = i]
                      /\ moved \subseteq moved' /\ i \in moved'
    BY <2>4 DEF Rename
  <2>5. ASSUME NEW u \in Ino, NEW m \in Name, NEW i, ent' = [ent EXCEPT ![u][m] = i], i \in moved'
        PROVE  \A d \in Ino, n \in Name : ent'[d][n] \in {ent[d][n]} \cup moved'
    BY <1>0, <2>5
  <2>6. ASSUME NEW u \in Ino, NEW m \in Name, NEW e \in Ino, NEW l \in Name, NEW i,
               ent' = [ent EXCEPT ![u][m] = None, ![e][l] = i], i \in moved'
        PROVE  \A d \in Ino, n \in Name : ent'[d][n] \in {ent[d][n], None} \cup moved'
    BY <1>0, <2>6
  <2>7. CASE \E i \in Ino : Write(i)
    BY <1>1, <2>1, <2>7
  <2>8. CASE \E d, e \in Ino, n, m \in Name : Rename(d, n, e, m)
    <3>1. PICK d \in Ino, e \in Ino, n \in Name, m \in Name : Rename(d, n, e, m)
      BY <2>8
    <3>2. PICK i : /\ ent' = [ent EXCEPT ![d][n] = None, ![e][m] = i]
                   /\ moved \subseteq moved' /\ i \in moved'
      BY <2>4, <3>1
    <3> QED
      BY <2>6, <3>2
  <2>9. CASE \E d \in Ino, n \in Name : Unlink(d, n)
    BY <1>2, <2>2, <2>9
  <2>10. CASE \E d \in Ino, n \in Name, i \in Ino : Create(d, n, i) \/ Mount(d, n, i)
    BY <2>3, <2>5, <2>10
  <2> QED
    BY <1>4, <2>7, <2>8, <2>9, <2>10 DEF Others
<1>5. CASE UNCHANGED vars
  BY <1>1, <1>5 DEF vars, fs, others
<1> QED
  BY <1>3, <1>4, <1>5 DEF Next

(* So what is there after a step was there before it, at the same inode.   *)
LEMMA Fewer ==
  ASSUME Basic, [Next]_vars
  PROVE  there' \subseteq there /\ \A p \in there' : way'[p] = way[p]
<1>1. /\ TreeOK /\ TreeOK' /\ moved \subseteq moved'
      /\ \A d \in Ino, n \in Name : ent'[d][n] \in {ent[d][n], None} \cup moved'
  BY Inductive, EntriesGo DEF Basic, IInv
<1>2. /\ way' \in [Seq(Name) -> Ino \cup {None}]
      /\ way'[<<>>] = ent'[Parent][Arg]
      /\ \A q \in Seq(Name), n \in Name :
           way'[Append(q, n)] = IF way'[q] = None THEN None ELSE ent'[way'[q]][n]
  <2>1. (TreeOK =>
           /\ way \in [Seq(Name) -> Ino \cup {None}]
           /\ way[<<>>] = ent[Parent][Arg]
           /\ \A q \in Seq(Name), n \in Name :
                way[Append(q, n)] = IF way[q] = None THEN None ELSE ent[way[q]][n])'
    BY Ways, PTL
  <2> QED
    BY <1>1, <2>1
<1>3. /\ there' \subseteq Seq(Name)
      /\ \A q \in Seq(Name), n \in Name : Append(q, n) \in there' => q \in there'
      /\ \A p \in there' : way'[p] \notin {None} \cup moved'
  <2>1. (TreeOK =>
           /\ there \subseteq Seq(Name)
           /\ <<>> \in there <=> way[<<>>] \notin {None} \cup moved
           /\ \A q \in Seq(Name), n \in Name :
                Append(q, n) \in there <=>
                  q \in there /\ way[Append(q, n)] \notin {None} \cup moved
           /\ \A p \in there : way[p] \notin {None} \cup moved)'
    BY Theres, PTL
  <2> QED
    BY <1>1, <2>1
<1>4. /\ way \in [Seq(Name) -> Ino \cup {None}]
      /\ way[<<>>] = ent[Parent][Arg]
      /\ \A q \in Seq(Name), n \in Name :
           way[Append(q, n)] = IF way[q] = None THEN None ELSE ent[way[q]][n]
      /\ <<>> \in there <=> way[<<>>] \notin {None} \cup moved
      /\ \A q \in Seq(Name), n \in Name :
           Append(q, n) \in there <=> q \in there /\ way[Append(q, n)] \notin {None} \cup moved
  BY <1>1, Ways, Theres
<1> SUFFICES ASSUME NEW x \in there' PROVE x \in there /\ way'[x] = way[x]
  OBVIOUS
<1> HIDE DEF way, there
<1> DEFINE Same(p) == p \in there /\ way'[p] = way[p]
           G == {k \in Nat : \A p \in there' : Len(p) = k => Same(p)}
<1>5. \A k : k \in G <=> k \in Nat /\ \A p \in there' : Len(p) = k => Same(p)
  OBVIOUS
<1> HIDE DEF G
<1>6. 0 \in G
  <2>1. ASSUME NEW p \in there', Len(p) = 0 PROVE Same(p)
    <3>1. p = <<>>
      BY <1>3, <2>1
    <3>2. ent'[Parent][Arg] \notin {None} \cup moved'
      BY <1>2, <1>3, <3>1
    <3>3. ent'[Parent][Arg] = ent[Parent][Arg]
      BY <1>1, <3>2, NoneAssumption
    <3> QED
      BY <1>1, <1>2, <1>4, <3>1, <3>2, <3>3
  <2> QED
    BY <1>5, <2>1
<1>7. ASSUME NEW k \in 1..Len(x), k - 1 \in G PROVE k \in G
  <2>1. ASSUME NEW p \in there', Len(p) = k PROVE Same(p)
    <3> DEFINE f == Front(p)
               n == Last(p)
    <3>1. p \in Seq(Name) /\ p # <<>>
      BY <1>3, <2>1
    <3>2. f \in Seq(Name) /\ n \in Name /\ Append(f, n) = p /\ Len(f) = k - 1
      BY <2>1, <3>1, PathParts, PathIs
    <3> HIDE DEF f, n
    <3>3. f \in there' /\ way'[p] \notin {None} \cup moved' /\ way'[f] \notin {None}
      BY <1>3, <2>1, <3>2
    <3>4. f \in there /\ way'[f] = way[f]
      BY <1>5, <1>7, <3>2, <3>3
    <3>5. way[f] \in Ino /\ way'[p] = ent'[way[f]][n] /\ way[p] = ent[way[f]][n]
      <4>1. way[f] # None /\ way'[f] # None
        BY <3>3, <3>4
      <4>2. way[f] \in Ino
        BY <1>4, <3>2, <4>1
      <4>3. way'[Append(f, n)] = ent'[way'[f]][n]
        BY <1>2, <3>2, <4>1, Zenon
      <4>4. way[Append(f, n)] = ent[way[f]][n]
        BY <1>4, <3>2, <4>1, Zenon
      <4> QED
        BY <3>2, <3>4, <4>2, <4>3, <4>4
    <3>6. way'[p] = way[p]
      BY <1>1, <3>2, <3>3, <3>5
    <3>7. p \in there
      BY <1>1, <1>4, <3>2, <3>3, <3>4, <3>6
    <3> QED
      BY <3>6, <3>7
  <2> HIDE DEF Same
  <2> QED
    BY <1>5, <1>7, <2>1
<1>8. Len(x) \in Nat
  BY <1>3
<1>9. \A k \in 0..Len(x) : k \in G
  BY <1>6, <1>7, <1>8, UpTo
<1>10. Len(x) \in G
  BY <1>8, <1>9
<1> QED
  BY <1>5, <1>10

-----------------------------------------------------------------------------
(* What the walk has recorded of what is there is so,                      *)
Followed == \A p \in Path : pre[p] # None =>
  pre[p].ino \in Ino /\ (p \in there => way[p] = pre[p].ino)

(* each frame of a walk or a removal is of a directory that was recorded,  *)
(* in the one below it,                                                    *)
Chain == \A k \in DOMAIN stack :
  /\ pre[stack[k].rel] # None /\ stack[k].dir = pre[stack[k].rel].ino
  /\ Len(stack[k].rel) = Len(stack) - k
  /\ k < Len(stack) => Front(stack[k].rel) = stack[k + 1].rel

(* and in a removal what is there is named, or still to come: a directory  *)
(* that is entered, or what is under a name it has still to take.          *)
Waits(f, p) == IsPrefix(f.rel, p) /\ (p = f.rel \/ p[Len(f.rel) + 1] \in f.todo)
pending == {p \in Path : \E k \in DOMAIN stack : Waits(stack[k], p)}
named == {p \in Path : \E k \in kept : IsPrefix(k, p)}
Told ==
  /\ pc = "rm" => \A p \in Path \cap there : pre[p] # None => p \in named \cup pending
  /\ out \in {"copied", "kept"} => \A p \in Path \cap there : pre[p] # None => p \in named
  /\ pc # "end" => out = None

Telling == Followed /\ Chain /\ Told

(* A step that leaves the walk's record, the frames and the names alone    *)
(* tells no less; at the end of a removal no frame is left.                *)
LEMMA QuietTells ==
  ASSUME Basic, Telling, [Next]_vars, UNCHANGED <<stack, pre, kept>>,
         pc' = "rm" => pc = "rm",
         out' \in {"copied", "kept"} => out' = out \/ (pc = "rm" /\ stack = <<>>),
         pc' # "end" => out' = None
  PROVE  Telling'
<1>1. there' \subseteq there /\ \A p \in there' : way'[p] = way[p]
  BY Fewer
<1>2. Followed'
  BY <1>1 DEF Telling, Followed
<1>3. Chain'
  BY DEF Telling, Chain
<1>4. named' = named /\ pending' = pending
  BY DEF named, pending
<1>5. stack = <<>> => pending = {}
  BY DEF pending
<1>6. Told'
  BY <1>1, <1>4, <1>5 DEF Telling, Told
<1> QED
  BY <1>2, <1>3, <1>6 DEF Telling

(* What the record says is kept by a step that leaves it alone.            *)
LEMMA FollowedStays ==
  ASSUME Basic, Followed, [Next]_vars, pre' = pre
  PROVE  Followed'
BY Fewer DEF Followed

(* The frames, when the first takes a name, and another may be pushed.     *)
LEMMA ChainGrows ==
  ASSUME Basic, Chain, stack # <<>>, NEW n \in Name, NEW q \in Path, NEW i,
         q = Append(Head(stack).rel, n),
         \A p \in Path : p # q => pre'[p] = pre[p],
         LET rest == <<Without(Head(stack), n)>> \o Tail(stack) IN
         \/ stack' = rest
         \/ i \in Ino /\ pre'[q] # None /\ pre'[q].ino = i /\ stack' = <<Frame(i, q)>> \o rest
  PROVE  Chain'
<1> DEFINE f == stack[1]
           x == Without(Head(stack), n)
           rest == <<x>> \o Tail(stack)
           l == Len(stack)
<1>1. /\ stack \in Seq(Frames) /\ Head(stack) = f /\ l \in Nat /\ l > 0 /\ DOMAIN stack = 1..l
      /\ x \in Frames /\ f \in Frames
  BY HeadIs DEF Basic, Typed
<1>2. x.dir = f.dir /\ x.rel = f.rel
  <2> DEFINE h == Head(stack)
  <2>1. h \in Frames /\ h = f
    BY <1>1
  <2> HIDE DEF h, l, f
  <2>2. x = Without(h, n)
    BY DEF h
  <2> HIDE DEF x
  <2> QED
    BY <2>1, <2>2 DEF Without, Frames
<1>3. ASSUME NEW k \in 1..l
      PROVE  /\ stack[k].rel \in Path /\ stack[k].rel \in Seq(Name)
             /\ pre[stack[k].rel] # None /\ stack[k].dir = pre[stack[k].rel].ino
             /\ Len(stack[k].rel) = l - k
             /\ k < l => Front(stack[k].rel) = stack[k + 1].rel
  <2>1. stack[k] \in Frames
    BY <1>1
  <2> QED
    BY <1>1, <2>1, PathAssumption DEF Chain, Frames
<1>4. q \in Seq(Name) /\ Front(q) = f.rel /\ Len(q) = l
  <2>0. 1 \in 1..l /\ q = Append(f.rel, n)
    BY <1>1
  <2>1. f.rel \in Seq(Name) /\ Len(f.rel) = l - 1
    BY <1>3, <2>0
  <2> DEFINE r == f.rel
  <2> HIDE DEF r, l, x, rest
  <2>2. q = Append(r, n) /\ r \in Seq(Name) /\ Len(r) = l - 1
    BY <2>0, <2>1 DEF r
  <2>3. q \in Seq(Name) /\ Len(q) = l
    <3>1. Append(r, n) \in Seq(Name) /\ Len(Append(r, n)) = Len(r) + 1
      BY <2>2, PathsAbove
    <3>2. q \in Seq(Name) /\ Len(q) = (l - 1) + 1
      BY <2>2, <3>1, Zenon
    <3>3. (l - 1) + 1 = l
      BY <1>1
    <3> QED
      BY <3>2, <3>3, Zenon
  <2>4. Front(q) = r
    BY <2>2, PathEnds
  <2> QED
    BY <2>3, <2>4 DEF r
<1>5. ASSUME NEW k \in 1..l PROVE stack[k].rel # q
  <2> HIDE DEF l
  <2>1. Len(stack[k].rel) = l - k /\ Len(q) = l /\ k \in Nat /\ k > 0
    BY <1>1, <1>3, <1>4
  <2> QED
    BY <1>1, <2>1
<1>6. /\ rest \in Seq(Frames) /\ Len(rest) = l /\ rest[1] = x /\ DOMAIN rest = 1..l
      /\ \A k \in 2..l : rest[k] = stack[k]
  BY <1>1, Stacks
<1>7. ASSUME NEW k \in 1..l
      PROVE  rest[k].rel = stack[k].rel /\ rest[k].dir = stack[k].dir
  <2>1. k = 1 \/ k \in 2..l
    BY <1>1
  <2> QED
    BY <1>2, <1>6, <2>1
<1>8. ASSUME NEW k \in 1..l
      PROVE  /\ pre'[rest[k].rel] # None /\ rest[k].dir = pre'[rest[k].rel].ino
             /\ Len(rest[k].rel) = l - k
             /\ k < l => Front(rest[k].rel) = rest[k + 1].rel
  <2>1. pre'[stack[k].rel] = pre[stack[k].rel]
    BY <1>3, <1>5
  <2>2. k < l => k + 1 \in 1..l
    <3> HIDE DEF l, rest, x, f
    <3> QED
      BY <1>1
  <2> QED
    BY <1>3, <1>7, <2>1, <2>2
<1>9. CASE stack' = rest
  BY <1>6, <1>8, <1>9 DEF Chain
<1>10. CASE i \in Ino /\ pre'[q] # None /\ pre'[q].ino = i /\ stack' = <<Frame(i, q)>> \o rest
  <2> DEFINE y == Frame(i, q)
  <2>1. y \in Frames /\ y.dir = i /\ y.rel = q
    BY <1>10, FrameIs DEF Frame
  <2>2. /\ stack' \in Seq(Frames) /\ Len(stack') = l + 1 /\ stack'[1] = y /\ stack'[2] = x
        /\ \A k \in 3..(l + 1) : stack'[k] = stack[k - 1]
    <3>1. stack' = <<y>> \o (<<x>> \o Tail(stack))
      BY <1>10
    <3>2. stack \in Seq(Frames) /\ stack # <<>> /\ x \in Frames /\ y \in Frames
      BY <1>1, <2>1
    <3> HIDE DEF x, y
    <3>3. LET t == <<y>> \o (<<x>> \o Tail(stack)) IN
          /\ t \in Seq(Frames) /\ Len(t) = Len(stack) + 1 /\ t[1] = y /\ t[2] = x
          /\ \A k \in 3..(Len(stack) + 1) : t[k] = stack[k - 1]
      BY <3>2, Stacks
    <3> QED
      BY <3>1, <3>3
  <2> HIDE DEF y, rest, x, l
  <2>3. DOMAIN stack' = 1..(l + 1)
    BY <2>2
  <2>4. ASSUME NEW k \in 2..(l + 1) PROVE stack'[k] = rest[k - 1]
    <3>1. k = 2 \/ (k \in 3..(l + 1) /\ k - 1 \in 2..l)
      BY <1>1
    <3>2. CASE k = 2
      BY <1>6, <2>2, <3>2
    <3>3. CASE k \in 3..(l + 1) /\ k - 1 \in 2..l
      BY <1>6, <2>2, <3>3
    <3> QED
      BY <3>1, <3>2, <3>3
  <2>5. ASSUME NEW k \in 1..(l + 1)
        PROVE  /\ pre'[stack'[k].rel] # None /\ stack'[k].dir = pre'[stack'[k].rel].ino
               /\ Len(stack'[k].rel) = (l + 1) - k
               /\ k < l + 1 => Front(stack'[k].rel) = stack'[k + 1].rel
    <3>1. CASE k = 1
      <4>1. stack'[2] = x /\ 1 < l + 1 /\ Front(q) = x.rel
        BY <1>1, <1>2, <1>4, <2>2
      <4>2. /\ pre'[stack'[1].rel] # None /\ stack'[1].dir = pre'[stack'[1].rel].ino
            /\ Len(stack'[1].rel) = l /\ Front(stack'[1].rel) = stack'[2].rel
        BY <1>4, <1>10, <2>1, <2>2, <4>1
      <4>3. l = (l + 1) - 1 /\ 1 + 1 = 2
        BY <1>1
      <4> HIDE DEF f
      <4> QED
        BY <3>1, <4>2, <4>3
    <3>2. CASE k # 1
      <4>1. k \in 2..(l + 1) /\ k - 1 \in 1..l /\ l - (k - 1) = (l + 1) - k
        BY <1>1, <3>2
      <4>2. k < l + 1 => k + 1 \in 2..(l + 1) /\ (k + 1) - 1 = (k - 1) + 1 /\ k - 1 < l
        BY <1>1, <4>1
      <4>3. stack'[k] = rest[k - 1]
        BY <2>4, <4>1
      <4>4. k < l + 1 => stack'[k + 1] = rest[(k - 1) + 1]
        BY <2>4, <4>2
      <4> QED
        BY <1>8, <4>1, <4>2, <4>3, <4>4
    <3> QED
      BY <3>1, <3>2
  <2> QED
    BY <2>2, <2>3, <2>5 DEF Chain
<1> QED
  BY <1>9, <1>10

(* The frames without the first.                                           *)
LEMMA ChainPops ==
  ASSUME Basic, Chain, stack # <<>>, stack' = Tail(stack), pre' = pre
  PROVE  Chain'
<1> DEFINE l == Len(stack)
<1>1. /\ l \in Nat /\ l > 0 /\ DOMAIN stack = 1..l
      /\ Len(stack') = l - 1 /\ DOMAIN stack' = 1..(l - 1)
      /\ \A k \in 1..(l - 1) : stack'[k] = stack[k + 1]
  BY DEF Basic, Typed
<1> HIDE DEF l
<1>2. ASSUME NEW k \in 1..(l - 1)
      PROVE  /\ pre[stack'[k].rel] # None /\ stack'[k].dir = pre[stack'[k].rel].ino
             /\ Len(stack'[k].rel) = (l - 1) - k
             /\ k < l - 1 => Front(stack'[k].rel) = stack'[k + 1].rel
  <2>1. /\ k + 1 \in 1..l /\ l - (k + 1) = (l - 1) - k /\ stack'[k] = stack[k + 1]
        /\ k < l - 1 => k + 1 < l /\ k + 1 \in 1..(l - 1)
    BY <1>1
  <2>2. k < l - 1 => stack'[k + 1] = stack[(k + 1) + 1]
    BY <1>1, <2>1
  <2>3. /\ pre[stack[k + 1].rel] # None /\ stack[k + 1].dir = pre[stack[k + 1].rel].ino
        /\ Len(stack[k + 1].rel) = l - (k + 1)
        /\ k + 1 < l => Front(stack[k + 1].rel) = stack[(k + 1) + 1].rel
    BY <1>1, <2>1 DEF Chain, l
  <2> QED
    BY <2>1, <2>2, <2>3
<1> QED
  BY <1>1, <1>2 DEF Chain

(* A name in a recorded directory, and the path that leads to it.          *)
LEMMA LeadsTo ==
  TreeOK /\ TreeOK' =>
    /\ way[<<>>] = ent[Parent][Arg]
    /\ <<>> \in there' => ent'[Parent][Arg] = way'[<<>>] /\ way'[<<>>] # None
    /\ \A f \in Seq(Name), n \in Name :
         /\ Append(f, n) \in there => f \in there /\ way[Append(f, n)] = ent[way[f]][n]
         /\ Append(f, n) \in there' => /\ f \in there'
                                       /\ way'[Append(f, n)] = ent'[way'[f]][n]
                                       /\ way'[Append(f, n)] # None
<1> DEFINE Below == \A f \in Seq(Name), n \in Name :
             Append(f, n) \in there => /\ f \in there
                                       /\ way[Append(f, n)] = ent[way[f]][n]
                                       /\ way[Append(f, n)] # None
           Top == /\ way[<<>>] = ent[Parent][Arg]
                  /\ <<>> \in there => way[<<>>] # None
<1>1. TreeOK => Below /\ Top
  <2> SUFFICES ASSUME TreeOK PROVE Below /\ Top
    OBVIOUS
  <2>1. Top
    BY Ways, Theres
  <2>2. ASSUME NEW f \in Seq(Name), NEW n \in Name, Append(f, n) \in there
        PROVE  f \in there /\ way[Append(f, n)] = ent[way[f]][n] /\ way[Append(f, n)] # None
    <3>1. f \in there /\ way[Append(f, n)] # None
      BY <2>2, Theres
    <3>2. way[f] # None
      BY <3>1, Theres
    <3> QED
      BY <3>1, <3>2, Ways
  <2> QED
    BY <2>1, <2>2
<1>2. (TreeOK => Below /\ Top)'
  <2> HIDE DEF Below, Top
  <2> QED
    BY <1>1, PTL
<1> HIDE DEF way, there
<1> QED
  BY <1>1, <1>2

(* And so after a step.                                                    *)
LEMMA AboveNext ==
  TreeOK' => \A p \in there', q \in Seq(Name) : IsPrefix(q, p) => q \in there'
<1> DEFINE Closed == \A p \in there, q \in Seq(Name) : IsPrefix(q, p) => q \in there
<1>1. TreeOK => Closed
  BY Above
<1>2. (TreeOK => Closed)'
  <2> HIDE DEF Closed
  <2> QED
    BY <1>1, PTL
<1> HIDE DEF there
<1> QED
  BY <1>2

(* What the removal finds at a name it takes: what is there under it is    *)
(* named with it, or it is entered.                                        *)
LEMMA EnterTells ==
  ASSUME Basic, [Next]_vars,
         NEW d \in Ino, NEW n \in Name, NEW q \in Path, NEW rest,
         EnterOrUnlink(d, n, q, rest), pre' = pre,
         q \in there => way[q] = ent[d][n],
         q \in there' => ent'[d][n] # None
  PROVE  /\ kept \subseteq kept'
         /\ \/ /\ stack' = rest
               /\ \A p \in Path \cap there' : IsPrefix(q, p) => p \in named'
            \/ LET i == ent[d][n] IN
               /\ i \in Ino /\ pre[q] # None /\ pre[q].ino = i
               /\ stack' = <<Frame(i, q)>> \o rest
               /\ \A p \in Path \cap there' : IsPrefix(q, p) => Waits(Frame(i, q), p)
<1> DEFINE i == ent[d][n]
<1>1. /\ TreeOK /\ TreeOK' /\ i \in Ino \cup {None} /\ q \in Seq(Name)
      /\ there' \subseteq there /\ \A p \in there' : way'[p] = way[p]
  BY Inductive, Fewer, EntryIs, PathAssumption DEF Basic, IInv
<1>2. ASSUME NEW p \in there', IsPrefix(q, p)
      PROVE  /\ q \in there' /\ i # None
             /\ q # p => p[Len(q) + 1] \in Name /\ ent[i][p[Len(q) + 1]] # None
  <2>1. q \in there' /\ q \in there
    <3> HIDE DEF there
    <3> QED
      BY <1>1, <1>2, AboveNext
  <2>2. way[q] = i /\ way[q] # None
    BY <1>1, <2>1, Theres
  <2>3. q # p => p[Len(q) + 1] \in Name /\ ent[way[q]][p[Len(q) + 1]] # None
    <3>1. p \in there
      BY <1>1
    <3> HIDE DEF there, way
    <3> QED
      BY <1>1, <1>2, <3>1, Above
  <2> QED
    BY <2>1, <2>2, <2>3
<1>3. CASE i = None /\ stack' = rest /\ UNCHANGED removal
  <2>1. ASSUME NEW p \in there', IsPrefix(q, p) PROVE FALSE
    BY <1>2, <1>3, <2>1
  <2>2. kept' = kept
    BY <1>3 DEF removal
  <2> HIDE DEF there
  <2> QED
    BY <1>3, <2>1, <2>2
<1>4. CASE ent' = [ent EXCEPT ![d][n] = None] /\ stack' = rest /\ kept' = kept
  <2>1. ent'[d][n] = None
    BY <1>1, <1>4 DEF TreeOK
  <2>2. ASSUME NEW p \in there', IsPrefix(q, p) PROVE FALSE
    <3>1. q \in there'
      BY <1>2, <2>2
    <3> HIDE DEF there
    <3> QED
      BY <2>1, <3>1
  <2> HIDE DEF there
  <2> QED
    BY <1>4, <2>2
<1>5. CASE i # None /\ DirOK(q, i) /\ stack' = <<Frame(i, q)>> \o rest /\ UNCHANGED removal
  <2>1. pre[q] # None /\ pre[q].ino = i /\ i \in Ino
    <3>1. Seen(i) \in Stamps /\ Seen(i).ino = i
      BY <1>1, <1>5 DEF Seen, Stamps, IsDir, TreeOK
    <3> QED
      BY <1>1, <1>5, <3>1, NoneAssumption DEF DirOK
  <2>2. ASSUME NEW p \in there', IsPrefix(q, p) PROVE Waits(Frame(i, q), p)
    <3>1. q # p => p[Len(q) + 1] \in Name /\ ent[i][p[Len(q) + 1]] # None
      BY <1>2, <2>2
    <3> HIDE DEF i
    <3> QED
      BY <2>2, <3>1 DEF Waits, Frame
  <2>3. kept' = kept
    BY <1>5 DEF removal
  <2> HIDE DEF there
  <2> QED
    BY <1>5, <2>1, <2>2, <2>3
<1>6. CASE kept' = kept \cup {q} /\ stack' = rest
  <2>1. \A p \in Path \cap there' : IsPrefix(q, p) => p \in named'
    <3> HIDE DEF there
    <3> QED
      BY <1>6 DEF named
  <2> HIDE DEF there, named
  <2> QED
    BY <1>6, <2>1
<1>7. \/ i = None /\ stack' = rest /\ UNCHANGED removal
      \/ ent' = [ent EXCEPT ![d][n] = None] /\ stack' = rest /\ kept' = kept
      \/ i # None /\ DirOK(q, i) /\ stack' = <<Frame(i, q)>> \o rest /\ UNCHANGED removal
      \/ kept' = kept \cup {q} /\ stack' = rest
  BY DEF EnterOrUnlink, removal
<1> HIDE DEF i
<1> QED
  BY <1>3, <1>4, <1>5, <1>6, <1>7

(* The names that are kept only grow.                                      *)
LEMMA NamedGrows ==
  ASSUME kept \subseteq kept' PROVE named \subseteq named'
BY DEF named

LEMMA WalkTopTells ==
  ASSUME Basic, Telling, [Next]_vars, WalkTop
  PROVE  Telling'
<1> DEFINE i == ent[Parent][Arg]
<1>1. /\ TreeOK /\ i \in Ino \cup {None} /\ pc = "top" /\ pc' # "rm" /\ kept' = kept
      /\ <<>> \in Path /\ there' \subseteq there /\ (\A p \in there' : way'[p] = way[p]) /\ way[<<>>] = i
      /\ DOMAIN pre = Path
  BY NoneAssumption, PathAssumption, EntryIs, Fewer, Ways
  DEF Basic, IInv, Typed, WalkTop, Goto, End, removal
<1>2. CASE i = None
  <2>1. UNCHANGED <<stack, pre>> /\ out' = "refused" /\ pc' = "end"
    BY <1>2 DEF WalkTop, End, walked
  <2> QED
    BY <1>1, <2>1, QuietTells
<1>3. CASE i # None
  <2>1. /\ pre' = [pre EXCEPT ![<<>>] = Seen(i)] /\ stack' = Opened(i, <<>>)
        /\ pc' = "walk" /\ out' = out /\ out = None
    BY <1>1, <1>3 DEF WalkTop, Goto, Telling, Told
  <2>2. i \in Ino /\ Seen(i).ino = i /\ Seen(i) # None
    <3>1. Seen(i) \in Stamps /\ Seen(i).ino = i
      BY <1>1, <1>3 DEF Seen, Stamps, IsDir, TreeOK
    <3> QED
      BY <1>1, <1>3, <3>1, NoneAssumption
  <2> HIDE DEF i, there, way
  <2>3. /\ \A p \in Path : p # <<>> => pre'[p] = pre[p]
        /\ pre'[<<>>] # None /\ pre'[<<>>].ino = i
    BY <1>1, <2>1, <2>2
  <2>4. Followed'
    BY <1>1, <2>2, <2>3 DEF Telling, Followed
  <2>5. Chain'
    <3>1. CASE stack' = <<>>
      BY <3>1 DEF Chain
    <3>2. CASE stack' = <<Frame(i, <<>>)>>
      <4>1. DOMAIN stack' = {1} /\ stack'[1] = Frame(i, <<>>) /\ Len(stack') = 1 /\ Len(<<>>) = 0
        BY <3>2
      <4>2. Frame(i, <<>>).dir = i /\ Frame(i, <<>>).rel = <<>>
        BY DEF Frame
      <4> QED
        BY <2>3, <4>1, <4>2 DEF Chain
    <3> QED
      BY <2>1, <3>1, <3>2 DEF Opened
  <2>6. Told'
    BY <1>1, <2>1, NoneAssumption DEF Told
  <2> QED
    BY <2>4, <2>5, <2>6 DEF Telling
<1> QED
  BY <1>2, <1>3

(* The frame a step takes a name from.                                     *)
LEMMA HeadFrame ==
  ASSUME Basic, Telling, stack # <<>>
  PROVE  LET f == Head(stack) IN
         /\ f \in Frames /\ f = stack[1] /\ f.rel \in Path /\ f.rel \in Seq(Name) /\ f.dir \in Ino
         /\ 1 \in DOMAIN stack /\ pre[f.rel] # None /\ f.dir = pre[f.rel].ino
         /\ f.rel \in there => way[f.rel] = f.dir
<1>1. /\ Head(stack) \in Frames /\ Head(stack) = stack[1] /\ 1 \in DOMAIN stack
  BY DEF Basic, Typed
<1>2. Head(stack).rel \in Path /\ Head(stack).dir \in Ino
  BY <1>1 DEF Frames
<1>3. pre[stack[1].rel] # None /\ stack[1].dir = pre[stack[1].rel].ino
  BY <1>1 DEF Telling, Chain
<1> HIDE DEF there, way
<1> QED
  BY <1>1, <1>2, <1>3, PathAssumption DEF Telling, Followed

LEMMA WalkChildTells ==
  ASSUME Basic, Telling, [Next]_vars, WalkChild
  PROVE  Telling'
<1> DEFINE f == Head(stack)
<1>1. PICK n \in f.todo, q \in Path :
        LET i == ent[f.dir][n]
            rest == <<Without(f, n)>> \o Tail(stack) IN
        /\ q = Append(f.rel, n)
        /\ \/ stack' = rest /\ pre' = pre
           \/ /\ i # None /\ pre' = [pre EXCEPT ![q] = Seen(i)]
              /\ stack' = Opened(i, q) \o rest
  BY ZenonT(40) DEF WalkChild, walked
<1>2. /\ pc = "walk" /\ pc' = "walk" /\ stack # <<>> /\ out' = out /\ out = None
  <2>1. pc = "walk" /\ pc' = "walk" /\ stack # <<>> /\ out' = out
    BY DEF WalkChild
  <2> HIDE DEF f
  <2> QED
    BY <2>1 DEF Telling, Told
<1> DEFINE i == ent[f.dir][n]
           rest == <<Without(f, n)>> \o Tail(stack)
<1>3. /\ TreeOK /\ TreeOK' /\ f \in Frames /\ f.rel \in Seq(Name) /\ f.dir \in Ino /\ n \in Name
      /\ (f.rel \in there => way[f.rel] = f.dir) /\ DOMAIN pre = Path
  BY <1>1, <1>2, HeadFrame, Inductive DEF Basic, Typed, IInv, Frames
<1>4. i \in Ino \cup {None} /\ rest \in Seq(Frames)
  <2>1. rest \in Seq(Frames)
    BY <1>2, <1>3, HeadIs, Stacks DEF Basic, Typed
  <2> QED
    BY <1>3, <2>1, EntryIs
<1>5. q \in there' => q \in there /\ way[q] = i /\ way'[q] = i
  <2>1. there' \subseteq there /\ \A p \in there' : way'[p] = way[p]
    <3> HIDE DEF f, i, rest, there, way
    <3> QED
      BY Fewer
  <2> HIDE DEF f, there, way
  <2>2. q = Append(f.rel, n)
    BY <1>1, ZenonT(40) DEF f
  <2> QED
    BY <1>3, <2>1, <2>2, LeadsTo
<1>6. /\ \A p \in Path : p # q => pre'[p] = pre[p]
      /\ \/ stack' = rest /\ pre' = pre
         \/ i # None /\ pre'[q] = Seen(i) /\ (stack' = rest \/ stack' = <<Frame(i, q)>> \o rest)
  <2>1. Opened(i, q) = <<>> \/ Opened(i, q) = <<Frame(i, q)>>
    BY DEF Opened
  <2> HIDE DEF i, rest
  <2>2. <<>> \o rest = rest
    BY <1>4
  <2> QED
    BY <1>1, <1>3, <2>1, <2>2 DEF i, rest
<1>7. i # None => i \in Ino /\ Seen(i) # None /\ Seen(i).ino = i
  <2>1. i # None => Seen(i) \in Stamps /\ Seen(i).ino = i
    BY <1>3, <1>4 DEF Seen, Stamps, IsDir, TreeOK
  <2> QED
    BY <1>4, <2>1, NoneAssumption
<1>8. Chain'
  <2>1. /\ Chain /\ q = Append(Head(stack).rel, n)
        /\ \/ stack' = <<Without(Head(stack), n)>> \o Tail(stack)
           \/ /\ i \in Ino /\ pre'[q] # None /\ pre'[q].ino = i
              /\ stack' = <<Frame(i, q)>> \o (<<Without(Head(stack), n)>> \o Tail(stack))
    BY <1>1, <1>6, <1>7 DEF Telling
  <2> HIDE DEF i
  <2> QED
    BY <1>2, <1>3, <1>6, <2>1, ChainGrows
<1>9. Followed'
  <2>1. there' \subseteq there /\ \A p \in there' : way'[p] = way[p]
    BY Fewer
  <2> HIDE DEF f, i, rest, there, way
  <2>2. ASSUME NEW p \in Path, pre'[p] # None
        PROVE  pre'[p].ino \in Ino /\ (p \in there' => way'[p] = pre'[p].ino)
    <3>1. CASE pre'[p] = pre[p]
      BY <2>1, <2>2, <3>1 DEF Telling, Followed
    <3>2. CASE p = q /\ i # None /\ pre'[q] = Seen(i)
      BY <1>5, <1>7, <3>2
    <3> QED
      BY <1>6, <3>1, <3>2
  <2> QED
    BY <2>2 DEF Followed
<1>10. Told'
  BY <1>2, NoneAssumption DEF Told
<1> QED
  BY <1>8, <1>9, <1>10 DEF Telling

(* The removal begins with the argument itself.                            *)
LEMMA RmTopTells ==
  ASSUME Basic, Telling, [Next]_vars, RmTop
  PROVE  Telling'
<1> DEFINE i == ent[Parent][Arg]
<1>1. /\ EnterOrUnlink(Parent, Arg, <<>>, <<>>) /\ pc = "rmtop" /\ pc' = "rm"
      /\ out' = out /\ out = None /\ pre' = pre
  BY DEF RmTop, Goto, walked, Telling, Told
<1>2. /\ TreeOK /\ TreeOK' /\ Parent \in Ino /\ Arg \in Name /\ <<>> \in Path
      /\ there' \subseteq Seq(Name) /\ there' \subseteq there
  BY Inductive, NoneAssumption, PathAssumption, Fewer DEF Basic, IInv, there
<1> HIDE DEF there, way
<1>3. /\ <<>> \in there => way[<<>>] = ent[Parent][Arg]
      /\ <<>> \in there' => ent'[Parent][Arg] # None
  BY <1>2, LeadsTo
<1>4. \/ /\ stack' = <<>>
         /\ \A p \in Path \cap there' : IsPrefix(<<>>, p) => p \in named'
      \/ /\ i \in Ino /\ pre[<<>>] # None /\ pre[<<>>].ino = i
         /\ stack' = <<Frame(i, <<>>)>> \o <<>>
         /\ \A p \in Path \cap there' : IsPrefix(<<>>, p) => Waits(Frame(i, <<>>), p)
  BY <1>1, <1>2, <1>3, EnterTells
<1>5. \A p \in Path : IsPrefix(<<>>, p)
  <2>1. ASSUME NEW p \in Path PROVE IsPrefix(<<>>, p)
    <3> DEFINE e == <<>>
    <3>1. p \in Seq(Name) /\ e \in Seq(Name) /\ Len(e) = 0 /\ Len(p) \in Nat
      BY PathAssumption
    <3> HIDE DEF e
    <3>2. Len(e) <= Len(p) /\ \A k \in 1..Len(e) : e[k] = p[k]
      BY <3>1
    <3>3. IsPrefix(e, p)
      BY <3>1, <3>2, PrefixOf
    <3> QED
      BY <3>3 DEF e
  <2> QED
    BY <2>1
<1>6. Followed'
  BY <1>1, FollowedStays DEF Telling
<1>7. CASE stack' = <<>> /\ \A p \in Path \cap there' : p \in named'
  <2>1. Chain'
    BY <1>7 DEF Chain
  <2>2. Told'
    BY <1>1, <1>7, NoneAssumption DEF Told
  <2> QED
    BY <1>6, <2>1, <2>2 DEF Telling
<1>8. CASE /\ i \in Ino /\ pre[<<>>] # None /\ pre[<<>>].ino = i
           /\ stack' = <<Frame(i, <<>>)>>
           /\ \A p \in Path \cap there' : Waits(Frame(i, <<>>), p)
  <2>1. DOMAIN stack' = {1} /\ stack'[1] = Frame(i, <<>>) /\ Len(stack') = 1 /\ Len(<<>>) = 0
    BY <1>8
  <2>2. Frame(i, <<>>).dir = i /\ Frame(i, <<>>).rel = <<>>
    BY DEF Frame
  <2> HIDE DEF i
  <2>3. Chain'
    BY <1>1, <1>8, <2>1, <2>2 DEF Chain
  <2>4. \A p \in Path \cap there' : p \in pending'
    BY <1>8, <2>1 DEF pending
  <2>5. Told'
    BY <1>1, <2>4, NoneAssumption DEF Told
  <2> QED
    BY <1>6, <2>3, <2>5 DEF Telling
<1> QED
  BY <1>4, <1>5, <1>7, <1>8

(* What waits for a frame waits for it without a name, or is under that.   *)
LEMMA WaitsOn ==
  ASSUME NEW f \in Frames, f.rel \in Seq(Name), NEW n \in Name, NEW p \in Seq(Name), Waits(f, p)
  PROVE  Waits(Without(f, n), p) \/ IsPrefix(Append(f.rel, n), p)
<1> DEFINE r == f.rel
           q == Append(r, n)
           g == Without(f, n)
<1>1. g.rel = r /\ g.todo = f.todo \ {n} /\ IsPrefix(r, p)
      /\ (p = r \/ p[Len(r) + 1] \in f.todo)
  BY DEF Without, Frames, Waits
<1>2. /\ Len(r) \in Nat /\ Len(p) \in Nat /\ Len(r) <= Len(p) /\ \A k \in 1..Len(r) : r[k] = p[k]
  BY <1>1, PrefixOf
<1>3. CASE p = r \/ p[Len(r) + 1] # n
  BY <1>1, <1>3 DEF Waits
<1>4. CASE p # r /\ p[Len(r) + 1] = n
  <2> HIDE DEF r
  <2>1. Len(r) < Len(p)
    <3> SUFFICES ASSUME Len(r) = Len(p) PROVE FALSE
      BY <1>2
    <3>1. r = p
      BY <1>2, SeqEqual DEF r
    <3> QED
      BY <1>4, <3>1
  <2>2. /\ q \in Seq(Name) /\ Len(q) = Len(r) + 1 /\ q[Len(r) + 1] = n
        /\ \A k \in 1..Len(r) : q[k] = r[k]
    BY DEF r
  <2> HIDE DEF q
  <2>3. Len(q) <= Len(p)
    BY <1>2, <2>1, <2>2
  <2>4. ASSUME NEW k \in 1..Len(q) PROVE q[k] = p[k]
    <3>1. k \in 1..Len(r) \/ k = Len(r) + 1
      BY <1>2, <2>2
    <3> QED
      BY <1>2, <1>4, <2>2, <3>1
  <2>5. IsPrefix(q, p)
    BY <2>2, <2>3, <2>4, PrefixOf
  <2> QED
    BY <2>5 DEF q, r
<1> QED
  BY <1>3, <1>4

LEMMA RmChildTells ==
  ASSUME Basic, Telling, [Next]_vars, RmChild
  PROVE  Telling'
<1> DEFINE f == Head(stack)
<1>1. PICK n \in f.todo, q \in Path :
        /\ q = Append(f.rel, n)
        /\ EnterOrUnlink(f.dir, n, q, <<Without(f, n)>> \o Tail(stack))
  BY DEF RmChild
<1>2. /\ pc = "rm" /\ pc' = "rm" /\ stack # <<>> /\ out' = out /\ out = None /\ pre' = pre
      /\ \A p \in Path \cap there : pre[p] # None => p \in named \cup pending
  BY DEF RmChild, walked, Telling, Told
<1> DEFINE i == ent[f.dir][n]
           x == Without(f, n)
           rest == <<x>> \o Tail(stack)
           l == Len(stack)
<1>3. /\ TreeOK /\ TreeOK' /\ f \in Frames /\ f.rel \in Seq(Name) /\ f.dir \in Ino /\ n \in Name
      /\ f.rel \in Path /\ f = stack[1] /\ q \in Seq(Name)
      /\ (f.rel \in there => way[f.rel] = f.dir) /\ stack \in Seq(Frames)
      /\ there' \subseteq there /\ (\A p \in there' : way'[p] = way[p])
  BY <1>1, <1>2, HeadFrame, Inductive, Fewer, PathAssumption DEF Basic, Typed, IInv, Frames
<1>4. /\ q \in there => way[q] = i
      /\ q \in there' => ent'[f.dir][n] # None
  <2> HIDE DEF f, there, way
  <2>1. q = Append(f.rel, n)
    BY <1>1
  <2> QED
    BY <1>3, <2>1, LeadsTo
<1> HIDE DEF there, way
<1>5. /\ kept \subseteq kept'
      /\ \/ /\ stack' = rest
            /\ \A p \in Path \cap there' : IsPrefix(q, p) => p \in named'
         \/ /\ i \in Ino /\ pre[q] # None /\ pre[q].ino = i
            /\ stack' = <<Frame(i, q)>> \o rest
            /\ \A p \in Path \cap there' : IsPrefix(q, p) => Waits(Frame(i, q), p)
  <2> DEFINE d == f.dir
  <2>1. /\ d \in Ino /\ EnterOrUnlink(d, n, q, rest)
        /\ (q \in there => way[q] = ent[d][n]) /\ (q \in there' => ent'[d][n] # None)
    BY <1>1, <1>3, <1>4
  <2> HIDE DEF d, rest, f
  <2>2. /\ kept \subseteq kept'
        /\ \/ /\ stack' = rest
              /\ \A p \in Path \cap there' : IsPrefix(q, p) => p \in named'
           \/ LET j == ent[d][n] IN
              /\ j \in Ino /\ pre[q] # None /\ pre[q].ino = j
              /\ stack' = <<Frame(j, q)>> \o rest
              /\ \A p \in Path \cap there' : IsPrefix(q, p) => Waits(Frame(j, q), p)
    BY <1>2, <1>3, <2>1, EnterTells
  <2> QED
    BY <2>2 DEF d
<1>6. x \in Frames /\ l \in Nat /\ l > 0 /\ DOMAIN stack = 1..l
  BY <1>2, <1>3, HeadIs DEF Basic
<1>7. /\ rest \in Seq(Frames) /\ Len(rest) = l /\ rest[1] = x /\ DOMAIN rest = 1..l
      /\ \A k \in 2..l : rest[k] = stack[k]
  BY <1>2, <1>3, <1>6, Stacks
<1>8. ASSUME stack' = <<Frame(i, q)>> \o rest, i \in Ino
      PROVE  /\ \A p \in Path : Waits(Frame(i, q), p) => p \in pending'
             /\ \A k \in 1..l, p \in Path : Waits(rest[k], p) => p \in pending'
  <2> DEFINE y == Frame(i, q)
  <2>1. y \in Frames
    BY <1>8, FrameIs
  <2> HIDE DEF rest, x, y
  <2>2. stack' = <<y>> \o rest
    BY <1>8 DEF y
  <2>3. /\ DOMAIN stack' = 1..(l + 1) /\ stack'[1] = y
        /\ \A k \in 1..l : k + 1 \in DOMAIN stack' /\ stack'[k + 1] = rest[k]
    BY <1>6, <1>7, <2>1, <2>2
  <2>4. \A p \in Path : Waits(y, p) => p \in pending'
    BY <1>6, <2>3 DEF pending
  <2>5. \A k \in 1..l, p \in Path : Waits(rest[k], p) => p \in pending'
    BY <2>3 DEF pending
  <2> QED
    BY <2>4, <2>5 DEF y
<1>9. ASSUME stack' = rest
      PROVE  \A k \in 1..l, p \in Path : Waits(rest[k], p) => p \in pending'
  <2> HIDE DEF rest, x
  <2> QED
    BY <1>7, <1>9 DEF pending
<1>10. ASSUME NEW p \in Path \cap there', pre'[p] # None PROVE p \in named' \cup pending'
  <2>0. /\ p \in there /\ p \in Seq(Name) /\ named \subseteq named'
        /\ \A k \in 1..l : Waits(rest[k], p) => p \in pending'
    <3>1. \A k \in 1..l : Waits(rest[k], p) => p \in pending'
      <4> HIDE DEF i, x, rest, l
      <4> QED
        BY <1>5, <1>8, <1>9
    <3> QED
      BY <1>3, <1>5, <3>1, PathAssumption, NamedGrows
  <2> HIDE DEF named, pending
  <2>1. CASE p \in named
    BY <2>0, <2>1
  <2>2. CASE IsPrefix(q, p)
    <3> HIDE DEF i, x, rest, l
    <3>1. CASE stack' = rest /\ \A t \in Path \cap there' : IsPrefix(q, t) => t \in named'
      BY <2>2, <3>1
    <3>2. CASE /\ i \in Ino /\ stack' = <<Frame(i, q)>> \o rest
               /\ \A t \in Path \cap there' : IsPrefix(q, t) => Waits(Frame(i, q), t)
      BY <1>8, <2>2, <3>2
    <3> QED
      BY <1>5, <3>1, <3>2
  <2>3. CASE p \in pending /\ ~IsPrefix(q, p)
    <3>1. PICK k \in DOMAIN stack : Waits(stack[k], p)
      BY <2>3 DEF pending
    <3> HIDE DEF pending
    <3>2. CASE k = 1
      <4>1. Waits(f, p)
        BY <1>3, <3>1, <3>2
      <4>2. Waits(x, p)
        <5>1. ~IsPrefix(Append(f.rel, n), p)
          BY <1>1, <2>3
        <5> HIDE DEF f
        <5> QED
          BY <1>3, <2>0, <4>1, <5>1, WaitsOn
      <4>3. 1 \in 1..l
        BY <1>6
      <4> HIDE DEF x, rest, f
      <4> QED
        BY <1>7, <2>0, <4>2, <4>3
    <3>3. CASE k # 1
      <4> HIDE DEF x, rest, f
      <4>1. k \in 1..l /\ k \in 2..l
        BY <1>6, <3>3
      <4> QED
        BY <1>7, <2>0, <3>1, <4>1
    <3> QED
      BY <3>2, <3>3
  <2>4. p \in named \cup pending
    BY <1>2, <1>10, <2>0
  <2> QED
    BY <2>1, <2>2, <2>3, <2>4
<1>11. Chain'
  <2>1. /\ Chain /\ q = Append(Head(stack).rel, n) /\ \A p \in Path : p # q => pre'[p] = pre[p]
        /\ \/ stack' = <<Without(Head(stack), n)>> \o Tail(stack)
           \/ /\ i \in Ino /\ pre'[q] # None /\ pre'[q].ino = i
              /\ stack' = <<Frame(i, q)>> \o (<<Without(Head(stack), n)>> \o Tail(stack))
    BY <1>1, <1>2, <1>5 DEF Telling
  <2> HIDE DEF i
  <2> QED
    BY <1>2, <1>3, <2>1, ChainGrows
<1>12. Followed'
  BY <1>2, FollowedStays DEF Telling
<1>13. Told'
  BY <1>2, <1>10, NoneAssumption DEF Told
<1> QED
  BY <1>11, <1>12, <1>13 DEF Telling

(* A directory whose names are done is named itself, or is gone.           *)
LEMMA RmDirTells ==
  ASSUME Basic, Telling, [Next]_vars, RmDir
  PROVE  Telling'
<1> DEFINE f == Head(stack)
           l == Len(stack)
           up == IF l = 1 THEN Parent ELSE stack[2].dir
           n == IF f.rel = <<>> THEN Arg ELSE Last(f.rel)
           i == ent[up][n]
<1>1. /\ pc = "rm" /\ pc' = "rm" /\ stack # <<>> /\ out' = out /\ out = None /\ pre' = pre
      /\ stack' = Tail(stack) /\ f.todo = {}
      /\ \A p \in Path \cap there : pre[p] # None => p \in named \cup pending
  <2>1. /\ pc = "rm" /\ pc' = "rm" /\ stack # <<>> /\ out' = out /\ pre' = pre
        /\ stack' = Tail(stack) /\ f.todo = {}
    BY DEF RmDir, walked
  <2> HIDE DEF f, l, up, n, i, there
  <2> QED
    BY <2>1 DEF Telling, Told
<1>2. \/ ent' = [ent EXCEPT ![up][n] = None] /\ kept' = kept
      \/ i = None /\ kept' = kept
      \/ kept' = kept \cup {f.rel}
  BY DEF RmDir
<1>3. /\ TreeOK /\ TreeOK' /\ f \in Frames /\ f.rel \in Path /\ f.rel \in Seq(Name) /\ f = stack[1]
      /\ stack \in Seq(Frames) /\ l \in Nat /\ l > 0 /\ DOMAIN stack = 1..l
      /\ there' \subseteq there /\ (\A p \in there' : way'[p] = way[p] /\ way[p] # None)
      /\ ent \in [Ino -> [Name -> Ino \cup {None}]] /\ Parent \in Ino /\ Arg \in Name
  BY <1>1, HeadFrame, Inductive, Fewer, Theres, NoneAssumption, SMTT(30)
  DEF Basic, Typed, IInv, TreeOK
<1> HIDE DEF there, way
<1>4. ASSUME f.rel \in there'
      PROVE  up \in Ino /\ n \in Name /\ i # None /\ ent'[up][n] # None
  <2>1. Len(f.rel) = l - 1
    <3>0. 1 \in DOMAIN stack
      BY <1>3
    <3>1. Len(stack[1].rel) = Len(stack) - 1
      BY <3>0 DEF Telling, Chain
    <3> HIDE DEF f
    <3> QED
      BY <1>3, <3>1
  <2>2. CASE l = 1
    <3>1. f.rel = <<>>
      BY <1>3, <2>1, <2>2
    <3> QED
      BY <1>3, <1>4, <2>2, <3>1, LeadsTo
  <2>3. CASE l # 1
    <3>1. 2 \in DOMAIN stack /\ 1 \in DOMAIN stack /\ 1 < l /\ f.rel # <<>>
      <4> DEFINE r == f.rel
      <4>1. r # <<>> <=> Len(r) # 0
        BY <1>3
      <4> HIDE DEF f, r, l, up, n
      <4>2. l > 1 /\ 1 \in 1..l /\ 2 \in 1..l /\ l - 1 # 0
        BY <1>3, <2>3
      <4>3. Len(r) = l - 1
        BY <2>1 DEF r
      <4>4. r # <<>>
        BY <4>1, <4>2, <4>3
      <4> QED
        BY <1>3, <4>2, <4>4 DEF r
    <3>2. /\ stack[2] \in Frames /\ Front(f.rel) = stack[2].rel
          /\ pre[stack[2].rel] # None /\ stack[2].dir = pre[stack[2].rel].ino
      BY <1>3, <3>1 DEF Telling, Chain
    <3> DEFINE g == stack[2].rel
    <3>3. /\ g \in Path /\ g \in Seq(Name) /\ stack[2].dir \in Ino
          /\ Last(f.rel) \in Name /\ Append(g, Last(f.rel)) = f.rel
      BY <1>3, <3>1, <3>2, PathParts, PathIs, PathAssumption DEF Frames
    <3>4. n = Last(f.rel) /\ up = stack[2].dir /\ (g \in there => way[g] = up)
      BY <2>3, <3>1, <3>2, <3>3 DEF Telling, Followed
    <3> HIDE DEF f, g, n, up
    <3>5. /\ g \in there' /\ g \in there /\ way'[g] = way[g]
          /\ way'[f.rel] = ent'[way'[g]][n] /\ way[f.rel] = ent[way[g]][n] /\ way'[f.rel] # None
      <4> DEFINE m == Last(f.rel)
      <4>1. m \in Name /\ Append(g, m) \in there' /\ Append(g, m) = f.rel /\ n = m
        BY <1>4, <3>3, <3>4
      <4> HIDE DEF m
      <4>2. /\ g \in there' /\ way'[Append(g, m)] = ent'[way'[g]][m]
            /\ way'[Append(g, m)] # None
        <5>1. TreeOK /\ TreeOK' /\ g \in Seq(Name)
          BY <1>3, <3>3
        <5> QED
          BY <4>1, <5>1, LeadsTo, ZenonT(40)
      <4>3. Append(g, m) \in there /\ g \in there /\ way'[g] = way[g]
        BY <1>3, <4>1, <4>2
      <4>4. way[Append(g, m)] = ent[way[g]][m]
        BY <1>3, <3>3, <4>1, <4>3, LeadsTo
      <4> QED
        BY <4>1, <4>2, <4>3, <4>4
    <3> QED
      BY <1>3, <1>4, <3>3, <3>4, <3>5
  <2> QED
    BY <2>2, <2>3
<1>5. f.rel \in there' => f.rel \in kept'
  <2> SUFFICES ASSUME f.rel \in there' PROVE f.rel \in kept'
    OBVIOUS
  <2>1. up \in Ino /\ n \in Name /\ i # None /\ ent'[up][n] # None
    BY <1>4
  <2> HIDE DEF f, up, n
  <2>2. ent' # [ent EXCEPT ![up][n] = None]
    BY <1>3, <2>1
  <2> QED
    BY <1>2, <2>1, <2>2
<1>6. kept \subseteq kept'
  BY <1>2
<1>7. ASSUME NEW p \in Path \cap there', pre'[p] # None PROVE p \in named' \cup pending'
  <2>0. p \in Path /\ p \in there /\ p \in Seq(Name) /\ named \subseteq named'
    BY <1>3, <1>6, PathAssumption, NamedGrows
  <2>1. CASE p \in named
    BY <2>0, <2>1
  <2>2. CASE p \in pending
    <3>1. PICK k \in DOMAIN stack : Waits(stack[k], p)
      BY <2>2 DEF pending
    <3>2. CASE k = 1
      <4>1. p = f.rel /\ IsPrefix(f.rel, p)
        BY <1>1, <1>3, <3>1, <3>2 DEF Waits
      <4>2. f.rel \in kept'
        BY <1>5, <4>1
      <4> HIDE DEF f
      <4>3. p \in named'
        BY <2>0, <4>1, <4>2 DEF named
      <4> QED
        BY <4>3
    <3>3. CASE k # 1
      <4>1. k - 1 \in DOMAIN stack' /\ stack'[k - 1] = stack[k]
        <5>1. /\ Len(stack') = l - 1 /\ DOMAIN stack' = 1..(l - 1)
              /\ \A j \in 1..(l - 1) : stack'[j] = stack[j + 1]
          BY <1>1, <1>3
        <5>2. k - 1 \in 1..(l - 1) /\ (k - 1) + 1 = k
          BY <1>3, <3>3
        <5> QED
          BY <5>1, <5>2
      <4>2. p \in pending'
        BY <2>0, <3>1, <4>1 DEF pending
      <4> QED
        BY <4>2
    <3> QED
      BY <3>2, <3>3
  <2>3. p \in named \cup pending
    BY <1>1, <1>7, <2>0
  <2> HIDE DEF named, pending
  <2> QED
    BY <2>1, <2>2, <2>3
<1>8. Chain'
  BY <1>1, ChainPops DEF Telling
<1>9. Followed'
  BY <1>1, FollowedStays DEF Telling
<1>10. Told'
  BY <1>1, <1>7, NoneAssumption DEF Told
<1> QED
  <2> HIDE DEF f, l, up, n, i
  <2> QED
    BY <1>8, <1>9, <1>10 DEF Telling

(* Whoever makes a step.                                                   *)
LEMMA TellingNext == Basic /\ Telling /\ [Next]_vars => Telling'
<1> SUFFICES ASSUME Basic, Telling, [Next]_vars PROVE Telling'
  OBVIOUS
<1>0. pc # "end" => out = None
  BY DEF Telling, Told
<1>1. CASE UNCHANGED vars
  <2>1. UNCHANGED <<stack, pre, kept, pc, out>>
    BY <1>1 DEF vars, walked, removal
  <2> QED
    BY <1>0, <2>1, QuietTells
<1>2. CASE Others
  <2>1. Edit
    BY <1>2, ZenonT(40) DEF Others, Write, Rename, Unlink, Create, Mount
  <2>2. UNCHANGED <<stack, pre, kept, pc, out>>
    BY <2>1 DEF Edit, walked, removal
  <2> QED
    BY <1>0, <2>2, QuietTells
<1>3. CASE WalkTop
  BY <1>3, WalkTopTells
<1>4. CASE WalkChild
  BY <1>4, WalkChildTells
<1>5. CASE WalkPop
  <2>1. /\ pc = "walk" /\ pc' = "walk" /\ stack # <<>> /\ stack' = Tail(stack) /\ pre' = pre
        /\ out' = out
    BY <1>5 DEF WalkPop, walked
  <2>2. Chain' /\ Followed'
    BY <2>1, ChainPops, FollowedStays DEF Telling
  <2>3. Told'
    BY <1>0, <2>1, NoneAssumption DEF Told
  <2> QED
    BY <2>2, <2>3 DEF Telling
<1>6. CASE WalkProblem \/ CpEntry \/ CpRead
  <2>1. UNCHANGED <<stack, pre, kept, pc, out>>
    BY <1>6 DEF WalkProblem, CpEntry, CpRead, walked, removal
  <2> QED
    BY <1>0, <2>1, QuietTells
<1>7. CASE StartCopy \/ Verify \/ Publish \/ Sync
  <2>1. /\ UNCHANGED <<stack, pre, kept>> /\ pc' \in {"cp", "publish", "sync", "rmtop", "end"}
        /\ pc # "end" /\ (out' = out \/ (pc' = "end" /\ out' = "both"))
    BY <1>7 DEF StartCopy, Verify, Publish, Sync, Goto, End, walked, removal
  <2> QED
    BY <1>0, <2>1, QuietTells
<1>8. CASE Refuse \/ CopyFails \/ Kill
  <2>1. /\ UNCHANGED <<stack, pre, kept>> /\ pc' = "end" /\ out' \in {"refused", "killed"}
    BY <1>8 DEF Refuse, CopyFails, Kill, End, walked, removal
  <2> QED
    BY <2>1, QuietTells
<1>9. CASE RmTop
  BY <1>9, RmTopTells
<1>10. CASE RmChild
  BY <1>10, RmChildTells
<1>11. CASE RmDir
  BY <1>11, RmDirTells
<1>12. CASE Settle
  <2>1. UNCHANGED <<stack, pre, kept>> /\ pc' = "end" /\ pc = "rm" /\ stack = <<>>
    BY <1>12 DEF Settle, End, walked, removal
  <2> QED
    BY <2>1, QuietTells
<1> QED
  BY <1>1, <1>2, <1>3, <1>4, <1>5, <1>6, <1>7, <1>8, <1>9, <1>10, <1>11, <1>12 DEF Next, PutNext

(* The report of a put that copies is true, for trees of every shape, with *)
(* any number of calls of other programs between its own, and whatever     *)
(* fails: what the walk saw, that nobody moved, and that is still there    *)
(* when the put says what it kept, is named, or is in a directory that is  *)
(* (remove_tree(), Removal::kept).                                         *)
THEOREM ReportedHolds == Spec => []Reported
<1> DEFINE Inv == Basic /\ Telling
<1>1. Init => Inv
  <2> SUFFICES ASSUME Init PROVE Inv
    OBVIOUS
  <2>1. Basic
    BY Initially, CleanInit DEF Basic
  <2>2. pre = [p \in Path |-> None] /\ stack = <<>> /\ pc = "top" /\ out = None
    BY DEF Init
  <2>3. Telling
    BY <2>2, NoneAssumption DEF Telling, Followed, Chain, Told
  <2> QED
    BY <2>1, <2>3
<1>2. Inv /\ [Next]_vars => Inv'
  BY Inductive, TypedNext, TellingNext DEF Basic
<1>3. Inv => Reported
  <2> SUFFICES ASSUME Inv, out \in {"copied", "kept"}, NEW p \in Path, Still(p)
               PROVE  \E k \in kept : IsPrefix(k, p)
    BY DEF Reported
  <2>1. pre[p] # None /\ pre[p].ino \in Ino /\ At(p) = pre[p].ino
        /\ \A k \in 0..Len(p) : At(SubSeq(p, 1, k)) \notin moved
    BY DEF Still, Telling, Followed
  <2>2. p \in there
    BY <2>1, NoneAssumption, PathAssumption DEF there
  <2> HIDE DEF there
  <2>3. p \in named
    BY <2>1, <2>2 DEF Telling, Told
  <2> QED
    BY <2>3 DEF named
<1> QED
  BY <1>1, <1>2, <1>3, PTL DEF Spec

=============================================================================
