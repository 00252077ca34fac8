------------------------------ MODULE TrashDisk ------------------------------
(***************************************************************************)
(* One trash directory as the processes of `rip` share it: what is on disk *)
(* (files/, info/, .rip-staging, the users' directories), who holds the    *)
(* directory's flock, and each process's local state.  The modules         *)
(* Reserve, Discard, Put, Restore and DeleteBatch add the steps of the     *)
(* programs; Rip composes them.  One action is one system call that others *)
(* can observe, or a run of calls that only touch what the process owns.   *)
(***************************************************************************)
EXTENDS Naturals, FiniteSets

CONSTANTS
  Putters, Restorers, Deleters, \* processes, by the command they run
  Renamers,    \* the restorers given --rename
  Emptiers,    \* the deleters that run `empty`; the others run `purge`
  Dir,         \* directories users trash from
  Local,       \* those on the trash's filesystem, with a mount showing both
  MaxName,     \* bound: candidates n, n~1, ... n~MaxName (100000 in the code)
  Slot,        \* bound: entries of .rip-staging alive at one time
  Obj,         \* inodes
  Stray,       \* inodes other programs put into files/ with no .trashinfo
  InfoId,      \* identities (inode and bytes) of .trashinfo files
  Data,        \* contents a user can lose
  Origin,      \* the directory each content belongs to
  None,        \* "absent", of whatever kind
  Starts,      \* the disks a behaviour may begin with
  MaxRuns, MaxMishaps, MaxEdits,  \* bounds on what happens in a behaviour
  HasFlock,    \* the filesystem supports flock
  HasRename2,  \* ... and renameat2(RENAME_NOREPLACE)
  InodeReuse   \* ... and gives the number of a deleted inode to a new one

VARIABLES
  files,   \* files/: candidate name -> inode
  info,    \* info/: candidate name -> .trashinfo
  stage,   \* .rip-staging: entry -> its kind and the inode in it
  place,   \* the users' directories: <<directory, candidate>> -> inode
  body,    \* inode -> content, None for an inode not in use
  lock,    \* process -> its flock on the trash directory
  pc, me,  \* process -> the call it makes next, its local variables
  runs, edits,  \* how many commands of each, and acts of others, are left
  mishaps,      \* how many kills and clean-up calls that fail are left
  born, released         \* history, not part of the system: the contents that
                         \* existed, and those a user agreed to lose

vars == <<files, info, stage, place, body, lock, pc, me,
          runs, mishaps, edits, born, released>>
disk == <<files, info, stage, place, body>>
bounds == <<runs, mishaps, edits, born, released>>

Proc == Putters \cup Restorers \cup Deleters
Name == 0..MaxName
Place == Dir \X Name
Info == [id : InfoId, path : Dir]
Maybe(S) == S \cup {None}

(* What a deleter remembers of an entry it listed; `data` is what the user *)
(* who confirmed the deletion saw.                                         *)
Listed == [kind : {"item", "orphan", "dangling"}, name : Name,
           entry : Maybe(Obj), info : Maybe(Info), data : Maybe(Data)]

StageEntry == [kind : {"none", "put", "del"}, obj : Maybe(Obj)]
NoEntry == [kind |-> "none", obj |-> None]

Disk == [files : [Name -> Maybe(Obj)], info : [Name -> Maybe(Info)],
         place : [Place -> Maybe(Obj)], body : [Obj -> Maybe(Data)]]

ASSUME ConstantsAssumption ==
  /\ MaxName \in Nat /\ MaxRuns \in Nat /\ MaxMishaps \in Nat /\ MaxEdits \in Nat
  /\ Renamers \subseteq Restorers /\ Emptiers \subseteq Deleters
  /\ Local \subseteq Dir /\ Stray \subseteq Obj
  /\ Origin \in [Data -> Dir]
  /\ {HasFlock, HasRename2, InodeReuse} \subseteq BOOLEAN
  /\ None \notin Obj \cup Data \cup Slot \cup Info \cup Dir \cup Listed

ASSUME RolesAssumption ==
  /\ Putters \cap Restorers = {} /\ Putters \cap Deleters = {}
  /\ Restorers \cap Deleters = {}

(* An inode is in one place, and one that is in none is not in use.  A     *)
(* content is in one inode, at the user it belongs to or on the way back.  *)
ASSUME StartsAssumption ==
  /\ Starts \subseteq Disk
  /\ \A s \in Starts :
       /\ \A k \in Name : s.files[k] \in Obj \ Stray => s.info[k] # None
       /\ \A k, l \in Name : s.files[k] # None /\ s.files[k] = s.files[l] => k = l
       /\ \A x, y \in Place : s.place[x] # None /\ s.place[x] = s.place[y] => x = y
       /\ \A k \in Name, x \in Place : s.files[k] # None => s.files[k] # s.place[x]
       /\ \A o \in Obj : s.body[o] # None =>
            (\E k \in Name : s.files[k] = o) \/ (\E x \in Place : s.place[x] = o)
       /\ \A o, u \in Obj : s.body[o] # None /\ s.body[o] = s.body[u] => o = u
       /\ \A o \in Obj, x \in Place : s.body[o] # None /\ s.place[x] = o =>
            Origin[s.body[o]] = x[1]
       /\ \A o \in Obj, k \in Name :
            s.body[o] # None /\ s.files[k] = o /\ s.info[k] # None =>
              Origin[s.body[o]] = s.info[k].path

-----------------------------------------------------------------------------
(* Local variables of a process, and the calls it can be about to make.    *)
Locals ==
  [name : 0..(MaxName + 1),  \* the candidate in play in files/ and info/
   dir : Maybe(Dir), to : Name,      \* put's source or restore's destination
   entry : Maybe(Obj), info : Maybe(Info),  \* the entry an operation is tied to
   src : Maybe(Obj), seen : Maybe(Data), copied : Maybe(Data), \* the manifest
   slot : Maybe(Slot), tomb : Maybe(Slot), \* put's copy box, a tombstone
   box : Maybe(Obj),         \* the copy in restore's box
   clear : BOOLEAN,          \* the NOREPLACE fallback saw the target absent
   doomed : SUBSET Listed, cur : Maybe(Listed),
   tombs : SUBSET Slot, victim : Maybe(Obj)]

Blank ==
  [name |-> 0, dir |-> None, to |-> 0, entry |-> None, info |-> None,
   src |-> None, seen |-> None, copied |-> None, slot |-> None, tomb |-> None,
   box |-> None, clear |-> FALSE, doomed |-> {}, cur |-> None,
   tombs |-> {}, victim |-> None]

ReservingPC == {"publish", "advance", "release", "exdev"}
TakenPC == {"verify", "putback", "checkinfo", "unlink"}
SharedPC == {"claim", "open", "mkbox", "cp", "capture", "sync", "source",
             "dropbox", "unlockcp", "tomb", "rm", "recheck", "back", "recheck2",
             "cpback", "out", "dropout", "syncout", "unlock"}
             \cup ReservingPC \cup TakenPC
ExclusivePC == {"next", "doom", "drop", "unlockx"}
PC == SharedPC \cup ExclusivePC
      \cup {"idle", "wait", "walk", "waitcp", "read", "dest", "waitr",
            "listed", "waitx", "sweep", "burn"}

DiskOK ==
  /\ files \in [Name -> Maybe(Obj)]
  /\ info \in [Name -> Maybe(Info)]
  /\ stage \in [Slot -> StageEntry]
  /\ place \in [Place -> Maybe(Obj)]
  /\ body \in [Obj -> Maybe(Data)]
  /\ lock \in [Proc -> {"none", "SH", "EX"}]
  /\ runs \in [Proc -> Nat] /\ mishaps \in Nat /\ edits \in Nat
  /\ born \subseteq Data /\ released \subseteq Data

(* The calls that need a candidate below the limit, a directory, a copy    *)
(* box, a tombstone, a copy.                                               *)
NamePC == {"open", "capture", "sync", "source", "tomb", "read", "dest", "waitr",
           "recheck", "back", "recheck2", "cpback", "out", "syncout", "doom", "drop"}
          \cup ReservingPC \cup TakenPC
PutPC == {"wait", "walk", "waitcp", "claim", "open", "mkbox", "cp", "source"}
         \cup ReservingPC
DirPC == PutPC \cup {"capture", "sync", "unlockcp", "dest", "waitr", "recheck",
                     "back", "recheck2", "cpback", "out", "dropout"}
BoxPC == {"cp", "capture", "sync", "dropbox"}
TombPC == {"verify", "putback", "rm"}

(* A process with the local variables m has what the call l needs (the     *)
(* Option and ownership types of the code).                                *)
Ready(l, m) ==
  /\ l \in NamePC => m.name \in Name
  /\ l \in DirPC => m.dir \in Dir
  /\ l \in BoxPC => m.slot \in Slot
  /\ l \in TombPC => m.tomb \in Slot
  /\ l \in {"out", "dropout"} => m.box \in Obj
  /\ l \in ReservingPC => m.info \in Info
  /\ l = "doom" => m.cur \in Listed
ProcsOK ==
  /\ pc \in [Proc -> PC]
  /\ me \in [Proc -> Locals]
  /\ \A p \in Proc : Ready(pc[p], me[p])

(* Types, and that no call is reached without what it needs.               *)
TypeOK == DiskOK /\ ProcsOK

-----------------------------------------------------------------------------
(* Fresh names and numbers.  Staging names carry the pid and a counter, so *)
(* a name some process still remembers is not made again; an inode number  *)
(* is, where the filesystem reuses them, unless a process has it open.     *)
Used(s) == \E p \in Proc : s \in {me[p].slot, me[p].tomb} \cup me[p].tombs
FreeSlots == {s \in Slot : stage[s].kind = "none" /\ ~Used(s)}
NewSlot == CHOOSE s \in FreeSlots : TRUE

InTree(o) == \/ \E k \in Name : files[k] = o
             \/ \E s \in Slot : stage[s].obj = o
             \/ \E x \in Place : place[x] = o
Remembered(o) ==
  \E p \in Proc : \/ o \in {me[p].entry, me[p].src, me[p].victim}
                  \/ \E d \in me[p].doomed : d.entry = o
Open(o) == \E p \in Proc : me[p].victim = o
FreeObjs == {o \in Obj \ Stray : body[o] = None /\ ~InTree(o) /\ ~Open(o)}
NewObjs ==
  IF InodeReuse THEN FreeObjs
  ELSE LET S == {o \in FreeObjs : ~Remembered(o)}
       IN IF S = {} THEN {} ELSE {CHOOSE o \in S : TRUE}

FreeIds ==
  {i \in InfoId :
     /\ \A k \in Name : info[k] # None => info[k].id # i
     /\ \A p \in Proc :
          /\ me[p].info # None => me[p].info.id # i
          /\ \A d \in me[p].doomed : d.info # None => d.info.id # i}
NewId == CHOOSE i \in FreeIds : TRUE

-----------------------------------------------------------------------------
(* flock(2) on the trash directory.  Where the filesystem has no flock the *)
(* call reports "no lock" and the program goes on without one.             *)
LockShared(p) ==
  /\ HasFlock => \A q \in Proc : lock[q] # "EX"
  /\ lock' = IF HasFlock THEN [lock EXCEPT ![p] = "SH"] ELSE lock

LockExclusive(p) ==
  /\ HasFlock => \A q \in Proc \ {p} : lock[q] = "none"
  /\ lock' = IF HasFlock THEN [lock EXCEPT ![p] = "EX"] ELSE lock

Unlock(p) == lock' = [lock EXCEPT ![p] = "none"]

Goto(p, l) == pc' = [pc EXCEPT ![p] = l]
Return(p) == Goto(p, "idle") /\ me' = [me EXCEPT ![p] = Blank]

(* rename_noreplace onto a target that holds `cur`: EEXIST, or it goes     *)
(* ahead.  Without RENAME2 an lstat of the target (FallbackStat) that sees *)
(* it absent is followed by a plain rename, which replaces what is there.  *)
Exists(p, cur) == cur # None /\ ~me[p].clear
Vacant(p, cur) == IF HasRename2 THEN cur = None ELSE me[p].clear

FallbackStat(p) ==
  /\ ~HasRename2 /\ ~me[p].clear
  /\ \/ pc[p] \in {"publish", "putback"} /\ files[me[p].name] = None
     \/ pc[p] \in {"back", "out"} /\ place[<<me[p].dir, me[p].to>>] = None
  /\ me' = [me EXCEPT ![p].clear = TRUE]
  /\ UNCHANGED <<disk, lock, pc, bounds>>

(* Mostly a call that fails is answered, and the answer is part of its     *)
(* action.  Those that clean up are not: their result is ignored (`let _`),*)
(* and they leave behind what they were to remove.                         *)
Slips == /\ mishaps > 0 /\ mishaps' = mishaps - 1
         /\ UNCHANGED <<runs, edits, born, released>>

(* remove_tree() of o, whole or broken off.                                *)
Without(o) == [q \in Obj |-> IF q = o THEN None ELSE body[q]]
BreaksOff(o) == body' \in {body, Without(o)}

(* Mutant: the guard does not unlock.                                      *)
FinishLocked(p) ==
  /\ pc[p] = "unlock"
  /\ Return(p)
  /\ UNCHANGED <<disk, lock, bounds>>

(* The end of every operation under LOCK_SH: the guard drops last.         *)
Finish(p) ==
  /\ pc[p] = "unlock"
  /\ Unlock(p)
  /\ Return(p)
  /\ UNCHANGED <<disk, bounds>>

(* Mutant: only the name is compared.                                      *)
StillSameName(k, entry, inf) == files[k] # None /\ info[k] # None

(* Same item: the identity of files/NAME, and of info/NAME.trashinfo.      *)
StillSame(k, entry, inf) ==
  files[k] # None /\ files[k] = entry /\ info[k] # None /\ info[k] = inf
InfoMatches(k, inf) == info[k] # None /\ info[k] = inf

=============================================================================
