------------------------------ MODULE RipKeeps ------------------------------
(***************************************************************************)
(* Nothing is overwritten (NoOverwrite), and nothing is lost (NoLoss) by   *)
(* any number of commands, saves and crashes, as long as everything is on  *)
(* the file system of the trash, or nothing is restored.  While a put by   *)
(* copy runs, its copy does not count; the step that removes the source    *)
(* makes it count.  What is tombstoned is what the person was shown.       *)
(***************************************************************************)
EXTENDS RipSafety

-----------------------------------------------------------------------------
(* A rename replaces nothing: with renameat2, or when the files/ side is   *)
(* held under a lock and only one process writes the users' directories.   *)
Alike == \A r, s \in Restorers : r = s
Renames == \/ HasRename2
           \/ HasFlock /\ Stray = {} /\ MaxEdits = 0 /\ Alike

(* Without renameat2: what the fallback saw absent is still absent.        *)
ClearAt(r) == me[r].clear =>
  /\ pc[r] \notin {"idle", "read", "dest", "waitr", "recheck"}
  /\ pc[r] \in {"back", "recheck2", "cpback", "out"} => place[Dest(r)] = None
StillClear == edits = 0 /\ \A r \in Restorers : ClearAt(r)

LEMMA KeepsAt ==
  ASSUME NEW S, NEW f, f \in [S -> Maybe(Obj)], NEW x \in S, NEW o,
         f[x] = None \/ o = None
  PROVE  Keeps(f, [f EXCEPT ![x] = o])
BY DEF Keeps

LEMMA KeepsSame ==
  ASSUME UNCHANGED <<files, place>>
  PROVE  Keeps(files, files') /\ Keeps(place, place')
BY DEF Keeps

(* What a rename is told to be vacant is.                                  *)
Clear == HasRename2 \/ (Names /\ StillClear)

LEMMA VacantName ==
  ASSUME Clear, NEW p \in Proc, NEW k \in Name, Holding(p, k), Vacant(p, files[k])
  PROVE  files[k] = None
BY DEF Clear, Vacant, Names, Held

LEMMA VacantDest ==
  ASSUME Clear, NEW r \in Restorers, pc[r] \in {"back", "out"},
         Vacant(r, place[Dest(r)])
  PROVE  place[Dest(r)] = None
BY DEF Clear, Vacant, StillClear, ClearAt

LEMMA PutOver ==
  ASSUME TypeOK, Clear, NEW p \in Proc, PutStep(p) \/ ReserveStep(p)
  PROVE  Keeps(files, files') /\ Keeps(place, place')
<1> USE DEF TypeOK
<1>1. CASE UNCHANGED <<files, place>>
  BY <1>1, KeepsSame
<1>2. CASE MoveIn(p) \/ RemoveSource(p)
  <2>1. me[p].dir \in Dir /\ Arg(p) \in Place
    BY <1>2, Here, ConstantsAssumption
    DEF MoveIn, RemoveSource, Ready, DirPC, PutPC, ReservingPC, Arg, Place, Name
  <2>2. Keeps(place, place')
    <3>1. CASE place' = [place EXCEPT ![Arg(p)] = None]
      BY <2>1, <3>1, KeepsAt DEF DiskOK
    <3> QED
      BY <1>2, <3>1 DEF MoveIn, RemoveSource, Keeps
  <2>3. Keeps(files, files')
    <3>1. CASE UNCHANGED files
      BY <3>1 DEF Keeps
    <3>2. CASE MoveIn(p) /\ Vacant(p, files[me[p].name])
               /\ files' = [files EXCEPT ![me[p].name] = place[Arg(p)]]
      <4>1. me[p].name \in Name /\ Holding(p, me[p].name)
        BY <3>2, Here
        DEF MoveIn, Ready, NamePC, ReservingPC, Holding, HoldPC
      <4>2. files[me[p].name] = None
        BY <3>2, <4>1, VacantName
      <4> QED
        BY <3>2, <4>1, <4>2, KeepsAt DEF DiskOK
    <3> QED
      BY <1>2, <3>1, <3>2 DEF MoveIn, RemoveSource
  <2> QED
    BY <2>2, <2>3
<1>3. CASE Publish(p)
  <2>1. Keeps(place, place')
    BY <1>3 DEF Publish, Keeps
  <2>2. CASE UNCHANGED files
    BY <2>2, <2>1 DEF Keeps
  <2>3. CASE Vacant(p, files[me[p].name])
             /\ files' = [files EXCEPT ![me[p].name] = stage[me[p].slot].obj]
    <3>1. me[p].name \in Name /\ Holding(p, me[p].name)
      BY <1>3, Here
      DEF Publish, Ready, NamePC, ReservingPC, Holding, HoldPC
    <3>2. files[me[p].name] = None
      BY <2>3, <3>1, VacantName
    <3> QED
      BY <2>1, <2>3, <3>1, <3>2, KeepsAt DEF DiskOK
  <2> QED
    BY <1>3, <2>2, <2>3 DEF Publish
<1> QED
  BY <1>1, <1>2, <1>3
  DEF PutStep, ReserveStep, PutStart, PutLock, PutUnlock, Walk, CopyDeclined, CopyLock,
      MakeBox, CopyIn, Capture, SyncIn, DropBox, ClaimStat, ClaimOpen, ClaimFails,
      Release, disk

LEMMA RestoreOver ==
  ASSUME TypeOK, Clear, NEW p \in Restorers, RestoreStep(p)
  PROVE  Keeps(files, files') /\ Keeps(place, place')
<1> USE DEF TypeOK
<1>0. p \in Proc
  BY DEF Proc
<1>1. CASE UNCHANGED <<files, place>>
  BY <1>1, KeepsSame
<1>2. CASE RenameBack(p)
  <2>1. me[p].name \in Name /\ Dest(p) \in Place
    BY <1>0, <1>2, Here DEF RenameBack, Ready, NamePC, DirPC, Locals, Dest, Place
  <2>2. CASE UNCHANGED <<files, place>>
    BY <2>2, KeepsSame
  <2>3. CASE /\ Vacant(p, place[Dest(p)])
             /\ place' = [place EXCEPT ![Dest(p)] = files[me[p].name]]
             /\ files' = [files EXCEPT ![me[p].name] = None]
    <3>1. place[Dest(p)] = None
      BY <1>2, <2>3, VacantDest DEF RenameBack
    <3> QED
      BY <2>1, <2>3, <3>1, KeepsAt DEF DiskOK
  <2> QED
    BY <1>2, <2>2, <2>3 DEF RenameBack
<1>3. CASE PublishBack(p)
  <2>1. Dest(p) \in Place
    BY <1>0, <1>3, Here DEF PublishBack, Ready, NamePC, DirPC, Locals, Dest, Place
  <2>2. CASE UNCHANGED place
    BY <1>3, <2>2, KeepsSame DEF PublishBack
  <2>3. CASE /\ Vacant(p, place[Dest(p)])
             /\ place' = [place EXCEPT ![Dest(p)] = me[p].box]
    <3>1. place[Dest(p)] = None
      BY <1>3, <2>3, VacantDest DEF PublishBack
    <3>2. Keeps(place, place')
      BY <2>1, <2>3, <3>1, KeepsAt DEF DiskOK
    <3> QED
      BY <1>3, <3>2 DEF PublishBack, Keeps
  <2> QED
    BY <1>3, <2>2, <2>3 DEF PublishBack
<1> QED
  BY <1>1, <1>2, <1>3
  DEF RestoreStep, ListItem, ReadInfo, CheckDest, RestoreLock, Recheck, CopyBack, DropOut,
      SyncOut, disk

LEMMA DiscardOver ==
  ASSUME TypeOK, Clear, NEW p \in Proc,
         DiscardStep(p) \/ Finish(p) \/ FallbackStat(p) \/ Crash(p) \/ DeleteStep(p)
  PROVE  Keeps(files, files') /\ Keeps(place, place')
<1> USE DEF TypeOK
<1>1. CASE UNCHANGED <<files, place>>
  BY <1>1, KeepsSame
<1>2. CASE Tombstone(p) \/ Doom(p) \/ PutBack(p)
  <2>1. Keeps(place, place') /\ me[p].name \in Name
    BY <1>2, Here DEF Tombstone, Doom, PutBack, Keeps, Ready, NamePC, TakenPC
  <2>2. CASE files' = [files EXCEPT ![me[p].name] = None]
    BY <2>1, <2>2, KeepsAt DEF DiskOK
  <2>3. CASE PutBack(p) /\ Vacant(p, files[me[p].name])
             /\ files' = [files EXCEPT ![me[p].name] = stage[me[p].tomb].obj]
    <3>1. Holding(p, me[p].name)
      BY <2>3 DEF PutBack, TakenPC, Holding, HoldPC
    <3>2. files[me[p].name] = None
      BY <2>1, <2>3, <3>1, VacantName
    <3> QED
      BY <2>1, <2>3, <3>2, KeepsAt DEF DiskOK
  <2> QED
    BY <1>1, <1>2, <2>2, <2>3, <2>1 DEF Tombstone, Doom, PutBack
<1> QED
  BY <1>1, <1>2
  DEF DiscardStep, Finish, FallbackStat, Crash, Verify, CheckInfo, UnlinkInfo, RemoveTomb,
      DeleteStep, ScanInfo, Choose, Declined, DeleteLock, CheckDoomed, DropInfo,
      CleanStaging, Collect, DeleteUnlock, Sweep, Burn, Done, disk

LEMMA NextOver ==
  ASSUME TypeOK, Clear, [Next]_vars, edits' = edits
  PROVE  Keeps(files, files') /\ Keeps(place, place')
<1>1. CASE UNCHANGED vars
  BY <1>1, KeepsSame DEF vars
<1>2. ~Others
  <2>1. edits \in Nat /\ edits' = edits
    BY DEF TypeOK, DiskOK
  <2>2. Others => edits' = edits - 1
    BY Zenon DEF Others, Save, EditInPlace, StrayDrop
  <2> QED
    BY <2>1, <2>2
<1>3. ASSUME NEW p \in Proc, Step(p) \/ Slip(p) \/ Crash(p)
      PROVE  Keeps(files, files') /\ Keeps(place, place')
  BY <1>3, PutOver, RestoreOver, DiscardOver, SlipLeaves, KeepsSame DEF Step
<1> QED
  BY <1>1, <1>2, <1>3 DEF Next

(* The one process that writes the users' directories besides the putters, *)
(* who only take from them.                                                *)
LEMMA ClearOthers ==
  ASSUME TypeOK, StillClear, NEW p \in Proc, p \notin Restorers,
         Step(p) \/ Slip(p) \/ Crash(p)
  PROVE  StillClear'
<1>1. Alone(p) /\ edits' = edits
  <2>1. edits' = edits
    BY SlipLeaves
    DEF Slips, Step, PutStep, ReserveStep, DeleteStep, DiscardStep, Finish, FallbackStat, Crash,
        PutStart, PutLock, MoveIn, PutUnlock, Walk, CopyDeclined, CopyLock, MakeBox, CopyIn,
        Publish, Capture, SyncIn, RemoveSource, DropBox, ClaimStat, ClaimOpen, ClaimFails,
        Release, Tombstone, Verify, PutBack, CheckInfo, UnlinkInfo, RemoveTomb, ScanInfo,
        Choose, Declined, DeleteLock, CheckDoomed, Doom, DropInfo, CleanStaging,
        Collect, DeleteUnlock, Sweep, Burn, Done, bounds
  <2> QED
    BY <2>1, StepRegion, SMTT(30) DEF TypeOK
<1>2. ASSUME NEW x \in Place PROVE place'[x] \in {place[x], None}
  <2>1. CASE UNCHANGED place
    BY <2>1
  <2>2. CASE place' = [place EXCEPT ![Arg(p)] = None]
    BY <2>2 DEF TypeOK, DiskOK
  <2> QED
    BY <2>1, <2>2, SlipLeaves
    DEF Step, PutStep, ReserveStep, DeleteStep, DiscardStep, Finish, FallbackStat, Crash,
        PutStart, PutLock, MoveIn, PutUnlock, Walk, CopyDeclined, CopyLock, MakeBox, CopyIn,
        Publish, Capture, SyncIn, RemoveSource, DropBox, ClaimStat, ClaimOpen, ClaimFails,
        Release, Tombstone, Verify, PutBack, CheckInfo, UnlinkInfo, RemoveTomb, ScanInfo,
        Choose, Declined, DeleteLock, CheckDoomed, Doom, DropInfo, CleanStaging,
        Collect, DeleteUnlock, Sweep, Burn, Done, disk
<1>3. ASSUME NEW r \in Restorers PROVE ClearAt(r)'
  <2>1. pc'[r] = pc[r] /\ me'[r] = me[r] /\ r \in Proc
    BY <1>1 DEF Alone, Proc
  <2>2. Dest(r)' = Dest(r)
    BY <2>1 DEF Dest
  <2>3. pc[r] \in {"back", "recheck2", "cpback", "out"} => Dest(r) \in Place
    BY <2>1, Here DEF TypeOK, Ready, DirPC, Locals, Dest, Place
  <2> QED
    BY <1>2, <2>1, <2>2, <2>3 DEF StillClear, ClearAt
<1> QED
  BY <1>1, <1>3 DEF StillClear

LEMMA ClearRestorer ==
  ASSUME TypeOK, StillClear, NEW p \in Restorers,
         \/ RestoreStep(p) \/ DiscardStep(p) \/ Finish(p) \/ FallbackStat(p) \/ Crash(p)
         \/ DropOutFails(p) \/ DiscardFails(p)
  PROVE  ClearAt(p)' /\ edits' = edits
<1>0. /\ ClearAt(p) /\ p \in Proc
      /\ pc \in [Proc -> PC] /\ me \in [Proc -> Locals]
  BY DEF TypeOK, ProcsOK, Proc, StillClear
<1>1. edits' = edits
  BY DEF RestoreStep, DiscardStep, Finish, FallbackStat, Crash, Slips, DropOutFails,
      DiscardFails, ListItem, ReadInfo,
      CheckDest, RestoreLock, Recheck, RenameBack, CopyBack, PublishBack, DropOut, SyncOut,
      Tombstone, Verify, PutBack, CheckInfo, UnlinkInfo, RemoveTomb, bounds
<1>2. CASE /\ me'[p].clear => me[p].clear
           /\ pc'[p] \notin {"idle", "read", "dest", "waitr", "recheck", "back",
                             "recheck2", "cpback", "out"}
  BY <1>1, <1>2 DEF ClearAt
<1>3. CASE ~me'[p].clear
  BY <1>1, <1>3 DEF ClearAt
<1>4. CASE \/ RestoreLock(p) \/ SyncOut(p)
           \/ Verify(p) \/ PutBack(p) \/ CheckInfo(p) \/ UnlinkInfo(p) \/ RemoveTomb(p)
  BY <1>0, <1>1, <1>2, <1>4
  DEF ClearAt, Goto, AfterInfo, RestoreLock, SyncOut, Verify, PutBack, CheckInfo, UnlinkInfo,
      RemoveTomb
<1>5. CASE Finish(p) \/ Crash(p)
  <2>1. ~me'[p].clear
    BY <1>0, <1>5 DEF Finish, Crash, Return, Blank
  <2> QED
    BY <1>1, <1>3, <2>1
<1>6. CASE (\E k \in Name : ListItem(p, k)) \/ ReadInfo(p) \/ CheckDest(p)
  <2>1. ~me[p].clear
    BY <1>0, <1>6 DEF ListItem, ReadInfo, CheckDest, ClearAt
  <2>2. ASSUME NEW k \in Name, ListItem(p, k) PROVE ~me'[p].clear
    BY <1>0, <2>1, <2>2 DEF ListItem, Locals
  <2>3. ASSUME ReadInfo(p) PROVE ~me'[p].clear
    BY <1>0, <2>1, <2>3 DEF ReadInfo, Return, Blank, Locals
  <2>4. ASSUME CheckDest(p) PROVE ~me'[p].clear
    BY <1>0, <2>1, <2>4 DEF CheckDest, Return, Blank, Locals
  <2> QED
    BY <1>3, <1>6, <2>2, <2>3, <2>4
<1>7. CASE Recheck(p)
  BY <1>0, <1>1, <1>7 DEF Recheck, Goto, ClearAt, Dest, disk
<1>8. CASE FallbackStat(p)
  <2>1. pc' = pc /\ place' = place /\ me'[p] = [me[p] EXCEPT !.clear = TRUE]
    BY <1>0, <1>8 DEF FallbackStat, disk
  <2>2. Dest(p)' = Dest(p)
    BY <1>0, <2>1 DEF Dest, Locals
  <2> QED
    BY <1>0, <1>1, <1>8, <2>1, <2>2 DEF FallbackStat, ClearAt, Dest
<1>9. CASE RenameBack(p)
  <2>1. CASE pc'[p] \in {"checkinfo", "unlock"} /\ (me'[p].clear => me[p].clear)
    BY <1>1, <1>2, <2>1
  <2>2. CASE NextDest(p, "unlock") \/ me' = [me EXCEPT ![p].clear = FALSE]
    <3>1. ~me'[p].clear
      BY <1>0, <2>2 DEF NextDest, Exists, Locals
    <3> QED
      BY <1>1, <1>3, <3>1
  <2>3. CASE pc'[p] = "recheck2" /\ UNCHANGED <<files, place, me>>
    BY <1>0, <1>1, <1>9, <2>3 DEF RenameBack, ClearAt, Dest
  <2> QED
    BY <1>0, <1>9, <2>1, <2>2, <2>3 DEF RenameBack, Goto
<1>10. CASE CopyBack(p)
  <2>1. pc[p] = "cpback" /\ pc'[p] \in {"out", "unlock"} /\ place' = place
    BY <1>0, <1>10 DEF CopyBack, Goto
  <2>2. me'[p].clear = me[p].clear /\ Dest(p)' = Dest(p)
    BY <1>0, <1>10 DEF CopyBack, Dest, Locals
  <2> QED
    BY <1>0, <1>1, <2>1, <2>2 DEF ClearAt
<1>11. CASE PublishBack(p)
  <2>1. CASE pc'[p] = "dropout" /\ me' = me
    BY <1>1, <1>2, <2>1
  <2>2. CASE NextDest(p, "dropout") \/ me' = [me EXCEPT ![p].clear = FALSE, ![p].box = None]
    <3>1. ~me'[p].clear
      BY <1>0, <2>2 DEF NextDest, Exists, Locals
    <3> QED
      BY <1>1, <1>3, <3>1
  <2> QED
    BY <1>0, <1>11, <2>1, <2>2 DEF PublishBack, Goto
<1>12. CASE DropOut(p) \/ Tombstone(p)
  <2>1. me'[p].clear = me[p].clear /\ pc'[p] \in {"unlock", "verify"}
    BY <1>0, <1>12 DEF DropOut, Tombstone, Goto, Locals
  <2> QED
    BY <1>1, <1>2, <2>1
<1>13. CASE DropOutFails(p) \/ DiscardFails(p)
  <2>1. me'[p].clear = me[p].clear /\ pc'[p] \in {"unlock", "rm"}
    BY <1>0, <1>13 DEF DropOutFails, DiscardFails, AfterInfo, Goto, Locals
  <2> QED
    BY <1>1, <1>2, <2>1
<1> QED
  BY <1>4, <1>5, <1>6, <1>7, <1>8, <1>9, <1>10, <1>11, <1>12, <1>13
  DEF RestoreStep, DiscardStep

LEMMA ClearNext ==
  ASSUME Alike, TypeOK, StillClear, [Next]_vars
  PROVE  StillClear'
<1>1. CASE UNCHANGED vars
  BY <1>1 DEF vars, StillClear, ClearAt, Dest
<1>2. ~Others
  BY DEF StillClear, Others, Save, EditInPlace, StrayDrop
<1>3. ASSUME NEW p \in Proc, Step(p) \/ Slip(p) \/ Crash(p) PROVE StillClear'
  <2>1. CASE p \in Restorers
    <3>1. ClearAt(p)' /\ edits' = edits
      BY <1>3, <2>1, ClearRestorer, RolesAssumption DEF Step, Slip
    <3> QED
      BY <2>1, <3>1 DEF Alike, StillClear
  <2> QED
    BY <1>3, <2>1, ClearOthers
<1> QED
  BY <1>1, <1>2, <1>3 DEF Next

LEMMA ClearAlways == ASSUME Renames PROVE Spec => [](Clear /\ TypeOK)
<1>1. CASE HasRename2
  <2>1. TypeOK => Clear
    BY <1>1 DEF Clear
  <2> QED
    BY <2>1, TypeCorrect, PTL
<1>2. CASE HasFlock /\ Stray = {} /\ MaxEdits = 0 /\ Alike
  <2>1. Init => StillClear
    BY <1>2 DEF Init, StillClear, ClearAt, Proc, Blank
  <2>2. TypeOK /\ StillClear /\ [Next]_vars => StillClear'
    BY <1>2, ClearNext
  <2>3. Spec => [](Names /\ TypeOK)
    BY <1>2, NamesAlways
  <2>4. Names /\ StillClear => Clear
    BY DEF Clear
  <2> QED
    BY <2>1, <2>2, <2>3, <2>4, PTL DEF Spec
<1> QED
  BY <1>1, <1>2 DEF Renames

(* No step of put, restore, empty or purge replaces an entry of files/ or  *)
(* of a user's directory: with renameat2 whoever else writes there, with   *)
(* its fallback as long as nothing but rip writes files/, and one restore  *)
(* at a time is all that writes the users' directories.                    *)
THEOREM NoOverwriteHolds == ASSUME Renames PROVE Spec => NoOverwrite
<1>1. TypeOK /\ Clear /\ [Next]_vars =>
        [edits' = edits => Keeps(files, files') /\ Keeps(place, place')]_vars
  BY NextOver
<1> QED
  BY <1>1, ClearAlways, PTL DEF Spec, NoOverwrite

-----------------------------------------------------------------------------
(* By rename only, or without restore.                                     *)
Homely == Local = Dir \/ Restorers = {}

(* The calls of a copy, in or out, and of a discard.                       *)
CopyPC == {"walk", "waitcp", "mkbox", "cp", "capture", "sync", "source", "dropbox",
           "exdev", "unlockcp", "tomb", "verify", "putback", "rm", "recheck2",
           "cpback", "out", "dropout", "syncout"}
RouteAt(l, m) ==
  /\ l # "putback"
  /\ l \in {"exdev", "unlockcp"} => m.slot = None
  /\ Local = Dir =>
       /\ l \notin CopyPC /\ m.slot = None
       /\ l \in {"idle", "read", "dest", "waitr", "recheck", "back", "checkinfo",
                 "unlink"} => m.tomb = None
Route == \A p \in Proc : RouteAt(pc[p], me[p])

(* An inode is in one place.                                               *)
OnePlace ==
  /\ \A k, l \in Name : files[k] # None /\ files[k] = files[l] => k = l
  /\ \A s, t \in Slot : stage[s].obj # None /\ stage[s].obj = stage[t].obj => s = t
  /\ \A x, y \in Place : place[x] # None /\ place[x] = place[y] => x = y
  /\ \A k \in Name, s \in Slot : files[k] # None => files[k] # stage[s].obj
  /\ \A k \in Name, x \in Place : files[k] # None => files[k] # place[x]
  /\ \A s \in Slot, x \in Place : place[x] # None => place[x] # stage[s].obj

(* A copy box is one put's, and under the lock; a tombstone that is being  *)
(* checked is one process's.                                               *)
TombsOf(p) == me[p].tombs \cup {me[p].tomb}
CheckPC == {"verify", "checkinfo", "unlink", "rm"}
Slots ==
  \A p, q \in Proc :
    /\ me[p].slot # None =>
         /\ pc[p] \in SharedPC
         /\ me[p].slot \notin TombsOf(q)
         /\ p # q => me[p].slot # me[q].slot
    /\ p # q /\ pc[p] \in CheckPC /\ me[p].tomb # None => me[p].tomb \notin TombsOf(q)

(* A put by copy has its copy, first in its box, then under the name it    *)
(* published, which nobody else shares; what it discards is that copy.     *)
PendPC == {"capture", "sync", "source", "tomb"}
Pending(p, k) == pc[p] \in PendPC /\ me[p].name = k
BoxedPC == {"claim", "open", "publish", "advance"}
CopyAt(p) ==
  /\ \A k \in Name : Pending(p, k) =>
       /\ files[k] # None
       /\ pc[p] # "capture" => me[p].entry = files[k]
       /\ pc[p] # "tomb" => body[files[k]] = me[p].copied
       /\ \A q \in Proc \ {p} : ~Pending(q, k)
  /\ pc[p] \in BoxedPC /\ me[p].slot # None /\ stage[me[p].slot].obj # None =>
       body[stage[me[p].slot].obj] = me[p].copied
  /\ pc[p] = "verify" => stage[me[p].tomb].obj = me[p].entry
Copies == \A p \in Proc : CopyAt(p)

(* What is being deleted without a lock is in nobody's hands.              *)
Boxed(q, o) == me[q].slot # None /\ stage[me[q].slot].obj = o
Live(o) == \/ \E k \in Name : files[k] = o
           \/ \E x \in Place : place[x] = o
           \/ \E q \in Proc : Boxed(q, o)
Victims == \A p \in Proc : me[p].victim # None => ~Live(me[p].victim)

(* An item that is what it was when it was listed has the content it had,  *)
(* and its name is not one that a put has reserved since.                  *)
Vouched(d) ==
  /\ d.entry # None /\ d.info # None
  /\ info[d.name] = d.info =>
       /\ files[d.name] = d.entry => body[d.entry] = d.data
       /\ \A q \in Proc : pc[q] \in ReservingPC => me[q].name # d.name
DoomedAt(p) ==
  /\ \A d \in me[p].doomed : d.kind = "item" => Vouched(d)
  /\ pc[p] = "doom" =>
       /\ me[p].cur.kind = "item"
       /\ files[me[p].name] # None => body[files[me[p].name]] = me[p].cur.data
Doomed == \A p \in Proc : DoomedAt(p)

(* Every content that counts is at its user's, or in files/ and not just a *)
(* copy of a put that has not finished.                                    *)
Firm(o) == \/ \E x \in Place : place[x] = o
           \/ \E k \in Name : files[k] = o /\ \A p \in Proc : ~Pending(p, k)
Kept == \A v \in born \ released : \E o \in Obj : body[o] = v /\ Firm(o)

KeepInv == Route /\ OnePlace /\ Slots /\ Copies /\ Victims /\ Doomed /\ Kept

-----------------------------------------------------------------------------
(* What a step of p may do and keep each part, whatever p is about.        *)
LEMMA PlaceLess ==
  ASSUME OnePlace,
         \A k \in Name : files'[k] \in {files[k], None},
         \A s \in Slot : stage'[s].obj \in {stage[s].obj, None},
         \A x \in Place : place'[x] \in {place[x], None}
  PROVE  OnePlace'
BY DEF OnePlace

(* A box or tombstone is the one it was, or is made.                       *)
SlotsMove(p) ==
  /\ me'[p].slot # None =>
       /\ pc'[p] \in SharedPC
       /\ me'[p].slot \notin TombsOf(p)'
       /\ me'[p].slot = me[p].slot \/ me'[p].slot \in FreeSlots
  /\ \A s \in TombsOf(p)' : \/ s \in TombsOf(p) \cup {None} \cup FreeSlots
                            \/ \A q \in Proc \ {p} : pc[q] \notin SharedPC
  /\ pc'[p] \in CheckPC /\ me'[p].tomb # None =>
       \/ pc[p] \in CheckPC /\ me'[p].tomb = me[p].tomb
       \/ me'[p].tomb \in FreeSlots

LEMMA SlotsStep ==
  ASSUME Slots, NEW p \in Proc, Alone(p), SlotsMove(p)
  PROVE  Slots'
<1>0. \A q \in Proc \ {p} : pc'[q] = pc[q] /\ me'[q] = me[q] /\ TombsOf(q)' = TombsOf(q)
  BY DEF Alone, TombsOf
<1>1. \A s \in FreeSlots, q \in Proc : s # me[q].slot /\ s \notin TombsOf(q)
  BY DEF FreeSlots, Used, TombsOf
<1>2. \A q \in Proc \ {p} : me[q].slot # None =>
        me[q].slot \notin TombsOf(p)' /\ me[q].slot # me'[p].slot
  BY <1>1 DEF Slots, SlotsMove
<1>3. \A q \in Proc \ {p} : pc[q] \in CheckPC /\ me[q].tomb # None =>
        me[q].tomb \notin TombsOf(p)'
  <2>1. \A q \in Proc : me[q].tomb \in TombsOf(q) /\ CheckPC \subseteq SharedPC
    BY DEF TombsOf, CheckPC, SharedPC, TakenPC
  <2> QED
    BY <1>1, <2>1 DEF Slots, SlotsMove
<1>4. \A q \in Proc \ {p} :
        /\ me'[p].slot # None => me'[p].slot \notin TombsOf(q) /\ me'[p].slot # me[q].slot
        /\ pc'[p] \in CheckPC /\ me'[p].tomb # None => me'[p].tomb \notin TombsOf(q)
  BY <1>1 DEF Slots, SlotsMove
<1> QED
  BY <1>0, <1>2, <1>3, <1>4 DEF Slots, SlotsMove

(* The copies of the other puts stay.                                      *)
BodiesStay == \A k \in Name : files[k] # None => body'[files[k]] = body[files[k]]
Stay(p) ==
  /\ BodiesStay
  /\ \A q \in Proc \ {p} :
       /\ \A k \in Name : Pending(q, k) => files'[k] = files[k]
       /\ me[q].slot # None =>
            /\ stage'[me[q].slot].obj = stage[me[q].slot].obj
            /\ stage[me[q].slot].obj # None =>
                 body'[stage[me[q].slot].obj] = body[stage[me[q].slot].obj]
       /\ pc[q] = "verify" => stage'[me[q].tomb].obj = stage[me[q].tomb].obj

LEMMA CopiesStep ==
  ASSUME Copies, NEW p \in Proc, Alone(p), Stay(p), CopyAt(p)'
  PROVE  Copies'
<1> SUFFICES ASSUME NEW q \in Proc \ {p} PROVE CopyAt(q)'
  BY DEF Copies
<1>0. pc'[q] = pc[q] /\ me'[q] = me[q] /\ CopyAt(q)
  BY DEF Alone, Copies
<1>1. ASSUME NEW k \in Name, Pending(q, k)'
      PROVE  /\ files'[k] # None
             /\ pc'[q] # "capture" => me'[q].entry = files'[k]
             /\ pc'[q] # "tomb" => body'[files'[k]] = me'[q].copied
             /\ \A r \in Proc \ {q} : ~Pending(r, k)'
  <2>1. Pending(q, k)
    BY <1>0, <1>1 DEF Pending
  <2>2. files'[k] = files[k] /\ files[k] # None /\ body'[files[k]] = body[files[k]]
    BY <1>0, <2>1 DEF Stay, BodiesStay, CopyAt
  <2>3. \A r \in Proc \ {q} : ~Pending(r, k)'
    <3>1. ~Pending(p, k)'
      BY <1>1 DEF CopyAt
    <3>2. \A r \in Proc \ {p, q} : ~Pending(r, k)'
      BY <1>0, <2>1 DEF CopyAt, Alone, Pending
    <3> QED
      BY <3>1, <3>2
  <2> QED
    BY <1>0, <2>1, <2>2, <2>3 DEF CopyAt
<1>2. pc'[q] \in BoxedPC /\ me'[q].slot # None /\ stage'[me'[q].slot].obj # None =>
        body'[stage'[me'[q].slot].obj] = me'[q].copied
  BY <1>0 DEF Stay, CopyAt
<1>3. pc'[q] = "verify" => stage'[me'[q].tomb].obj = me'[q].entry
  BY <1>0 DEF Stay, CopyAt
<1> QED
  BY <1>1, <1>2, <1>3 DEF CopyAt

(* What becomes live was live or is not open.                              *)
LEMMA VictimsStep ==
  ASSUME TypeOK, Victims, NEW p \in Proc, Alone(p),
         \A o \in Obj : Live(o)' => Live(o) \/ ~Open(o),
         me'[p].victim \in {None, me[p].victim} \/ ~Live(me[p].victim)'
  PROVE  Victims'
<1> SUFFICES ASSUME NEW q \in Proc, me'[q].victim # None PROVE ~Live(me[q].victim)'
  BY DEF Victims
<1>1. CASE me'[q].victim = me[q].victim
  <2>1. me[q].victim \in Obj /\ Open(me[q].victim) /\ ~Live(me[q].victim)
    BY <1>1 DEF TypeOK, ProcsOK, Locals, Maybe, Open, Victims
  <2>2. ~Live(me[q].victim)' <=> \E o \in Obj : o = me[q].victim /\ ~Live(o)'
    BY <1>1, <2>1 DEF Live
  <2> QED
    BY <1>1, <2>1, <2>2
<1>2. CASE q = p /\ me'[q].victim # me[q].victim
  BY <1>2
<1> QED
  BY <1>1, <1>2 DEF Alone

(* What others listed: no .trashinfo is written that they listed, and an   *)
(* entry appears only under a reserved name.                               *)
Unlisted(i) == \A q \in Proc : \A d \in me[q].doomed : d.kind = "item" => d.info # i
Discreet(p) ==
  /\ BodiesStay
  /\ \A k \in Name : info'[k] \in {info[k], None} \/ Unlisted(info'[k])
  /\ \A k \in Name : \/ files'[k] \in {files[k], None}
                     \/ /\ \E q \in Proc : pc[q] \in ReservingPC /\ me[q].name = k
                        /\ \A q \in Proc : pc[q] # "doom"
  /\ pc'[p] \in ReservingPC => \/ pc[p] \in ReservingPC /\ me'[p].name = me[p].name
                               \/ Unlisted(info'[me'[p].name])

LEMMA VouchedStep ==
  ASSUME TypeOK, NEW p \in Proc, Alone(p), Discreet(p), NEW q \in Proc,
         NEW d \in me[q].doomed, d.kind = "item", Vouched(d)
  PROVE  Vouched(d)'
<1>0. d.name \in Name
  BY DEF TypeOK, ProcsOK, Locals, Listed
<1> SUFFICES ASSUME info'[d.name] = d.info
             PROVE  /\ files'[d.name] = d.entry => body'[d.entry] = d.data
                    /\ \A r \in Proc : pc'[r] \in ReservingPC => me'[r].name # d.name
  BY DEF Vouched
<1>1. ~Unlisted(d.info) /\ info[d.name] = d.info
  BY <1>0 DEF Unlisted, Discreet, Vouched
<1>2. ASSUME NEW r \in Proc, pc'[r] \in ReservingPC PROVE me'[r].name # d.name
  BY <1>1, <1>2 DEF Vouched, Discreet, Alone
<1>3. ASSUME files'[d.name] = d.entry PROVE body'[d.entry] = d.data
  <2>1. files[d.name] = d.entry
    BY <1>0, <1>1, <1>3 DEF Discreet, Vouched
  <2> QED
    BY <1>0, <1>1, <2>1 DEF Discreet, BodiesStay, Vouched
<1> QED
  BY <1>2, <1>3

LEMMA DoomedStep ==
  ASSUME TypeOK, Doomed, NEW p \in Proc, Alone(p), Discreet(p), DoomedAt(p)'
  PROVE  Doomed'
<1> SUFFICES ASSUME NEW q \in Proc \ {p} PROVE DoomedAt(q)'
  BY DEF Doomed
<1>0. pc'[q] = pc[q] /\ me'[q] = me[q] /\ DoomedAt(q)
  BY DEF Alone, Doomed
<1>1. ASSUME NEW d \in me'[q].doomed, d.kind = "item" PROVE Vouched(d)'
  BY <1>0, <1>1, VouchedStep DEF DoomedAt
<1>2. ASSUME pc'[q] = "doom"
      PROVE  /\ me'[q].cur.kind = "item"
             /\ files'[me'[q].name] # None =>
                  body'[files'[me'[q].name]] = me'[q].cur.data
  <2>1. me[q].name \in Name
    BY <1>0, <1>2, Here DEF TypeOK, Ready, NamePC
  <2> QED
    BY <1>0, <1>2, <2>1 DEF DoomedAt, Discreet, BodiesStay
<1> QED
  BY <1>1, <1>2 DEF DoomedAt

(* The p that dooms nothing lists nothing new.                             *)
LEMMA DoomedSelf ==
  ASSUME TypeOK, Doomed, NEW p \in Proc, Alone(p), Discreet(p), pc'[p] # "doom",
         \A d \in me'[p].doomed : d.kind = "item" => d \in me[p].doomed
  PROVE  DoomedAt(p)'
BY VouchedStep DEF Doomed, DoomedAt

(* A content that stays firm, or is given up, or new and firm.             *)
LEMMA KeptStep ==
  ASSUME Kept, TypeOK, released \subseteq released',
         \A o \in Obj : Firm(o) /\ body[o] \notin {None} \cup released' =>
           \E u \in Obj : body'[u] = body[o] /\ Firm(u)',
         \A v \in born' \ born : \E u \in Obj : body'[u] = v /\ Firm(u)'
  PROVE  Kept'
<1> SUFFICES ASSUME NEW v \in born, v \notin released'
             PROVE  \E u \in Obj : body'[u] = v /\ Firm(u)'
  BY DEF Kept
<1>1. PICK o \in Obj : body[o] = v /\ Firm(o)
  BY DEF Kept
<1>2. v # None
  BY ConstantsAssumption DEF TypeOK, DiskOK
<1> QED
  BY <1>1, <1>2

-----------------------------------------------------------------------------
(* A step that moves nothing into or out of files/ and the users'          *)
(* directories, and spoils nothing that is there or in another's box.      *)
Calm(p) ==
  /\ UNCHANGED <<files, place, born, released>>
  /\ \A s \in Slot : stage'[s].obj \in {stage[s].obj, None}
  /\ \A x \in Place : place[x] # None => body'[place[x]] = body[place[x]]
  /\ SlotsMove(p) /\ Stay(p) /\ Discreet(p)
  /\ CopyAt(p)' /\ DoomedAt(p)'
  /\ pc'[p] \in PendPC => pc[p] \in PendPC /\ me'[p].name = me[p].name
  /\ me'[p].slot # None => \/ me'[p].slot = me[p].slot
                           \/ stage'[me'[p].slot].obj = None
  /\ me'[p].victim \in {None, me[p].victim} \/ ~Live(me[p].victim)'

(* All but Route, which is about one process at a time.                    *)
Safe == OnePlace /\ Slots /\ Copies /\ Victims /\ Doomed /\ Kept

LEMMA CalmKeeps ==
  ASSUME TypeOK, Safe, NEW p \in Proc, Alone(p), Calm(p)
  PROVE  Safe'
<1> USE DEF Calm
<1>1. OnePlace'
  BY PlaceLess DEF Safe
<1>2. Slots'
  BY SlotsStep DEF Safe
<1>3. Copies'
  BY CopiesStep DEF Safe
<1>4. Victims'
  <2>1. ASSUME NEW o \in Obj, Live(o)' PROVE Live(o)
    <3>1. ASSUME NEW q \in Proc, Boxed(q, o)' PROVE Boxed(q, o)
      <4>1. me'[q].slot # None /\ stage'[me'[q].slot].obj = o /\ o # None
        BY <3>1, ConstantsAssumption DEF Boxed
      <4>2. me[q].slot = me'[q].slot
        BY <4>1 DEF Alone
      <4>3. me[q] \in Locals
        BY DEF TypeOK, ProcsOK
      <4>4. me[q].slot \in Slot
        BY <4>1, <4>2, <4>3 DEF Locals, Maybe
      <4> QED
        BY <4>1, <4>2, <4>4 DEF Boxed
    <3> QED
      BY <2>1, <3>1 DEF Live
  <2> QED
    BY <2>1, VictimsStep DEF Safe
<1>5. Doomed'
  BY DoomedStep DEF Safe
<1>6. Kept'
  <2>1. ASSUME NEW o \in Obj, Firm(o)
        PROVE  Firm(o)' /\ body'[o] = body[o]
    <3>1. \A q \in Proc, k \in Name : Pending(q, k)' => Pending(q, k)
      BY DEF Pending, Alone
    <3>2. o # None
      BY ConstantsAssumption
    <3>3. CASE \E x \in Place : place[x] = o
      BY <3>2, <3>3 DEF Firm
    <3>4. CASE \E k \in Name : files[k] = o /\ \A q \in Proc : ~Pending(q, k)
      BY <3>1, <3>2, <3>4 DEF Firm, Stay, BodiesStay
    <3> QED
      BY <2>1, <3>3, <3>4 DEF Firm
  <2> QED
    BY <2>1, KeptStep DEF Safe
<1> QED
  BY <1>1, <1>2, <1>3, <1>4, <1>5, <1>6 DEF Safe

(* Most steps: only the process's own variables, and info/.                *)
Silent(p) ==
  /\ UNCHANGED <<files, stage, place, body, born, released>>
  /\ pc'[p] \notin PendPC \cup {"verify"}
  /\ me'[p].slot \in {None, me[p].slot} /\ me'[p].victim \in {None, me[p].victim}
  /\ me'[p].tombs \subseteq me[p].tombs /\ me'[p].tomb \in {None, me[p].tomb}
  /\ me'[p].slot # None => pc'[p] \in SharedPC
  /\ pc'[p] \in BoxedPC /\ me'[p].slot # None =>
       pc[p] \in BoxedPC /\ me'[p].copied = me[p].copied
  /\ pc'[p] \in CheckPC /\ me'[p].tomb # None => pc[p] \in CheckPC
  /\ \A k \in Name : info'[k] \in {info[k], None} \/ Unlisted(info'[k])
  /\ pc'[p] \in ReservingPC => \/ pc[p] \in ReservingPC /\ me'[p].name = me[p].name
                               \/ Unlisted(info'[me'[p].name])
Plain(p) ==
  /\ Silent(p) /\ pc'[p] # "doom"
  /\ \A d \in me'[p].doomed : d.kind = "item" => d \in me[p].doomed

LEMMA SilentDiscreet ==
  ASSUME NEW p \in Proc, Silent(p)
  PROVE  Discreet(p)
BY DEF Silent, Discreet, BodiesStay

LEMMA SilentCalm ==
  ASSUME TypeOK, Safe, NEW p \in Proc, Alone(p), Silent(p), DoomedAt(p)'
  PROVE  Calm(p)
<1>1. SlotsMove(p)
  <2>1. TombsOf(p)' \subseteq TombsOf(p) \cup {None}
    BY DEF Silent, TombsOf
  <2>2. me'[p].slot # None => me'[p].slot \notin TombsOf(p)'
    BY <2>1 DEF Silent, Safe, Slots
  <2> QED
    BY <2>1, <2>2 DEF Silent, SlotsMove
<1>2. Stay(p)
  BY DEF Silent, Stay, BodiesStay
<1>3. CopyAt(p)'
  <2>1. CopyAt(p)
    BY DEF Safe, Copies
  <2>2. \A k \in Name : ~Pending(p, k)'
    BY DEF Silent, Pending
  <2> QED
    BY <2>1, <2>2 DEF Silent, CopyAt
<1> QED
  BY <1>1, <1>2, <1>3, SilentDiscreet DEF Silent, Calm

LEMMA PlainCalm ==
  ASSUME TypeOK, Safe, NEW p \in Proc, Alone(p), Plain(p)
  PROVE  Calm(p)
BY SilentDiscreet, SilentCalm, DoomedSelf DEF Plain, Safe

LEMMA NewUnlisted ==
  ASSUME Doomed, FreeIds # {}, NEW x
  PROVE  Unlisted([id |-> NewId, path |-> x])
<1>1. NewId \in FreeIds
  BY DEF NewId
<1>2. ASSUME NEW q \in Proc, NEW d \in me[q].doomed, d.kind = "item"
      PROVE  d.info.id # NewId
  BY <1>1, <1>2 DEF FreeIds, Doomed, DoomedAt, Vouched
<1> QED
  BY <1>2 DEF Unlisted

LEMMA PutPlain ==
  ASSUME TypeOK, Route, Safe, NEW p \in Proc,
         \/ \E d \in Dir : PutStart(p, d)
         \/ PutLock(p) \/ PutUnlock(p) \/ Walk(p) \/ CopyDeclined(p) \/ CopyLock(p)
         \/ ReserveStep(p) \/ ReleaseFails(p)
  PROVE  Plain(p)
<1> USE DEF Plain, Silent, Goto, PendPC, SharedPC, ReservingPC, TakenPC, BoxedPC, CheckPC, disk,
            bounds
<1>0. /\ pc \in [Proc -> PC] /\ me \in [Proc -> Locals] /\ me[p] \in Locals
      /\ pc[p] \notin SharedPC => me[p].slot = None
      /\ RouteAt(pc[p], me[p])
  BY DEF TypeOK, ProcsOK, Safe, Slots, Route
<1>1. ASSUME NEW d \in Dir, PutStart(p, d) PROVE Plain(p)
  BY <1>0, <1>1 DEF PutStart, Locals
<1>2. CASE PutLock(p)
  BY <1>0, <1>2 DEF PutLock, Locals
<1>3. CASE PutUnlock(p)
  BY <1>0, <1>3 DEF PutUnlock, Locals, RouteAt
<1>4. CASE Walk(p)
  BY <1>0, <1>4 DEF Walk, Locals
<1>5. CASE CopyDeclined(p)
  BY <1>0, <1>5 DEF CopyDeclined, Return, Blank, Locals
<1>6. CASE CopyLock(p)
  BY <1>0, <1>6 DEF CopyLock, Locals
<1>7. CASE ClaimStat(p)
  BY <1>0, <1>7 DEF ClaimStat, Locals
<1>8. CASE ClaimOpen(p)
  <2>1. ASSUME UNCHANGED info, me' = [me EXCEPT ![p].name = @ + 1],
               pc' = [pc EXCEPT ![p] = "claim"]
        PROVE  Plain(p)
    BY <1>0, <1>8, <2>1 DEF ClaimOpen, Locals
  <2>2. ASSUME NEW i, Unlisted(i), info' = [info EXCEPT ![me[p].name] = i],
               me' = [me EXCEPT ![p].info = i], pc' = [pc EXCEPT ![p] = "publish"]
        PROVE  Plain(p)
    <3>1. me[p].name \in Name
      BY <1>8, Here DEF ClaimOpen, Ready, NamePC, TypeOK
    <3> QED
      BY <1>0, <1>8, <2>2, <3>1 DEF ClaimOpen, Locals, TypeOK, DiskOK
  <2>3. FreeIds # {} => Unlisted([id |-> NewId, path |-> me[p].dir])
    BY NewUnlisted DEF Safe
  <2> QED
    BY <1>8, <2>1, <2>2, <2>3 DEF ClaimOpen
<1>9. CASE ClaimFails(p)
  BY <1>0, <1>9 DEF ClaimFails, Locals
<1>10. CASE Release(p) \/ ReleaseFails(p)
  <2>1. info \in [Name -> Maybe(Info)]
    BY DEF TypeOK, DiskOK
  <2>2. /\ LetsGo(p) /\ UNCHANGED <<files, stage, place, body, born, released>>
        /\ \A k \in Name : info'[k] \in {info[k], None}
    BY <1>10, <2>1 DEF Release, ReleaseFails, Slips
  <2> QED
    BY <1>0, <2>2 DEF LetsGo, Locals, RouteAt
<1> QED
  BY <1>1, <1>2, <1>3, <1>4, <1>5, <1>6, <1>7, <1>8, <1>9, <1>10 DEF ReserveStep

LEMMA RestorePlain ==
  ASSUME TypeOK, Route, Safe, NEW p \in Proc,
         \/ \E k \in Name : ListItem(p, k)
         \/ ReadInfo(p) \/ CheckDest(p) \/ RestoreLock(p) \/ Recheck(p)
         \/ Verify(p) \/ CheckInfo(p) \/ UnlinkInfo(p)
         \/ Finish(p) \/ FallbackStat(p) \/ Crash(p)
  PROVE  Plain(p)
<1> USE DEF Plain, Silent, Goto, PendPC, SharedPC, ReservingPC, TakenPC, BoxedPC, CheckPC, disk,
            bounds
<1>0. /\ pc \in [Proc -> PC] /\ me \in [Proc -> Locals] /\ me[p] \in Locals
      /\ pc[p] \notin SharedPC => me[p].slot = None
      /\ RouteAt(pc[p], me[p])
  BY DEF TypeOK, ProcsOK, Safe, Slots, Route
<1>1. ASSUME NEW k \in Name, ListItem(p, k) PROVE Plain(p)
  BY <1>0, <1>1 DEF ListItem, Locals
<1>2. CASE ReadInfo(p)
  BY <1>0, <1>2 DEF ReadInfo, Return, Blank, Locals
<1>3. CASE CheckDest(p)
  BY <1>0, <1>3 DEF CheckDest, Return, Blank, Locals
<1>4. CASE RestoreLock(p)
  BY <1>0, <1>4 DEF RestoreLock, Locals
<1>5. CASE Recheck(p)
  BY <1>0, <1>5 DEF Recheck, Locals
<1>6. CASE Verify(p)
  BY <1>0, <1>6 DEF Verify, Locals
<1>7. CASE CheckInfo(p)
  BY <1>0, <1>7 DEF CheckInfo, AfterInfo, Locals
<1>8. CASE UnlinkInfo(p)
  <2>1. info \in [Name -> Maybe(Info)]
    BY DEF TypeOK, DiskOK
  <2> QED
    BY <1>0, <1>8, <2>1 DEF UnlinkInfo, AfterInfo, Locals
<1>9. CASE Finish(p) \/ Crash(p)
  BY <1>0, <1>9 DEF Finish, Crash, Slips, Return, Blank, Locals
<1>10. CASE FallbackStat(p)
  BY <1>0, <1>10 DEF FallbackStat, Locals
<1> QED
  BY <1>1, <1>2, <1>3, <1>4, <1>5, <1>6, <1>7, <1>8, <1>9, <1>10

LEMMA DeletePlain ==
  ASSUME TypeOK, Route, Safe, NEW p \in Proc,
         \/ Choose(p) \/ Declined(p) \/ DeleteLock(p) \/ DropInfo(p)
         \/ DeleteUnlock(p) \/ Done(p)
  PROVE  Plain(p)
<1> USE DEF Plain, Silent, Goto, PendPC, SharedPC, ReservingPC, TakenPC, BoxedPC, CheckPC, disk,
            bounds
<1>0. /\ pc \in [Proc -> PC] /\ me \in [Proc -> Locals] /\ me[p] \in Locals
      /\ pc[p] \notin SharedPC => me[p].slot = None
  BY DEF TypeOK, ProcsOK, Safe, Slots
<1>1. CASE Choose(p)
  <2>1. PICK D : /\ me' = [me EXCEPT ![p].doomed = D]
                 /\ \A d \in D : d.kind = "item" => d \in me[p].doomed
    <3> DEFINE named == {d.name : d \in me[p].doomed}
               orphans == {Entry("orphan", k) : k \in {n \in Name \ named : files[n] # None}}
               items == {d \in me[p].doomed : d.kind = "item"}
               picked == items \cup {[d EXCEPT !.info = None] : d \in orphans}
    <3>1. \A d \in picked : d.kind = "item" => d \in me[p].doomed
      BY DEF Entry
    <3>2. PICK sel \in SUBSET picked :
            me' = [me EXCEPT ![p].doomed =
                     IF p \in Emptiers THEN sel \cup (me[p].doomed \ items) ELSE sel]
      BY <1>1 DEF Choose
    <3> HIDE DEF picked
    <3> QED
      BY <3>1, <3>2
  <2> QED
    BY <1>0, <1>1, <2>1 DEF Choose, Locals
<1>2. CASE Declined(p)
  BY <1>0, <1>2 DEF Declined, Return, Blank, Locals
<1>3. CASE DeleteLock(p)
  BY <1>0, <1>3 DEF DeleteLock, Locals
<1>4. CASE DropInfo(p)
  <2>1. info \in [Name -> Maybe(Info)]
    BY DEF TypeOK, DiskOK
  <2> QED
    BY <1>0, <1>4, <2>1 DEF DropInfo, Locals
<1>5. CASE DeleteUnlock(p)
  BY <1>0, <1>5 DEF DeleteUnlock, Locals
<1>6. CASE Done(p)
  BY <1>0, <1>6 DEF Done, Return, Blank, Locals
<1> QED
  BY <1>1, <1>2, <1>3, <1>4, <1>5, <1>6

-----------------------------------------------------------------------------
(* The steps of put and empty that are calm, each for its own reason.      *)
LEMMA DropCalm ==
  ASSUME TypeOK, Safe, NEW p \in Proc, Alone(p), NEW s \in Slot,
         UNCHANGED <<files, info, place, born, released>>,
         \A t \in Slot \ {s} : stage'[t] = stage[t],
         stage'[s].obj \in {None, stage[s].obj},
         \A q \in Proc \ {p} : me[q].slot # s /\ (pc[q] = "verify" => me[q].tomb # s),
         \A k \in Name : files[k] # None => body'[files[k]] = body[files[k]],
         \A x \in Place : place[x] # None => body'[place[x]] = body[place[x]],
         \A q \in Proc \ {p}, o \in Obj : Boxed(q, o) => body'[o] = body[o],
         pc'[p] \notin {"doom"} \cup ReservingPC,
         pc'[p] \in PendPC => pc[p] \in PendPC /\ me'[p].name = me[p].name,
         me'[p].doomed = me[p].doomed, CopyAt(p)', SlotsMove(p),
         me'[p].slot # None => \/ me'[p].slot = me[p].slot
                               \/ stage'[me'[p].slot].obj = None,
         me'[p].victim \in {None, me[p].victim}
  PROVE  Calm(p)
<1>1. BodiesStay
  BY DEF BodiesStay
<1>2. Discreet(p)
  BY <1>1 DEF Discreet
<1>3. DoomedAt(p)'
  BY <1>2, DoomedSelf DEF Safe
<1>4. Stay(p)
  <2>1. ASSUME NEW q \in Proc \ {p}, me[q].slot # None
        PROVE  /\ stage'[me[q].slot].obj = stage[me[q].slot].obj
               /\ stage[me[q].slot].obj # None =>
                    body'[stage[me[q].slot].obj] = body[stage[me[q].slot].obj]
    <3>1. me[q].slot \in Slot
      BY <2>1 DEF TypeOK, ProcsOK, Locals, Maybe
    <3>2. stage[me[q].slot].obj \in Maybe(Obj)
      BY <3>1 DEF TypeOK, DiskOK, StageEntry
    <3> QED
      BY <2>1, <3>1, <3>2 DEF Boxed, Maybe
  <2>2. ASSUME NEW q \in Proc \ {p}, pc[q] = "verify"
        PROVE  stage'[me[q].tomb].obj = stage[me[q].tomb].obj
    <3>1. me[q].tomb \in Slot
      BY <2>2, Here DEF TypeOK, Ready, TombPC
    <3> QED
      BY <2>2, <3>1
  <2> QED
    BY <1>1, <2>1, <2>2 DEF Stay
<1> QED
  BY <1>2, <1>3, <1>4 DEF Calm

LEMMA FreeNobodys ==
  ASSUME NEW s \in FreeSlots, NEW q \in Proc
  PROVE  s \in Slot /\ s # me[q].slot /\ s # me[q].tomb /\ s \notin TombsOf(q)
BY DEF FreeSlots, Used, TombsOf

LEMMA MakeBoxCalm ==
  ASSUME TypeOK, Safe, NEW p \in Proc, Alone(p),
         MakeBox(p) \/ (BoxFails(p) /\ pc[p] = "mkbox")
  PROVE  Calm(p)
<1>0. /\ pc \in [Proc -> PC] /\ me \in [Proc -> Locals] /\ me[p] \in Locals
      /\ stage \in [Slot -> StageEntry] /\ pc[p] = "mkbox"
      /\ UNCHANGED <<files, info, place, body, born, released>>
  BY DEF TypeOK, ProcsOK, DiskOK, MakeBox, BoxFails, Slips, bounds
<1>1. CASE UNCHANGED <<stage, me>> /\ pc'[p] = "unlock"
  <2>1. Plain(p)
    BY <1>0, <1>1 DEF Plain, Silent, PendPC, SharedPC, ReservingPC, BoxedPC, CheckPC
  <2> QED
    BY <2>1, PlainCalm
<1>2. ASSUME NewBox,
             \/ me' = [me EXCEPT ![p].slot = NewSlot] /\ pc'[p] = "cp"
             \/ me' = me /\ pc'[p] = "unlock"
      PROVE  Calm(p)
  <2>1. NewSlot \in FreeSlots
    BY <1>2 DEF NewBox, NewSlot
  <2> DEFINE s == NewSlot
  <2>2. /\ stage' = [stage EXCEPT ![s] = [kind |-> "put", obj |-> None]]
        /\ \/ me' = [me EXCEPT ![p].slot = s] /\ pc'[p] = "cp"
           \/ me' = me /\ pc'[p] = "unlock"
    BY <1>2 DEF NewBox
  <2> HIDE DEF s
  <2>3. s \in FreeSlots /\ s \in Slot
    BY <2>1 DEF s, FreeSlots
  <2>4. /\ me'[p].slot \in {s, me[p].slot}
        /\ me'[p].tomb = me[p].tomb /\ me'[p].tombs = me[p].tombs
        /\ me'[p].victim = me[p].victim /\ me'[p].doomed = me[p].doomed
        /\ pc'[p] \in {"cp", "unlock"}
    BY <1>0, <2>2 DEF Locals
  <2>5. SlotsMove(p)
    <3>1. TombsOf(p)' = TombsOf(p) /\ s \notin TombsOf(p)
      BY <2>3, <2>4, FreeNobodys DEF TombsOf
    <3> QED
      BY <2>3, <2>4, <3>1 DEF SlotsMove, SharedPC, CheckPC, Safe, Slots
  <2>6. CopyAt(p)'
    BY <2>4 DEF CopyAt, Pending, PendPC, BoxedPC
  <2>7. stage'[s].obj = None /\ \A t \in Slot \ {s} : stage'[t] = stage[t]
    BY <1>0, <2>2, <2>3
  <2> QED
    BY <1>0, <2>3, <2>4, <2>5, <2>6, <2>7, FreeNobodys, DropCalm DEF PendPC, ReservingPC
<1> QED
  BY <1>0, <1>1, <1>2 DEF MakeBox, BoxFails, Goto

(* An inode in a box or tombstone of p is in no other place.               *)
LEMMA OnlyHere ==
  ASSUME TypeOK, Safe, NEW s \in Slot, NEW p \in Proc,
         \A q \in Proc \ {p} : me[q].slot # s,
         BreaksOff(stage[s].obj)
  PROVE  /\ \A k \in Name : files[k] # None => body'[files[k]] = body[files[k]]
         /\ \A x \in Place : place[x] # None => body'[place[x]] = body[place[x]]
         /\ \A q \in Proc \ {p}, o \in Obj : Boxed(q, o) => body'[o] = body[o]
<1>0. \A o \in Obj : o # stage[s].obj => body'[o] = body[o]
  BY DEF BreaksOff, Without
<1>1. ASSUME NEW k \in Name, files[k] # None PROVE body'[files[k]] = body[files[k]]
  BY <1>0, <1>1 DEF Safe, OnePlace, TypeOK, DiskOK, Maybe
<1>2. ASSUME NEW x \in Place, place[x] # None PROVE body'[place[x]] = body[place[x]]
  BY <1>0, <1>2 DEF Safe, OnePlace, TypeOK, DiskOK, Maybe
<1>3. ASSUME NEW q \in Proc \ {p}, NEW o \in Obj, Boxed(q, o) PROVE body'[o] = body[o]
  <2>1. me[q].slot \in Slot \ {s}
    BY <1>3 DEF Boxed, TypeOK, ProcsOK, Locals, Maybe
  <2>2. o # stage[s].obj
    BY <1>3, <2>1, ConstantsAssumption DEF Boxed, Safe, OnePlace
  <2> QED
    BY <1>0, <2>2
<1> QED
  BY <1>1, <1>2, <1>3

LEMMA DropBoxCalm ==
  ASSUME TypeOK, Safe, NEW p \in Proc, Alone(p),
         DropBox(p) \/ (BoxFails(p) /\ pc[p] = "dropbox")
  PROVE  Calm(p)
<1>0. /\ pc \in [Proc -> PC] /\ me \in [Proc -> Locals] /\ me[p] \in Locals
      /\ stage \in [Slot -> StageEntry] /\ None \notin Slot
  BY ConstantsAssumption DEF TypeOK, ProcsOK, DiskOK
<1>1. PICK s \in Slot : s = me[p].slot
  BY Here DEF TypeOK, DropBox, BoxFails, Ready, BoxPC
<1>2. /\ stage' = [stage EXCEPT ![s] = NoEntry] \/ stage' = stage
      /\ BreaksOff(stage[s].obj)
      /\ UNCHANGED <<me, files, info, place, born, released>> /\ pc'[p] = "unlock"
  BY <1>0, <1>1 DEF DropBox, BoxFails, BreaksOff, Slips, Goto, bounds
<1>3. stage'[s].obj \in {None, stage[s].obj} /\ \A t \in Slot \ {s} : stage'[t] = stage[t]
  BY <1>0, <1>2 DEF NoEntry
<1>4. ASSUME NEW q \in Proc \ {p} PROVE me[q].slot # s /\ (pc[q] = "verify" => me[q].tomb # s)
  BY <1>0, <1>1 DEF Safe, Slots, TombsOf
<1>5. CopyAt(p)'
  BY <1>2 DEF CopyAt, Pending, PendPC, BoxedPC
<1>6. SlotsMove(p)
  BY <1>1, <1>2 DEF SlotsMove, TombsOf, SharedPC, CheckPC, Safe, Slots
<1> QED
  BY <1>2, <1>3, <1>4, <1>5, <1>6, OnlyHere, DropCalm DEF PendPC, ReservingPC

LEMMA RemoveTombCalm ==
  ASSUME TypeOK, Safe, NEW p \in Proc, Alone(p),
         RemoveTomb(p) \/ (DiscardFails(p) /\ pc[p] = "rm")
  PROVE  Calm(p)
<1>0. /\ pc \in [Proc -> PC] /\ me \in [Proc -> Locals] /\ me[p] \in Locals
      /\ stage \in [Slot -> StageEntry] /\ None \notin Slot
  BY ConstantsAssumption DEF TypeOK, ProcsOK, DiskOK
<1>1. PICK s \in Slot : s = me[p].tomb
  BY Here DEF TypeOK, RemoveTomb, DiscardFails, Ready, TombPC
<1>2. /\ stage' = [stage EXCEPT ![s] = NoEntry] \/ stage' = stage
      /\ BreaksOff(stage[s].obj)
      /\ UNCHANGED <<me, files, info, place, born, released>> /\ pc'[p] = "unlock"
  BY <1>0, <1>1 DEF RemoveTomb, DiscardFails, BreaksOff, Slips, Goto, bounds
<1>3. stage'[s].obj \in {None, stage[s].obj} /\ \A t \in Slot \ {s} : stage'[t] = stage[t]
  BY <1>0, <1>2 DEF NoEntry
<1>4. ASSUME NEW q \in Proc \ {p} PROVE me[q].slot # s /\ (pc[q] = "verify" => me[q].tomb # s)
  <2>1. me[p].tomb \in TombsOf(p) /\ me[q].tomb \in TombsOf(q) /\ pc[p] \in CheckPC
    BY DEF TombsOf, RemoveTomb, DiscardFails, CheckPC
  <2> QED
    BY <1>0, <1>1, <2>1 DEF Safe, Slots
<1>5. CopyAt(p)'
  BY <1>2 DEF CopyAt, Pending, PendPC, BoxedPC
<1>6. SlotsMove(p)
  BY <1>2 DEF SlotsMove, TombsOf, SharedPC, CheckPC, Safe, Slots
<1> QED
  BY <1>2, <1>3, <1>4, <1>5, <1>6, OnlyHere, DropCalm DEF PendPC, ReservingPC

(* The copy is under the name; its empty box is gone.                      *)
LEMMA SyncInCalm ==
  ASSUME TypeOK, Safe, NEW p \in Proc, Alone(p),
         SyncIn(p) \/ (BoxFails(p) /\ pc[p] = "sync")
  PROVE  Calm(p)
<1>0. /\ pc \in [Proc -> PC] /\ me \in [Proc -> Locals] /\ me[p] \in Locals
      /\ stage \in [Slot -> StageEntry] /\ None \notin Slot
  BY ConstantsAssumption DEF TypeOK, ProcsOK, DiskOK
<1>1. PICK s \in Slot : s = me[p].slot
  BY Here DEF TypeOK, SyncIn, BoxFails, Ready, BoxPC
<1>2. /\ stage' = [stage EXCEPT ![s] = NoEntry] \/ stage' = stage
      /\ me' = [me EXCEPT ![p].slot = None]
      /\ UNCHANGED <<body, files, info, place, born, released>>
      /\ pc[p] = "sync" /\ pc'[p] \in {"source", "unlock"}
  BY <1>0, <1>1 DEF SyncIn, BoxFails, Slips, Goto, bounds
<1>3. stage'[s].obj \in {None, stage[s].obj} /\ \A t \in Slot \ {s} : stage'[t] = stage[t]
  BY <1>0, <1>2 DEF NoEntry
<1>4. ASSUME NEW q \in Proc \ {p} PROVE me[q].slot # s /\ (pc[q] = "verify" => me[q].tomb # s)
  BY <1>0, <1>1 DEF Safe, Slots, TombsOf
<1>5. /\ me'[p].slot = None /\ me'[p].tomb = me[p].tomb /\ me'[p].tombs = me[p].tombs
      /\ me'[p].victim = me[p].victim /\ me'[p].doomed = me[p].doomed
      /\ me'[p].name = me[p].name /\ me'[p].entry = me[p].entry
      /\ me'[p].copied = me[p].copied
  BY <1>0, <1>2 DEF Locals
<1>6. CopyAt(p)'
  <2>1. ASSUME NEW k \in Name, Pending(p, k)'
        PROVE  /\ files'[k] # None /\ me'[p].entry = files'[k]
               /\ body'[files'[k]] = me'[p].copied
               /\ \A q \in Proc \ {p} : ~Pending(q, k)'
    <3>1. Pending(p, k) /\ CopyAt(p)
      BY <1>2, <1>5, <2>1 DEF Pending, PendPC, Safe, Copies
    <3> QED
      BY <1>2, <1>5, <3>1 DEF CopyAt, Alone, Pending
  <2> QED
    BY <1>2, <1>5, <2>1 DEF CopyAt, BoxedPC
<1>7. SlotsMove(p)
  BY <1>2, <1>5 DEF SlotsMove, TombsOf, CheckPC
<1> QED
  BY <1>2, <1>3, <1>4, <1>5, <1>6, <1>7, DropCalm DEF PendPC, ReservingPC

(* The tree of a tombstone is opened: it is in nobody's hands.             *)
LEMMA SweepCalm ==
  ASSUME TypeOK, Safe, NEW p \in Proc, Alone(p), Sweep(p)
  PROVE  Calm(p)
<1>0. /\ pc \in [Proc -> PC] /\ me \in [Proc -> Locals] /\ me[p] \in Locals
      /\ stage \in [Slot -> StageEntry] /\ None \notin Slot
  BY ConstantsAssumption DEF TypeOK, ProcsOK, DiskOK
<1>1. PICK s \in Slot :
        /\ s \in me[p].tombs
        /\ me' = [me EXCEPT ![p].tomb = s, ![p].victim = stage[s].obj, ![p].tombs = @ \ {s}]
  <2>1. (CHOOSE t \in me[p].tombs : TRUE) \in me[p].tombs
    BY DEF Sweep
  <2> QED
    BY <1>0, <2>1 DEF Sweep, Locals
<1>2. /\ UNCHANGED <<stage, body, files, info, place, born, released>>
      /\ pc[p] = "sweep" /\ pc'[p] = "burn"
  BY <1>0 DEF Sweep, Goto, bounds, disk
<1>3. /\ me'[p].slot = me[p].slot /\ me'[p].doomed = me[p].doomed
      /\ me'[p].tomb = s /\ me'[p].tombs = me[p].tombs \ {s}
      /\ me'[p].victim = stage[s].obj
  BY <1>0, <1>1 DEF Locals
<1>4. me[p].slot = None
  BY <1>2 DEF Safe, Slots, SharedPC, ReservingPC, TakenPC
<1>5. SlotsMove(p)
  BY <1>1, <1>2, <1>3, <1>4 DEF SlotsMove, TombsOf, CheckPC
<1>6. BodiesStay /\ Stay(p)
  BY <1>2 DEF Stay, BodiesStay
<1>7. Discreet(p)
  BY <1>2, <1>6 DEF Discreet, ReservingPC
<1>8. CopyAt(p)'
  BY <1>2 DEF CopyAt, Pending, PendPC, BoxedPC
<1>9. DoomedAt(p)'
  BY <1>2, <1>3, <1>7, DoomedSelf DEF Safe
<1>10. stage[s].obj # None => ~Live(me[p].victim)'
  <2> SUFFICES ASSUME stage[s].obj # None PROVE ~Live(me[p].victim)'
    OBVIOUS
  <2>1. \A k \in Name : files[k] # stage[s].obj
    BY DEF Safe, OnePlace
  <2>2. \A x \in Place : place[x] # stage[s].obj
    BY DEF Safe, OnePlace
  <2>3. ASSUME NEW q \in Proc, me'[q].slot # None
        PROVE  stage[me'[q].slot].obj # stage[s].obj
    <3>1. q # p /\ me'[q] = me[q]
      BY <1>3, <1>4, <2>3 DEF Alone
    <3>2. me[q].slot \in Slot
      BY <2>3, <3>1 DEF TypeOK, ProcsOK, Locals, Maybe
    <3>3. me[q].slot # s
      BY <1>1, <2>3, <3>1 DEF Safe, Slots, TombsOf
    <3> QED
      BY <3>1, <3>2, <3>3 DEF Safe, OnePlace
  <2> QED
    BY <1>2, <1>3, <2>1, <2>2, <2>3 DEF Live, Boxed
<1>11. me'[p].victim \in {None, me[p].victim} \/ ~Live(me[p].victim)'
  BY <1>3, <1>10
<1> QED
  BY <1>2, <1>3, <1>4, <1>5, <1>6, <1>7, <1>8, <1>9, <1>11, SMTT(30) DEF Calm, PendPC

(* ... so that its deletion spoils nothing.                                *)
LEMMA BurnCalm ==
  ASSUME TypeOK, Safe, NEW p \in Proc, Alone(p),
         Burn(p) \/ (DeleteFails(p) /\ pc[p] = "burn")
  PROVE  Calm(p)
<1>0. /\ pc \in [Proc -> PC] /\ me \in [Proc -> Locals] /\ me[p] \in Locals
      /\ stage \in [Slot -> StageEntry] /\ None \notin Slot
  BY ConstantsAssumption DEF TypeOK, ProcsOK, DiskOK
<1> DEFINE s == me[p].tomb
           o == me[p].victim
<1>1. /\ UNCHANGED <<files, info, place, born, released>>
      /\ pc[p] = "burn" /\ pc'[p] = "sweep"
      /\ \A q \in Obj : q # o => body'[q] = body[q]
      /\ \A t \in Slot : \/ stage'[t] = stage[t]
                         \/ t = s /\ stage'[t] = NoEntry
  <2>1. CASE Burn(p)
    BY <1>0, <2>1 DEF Burn, Without, Goto, bounds
  <2>2. CASE /\ Goto(p, "sweep") /\ BreaksOff(o) /\ Slips /\ pc[p] = "burn"
             /\ UNCHANGED <<files, info, stage, place>>
    BY <1>0, <2>2 DEF BreaksOff, Without, Slips, Goto
  <2> QED
    BY <2>1, <2>2 DEF DeleteFails, Collect
<1>2. /\ me'[p].slot = me[p].slot /\ me'[p].doomed = me[p].doomed
      /\ me'[p].tomb = None /\ me'[p].tombs = me[p].tombs /\ me'[p].victim = None
  <2>1. me' = [me EXCEPT ![p].tomb = None, ![p].victim = None]
    BY <1>1 DEF Burn, DeleteFails, Collect
  <2> QED
    BY <1>0, <2>1 DEF Locals
<1>3. me[p].slot = None
  BY <1>1 DEF Safe, Slots, SharedPC, ReservingPC, TakenPC
<1>4. ASSUME NEW q \in Proc \ {p}
      PROVE  /\ me[q].slot # None => me[q].slot # s
             /\ pc[q] = "verify" => me[q].tomb # s
  <2>1. s \in TombsOf(p) /\ (pc[q] = "verify" => pc[q] \in CheckPC)
    BY DEF TombsOf, CheckPC
  <2>2. pc[q] = "verify" => me[q].tomb \in Slot
    BY Here DEF TypeOK, Ready, TombPC
  <2> QED
    BY <1>0, <2>1, <2>2 DEF Safe, Slots
<1>5. ASSUME NEW u \in Obj, Live(u) PROVE body'[u] = body[u]
  BY <1>1, <1>5, ConstantsAssumption DEF Safe, Victims
<1>6. BodiesStay
  BY <1>5 DEF BodiesStay, Live, TypeOK, DiskOK, Maybe
<1>7. Stay(p)
  <2>1. ASSUME NEW q \in Proc \ {p}, me[q].slot # None
        PROVE  /\ stage'[me[q].slot].obj = stage[me[q].slot].obj
               /\ stage[me[q].slot].obj # None =>
                    body'[stage[me[q].slot].obj] = body[stage[me[q].slot].obj]
    <3>1. me[q].slot \in Slot
      BY <2>1 DEF TypeOK, ProcsOK, Locals, Maybe
    <3>2. stage'[me[q].slot] = stage[me[q].slot]
      BY <1>1, <1>4, <2>1, <3>1
    <3>3. stage[me[q].slot].obj \in Maybe(Obj)
      BY <3>1 DEF TypeOK, DiskOK, StageEntry
    <3> QED
      BY <1>5, <2>1, <3>2, <3>3 DEF Live, Boxed, Maybe
  <2>2. ASSUME NEW q \in Proc \ {p}, pc[q] = "verify"
        PROVE  stage'[me[q].tomb].obj = stage[me[q].tomb].obj
    <3>1. me[q].tomb \in Slot
      BY <2>2, Here DEF TypeOK, Ready, TombPC
    <3> QED
      BY <1>1, <1>4, <2>2, <3>1
  <2> QED
    BY <1>1, <1>6, <2>1, <2>2 DEF Stay
<1>8. Discreet(p)
  BY <1>1, <1>6 DEF Discreet, ReservingPC
<1>9. CopyAt(p)'
  BY <1>1 DEF CopyAt, Pending, PendPC, BoxedPC
<1>10. DoomedAt(p)'
  BY <1>1, <1>2, <1>8, DoomedSelf DEF Safe
<1>11. SlotsMove(p)
  BY <1>1, <1>2, <1>3 DEF SlotsMove, TombsOf, CheckPC
<1>12. \A x \in Place : place[x] # None => body'[place[x]] = body[place[x]]
  BY <1>5 DEF Live, TypeOK, DiskOK, Maybe
<1>13. \A t \in Slot : stage'[t].obj \in {stage[t].obj, None}
  BY <1>1 DEF NoEntry
<1> QED
  BY <1>1, <1>2, <1>3, <1>7, <1>8, <1>9, <1>10, <1>11, <1>12, <1>13 DEF Calm, PendPC

(* Under the exclusive lock no put has a box.                              *)
LEMMA CollectCalm ==
  ASSUME TypeOK, Exclusion, Safe, NEW p \in Proc, Alone(p), NEW S, Collect(p, S),
         UNCHANGED <<born, released>>
  PROVE  Calm(p)
<1>0. /\ pc \in [Proc -> PC] /\ me \in [Proc -> Locals] /\ me[p] \in Locals
      /\ stage \in [Slot -> StageEntry] /\ None \notin Slot
  BY ConstantsAssumption DEF TypeOK, ProcsOK, DiskOK
<1>1. /\ UNCHANGED <<files, info, place, body, born, released>>
      /\ pc[p] = "next" /\ pc'[p] = "unlockx"
      /\ \A t \in Slot : stage'[t].obj = stage[t].obj
  BY <1>0 DEF Collect, Goto, StageEntry
<1>2. PICK T : me' = [me EXCEPT ![p].tombs = T, ![p].cur = None]
  BY DEF Collect
<1>3. /\ me'[p].slot = me[p].slot /\ me'[p].doomed = me[p].doomed
      /\ me'[p].tomb = me[p].tomb /\ me'[p].victim = me[p].victim
  BY <1>0, <1>2 DEF Locals
<1>4. \A q \in Proc \ {p} : pc[q] \notin SharedPC
  BY <1>1 DEF Exclusion, ExclusivePC
<1>5. \A q \in Proc : me[q].slot = None
  BY <1>1, <1>4 DEF Safe, Slots, SharedPC, ReservingPC, TakenPC
<1>6. SlotsMove(p)
  BY <1>1, <1>3, <1>4, <1>5 DEF SlotsMove, CheckPC
<1>7. BodiesStay
  BY <1>1 DEF BodiesStay
<1>8. \A q \in Proc \ {p} : pc[q] # "verify"
  BY <1>4 DEF SharedPC, TakenPC
<1>9. Stay(p)
  BY <1>1, <1>5, <1>7, <1>8 DEF Stay
<1>10. Discreet(p)
  BY <1>1, <1>7 DEF Discreet, ReservingPC
<1>11. CopyAt(p)'
  BY <1>1 DEF CopyAt, Pending, PendPC, BoxedPC
<1>12. DoomedAt(p)'
  BY <1>1, <1>3, <1>10, DoomedSelf DEF Safe
<1> QED
  BY <1>1, <1>3, <1>5, <1>6, <1>9, <1>10, <1>11, <1>12 DEF Calm, PendPC

(* What is captured is the copy that was published.                        *)
LEMMA CaptureCalm ==
  ASSUME TypeOK, Names, Safe, NEW p \in Proc, Alone(p), Capture(p)
  PROVE  Calm(p)
<1>0. /\ pc \in [Proc -> PC] /\ me \in [Proc -> Locals] /\ me[p] \in Locals
  BY DEF TypeOK, ProcsOK
<1>1. /\ UNCHANGED <<stage, files, info, place, body, born, released>>
      /\ pc[p] = "capture" /\ pc'[p] = "sync"
  BY <1>0 DEF Capture, Goto, bounds, disk
<1> DEFINE k == me[p].name
<1>2. k \in Name /\ Pending(p, k) /\ CopyAt(p)
  BY <1>1, Here DEF TypeOK, Ready, NamePC, Pending, PendPC, Safe, Copies
<1>3. files[k] # None /\ info[k] # None
  BY <1>2 DEF CopyAt, Names, Named
<1>4. /\ me'[p].slot = me[p].slot /\ me'[p].doomed = me[p].doomed
      /\ me'[p].tomb = me[p].tomb /\ me'[p].tombs = me[p].tombs
      /\ me'[p].victim = me[p].victim /\ me'[p].name = me[p].name
      /\ me'[p].copied = me[p].copied /\ me'[p].entry = files[k]
  BY <1>0, <1>3 DEF Capture, Locals
<1>5. SlotsMove(p)
  <2>1. TombsOf(p)' = TombsOf(p)
    BY <1>4 DEF TombsOf
  <2> QED
    BY <1>1, <1>4, <2>1 DEF SlotsMove, CheckPC, SharedPC, Safe, Slots
<1>6. BodiesStay /\ Stay(p)
  BY <1>1 DEF Stay, BodiesStay
<1>7. Discreet(p)
  BY <1>1, <1>6 DEF Discreet, ReservingPC
<1>8. CopyAt(p)'
  <2>1. ASSUME NEW l \in Name, Pending(p, l)'
        PROVE  /\ files'[l] # None /\ me'[p].entry = files'[l]
               /\ body'[files'[l]] = me'[p].copied
               /\ \A q \in Proc \ {p} : ~Pending(q, l)'
    <3>1. l = k
      BY <1>4, <2>1 DEF Pending
    <3> QED
      BY <1>1, <1>2, <1>3, <1>4, <3>1 DEF CopyAt, Alone, Pending
  <2> QED
    BY <1>1, <1>4, <2>1 DEF CopyAt, BoxedPC
<1>9. DoomedAt(p)'
  BY <1>1, <1>4, <1>7, DoomedSelf DEF Safe
<1> QED
  BY <1>1, <1>4, <1>5, <1>6, <1>7, <1>8, <1>9 DEF Calm, PendPC

(* What is listed as an item is there, and nobody has its name reserved.   *)
LEMMA ScanInfoCalm ==
  ASSUME TypeOK, Names, Safe, NEW p \in Proc, Alone(p), ScanInfo(p)
  PROVE  Calm(p)
<1>0. /\ pc \in [Proc -> PC] /\ me \in [Proc -> Locals] /\ me[p] \in Locals
  BY DEF TypeOK, ProcsOK
<1>1. /\ UNCHANGED <<stage, files, info, place, body, born, released>>
      /\ pc[p] = "idle" /\ pc'[p] = "listed"
  BY <1>0 DEF ScanInfo, Goto, disk
<1>2. PICK D : /\ D = {Entry(IF files[k] = None THEN "dangling" ELSE "item", k) :
                          k \in {n \in Name : info[n] # None}}
               /\ me' = [me EXCEPT ![p].doomed = D]
  BY DEF ScanInfo
<1>3. /\ me'[p].slot = me[p].slot /\ me'[p].doomed = D
      /\ me'[p].tomb = me[p].tomb /\ me'[p].tombs = me[p].tombs
      /\ me'[p].victim = me[p].victim
  BY <1>0, <1>2 DEF Locals
<1>4. Silent(p)
  BY <1>1, <1>3 DEF Silent, PendPC, BoxedPC, CheckPC, ReservingPC, Safe, Slots, SharedPC, TakenPC
<1>5. ASSUME NEW d \in D, d.kind = "item" PROVE Vouched(d)'
  <2>1. PICK k \in Name : /\ info[k] # None /\ files[k] # None
                          /\ d.name = k /\ d.entry = files[k] /\ d.info = info[k]
                          /\ d.data = body[files[k]]
    BY <1>2, <1>5 DEF Entry, Content
  <2>2. ASSUME NEW q \in Proc, pc'[q] \in ReservingPC PROVE me'[q].name # k
    <3>1. q # p
      BY <1>1, <2>2 DEF ReservingPC
    <3>2. pc[q] \in ReservingPC /\ me'[q] = me[q]
      BY <2>2, <3>1 DEF Alone
    <3> QED
      BY <2>1, <3>2 DEF Names, Held, Holding, HoldPC
  <2> QED
    BY <1>1, <2>1, <2>2 DEF Vouched
<1>6. DoomedAt(p)'
  BY <1>1, <1>3, <1>5 DEF DoomedAt
<1> QED
  BY <1>4, <1>6, SilentCalm

(* What is checked again and doomed has the content it had when listed.    *)
LEMMA CheckDoomedCalm ==
  ASSUME TypeOK, Names, Safe, NEW p \in Proc, Alone(p), CheckDoomed(p)
  PROVE  Calm(p)
<1>0. /\ pc \in [Proc -> PC] /\ me \in [Proc -> Locals] /\ me[p] \in Locals
  BY DEF TypeOK, ProcsOK
<1>1. UNCHANGED <<stage, files, info, place, body, born, released>> /\ pc[p] = "next"
  BY DEF CheckDoomed, disk, bounds
<1>2. me[p].slot = None
  BY <1>1, SMTT(30) DEF Safe, Slots, SharedPC, ReservingPC, TakenPC
<1>3. PICK d \in me[p].doomed :
        \/ /\ Same(d)
           /\ me' = [me EXCEPT ![p].cur = d, ![p].name = d.name, ![p].doomed = @ \ {d}]
           /\ Goto(p, IF d.kind = "dangling" THEN "drop" ELSE "doom")
        \/ /\ me' = [me EXCEPT ![p].doomed = @ \ {d}]
           /\ UNCHANGED pc
  BY DEF CheckDoomed
<1>4. d \in Listed
  BY <1>0 DEF Locals
<1>5. /\ me'[p].slot = me[p].slot /\ me'[p].doomed = me[p].doomed \ {d}
      /\ me'[p].tomb = me[p].tomb /\ me'[p].tombs = me[p].tombs
      /\ me'[p].victim = me[p].victim
      /\ pc'[p] \in {"next", "drop", "doom"}
  BY <1>0, <1>1, <1>3 DEF Locals, Goto
<1>6. Silent(p)
  BY <1>1, <1>2, <1>5 DEF Silent, PendPC, BoxedPC, CheckPC, ReservingPC
<1>7. CASE pc'[p] # "doom"
  BY <1>5, <1>6, <1>7, PlainCalm DEF Plain
<1>8. CASE pc'[p] = "doom"
  <2>1. /\ Same(d) /\ d.kind # "dangling"
        /\ me' = [me EXCEPT ![p].cur = d, ![p].name = d.name, ![p].doomed = @ \ {d}]
    BY <1>0, <1>1, <1>3, <1>8 DEF Goto
  <2>2. me'[p].cur = d /\ me'[p].name = d.name /\ d.name \in Name
    BY <1>0, <1>4, <2>1 DEF Locals, Listed
  <2>3. d.kind = "item" /\ StillSame(d.name, d.entry, d.info)
    BY <1>4, <2>1, <2>2 DEF Same, Listed, Names, Named
  <2>4. body[files[d.name]] = d.data
    BY <2>3 DEF StillSame, Safe, Doomed, DoomedAt, Vouched
  <2>5. \A e \in me'[p].doomed : e.kind = "item" => Vouched(e)'
    BY <1>5, <1>6, SilentDiscreet, VouchedStep DEF Safe, Doomed, DoomedAt
  <2>6. DoomedAt(p)'
    BY <1>1, <2>2, <2>3, <2>4, <2>5 DEF DoomedAt
  <2> QED
    BY <1>6, <2>6, SilentCalm
<1> QED
  BY <1>7, <1>8

-----------------------------------------------------------------------------
(* The steps that move a content, or end one.                              *)
LEMMA RestCalm ==
  ASSUME TypeOK, Safe, NEW p \in Proc, Alone(p), UNCHANGED <<disk, born, released>>,
         \/ pc'[p] = "advance" /\ pc[p] = "publish"
         \/ pc'[p] = "release" /\ pc[p] = "publish"
         \/ pc'[p] = "exdev" /\ pc[p] = "publish"
         \/ pc'[p] \in {"unlock", "dropbox"} /\ pc[p] \in SharedPC
         \/ pc'[p] \in {"back", "recheck2"} /\ pc[p] = "back"
         \/ pc'[p] = "next" /\ pc[p] = "doom",
         \/ UNCHANGED me
         \/ me' = [me EXCEPT ![p].clear = FALSE]
         \/ me' = [me EXCEPT ![p].to = @ + 1]
  PROVE  Calm(p)
<1>0. /\ pc \in [Proc -> PC] /\ me \in [Proc -> Locals] /\ me[p] \in Locals
  BY DEF TypeOK, ProcsOK
<1>1. /\ me'[p].slot = me[p].slot /\ me'[p].doomed = me[p].doomed
      /\ me'[p].tomb = me[p].tomb /\ me'[p].tombs = me[p].tombs
      /\ me'[p].victim = me[p].victim /\ me'[p].name = me[p].name
      /\ me'[p].copied = me[p].copied
  BY <1>0 DEF Locals
<1>2. me[p].slot # None => pc[p] \in SharedPC
  BY DEF Safe, Slots
<1>3. pc'[p] \notin CheckPC \cup PendPC \cup {"verify", "doom"}
  BY DEF CheckPC, PendPC
<1>4. me[p].slot # None => pc'[p] \in SharedPC
  BY <1>2 DEF SharedPC, ReservingPC, TakenPC
<1>5. /\ pc'[p] \in BoxedPC => pc[p] \in BoxedPC
      /\ pc'[p] \in ReservingPC => pc[p] \in ReservingPC
  BY DEF BoxedPC, ReservingPC
<1>6. Plain(p)
  BY <1>1, <1>3, <1>4, <1>5 DEF Plain, Silent, disk
<1> QED
  BY <1>6, PlainCalm

LEMMA NoPending ==
  ASSUME Safe, NEW k \in Name, files[k] = None, NEW q \in Proc
  PROVE  ~Pending(q, k)
BY DEF Safe, Copies, CopyAt

LEMMA SharedDoomsNot ==
  ASSUME Exclusion, NEW p \in Proc, pc[p] \in SharedPC, NEW q \in Proc
  PROVE  pc[q] # "doom"
BY DEF Exclusion, ExclusivePC, SharedPC, ReservingPC, TakenPC

LEMMA MoveInKeeps ==
  ASSUME TypeOK, Exclusion, Clear, Safe, NEW p \in Proc, Alone(p), MoveIn(p)
  PROVE  Safe'
<1>0. /\ pc \in [Proc -> PC] /\ me \in [Proc -> Locals] /\ me[p] \in Locals
      /\ files \in [Name -> Maybe(Obj)] /\ place \in [Place -> Maybe(Obj)]
  BY DEF TypeOK, ProcsOK, DiskOK
<1>1. CASE UNCHANGED <<files, place>>
  <2>1. pc[p] = "publish" /\ pc'[p] \in {"advance", "exdev", "release", "unlock"}
    BY <1>0 DEF MoveIn, Goto
  <2>2. Calm(p)
    BY <1>1, <2>1, RestCalm DEF MoveIn, disk, bounds, SharedPC, ReservingPC
  <2> QED
    BY <2>2, CalmKeeps
<1>2. CASE /\ place[Arg(p)] # None /\ Vacant(p, files[me[p].name])
           /\ files' = [files EXCEPT ![me[p].name] = place[Arg(p)]]
           /\ place' = [place EXCEPT ![Arg(p)] = None]
           /\ Goto(p, "unlock")
  <2>1. PICK k \in Name : k = me[p].name
    BY Here DEF TypeOK, MoveIn, Ready, NamePC, ReservingPC
  <2>2. PICK a \in Place : a = Arg(p)
    BY Here, ArgInPlace DEF TypeOK, MoveIn, Ready, DirPC, PutPC, ReservingPC
  <2>3. PICK o \in Obj : o = place[a]
    BY <1>0, <1>2, <2>2 DEF Maybe
  <2>4. /\ files' = [files EXCEPT ![k] = o] /\ place' = [place EXCEPT ![a] = None]
        /\ UNCHANGED <<info, stage, body, born, released>>
        /\ pc[p] = "publish" /\ pc'[p] = "unlock"
    BY <1>0, <1>2, <2>1, <2>2, <2>3 DEF MoveIn, Goto, bounds
  <2>5. files[k] = None /\ o # None
    BY <1>2, <2>1, <2>4, VacantName, ConstantsAssumption DEF Holding, HoldPC, ReservingPC
  <2>6. /\ me'[p].slot = me[p].slot /\ me'[p].doomed = me[p].doomed
        /\ me'[p].tomb = me[p].tomb /\ me'[p].tombs = me[p].tombs
        /\ me'[p].victim = me[p].victim
    BY <1>0 DEF MoveIn, Locals
  <2>7. \A q \in Proc, l \in Name : Pending(q, l)' => Pending(q, l) /\ l # k
    BY <2>4, <2>5, NoPending DEF Pending, PendPC, Alone
  <2>8. OnePlace'
    BY <1>0, <2>3, <2>4, <2>5 DEF OnePlace, Safe
  <2>9. Slots'
    <3>1. SlotsMove(p)
      BY <2>4, <2>6 DEF SlotsMove, TombsOf, Safe, Slots, SharedPC, CheckPC
    <3> QED
      BY <3>1, SlotsStep DEF Safe
  <2>10. Copies'
    <3>1. Stay(p)
      BY <1>0, <2>1, <2>4, <2>5, NoPending DEF Stay, BodiesStay
    <3>2. CopyAt(p)'
      BY <2>4 DEF CopyAt, Pending, PendPC, BoxedPC
    <3> QED
      BY <3>1, <3>2, CopiesStep DEF Safe
  <2>11. Victims'
    <3>1. ASSUME NEW u \in Obj, Live(u)' PROVE Live(u)
      <4>1. \A q \in Proc : Boxed(q, u)' => Boxed(q, u)
        BY <2>4, <2>6 DEF Boxed, Alone
      <4>2. (\E l \in Name : files'[l] = u) \/ (\E x \in Place : place'[x] = u)
              => Live(u)
        BY <1>0, <2>3, <2>4, ConstantsAssumption DEF Live
      <4> QED
        BY <3>1, <4>1, <4>2 DEF Live
    <3> QED
      BY <2>6, <3>1, VictimsStep DEF Safe
  <2>12. Doomed'
    <3>1. Discreet(p)
      <4>1. \A q \in Proc : pc[q] # "doom"
        BY <2>4, SharedDoomsNot DEF SharedPC, ReservingPC
      <4>2. pc[p] \in ReservingPC /\ pc'[p] \notin ReservingPC
        BY <2>4 DEF ReservingPC
      <4> QED
        BY <1>0, <2>1, <2>4, <4>1, <4>2 DEF Discreet, BodiesStay
    <3> QED
      BY <2>4, <2>6, <3>1, DoomedSelf, DoomedStep DEF Safe
  <2>13. Kept'
    <3>1. ASSUME NEW u \in Obj, Firm(u) PROVE Firm(u)'
      <4>1. CASE u = o
        <5>1. files'[k] = u /\ \A q \in Proc : ~Pending(q, k)'
          BY <1>0, <2>4, <2>7, <4>1
        <5> QED
          BY <5>1 DEF Firm
      <4>2. CASE u # o
        <5>1. CASE \E x \in Place : place[x] = u
          <6>1. PICK x \in Place : place[x] = u
            BY <5>1
          <6>2. place'[x] = u
            BY <1>0, <2>3, <2>4, <4>2, <6>1
          <6> QED
            BY <6>2 DEF Firm
        <5>2. CASE \E l \in Name : files[l] = u /\ \A q \in Proc : ~Pending(q, l)
          <6>1. PICK l \in Name : files[l] = u /\ \A q \in Proc : ~Pending(q, l)
            BY <5>2
          <6>2. files'[l] = u
            BY <1>0, <2>4, <2>5, <6>1, ConstantsAssumption
          <6> QED
            BY <2>7, <6>1, <6>2 DEF Firm
        <5> QED
          BY <3>1, <5>1, <5>2 DEF Firm
      <4> QED
        BY <4>1, <4>2
    <3> QED
      BY <2>4, <3>1, KeptStep DEF Safe
  <2> QED
    BY <2>8, <2>9, <2>10, <2>11, <2>12, <2>13 DEF Safe
<1> QED
  BY <1>1, <1>2 DEF MoveIn

LEMMA PublishKeeps ==
  ASSUME TypeOK, Exclusion, Clear, Safe, NEW p \in Proc, Alone(p), Publish(p)
  PROVE  Safe'
<1>0. /\ pc \in [Proc -> PC] /\ me \in [Proc -> Locals] /\ me[p] \in Locals
      /\ files \in [Name -> Maybe(Obj)] /\ stage \in [Slot -> StageEntry]
  BY DEF TypeOK, ProcsOK, DiskOK
<1>1. CASE UNCHANGED <<files, stage>>
  <2>1. pc[p] = "publish" /\ pc'[p] \in {"advance", "release", "capture"}
    BY <1>0 DEF Publish, Goto
  <2>2. CASE pc'[p] \in {"advance", "release"}
    <3>1. Calm(p)
      BY <1>1, <2>1, <2>2, RestCalm DEF Publish, disk, bounds
    <3> QED
      BY <3>1, CalmKeeps
  <2>3. pc'[p] # "capture"
    <3>1. me[p].slot \in Slot /\ me[p].name \in Name
      BY <1>0, Here DEF Publish, Locals, Maybe, TypeOK, Ready, NamePC, ReservingPC
    <3>2. stage[me[p].slot].obj \in Maybe(Obj)
      BY <1>0, <3>1 DEF StageEntry
    <3> QED
      BY <1>0, <1>1, <3>1, <3>2, ConstantsAssumption DEF Publish, Goto, StageEntry, Safe, OnePlace
  <2> QED
    BY <2>1, <2>2, <2>3
<1>2. CASE /\ stage[me[p].slot].obj # None /\ Vacant(p, files[me[p].name])
           /\ files' = [files EXCEPT ![me[p].name] = stage[me[p].slot].obj]
           /\ stage' = [stage EXCEPT ![me[p].slot].obj = None]
           /\ Goto(p, "capture")
  <2>1. PICK k \in Name : k = me[p].name
    BY Here DEF TypeOK, Publish, Ready, NamePC, ReservingPC
  <2>2. PICK s \in Slot : s = me[p].slot
    BY <1>0 DEF Publish, Locals, Maybe
  <2>3. PICK o \in Obj : o = stage[s].obj
    BY <1>0, <1>2, <2>2 DEF Maybe, StageEntry
  <2>4. /\ files' = [files EXCEPT ![k] = o]
        /\ \A t \in Slot : stage'[t].obj = IF t = s THEN None ELSE stage[t].obj
        /\ UNCHANGED <<info, place, body, born, released>>
        /\ pc[p] = "publish" /\ pc'[p] = "capture"
    BY <1>0, <1>2, <2>1, <2>2, <2>3 DEF Publish, Goto, bounds, StageEntry
  <2>5. files[k] = None /\ o # None
    BY <1>2, <2>1, <2>4, VacantName, ConstantsAssumption DEF Holding, HoldPC, ReservingPC
  <2>6. /\ me'[p].slot = s /\ me'[p].doomed = me[p].doomed
        /\ me'[p].tomb = me[p].tomb /\ me'[p].tombs = me[p].tombs
        /\ me'[p].victim = me[p].victim /\ me'[p].name = k
        /\ me'[p].copied = me[p].copied
    BY <1>0, <2>1, <2>2 DEF Publish, Locals
  <2>7. \A q \in Proc, l \in Name :
          Pending(q, l)' => IF q = p THEN l = k ELSE Pending(q, l) /\ l # k
    BY <2>4, <2>5, <2>6, NoPending DEF Pending, PendPC, Alone
  <2>8. OnePlace'
    BY <1>0, <2>3, <2>4, <2>5 DEF OnePlace, Safe
  <2>9. Slots'
    <3>1. SlotsMove(p)
      BY <2>2, <2>4, <2>6 DEF SlotsMove, TombsOf, Safe, Slots, SharedPC, CheckPC
    <3> QED
      BY <3>1, SlotsStep DEF Safe
  <2>10. Copies'
    <3>1. ASSUME NEW q \in Proc \ {p}, me[q].slot # None PROVE me[q].slot \in Slot \ {s}
      BY <2>2, <3>1 DEF Safe, Slots, TypeOK, ProcsOK, Locals, Maybe
    <3>2. ASSUME NEW q \in Proc \ {p}, pc[q] = "verify" PROVE me[q].tomb \in Slot \ {s}
      BY <2>2, <3>2, Here, ConstantsAssumption
      DEF Safe, Slots, TombsOf, TypeOK, Ready, TombPC
    <3>3. Stay(p)
      BY <1>0, <2>4, <2>5, <3>1, <3>2, NoPending DEF Stay, BodiesStay
    <3>4. body[o] = me[p].copied
      BY <2>2, <2>3, <2>4, <2>5, ConstantsAssumption DEF Safe, Copies, CopyAt, BoxedPC
    <3>5. CopyAt(p)'
      BY <1>0, <2>4, <2>5, <2>6, <2>7, <3>4 DEF CopyAt, BoxedPC
    <3> QED
      BY <3>3, <3>5, CopiesStep DEF Safe
  <2>11. Victims'
    <3>1. ASSUME NEW u \in Obj, Live(u)' PROVE Live(u)
      <4>1. \A q \in Proc : me'[q].slot = me[q].slot
        BY <2>2, <2>6 DEF Alone
      <4>2. ASSUME NEW q \in Proc, Boxed(q, u)' PROVE Boxed(q, u)
        <5>1. me[q].slot \in Slot
          BY <4>1, <4>2 DEF Boxed, TypeOK, ProcsOK, Locals, Maybe
        <5> QED
          BY <2>4, <4>1, <4>2, <5>1, ConstantsAssumption DEF Boxed
      <4>3. (\E l \in Name : files'[l] = u) => Live(u)
        <5>1. Live(o)
          BY <2>2, <2>3, ConstantsAssumption DEF Live, Boxed
        <5> QED
          BY <1>0, <2>4, <5>1, ConstantsAssumption DEF Live
      <4> QED
        BY <2>4, <3>1, <4>2, <4>3 DEF Live
    <3> QED
      BY <2>6, <3>1, VictimsStep DEF Safe
  <2>12. Doomed'
    <3>1. Discreet(p)
      <4>1. \A q \in Proc : pc[q] # "doom"
        BY <2>4, SharedDoomsNot DEF SharedPC, ReservingPC
      <4>2. pc[p] \in ReservingPC /\ pc'[p] \notin ReservingPC
        BY <2>4 DEF ReservingPC
      <4> QED
        BY <1>0, <2>1, <2>4, <4>1, <4>2 DEF Discreet, BodiesStay
    <3> QED
      BY <2>4, <2>6, <3>1, DoomedSelf, DoomedStep DEF Safe
  <2>13. Kept'
    <3>1. ASSUME NEW u \in Obj, Firm(u) PROVE Firm(u)'
      <4>1. CASE \E x \in Place : place[x] = u
        BY <2>4, <4>1 DEF Firm
      <4>2. CASE \E l \in Name : files[l] = u /\ \A q \in Proc : ~Pending(q, l)
        <5>1. PICK l \in Name : files[l] = u /\ \A q \in Proc : ~Pending(q, l)
          BY <4>2
        <5>2. l # k
          BY <2>5, <5>1, ConstantsAssumption
        <5>3. files'[l] = u
          BY <1>0, <2>4, <5>1, <5>2
        <5> QED
          BY <2>7, <5>1, <5>2, <5>3 DEF Firm
      <4> QED
        BY <3>1, <4>1, <4>2 DEF Firm
    <3> QED
      BY <2>4, <3>1, KeptStep DEF Safe
  <2> QED
    BY <2>8, <2>9, <2>10, <2>11, <2>12, <2>13 DEF Safe
<1> QED
  BY <1>1, <1>2 DEF Publish

LEMMA NewObjFree ==
  ASSUME NEW c \in NewObjs
  PROVE  c \in Obj /\ body[c] = None /\ ~InTree(c) /\ ~Open(c)
BY DEF NewObjs, FreeObjs

LEMMA CopyInKeeps ==
  ASSUME TypeOK, Safe, NEW p \in Proc, Alone(p), CopyIn(p)
  PROVE  Safe'
<1>0. /\ pc \in [Proc -> PC] /\ me \in [Proc -> Locals] /\ me[p] \in Locals
      /\ body \in [Obj -> Maybe(Data)] /\ stage \in [Slot -> StageEntry]
      /\ files \in [Name -> Maybe(Obj)] /\ place \in [Place -> Maybe(Obj)]
  BY DEF TypeOK, ProcsOK, DiskOK
<1>1. CASE UNCHANGED <<body, stage, me>> /\ Goto(p, "dropbox")
  <2>1. pc[p] = "cp" /\ pc'[p] = "dropbox"
    BY <1>0, <1>1 DEF CopyIn, Goto
  <2>2. Calm(p)
    BY <1>1, <2>1, RestCalm DEF CopyIn, disk, bounds, SharedPC
  <2> QED
    BY <2>2, CalmKeeps
<1>2. CASE \E c \in NewObjs :
             /\ body' = [body EXCEPT ![c] = body[place[Arg(p)]]]
             /\ stage' = [stage EXCEPT ![me[p].slot].obj = c]
             /\ me' = [me EXCEPT ![p].copied = body[place[Arg(p)]]]
             /\ Goto(p, "claim")
  <2>1. PICK s \in Slot : s = me[p].slot
    BY Here DEF TypeOK, CopyIn, Ready, BoxPC
  <2> DEFINE v == body[place[Arg(p)]]
  <2>2. PICK c \in NewObjs :
             /\ body' = [body EXCEPT ![c] = v]
             /\ stage' = [stage EXCEPT ![s].obj = c]
             /\ me' = [me EXCEPT ![p].copied = v]
             /\ Goto(p, "claim")
    BY <1>2, <2>1
  <2> HIDE DEF v
  <2>3. /\ c \in Obj /\ c # None
        /\ \A k \in Name : files[k] # c
        /\ \A t \in Slot : stage[t].obj # c
        /\ \A x \in Place : place[x] # c
        /\ ~Open(c)
    BY NewObjFree, ConstantsAssumption DEF InTree
  <2>4. /\ \A t \in Slot : stage'[t].obj = IF t = s THEN c ELSE stage[t].obj
        /\ \A u \in Obj : body'[u] = IF u = c THEN v ELSE body[u]
        /\ UNCHANGED <<files, info, place, born, released>>
        /\ pc[p] = "cp" /\ pc'[p] = "claim"
    BY <1>0, <2>2, <2>3 DEF CopyIn, Goto, bounds, StageEntry
  <2>5. /\ me'[p].slot = s /\ me'[p].doomed = me[p].doomed
        /\ me'[p].tomb = me[p].tomb /\ me'[p].tombs = me[p].tombs
        /\ me'[p].victim = me[p].victim /\ me'[p].copied = v
    BY <1>0, <2>1, <2>2 DEF Locals
  <2>6. BodiesStay
    BY <1>0, <2>3, <2>4 DEF BodiesStay, Maybe
  <2>7. OnePlace'
    BY <2>3, <2>4 DEF OnePlace, Safe
  <2>8. Slots'
    <3>1. SlotsMove(p)
      BY <2>1, <2>4, <2>5 DEF SlotsMove, TombsOf, Safe, Slots, SharedPC, CheckPC
    <3> QED
      BY <3>1, SlotsStep DEF Safe
  <2>9. Copies'
    <3>1. ASSUME NEW q \in Proc \ {p}, me[q].slot # None PROVE me[q].slot \in Slot \ {s}
      BY <2>1, <3>1, ConstantsAssumption DEF Safe, Slots, TypeOK, ProcsOK, Locals, Maybe
    <3>2. ASSUME NEW q \in Proc \ {p}, pc[q] = "verify" PROVE me[q].tomb \in Slot \ {s}
      BY <2>1, <3>2, Here, ConstantsAssumption
      DEF Safe, Slots, TombsOf, TypeOK, Ready, TombPC
    <3>3. \A t \in Slot \ {s} : stage[t].obj # None =>
            body'[stage[t].obj] = body[stage[t].obj]
      BY <1>0, <2>3, <2>4 DEF StageEntry, Maybe
    <3>4. Stay(p)
      BY <2>4, <2>6, <3>1, <3>2, <3>3 DEF Stay
    <3>5. CopyAt(p)'
      BY <2>3, <2>4, <2>5 DEF CopyAt, Pending, PendPC
    <3> QED
      BY <3>4, <3>5, CopiesStep DEF Safe
  <2>10. Victims'
    <3>1. ASSUME NEW u \in Obj, Live(u)' PROVE Live(u) \/ u = c
      <4>1. \A q \in Proc : me'[q].slot = me[q].slot
        BY <2>1, <2>5 DEF Alone
      <4>2. ASSUME NEW q \in Proc, Boxed(q, u)' PROVE Boxed(q, u) \/ u = c
        <5>1. me[q].slot \in Slot
          BY <4>1, <4>2 DEF Boxed, TypeOK, ProcsOK, Locals, Maybe
        <5> QED
          BY <2>4, <4>1, <4>2, <5>1 DEF Boxed
      <4> QED
        BY <2>4, <3>1, <4>2 DEF Live
    <3> QED
      BY <2>3, <2>5, <3>1, VictimsStep DEF Safe
  <2>11. Doomed'
    <3>1. Discreet(p)
      BY <2>4, <2>6 DEF Discreet, ReservingPC
    <3> QED
      BY <2>4, <2>5, <3>1, DoomedSelf, DoomedStep DEF Safe
  <2>12. Kept'
    <3>1. \A q \in Proc, l \in Name : Pending(q, l)' => Pending(q, l)
      BY <2>4 DEF Pending, PendPC, Alone
    <3>2. ASSUME NEW u \in Obj, Firm(u) PROVE Firm(u)' /\ body'[u] = body[u]
      <4>1. u # c
        BY <2>3, <3>2 DEF Firm
      <4> QED
        BY <2>4, <3>1, <3>2, <4>1 DEF Firm
    <3> QED
      BY <2>4, <3>2, KeptStep DEF Safe
  <2> QED
    BY <2>7, <2>8, <2>9, <2>10, <2>11, <2>12 DEF Safe
<1> QED
  BY <1>1, <1>2 DEF CopyIn

(* A source that is removed leaves its copy, which counts from now on.     *)
LEMMA RemoveSourceKeeps ==
  ASSUME TypeOK, Safe, NEW p \in Proc, Alone(p), RemoveSource(p)
  PROVE  Safe'
<1>0. /\ pc \in [Proc -> PC] /\ me \in [Proc -> Locals] /\ me[p] \in Locals
      /\ body \in [Obj -> Maybe(Data)] /\ stage \in [Slot -> StageEntry]
      /\ files \in [Name -> Maybe(Obj)] /\ place \in [Place -> Maybe(Obj)]
  BY DEF TypeOK, ProcsOK, DiskOK
<1>1. UNCHANGED <<me, files, info, stage, born, released>> /\ pc[p] = "source"
  BY DEF RemoveSource, bounds
<1>2. /\ me[p].name \in Name /\ Pending(p, me[p].name) /\ CopyAt(p)
  BY <1>1, Here DEF TypeOK, Ready, NamePC, Pending, PendPC, Safe, Copies
<1>3. CASE UNCHANGED <<place, body>> /\ pc'[p] = "unlock"
  <2>1. Calm(p)
    BY <1>1, <1>3, RestCalm DEF disk, SharedPC
  <2> QED
    BY <2>1, CalmKeeps
<1>4. CASE UNCHANGED <<place, body>> /\ pc'[p] = "tomb"
  <2>1. BodiesStay /\ Stay(p)
    BY <1>1, <1>4 DEF Stay, BodiesStay
  <2>2. Discreet(p)
    BY <1>1, <1>4, <2>1 DEF Discreet, ReservingPC
  <2>3. DoomedAt(p)'
    BY <1>1, <1>4, <2>2, DoomedSelf DEF Safe
  <2>4. CopyAt(p)'
    <3>1. \A q \in Proc, k \in Name : Pending(q, k)' <=> Pending(q, k)
      BY <1>1, <1>4 DEF Pending, PendPC, Alone
    <3> QED
      BY <1>1, <1>2, <1>4, <3>1 DEF CopyAt, BoxedPC
  <2>5. SlotsMove(p)
    BY <1>1, <1>4 DEF SlotsMove, TombsOf, Safe, Slots, SharedPC, CheckPC
  <2>6. Calm(p)
    BY <1>1, <1>4, <2>1, <2>2, <2>3, <2>4, <2>5 DEF Calm, PendPC
  <2> QED
    BY <2>6, CalmKeeps
<1>5. CASE Unchanged(p) /\ place' = [place EXCEPT ![Arg(p)] = None]
           /\ body' = [body EXCEPT ![place[Arg(p)]] = None] /\ pc'[p] = "unlock"
  <2>1. PICK a \in Place : a = Arg(p)
    BY <1>1, Here, ArgInPlace DEF TypeOK, Ready, DirPC, PutPC
  <2>2. PICK o \in Obj : o = place[a]
    BY <1>0, <1>5, <2>1 DEF Unchanged, Maybe
  <2>3. /\ \A x \in Place : place'[x] = IF x = a THEN None ELSE place[x]
        /\ \A u \in Obj : body'[u] = IF u = o THEN None ELSE body[u]
        /\ body[o] = me[p].copied
    BY <1>0, <1>5, <2>1, <2>2 DEF Unchanged
  <2>4. BodiesStay
    BY <1>0, <2>2, <2>3 DEF BodiesStay, Maybe, Safe, OnePlace
  <2>5. OnePlace'
    BY <1>1, <2>3, PlaceLess DEF Safe
  <2>6. Slots'
    <3>1. SlotsMove(p)
      BY <1>1, <1>5 DEF SlotsMove, TombsOf, Safe, Slots, SharedPC, CheckPC
    <3> QED
      BY <3>1, SlotsStep DEF Safe
  <2>7. Copies'
    <3>1. ASSUME NEW q \in Proc \ {p}, me[q].slot # None, stage[me[q].slot].obj # None
          PROVE  body'[stage[me[q].slot].obj] = body[stage[me[q].slot].obj]
      <4>1. me[q].slot \in Slot
        BY <3>1 DEF TypeOK, ProcsOK, Locals, Maybe
      <4>2. stage[me[q].slot].obj \in Obj
        BY <1>0, <3>1, <4>1 DEF StageEntry, Maybe
      <4> QED
        BY <2>2, <2>3, <4>1, <4>2, ConstantsAssumption DEF Safe, OnePlace
    <3>2. Stay(p)
      BY <1>1, <2>4, <3>1 DEF Stay
    <3>3. CopyAt(p)'
      BY <1>5 DEF CopyAt, Pending, PendPC, BoxedPC
    <3> QED
      BY <3>2, <3>3, CopiesStep DEF Safe
  <2>8. Victims'
    <3>1. ASSUME NEW u \in Obj, Live(u)' PROVE Live(u)
      <4>1. \A q \in Proc : Boxed(q, u)' => Boxed(q, u)
        BY <1>1 DEF Boxed
      <4> QED
        BY <1>1, <2>3, <3>1, <4>1, ConstantsAssumption DEF Live
    <3> QED
      BY <1>1, <3>1, VictimsStep DEF Safe
  <2>9. Doomed'
    <3>1. Discreet(p)
      BY <1>1, <1>5, <2>4 DEF Discreet, ReservingPC
    <3> QED
      BY <1>1, <1>5, <3>1, DoomedSelf, DoomedStep DEF Safe
  <2>10. Kept'
    <3>1. \A q \in Proc, l \in Name : Pending(q, l)' => Pending(q, l) /\ q # p
      BY <1>5 DEF Pending, PendPC, Alone
    <3>2. ASSUME NEW u \in Obj, Firm(u), u # o PROVE Firm(u)' /\ body'[u] = body[u]
      <4>1. CASE \E x \in Place : place[x] = u
        BY <2>2, <2>3, <3>2, <4>1 DEF Firm
      <4>2. CASE \E l \in Name : files[l] = u /\ \A q \in Proc : ~Pending(q, l)
        BY <1>1, <2>3, <3>1, <3>2, <4>2 DEF Firm
      <4> QED
        BY <3>2, <4>1, <4>2 DEF Firm
    <3>3. \E w \in Obj : body'[w] = body[o] /\ Firm(w)'
      <4>1. PICK k \in Name : k = me[p].name
        BY <1>2
      <4>2. PICK w \in Obj : w = files[k]
        BY <1>0, <1>2, <4>1 DEF CopyAt, Maybe
      <4>3. w # o
        BY <2>2, <4>2, ConstantsAssumption DEF Safe, OnePlace
      <4>4. body'[w] = body[o]
        <5>1. body[w] = me[p].copied
          BY <1>1, <1>2, <4>1, <4>2 DEF CopyAt
        <5> QED
          BY <2>3, <4>3, <5>1
      <4>5. \A q \in Proc : ~Pending(q, k)'
        BY <1>2, <3>1, <4>1 DEF CopyAt
      <4>6. Firm(w)'
        BY <1>1, <4>2, <4>5 DEF Firm
      <4> QED
        BY <4>4, <4>6
    <3>4. \A u \in Obj : Firm(u) => \E w \in Obj : body'[w] = body[u] /\ Firm(w)'
      BY <3>2, <3>3
    <3> QED
      BY <1>1, <3>4, KeptStep DEF Safe
  <2> QED
    BY <2>5, <2>6, <2>7, <2>8, <2>9, <2>10 DEF Safe
<1> QED
  BY <1>0, <1>1, <1>3, <1>4, <1>5 DEF RemoveSource, Goto

(* What a put by copy discards is its own copy, which never counted.       *)
LEMMA TombstoneKeeps ==
  ASSUME TypeOK, Safe, NEW p \in Proc, Alone(p), Tombstone(p)
  PROVE  Safe'
<1>0. /\ pc \in [Proc -> PC] /\ me \in [Proc -> Locals] /\ me[p] \in Locals
      /\ stage \in [Slot -> StageEntry] /\ files \in [Name -> Maybe(Obj)]
  BY DEF TypeOK, ProcsOK, DiskOK
<1>1. PICK k \in Name : k = me[p].name
  BY Here DEF TypeOK, Tombstone, Ready, NamePC
<1>2. Pending(p, k) /\ CopyAt(p)
  BY <1>1 DEF Tombstone, Pending, PendPC, Safe, Copies
<1>3. CASE UNCHANGED <<files, stage, me>> /\ Goto(p, "unlock")
  <2>1. pc[p] = "tomb" /\ pc'[p] = "unlock"
    BY <1>0, <1>3 DEF Tombstone, Goto
  <2>2. Calm(p)
    BY <1>3, <2>1, RestCalm DEF Tombstone, disk, bounds, SharedPC
  <2> QED
    BY <2>2, CalmKeeps
<1>4. CASE /\ files[k] # None /\ FreeSlots # {}
           /\ stage' = [stage EXCEPT ![NewSlot] = [kind |-> "del", obj |-> files[k]]]
           /\ files' = [files EXCEPT ![k] = None]
           /\ me' = [me EXCEPT ![p].tomb = NewSlot]
           /\ Goto(p, "verify")
  <2>1. PICK s \in FreeSlots : s = NewSlot
    BY <1>4 DEF NewSlot
  <2>2. s \in Slot /\ \A q \in Proc : s # me[q].slot /\ s # me[q].tomb /\ s \notin TombsOf(q)
    BY FreeNobodys
  <2>3. PICK o \in Obj : o = files[k]
    BY <1>0, <1>4 DEF Maybe
  <2>4. /\ \A t \in Slot : stage'[t].obj = IF t = s THEN o ELSE stage[t].obj
        /\ files' = [files EXCEPT ![k] = None]
        /\ UNCHANGED <<info, place, body, born, released>>
        /\ pc[p] = "tomb" /\ pc'[p] = "verify"
    BY <1>0, <1>1, <1>4, <2>1, <2>3 DEF Tombstone, Goto, bounds
  <2>5. /\ me'[p].slot = me[p].slot /\ me'[p].doomed = me[p].doomed
        /\ me'[p].tomb = s /\ me'[p].tombs = me[p].tombs
        /\ me'[p].victim = me[p].victim /\ me'[p].entry = o
    BY <1>0, <1>2, <1>4, <2>1, <2>3, <2>4 DEF Locals, CopyAt
  <2>6. BodiesStay
    BY <2>4 DEF BodiesStay
  <2>7. OnePlace'
    BY <1>0, <2>3, <2>4, ConstantsAssumption DEF OnePlace, Safe
  <2>8. Slots'
    <3>1. SlotsMove(p)
      BY <2>2, <2>4, <2>5 DEF SlotsMove, TombsOf, Safe, Slots, SharedPC, TakenPC
    <3> QED
      BY <3>1, SlotsStep DEF Safe
  <2>9. Copies'
    <3>1. ASSUME NEW q \in Proc, me[q].slot # None PROVE me[q].slot \in Slot \ {s}
      BY <2>2, <3>1 DEF TypeOK, ProcsOK, Locals, Maybe
    <3>2. ASSUME NEW q \in Proc, pc[q] = "verify" PROVE me[q].tomb \in Slot \ {s}
      BY <2>2, <3>2, Here DEF TypeOK, Ready, TombPC
    <3>3. \A q \in Proc \ {p}, l \in Name : Pending(q, l) => l # k
      BY <1>2 DEF CopyAt
    <3>4. Stay(p)
      BY <1>0, <2>4, <2>6, <3>1, <3>2, <3>3 DEF Stay
    <3>5. CopyAt(p)'
      BY <2>2, <2>4, <2>5 DEF CopyAt, Pending, PendPC, BoxedPC
    <3> QED
      BY <3>4, <3>5, CopiesStep DEF Safe
  <2>10. Victims'
    <3>1. ASSUME NEW u \in Obj, Live(u)' PROVE Live(u)
      <4>1. \A q \in Proc : me'[q].slot = me[q].slot
        BY <2>5 DEF Alone
      <4>2. ASSUME NEW q \in Proc, Boxed(q, u)' PROVE Boxed(q, u)
        <5>1. me[q].slot \in Slot
          BY <4>1, <4>2 DEF Boxed, TypeOK, ProcsOK, Locals, Maybe
        <5> QED
          BY <2>2, <2>4, <4>1, <4>2, <5>1 DEF Boxed
      <4>3. (\E l \in Name : files'[l] = u) => Live(u)
        BY <1>0, <2>4, ConstantsAssumption DEF Live
      <4> QED
        BY <2>4, <3>1, <4>2, <4>3 DEF Live
    <3> QED
      BY <2>5, <3>1, VictimsStep DEF Safe
  <2>11. Doomed'
    <3>1. Discreet(p)
      BY <1>0, <2>4, <2>6 DEF Discreet, ReservingPC
    <3> QED
      BY <2>4, <2>5, <3>1, DoomedSelf, DoomedStep DEF Safe
  <2>12. Kept'
    <3>1. \A q \in Proc, l \in Name : Pending(q, l)' => Pending(q, l)
      BY <2>4 DEF Pending, PendPC, Alone
    <3>2. ASSUME NEW u \in Obj, Firm(u) PROVE Firm(u)'
      <4>1. CASE \E x \in Place : place[x] = u
        BY <2>4, <4>1 DEF Firm
      <4>2. CASE \E l \in Name : files[l] = u /\ \A q \in Proc : ~Pending(q, l)
        <5>1. PICK l \in Name : files[l] = u /\ \A q \in Proc : ~Pending(q, l)
          BY <4>2
        <5>2. files'[l] = u
          BY <1>0, <1>2, <2>4, <5>1
        <5> QED
          BY <3>1, <5>1, <5>2 DEF Firm
      <4> QED
        BY <3>2, <4>1, <4>2 DEF Firm
    <3> QED
      BY <2>4, <3>2, KeptStep DEF Safe
  <2> QED
    BY <2>7, <2>8, <2>9, <2>10, <2>11, <2>12 DEF Safe
<1> QED
  BY <1>1, <1>3, <1>4 DEF Tombstone

(* Where something can be renamed back, there are no puts by copy.         *)
LEMMA RenameBackKeeps ==
  ASSUME TypeOK, Clear, Homely, Route, Safe, NEW p \in Restorers, Alone(p), RenameBack(p)
  PROVE  Safe'
<1>0. /\ pc \in [Proc -> PC] /\ me \in [Proc -> Locals] /\ me[p] \in Locals /\ p \in Proc
      /\ files \in [Name -> Maybe(Obj)] /\ place \in [Place -> Maybe(Obj)]
  BY DEF TypeOK, ProcsOK, DiskOK, Proc
<1>1. CASE UNCHANGED <<files, place>>
  <2>1. pc[p] = "back" /\ pc'[p] \in {"back", "unlock", "recheck2", "checkinfo"}
    BY <1>0 DEF RenameBack, NextDest, Goto
  <2>2. CASE pc'[p] # "checkinfo"
    <3>1. \/ UNCHANGED me \/ me' = [me EXCEPT ![p].to = @ + 1]
          \/ me' = [me EXCEPT ![p].clear = FALSE]
      BY DEF RenameBack, NextDest
    <3>2. Calm(p)
      BY <1>0, <1>1, <2>1, <2>2, <3>1, RestCalm DEF RenameBack, disk, bounds, SharedPC
    <3> QED
      BY <1>0, <3>2, CalmKeeps
  <2>3. pc'[p] # "checkinfo"
    <3>1. me[p].name \in Name
      BY <1>0, <2>1, Here DEF TypeOK, Ready, NamePC
    <3> QED
      BY <1>0, <1>1, <3>1 DEF RenameBack, NextDest, Goto
  <2> QED
    BY <2>2, <2>3
<1>2. CASE /\ files[me[p].name] # None /\ Vacant(p, place[Dest(p)])
           /\ place' = [place EXCEPT ![Dest(p)] = files[me[p].name]]
           /\ files' = [files EXCEPT ![me[p].name] = None]
           /\ me' = [me EXCEPT ![p].clear = FALSE]
           /\ Goto(p, "checkinfo")
  <2>1. PICK k \in Name : k = me[p].name
    BY <1>0, Here DEF TypeOK, RenameBack, Ready, NamePC
  <2>2. PICK a \in Place : a = Dest(p)
    BY <1>0, Here DEF TypeOK, RenameBack, Ready, DirPC, Dest, Place, Locals
  <2>3. PICK o \in Obj : o = files[k]
    BY <1>0, <1>2, <2>1 DEF Maybe
  <2>4. /\ files' = [files EXCEPT ![k] = None] /\ place' = [place EXCEPT ![a] = o]
        /\ UNCHANGED <<info, stage, body, born, released>>
        /\ pc[p] = "back" /\ pc'[p] = "checkinfo"
    BY <1>0, <1>2, <2>1, <2>2, <2>3 DEF RenameBack, Goto, bounds
  <2>5. place[a] = None /\ o # None
    BY <1>2, <2>2, <2>4, VacantDest, ConstantsAssumption
  <2>6. /\ me'[p].slot = me[p].slot /\ me'[p].doomed = me[p].doomed
        /\ me'[p].tomb = me[p].tomb /\ me'[p].tombs = me[p].tombs
        /\ me'[p].victim = me[p].victim
    BY <1>0, <1>2 DEF Locals
  <2>7. /\ \A q \in Proc, l \in Name : ~Pending(q, l) /\ ~Pending(q, l)'
        /\ me[p].tomb = None
    <3>1. Local = Dir
      BY DEF Homely
    <3>2. \A q \in Proc : pc[q] \notin PendPC
      BY <3>1 DEF Route, RouteAt, CopyPC, PendPC
    <3>3. pc'[p] \notin PendPC
      BY <2>4 DEF PendPC
    <3> QED
      BY <1>0, <2>4, <3>1, <3>2, <3>3 DEF Pending, Alone, Route, RouteAt
  <2>8. BodiesStay
    BY <2>4 DEF BodiesStay
  <2>9. OnePlace'
    BY <1>0, <2>3, <2>4, <2>5 DEF OnePlace, Safe
  <2>10. Slots'
    <3>1. SlotsMove(p)
      BY <1>0, <2>4, <2>6, <2>7 DEF SlotsMove, TombsOf, Safe, Slots, SharedPC, TakenPC
    <3> QED
      BY <1>0, <3>1, SlotsStep DEF Safe
  <2>11. Copies'
    <3>1. Stay(p)
      BY <2>4, <2>7, <2>8 DEF Stay
    <3>2. CopyAt(p)'
      BY <1>0, <2>4, <2>7 DEF CopyAt, BoxedPC
    <3> QED
      BY <1>0, <3>1, <3>2, CopiesStep DEF Safe
  <2>12. Victims'
    <3>1. ASSUME NEW u \in Obj, Live(u)' PROVE Live(u)
      <4>1. \A q \in Proc : Boxed(q, u)' => Boxed(q, u)
        BY <2>4, <2>6 DEF Boxed, Alone
      <4>2. (\E l \in Name : files'[l] = u) \/ (\E x \in Place : place'[x] = u)
              => Live(u)
        BY <1>0, <2>3, <2>4, ConstantsAssumption DEF Live
      <4> QED
        BY <3>1, <4>1, <4>2 DEF Live
    <3> QED
      BY <1>0, <2>6, <3>1, VictimsStep DEF Safe
  <2>13. Doomed'
    <3>1. Discreet(p)
      BY <1>0, <2>4, <2>8 DEF Discreet, ReservingPC
    <3> QED
      BY <1>0, <2>4, <2>6, <3>1, DoomedSelf, DoomedStep DEF Safe
  <2>14. Kept'
    <3>1. ASSUME NEW u \in Obj, Firm(u) PROVE Firm(u)'
      <4>1. CASE u = o
        BY <1>0, <2>4, <4>1 DEF Firm
      <4>2. CASE u # o
        <5>1. ASSUME NEW x \in Place, place[x] = u PROVE place'[x] = u
          BY <1>0, <2>4, <2>5, <5>1, ConstantsAssumption
        <5>2. ASSUME NEW l \in Name, files[l] = u PROVE files'[l] = u
          BY <1>0, <2>3, <2>4, <4>2, <5>2
        <5> QED
          BY <2>7, <3>1, <5>1, <5>2 DEF Firm
      <4> QED
        BY <4>1, <4>2
    <3> QED
      BY <2>4, <3>1, KeptStep DEF Safe
  <2> QED
    BY <2>9, <2>10, <2>11, <2>12, <2>13, <2>14 DEF Safe
<1> QED
  BY <1>1, <1>2 DEF RenameBack

(* What is doomed is what the person saw, and has agreed to lose.          *)
LEMMA DoomKeeps ==
  ASSUME TypeOK, Exclusion, Safe, NEW p \in Proc, Alone(p), Doom(p)
  PROVE  Safe'
<1>0. /\ pc \in [Proc -> PC] /\ me \in [Proc -> Locals] /\ me[p] \in Locals
      /\ stage \in [Slot -> StageEntry] /\ files \in [Name -> Maybe(Obj)]
  BY DEF TypeOK, ProcsOK, DiskOK
<1>1. PICK k \in Name : k = me[p].name
  BY Here DEF TypeOK, Doom, Ready, NamePC
<1>2. CASE UNCHANGED <<files, stage, me, released>> /\ Goto(p, "next")
  <2>1. pc[p] = "doom" /\ pc'[p] = "next"
    BY <1>0, <1>2 DEF Doom, Goto
  <2>2. Calm(p)
    BY <1>2, <2>1, RestCalm DEF Doom, disk
  <2> QED
    BY <2>2, CalmKeeps
<1>3. CASE /\ files[k] # None /\ FreeSlots # {}
           /\ stage' = [stage EXCEPT ![NewSlot] = [kind |-> "del", obj |-> files[k]]]
           /\ files' = [files EXCEPT ![k] = None]
           /\ me' = [me EXCEPT ![p].tombs = @ \cup {NewSlot}]
           /\ released' = released \cup ({me[p].cur.data} \ {None})
           /\ Goto(p, IF me[p].cur.kind = "item" THEN "drop" ELSE "next")
  <2>1. PICK s \in FreeSlots : s = NewSlot
    BY <1>3 DEF NewSlot
  <2>2. s \in Slot /\ \A q \in Proc : s # me[q].slot /\ s # me[q].tomb /\ s \notin TombsOf(q)
    BY FreeNobodys
  <2>3. PICK o \in Obj : o = files[k]
    BY <1>0, <1>3 DEF Maybe
  <2>4. /\ \A t \in Slot : stage'[t].obj = IF t = s THEN o ELSE stage[t].obj
        /\ files' = [files EXCEPT ![k] = None]
        /\ UNCHANGED <<info, place, body, born>>
        /\ pc[p] = "doom" /\ pc'[p] \in {"drop", "next"}
        /\ released' = released \cup ({me[p].cur.data} \ {None})
    BY <1>0, <1>1, <1>3, <2>1, <2>3 DEF Doom, Goto
  <2>5. /\ me'[p].slot = me[p].slot /\ me'[p].doomed = me[p].doomed
        /\ me'[p].tomb = me[p].tomb /\ me'[p].tombs = me[p].tombs \cup {s}
        /\ me'[p].victim = me[p].victim
    BY <1>0, <1>3, <2>1 DEF Locals
  <2>6. BodiesStay
    BY <2>4 DEF BodiesStay
  <2>7. /\ me[p].slot = None
        /\ \A q \in Proc, l \in Name : ~Pending(q, l) /\ ~Pending(q, l)'
    <3>1. \A q \in Proc \ {p} : pc[q] \notin SharedPC
      BY <2>4 DEF Exclusion, ExclusivePC
    <3>2. pc[p] \notin SharedPC
      BY <2>4 DEF SharedPC, ReservingPC, TakenPC
    <3>3. PendPC \subseteq SharedPC /\ pc'[p] \notin PendPC
      BY <2>4 DEF PendPC, SharedPC
    <3> QED
      BY <3>1, <3>2, <3>3 DEF Pending, Alone, Safe, Slots
  <2>8. OnePlace'
    BY <1>0, <2>3, <2>4, ConstantsAssumption DEF OnePlace, Safe
  <2>9. Slots'
    <3>1. \A t \in TombsOf(p)' : t \in TombsOf(p) \cup FreeSlots
      BY <2>5 DEF TombsOf
    <3>2. SlotsMove(p)
      BY <2>4, <2>5, <2>7, <3>1 DEF SlotsMove, CheckPC
    <3> QED
      BY <3>2, SlotsStep DEF Safe
  <2>10. Copies'
    <3>1. ASSUME NEW q \in Proc, me[q].slot # None PROVE me[q].slot \in Slot \ {s}
      BY <2>2, <3>1 DEF TypeOK, ProcsOK, Locals, Maybe
    <3>2. ASSUME NEW q \in Proc, pc[q] = "verify" PROVE me[q].tomb \in Slot \ {s}
      BY <2>2, <3>2, Here DEF TypeOK, Ready, TombPC
    <3>3. Stay(p)
      BY <2>4, <2>6, <2>7, <3>1, <3>2 DEF Stay
    <3>4. CopyAt(p)'
      BY <2>4, <2>7 DEF CopyAt, BoxedPC
    <3> QED
      BY <3>3, <3>4, CopiesStep DEF Safe
  <2>11. Victims'
    <3>1. ASSUME NEW u \in Obj, Live(u)' PROVE Live(u)
      <4>1. \A q \in Proc : me'[q].slot = me[q].slot
        BY <2>5 DEF Alone
      <4>2. ASSUME NEW q \in Proc, Boxed(q, u)' PROVE Boxed(q, u)
        <5>1. me[q].slot \in Slot
          BY <4>1, <4>2 DEF Boxed, TypeOK, ProcsOK, Locals, Maybe
        <5> QED
          BY <2>2, <2>4, <4>1, <4>2, <5>1 DEF Boxed
      <4>3. (\E l \in Name : files'[l] = u) => Live(u)
        BY <1>0, <2>4, ConstantsAssumption DEF Live
      <4> QED
        BY <2>4, <3>1, <4>2, <4>3 DEF Live
    <3> QED
      BY <2>5, <3>1, VictimsStep DEF Safe
  <2>12. Doomed'
    <3>1. Discreet(p)
      BY <1>0, <2>4, <2>6 DEF Discreet, ReservingPC
    <3> QED
      BY <2>4, <2>5, <3>1, DoomedSelf, DoomedStep DEF Safe
  <2>13. Kept'
    <3>1. body[o] \in {None} \cup released'
      BY <1>1, <1>3, <2>3, <2>4 DEF Safe, Doomed, DoomedAt
    <3>2. ASSUME NEW u \in Obj, Firm(u), u # o PROVE Firm(u)'
      <4>1. ASSUME NEW l \in Name, files[l] = u PROVE files'[l] = u
        BY <1>0, <2>3, <2>4, <3>2, <4>1
      <4> QED
        BY <2>4, <2>7, <3>2, <4>1 DEF Firm
    <3> QED
      BY <2>4, <3>1, <3>2, KeptStep DEF Safe
  <2> QED
    BY <2>8, <2>9, <2>10, <2>11, <2>12, <2>13 DEF Safe
<1> QED
  BY <1>1, <1>2, <1>3 DEF Doom

-----------------------------------------------------------------------------
(* Other programs write the users' directories only.                       *)
LEMMA ElsewhereKeeps ==
  ASSUME TypeOK, Safe, UNCHANGED <<files, info, stage, pc, me>>,
         \A u \in Obj : (\E k \in Name : files[k] = u) \/ (\E s \in Slot : stage[s].obj = u)
           => body'[u] = body[u]
  PROVE  Slots' /\ Copies' /\ Doomed' /\ BodiesStay
<1>0. /\ \A q \in Proc, k \in Name : Pending(q, k)' <=> Pending(q, k)
      /\ \A q \in Proc : TombsOf(q)' = TombsOf(q)
  BY DEF Pending, TombsOf
<1>1. Slots'
  BY <1>0 DEF Slots, Safe
<1>2. BodiesStay
  BY DEF BodiesStay, TypeOK, DiskOK, Maybe
<1>3. ASSUME NEW p \in Proc PROVE CopyAt(p)'
  <2>1. me[p].slot # None /\ stage[me[p].slot].obj # None =>
          body'[stage[me[p].slot].obj] = body[stage[me[p].slot].obj]
    <3>1. ASSUME me[p].slot # None PROVE me[p].slot \in Slot
      BY <3>1 DEF TypeOK, ProcsOK, Locals, Maybe
    <3>2. \A s \in Slot : stage[s].obj \in Maybe(Obj)
      BY DEF TypeOK, DiskOK, StageEntry
    <3> QED
      BY <3>1, <3>2 DEF Maybe
  <2>2. CopyAt(p)
    BY DEF Safe, Copies
  <2> QED
    BY <1>0, <1>2, <2>1, <2>2 DEF CopyAt, BodiesStay
<1>4. ASSUME NEW p \in Proc PROVE DoomedAt(p)'
  <2>1. ASSUME NEW d \in me[p].doomed, Vouched(d) PROVE Vouched(d)'
    <3>1. d.name \in Name
      BY DEF TypeOK, ProcsOK, Locals, Listed
    <3> QED
      BY <1>2, <2>1, <3>1 DEF Vouched, BodiesStay
  <2>2. pc[p] = "doom" => me[p].name \in Name
    BY Here DEF TypeOK, Ready, NamePC
  <2>3. DoomedAt(p)
    BY DEF Safe, Doomed
  <2> QED
    BY <1>2, <2>1, <2>2, <2>3 DEF DoomedAt, BodiesStay
<1> QED
  BY <1>1, <1>2, <1>3, <1>4 DEF Copies, Doomed

LEMMA SaveKeeps ==
  ASSUME TypeOK, Safe, NEW d \in Dir, Save(d)
  PROVE  Safe'
<1>0. /\ body \in [Obj -> Maybe(Data)] /\ place \in [Place -> Maybe(Obj)]
      /\ UNCHANGED <<files, info, stage, pc, me>>
  BY DEF TypeOK, DiskOK, Save
<1>1. PICK x \in Place : x = <<d, 0>>
  <2>1. 0 \in Name
    BY ConstantsAssumption DEF Name
  <2>2. <<d, 0>> \in Place
    BY <2>1 DEF Place
  <2> QED
    BY <2>2
<1>2. PICK o \in NewObjs, v \in NewData(d) :
        /\ place' = [place EXCEPT ![x] = o]
        /\ body' = [q \in Obj |-> IF q = o THEN v
                                  ELSE IF q = place[x] THEN None ELSE body[q]]
        /\ born' = born \cup {v}
        /\ released' = IF place[x] = None THEN released
                       ELSE released \cup ({body[place[x]]} \ {None})
  BY <1>1 DEF Save
<1>3. /\ o \in Obj /\ o # None
      /\ \A k \in Name : files[k] # o
      /\ \A t \in Slot : stage[t].obj # o
      /\ \A y \in Place : place[y] # o
      /\ ~Open(o)
  BY NewObjFree, ConstantsAssumption DEF InTree
<1>4. Slots' /\ Copies' /\ Doomed'
  <2>1. ASSUME NEW u \in Obj,
               (\E k \in Name : files[k] = u) \/ (\E s \in Slot : stage[s].obj = u)
        PROVE  u # o /\ u # place[x]
    BY <1>3, <2>1, ConstantsAssumption DEF Safe, OnePlace
  <2> QED
    BY <1>0, <1>2, <2>1, ElsewhereKeeps
<1>5. OnePlace'
  BY <1>0, <1>2, <1>3 DEF Safe, OnePlace
<1>6. Victims'
  <2>1. ASSUME NEW p \in Proc, me[p].victim # None PROVE ~Live(me[p].victim)'
    <3>1. ~Live(me[p].victim) /\ me[p].victim # o
      BY <1>3, <2>1 DEF Safe, Victims, Open
    <3>2. \A q \in Proc : Boxed(q, me[p].victim)' <=> Boxed(q, me[p].victim)
      BY <1>0 DEF Boxed
    <3> QED
      BY <1>0, <1>2, <3>1, <3>2 DEF Live
  <2> QED
    BY <1>0, <2>1 DEF Victims
<1>7. Kept'
  <2>1. \A q \in Proc, k \in Name : Pending(q, k)' <=> Pending(q, k)
    BY <1>0 DEF Pending
  <2>2. released \subseteq released' /\ (place[x] # None => body[place[x]] \in {None} \cup released')
    BY <1>2
  <2>3. ASSUME NEW u \in Obj, Firm(u), u # place[x] PROVE body'[u] = body[u] /\ Firm(u)'
    <3>1. u # o
      BY <1>3, <2>3 DEF Firm
    <3>2. \A y \in Place : place[y] = u => place'[y] = u
      BY <1>0, <1>2, <2>3
    <3> QED
      BY <1>0, <1>2, <2>1, <2>3, <3>1, <3>2 DEF Firm
  <2>4. body'[o] = v /\ Firm(o)'
    BY <1>0, <1>2, <1>3 DEF Firm
  <2> QED
    BY <1>2, <1>3, <2>2, <2>3, <2>4, KeptStep, ConstantsAssumption DEF Safe
<1> QED
  BY <1>4, <1>5, <1>6, <1>7 DEF Safe

LEMMA EditKeeps ==
  ASSUME TypeOK, Safe, NEW d \in Dir, EditInPlace(d)
  PROVE  Safe'
<1>0. /\ body \in [Obj -> Maybe(Data)] /\ place \in [Place -> Maybe(Obj)]
      /\ UNCHANGED <<files, info, stage, place, pc, me>>
  BY DEF TypeOK, DiskOK, EditInPlace
<1>1. PICK x \in Place : x = <<d, 0>>
  <2>1. 0 \in Name
    BY ConstantsAssumption DEF Name
  <2>2. <<d, 0>> \in Place
    BY <2>1 DEF Place
  <2> QED
    BY <2>2
<1>2. PICK o \in Obj : o = place[x]
  BY <1>0, <1>1 DEF EditInPlace, Maybe
<1>3. PICK v \in Data : /\ body' = [body EXCEPT ![o] = v]
                        /\ born' = born \cup {v}
                        /\ released' = released \cup ({body[o]} \ {None})
  BY <1>1, <1>2 DEF EditInPlace, NewData
<1>4. Slots' /\ Copies' /\ Doomed'
  <2>1. ASSUME NEW u \in Obj,
               (\E k \in Name : files[k] = u) \/ (\E s \in Slot : stage[s].obj = u)
        PROVE  u # o
    BY <1>2, <2>1, ConstantsAssumption DEF Safe, OnePlace
  <2> QED
    BY <1>0, <1>3, <2>1, ElsewhereKeeps
<1>5. OnePlace'
  BY <1>0 DEF Safe, OnePlace
<1>6. Victims'
  BY <1>0 DEF Safe, Victims, Live, Boxed
<1>7. Kept'
  <2>1. \A u \in Obj : Firm(u)' <=> Firm(u)
    BY <1>0 DEF Firm, Pending
  <2>2. \A u \in Obj : u # o => body'[u] = body[u]
    BY <1>0, <1>3
  <2>3. body'[o] = v /\ Firm(o)
    BY <1>0, <1>2, <1>3 DEF Firm
  <2> QED
    BY <1>3, <2>1, <2>2, <2>3, KeptStep DEF Safe
<1> QED
  BY <1>4, <1>5, <1>6, <1>7 DEF Safe

-----------------------------------------------------------------------------
(* No step takes a process off its route.                                  *)
LEMMA PutRoute ==
  ASSUME TypeOK, Route, NEW p \in Proc, PutStep(p) \/ ReserveStep(p)
  PROVE  RouteAt(pc'[p], me'[p])
<1> USE DEF Goto, RouteAt, CopyPC
<1>0. /\ pc \in [Proc -> PC] /\ me \in [Proc -> Locals] /\ Local \subseteq Dir
      /\ RouteAt(pc[p], me[p])
      /\ pc[p] \in DirPC => me[p].dir \in Dir
  BY ConstantsAssumption DEF TypeOK, ProcsOK, Ready, Route
<1>1. ASSUME NEW d \in Dir, PutStart(p, d) PROVE RouteAt(pc'[p], me'[p])
  BY <1>0, <1>1 DEF PutStart, Locals
<1>2. CASE PutLock(p)
  BY <1>0, <1>2 DEF PutLock
<1>3. CASE MoveIn(p)
  BY <1>0, <1>3 DEF MoveIn, DirPC, PutPC, ReservingPC, Locals
<1>4. CASE PutUnlock(p)
  BY <1>0, <1>4 DEF PutUnlock
<1>5. CASE Walk(p)
  BY <1>0, <1>5 DEF Walk
<1>6. CASE CopyDeclined(p)
  BY <1>0, <1>6 DEF CopyDeclined, Return, Blank
<1>7. CASE CopyLock(p)
  BY <1>0, <1>7 DEF CopyLock
<1>8. CASE MakeBox(p)
  BY <1>0, <1>8 DEF MakeBox, NewBox
<1>9. CASE CopyIn(p)
  BY <1>0, <1>9 DEF CopyIn
<1>10. CASE Publish(p)
  BY <1>0, <1>10 DEF Publish, Locals
<1>11. CASE Capture(p)
  BY <1>0, <1>11 DEF Capture
<1>12. CASE SyncIn(p)
  BY <1>0, <1>12 DEF SyncIn
<1>13. CASE RemoveSource(p)
  BY <1>0, <1>13 DEF RemoveSource
<1>14. CASE DropBox(p)
  BY <1>0, <1>14 DEF DropBox
<1>15. CASE ClaimStat(p)
  BY <1>0, <1>15 DEF ClaimStat, Locals
<1>16. CASE ClaimOpen(p)
  BY <1>0, <1>16 DEF ClaimOpen, Locals
<1>17. CASE ClaimFails(p)
  BY <1>0, <1>17 DEF ClaimFails
<1>18. CASE Release(p)
  BY <1>0, <1>18 DEF Release, LetsGo, Locals
<1> QED
  BY <1>1, <1>2, <1>3, <1>4, <1>5, <1>6, <1>7, <1>8, <1>9, <1>10, <1>11, <1>12,
     <1>13, <1>14, <1>15, <1>16, <1>17, <1>18 DEF PutStep, ReserveStep

LEMMA RestoreRoute ==
  ASSUME TypeOK, Homely, Route, NEW p \in Restorers, RestoreStep(p)
  PROVE  RouteAt(pc'[p], me'[p])
<1> USE DEF Goto, RouteAt, CopyPC
<1>0. /\ pc \in [Proc -> PC] /\ me \in [Proc -> Locals] /\ p \in Proc
      /\ Local = Dir /\ RouteAt(pc[p], me[p])
      /\ pc[p] \in DirPC => me[p].dir \in Dir
  BY DEF TypeOK, ProcsOK, Ready, Route, Homely, Proc
<1>1. ASSUME NEW k \in Name, ListItem(p, k) PROVE RouteAt(pc'[p], me'[p])
  BY <1>0, <1>1 DEF ListItem, Locals
<1>2. CASE ReadInfo(p)
  BY <1>0, <1>2 DEF ReadInfo, Return, Blank, Locals
<1>3. CASE CheckDest(p)
  BY <1>0, <1>3 DEF CheckDest, Return, Blank
<1>4. CASE RestoreLock(p)
  BY <1>0, <1>4 DEF RestoreLock, DirPC
<1>5. CASE Recheck(p)
  BY <1>0, <1>5 DEF Recheck
<1>6. CASE RenameBack(p)
  BY <1>0, <1>6 DEF RenameBack, NextDest, DirPC, Locals
<1>7. ~CopyBack(p) /\ ~PublishBack(p) /\ ~DropOut(p) /\ ~SyncOut(p)
  BY <1>0 DEF CopyBack, PublishBack, DropOut, SyncOut
<1> QED
  BY <1>1, <1>2, <1>3, <1>4, <1>5, <1>6, <1>7 DEF RestoreStep

LEMMA DiscardRoute ==
  ASSUME TypeOK, Route, Copies, NEW p \in Proc,
         DiscardStep(p) \/ Finish(p) \/ FallbackStat(p) \/ Crash(p)
  PROVE  RouteAt(pc'[p], me'[p])
<1> USE DEF Goto, RouteAt, CopyPC
<1>0. /\ pc \in [Proc -> PC] /\ me \in [Proc -> Locals]
      /\ RouteAt(pc[p], me[p]) /\ CopyAt(p)
  BY DEF TypeOK, ProcsOK, Route, Copies
<1>1. CASE Tombstone(p)
  BY <1>0, <1>1 DEF Tombstone
<1>2. CASE Verify(p)
  BY <1>0, <1>2 DEF Verify, CopyAt
<1>3. CASE CheckInfo(p)
  BY <1>0, <1>3 DEF CheckInfo, AfterInfo
<1>4. CASE UnlinkInfo(p)
  BY <1>0, <1>4 DEF UnlinkInfo, AfterInfo
<1>5. CASE RemoveTomb(p)
  BY <1>0, <1>5 DEF RemoveTomb
<1>6. ~PutBack(p)
  BY <1>0 DEF PutBack
<1>7. CASE Finish(p)
  BY <1>0, <1>7 DEF Finish, Return, Blank
<1>8. CASE FallbackStat(p)
  BY <1>0, <1>8 DEF FallbackStat, Locals
<1>9. CASE Crash(p)
  BY <1>0, <1>9 DEF Crash, Return, Blank
<1> QED
  BY <1>1, <1>2, <1>3, <1>4, <1>5, <1>6, <1>7, <1>8, <1>9 DEF DiscardStep

LEMMA DeleteRoute ==
  ASSUME TypeOK, Route, NEW p \in Proc, DeleteStep(p)
  PROVE  RouteAt(pc'[p], me'[p])
<1> USE DEF Goto, RouteAt, CopyPC
<1>0. /\ pc \in [Proc -> PC] /\ me \in [Proc -> Locals] /\ RouteAt(pc[p], me[p])
  BY DEF TypeOK, ProcsOK, Route
<1>1. CASE ScanInfo(p)
  BY <1>0, <1>1 DEF ScanInfo, Locals
<1>2. CASE Choose(p)
  BY <1>0, <1>2 DEF Choose, Locals
<1>3. CASE Declined(p) \/ Done(p)
  BY <1>0, <1>3 DEF Declined, Done, Return, Blank
<1>4. CASE DeleteLock(p) \/ DropInfo(p) \/ DeleteUnlock(p)
  BY <1>0, <1>4 DEF DeleteLock, DropInfo, DeleteUnlock
<1>5. CASE CheckDoomed(p)
  BY <1>0, <1>5 DEF CheckDoomed, Locals
<1>6. CASE Doom(p)
  BY <1>0, <1>6 DEF Doom, Locals
<1>7. CASE CleanStaging(p)
  BY <1>0, <1>7 DEF CleanStaging, Collect, Locals
<1>8. CASE Sweep(p)
  <2>1. me'[p].slot = me[p].slot /\ pc'[p] = "burn"
    BY <1>0, <1>8 DEF Sweep, Locals
  <2> QED
    BY <1>0, <2>1
<1>9. CASE Burn(p)
  <2>1. me'[p].slot = me[p].slot /\ pc'[p] = "sweep"
    BY <1>0, <1>9 DEF Burn, Locals
  <2> QED
    BY <1>0, <2>1
<1> QED
  BY <1>1, <1>2, <1>3, <1>4, <1>5, <1>6, <1>7, <1>8, <1>9 DEF DeleteStep

LEMMA SlipRoute ==
  ASSUME TypeOK, Route, NEW p \in Proc, Slip(p)
  PROVE  RouteAt(pc'[p], me'[p])
<1> USE DEF Goto, RouteAt, CopyPC
<1>0. /\ pc \in [Proc -> PC] /\ me \in [Proc -> Locals] /\ RouteAt(pc[p], me[p])
  BY DEF TypeOK, ProcsOK, Route
<1>1. CASE ReleaseFails(p)
  BY <1>0, <1>1 DEF ReleaseFails, LetsGo, Locals
<1>2. CASE BoxFails(p)
  BY <1>0, <1>2 DEF BoxFails, Locals
<1>3. CASE DropOutFails(p)
  BY <1>0, <1>3 DEF DropOutFails, Locals
<1>4. CASE DeleteFails(p)
  <2>1. me'[p].slot = me[p].slot /\ pc'[p] \in {"next", "unlockx", "sweep"}
    <3>1. CASE pc[p] = "drop" /\ Goto(p, "next") /\ UNCHANGED me
      BY <1>0, <3>1
    <3>2. CASE \E S : Collect(p, S)
      BY <1>0, <3>2 DEF Collect, Locals
    <3>3. CASE Goto(p, "sweep") /\ me' = [me EXCEPT ![p].tomb = None, ![p].victim = None]
      BY <1>0, <3>3 DEF Locals
    <3> QED
      BY <1>4, <3>1, <3>2, <3>3 DEF DeleteFails
  <2>2. pc[p] \in {"drop", "next", "burn"}
    BY <1>4 DEF DeleteFails, Collect
  <2> QED
    BY <1>0, <2>1, <2>2
<1>5. CASE DiscardFails(p)
  BY <1>0, <1>5 DEF DiscardFails, AfterInfo
<1> QED
  BY <1>1, <1>2, <1>3, <1>4, <1>5 DEF Slip

LEMMA RouteStep ==
  ASSUME TypeOK, Homely, Route, Copies, NEW p \in Proc, Alone(p),
         Step(p) \/ Slip(p) \/ Crash(p)
  PROVE  Route'
<1>1. RouteAt(pc'[p], me'[p])
  BY PutRoute, RestoreRoute, DiscardRoute, DeleteRoute, SlipRoute DEF Step
<1> QED
  BY <1>1 DEF Route, Alone

-----------------------------------------------------------------------------
(* Every step of a process keeps what content is safe by.                  *)
LEMMA PutKeeps ==
  ASSUME TypeOK, Exclusion, Names, Clear, Route, Safe, NEW p \in Proc, Alone(p),
         PutStep(p) \/ ReserveStep(p)
  PROVE  Safe'
<1>1. CASE \/ \E d \in Dir : PutStart(p, d)
           \/ PutLock(p) \/ PutUnlock(p) \/ Walk(p) \/ CopyDeclined(p) \/ CopyLock(p)
           \/ ReserveStep(p)
  BY <1>1, PutPlain, PlainCalm, CalmKeeps
<1>2. CASE MakeBox(p) \/ Capture(p) \/ SyncIn(p) \/ DropBox(p)
  <2>1. Calm(p)
    <3>1. CASE MakeBox(p)
      BY <3>1, MakeBoxCalm
    <3>2. CASE Capture(p)
      BY <3>2, CaptureCalm
    <3>3. CASE SyncIn(p)
      BY <3>3, SyncInCalm
    <3>4. CASE DropBox(p)
      BY <3>4, DropBoxCalm
    <3> QED
      BY <1>2, <3>1, <3>2, <3>3, <3>4
  <2> QED
    BY <2>1, CalmKeeps
<1>3. CASE MoveIn(p) \/ CopyIn(p) \/ Publish(p) \/ RemoveSource(p)
  BY <1>3, MoveInKeeps, CopyInKeeps, PublishKeeps, RemoveSourceKeeps
<1> QED
  BY <1>1, <1>2, <1>3 DEF PutStep

LEMMA RestoreKeeps ==
  ASSUME TypeOK, Clear, Homely, Route, Safe, NEW p \in Restorers, Alone(p),
         RestoreStep(p)
  PROVE  Safe'
<1>0. p \in Proc
  BY DEF Proc
<1>1. CASE \/ \E k \in Name : ListItem(p, k)
           \/ ReadInfo(p) \/ CheckDest(p) \/ RestoreLock(p) \/ Recheck(p)
  BY <1>0, <1>1, RestorePlain, PlainCalm, CalmKeeps
<1>2. CASE RenameBack(p)
  BY <1>2, RenameBackKeeps
<1>3. ~CopyBack(p) /\ ~PublishBack(p) /\ ~DropOut(p) /\ ~SyncOut(p)
  BY <1>0 DEF Homely, Route, RouteAt, CopyPC, CopyBack, PublishBack, DropOut, SyncOut
<1> QED
  BY <1>1, <1>2, <1>3 DEF RestoreStep

LEMMA DiscardKeeps ==
  ASSUME TypeOK, Route, Safe, NEW p \in Proc, Alone(p),
         DiscardStep(p) \/ Finish(p) \/ FallbackStat(p) \/ Crash(p)
  PROVE  Safe'
<1>1. CASE \/ Verify(p) \/ CheckInfo(p) \/ UnlinkInfo(p)
           \/ Finish(p) \/ FallbackStat(p) \/ Crash(p)
  BY <1>1, RestorePlain, PlainCalm, CalmKeeps
<1>2. CASE RemoveTomb(p)
  <2>1. Calm(p)
    BY <1>2, RemoveTombCalm
  <2> QED
    BY <2>1, CalmKeeps
<1>3. CASE Tombstone(p)
  BY <1>3, TombstoneKeeps
<1>4. ~PutBack(p)
  BY DEF Route, RouteAt, PutBack
<1> QED
  BY <1>1, <1>2, <1>3, <1>4 DEF DiscardStep

LEMMA DeleteKeeps ==
  ASSUME TypeOK, Exclusion, Names, Route, Safe, NEW p \in Proc, Alone(p), DeleteStep(p)
  PROVE  Safe'
<1>1. CASE \/ Choose(p) \/ Declined(p) \/ DeleteLock(p) \/ DropInfo(p)
           \/ DeleteUnlock(p) \/ Done(p)
  BY <1>1, DeletePlain, PlainCalm, CalmKeeps
<1>2. CASE ScanInfo(p) \/ CheckDoomed(p) \/ CleanStaging(p) \/ Sweep(p) \/ Burn(p)
  <2>1. CleanStaging(p) =>
          UNCHANGED <<born, released>> /\ \E S : Collect(p, S)
    BY DEF CleanStaging, bounds
  <2>2. Calm(p)
    <3>1. CASE ScanInfo(p) \/ CheckDoomed(p) \/ Sweep(p)
      BY <3>1, ScanInfoCalm, CheckDoomedCalm, SweepCalm
    <3>2. CASE CleanStaging(p)
      BY <2>1, <3>2, CollectCalm
    <3>3. CASE Burn(p)
      BY <3>3, BurnCalm
    <3> QED
      BY <1>2, <3>1, <3>2, <3>3
  <2> QED
    BY <2>2, CalmKeeps
<1>3. CASE Doom(p)
  BY <1>3, DoomKeeps
<1> QED
  BY <1>1, <1>2, <1>3 DEF DeleteStep

(* What a failed clean-up leaves behind is in nobody's way.                *)
LEMMA SlipKeeps ==
  ASSUME TypeOK, Exclusion, Homely, Route, Safe, NEW p \in Proc, Alone(p), Slip(p)
  PROVE  Safe'
<1>0. UNCHANGED <<files, info, place, born, released>> /\ RouteAt(pc[p], me[p])
  BY SlipLeaves DEF Slips, Route
<1>1. CASE ReleaseFails(p)
  BY <1>1, PutPlain, PlainCalm, CalmKeeps
<1>2. CASE BoxFails(p)
  <2>1. pc[p] \in {"mkbox", "sync", "dropbox"}
    BY <1>2 DEF BoxFails
  <2> QED
    BY <1>2, <2>1, MakeBoxCalm, SyncInCalm, DropBoxCalm, CalmKeeps
<1>3. CASE DiscardFails(p)
  <2>1. CASE pc[p] = "rm"
    BY <1>3, <2>1, RemoveTombCalm, CalmKeeps
  <2>2. CASE pc[p] = "unlink"
    <3>1. Plain(p)
      BY <1>0, <1>3, <2>2 DEF DiscardFails, AfterInfo, Goto, Plain, Silent, PendPC, SharedPC,
         ReservingPC, TakenPC, BoxedPC, CheckPC, TypeOK, ProcsOK
    <3> QED
      BY <3>1, PlainCalm, CalmKeeps
  <2> QED
    BY <1>0, <1>3, <2>1, <2>2 DEF DiscardFails, RouteAt
<1>4. CASE DeleteFails(p)
  <2>1. CASE pc[p] = "drop"
    <3>1. /\ UNCHANGED <<files, info, stage, place, body, born, released, me>>
          /\ pc'[p] = "next" /\ me[p].slot = None
      BY <1>0, <1>4, <2>1
      DEF DeleteFails, Collect, Goto, disk, TypeOK, ProcsOK, Safe, Slots, SharedPC,
          ReservingPC, TakenPC
    <3>2. Plain(p)
      BY <3>1 DEF Plain, Silent, PendPC, ReservingPC, BoxedPC, CheckPC
    <3> QED
      BY <3>2, PlainCalm, CalmKeeps
  <2>2. CASE \E S : Collect(p, S)
    BY <1>0, <2>2, CollectCalm, CalmKeeps
  <2>3. CASE pc[p] = "burn"
    <3>1. Calm(p)
      BY <1>4, <2>3, BurnCalm
    <3> QED
      BY <3>1, CalmKeeps
  <2> QED
    BY <1>4, <2>1, <2>2, <2>3 DEF DeleteFails
<1>5. ~(p \in Restorers /\ DropOutFails(p))
  BY <1>0 DEF Homely, RouteAt, CopyPC, DropOutFails
<1> QED
  BY <1>1, <1>2, <1>3, <1>4, <1>5 DEF Slip

LEMMA KeepNext ==
  ASSUME TypeOK, Exclusion, Names, Clear, Homely, Stray = {}, KeepInv, [Next]_vars
  PROVE  KeepInv'
<1>0. Route /\ Safe
  BY DEF KeepInv, Safe
<1>1. ASSUME NEW p \in Proc, Step(p) \/ Slip(p) \/ Crash(p) PROVE Route' /\ Safe'
  <2>1. Alone(p)
    BY <1>1, StepRegion DEF TypeOK
  <2>2. Route'
    BY <1>0, <1>1, <2>1, RouteStep DEF Safe
  <2>3. Safe'
    BY <1>0, <1>1, <2>1, PutKeeps, RestoreKeeps, DiscardKeeps, DeleteKeeps, SlipKeeps DEF Step
  <2> QED
    BY <2>2, <2>3
<1>2. ASSUME NEW d \in Dir, Save(d) \/ EditInPlace(d) PROVE Route' /\ Safe'
  <2>1. Safe'
    BY <1>0, <1>2, SaveKeeps, EditKeeps
  <2>2. UNCHANGED <<pc, me>>
    BY <1>2 DEF Save, EditInPlace
  <2> QED
    BY <1>0, <2>1, <2>2 DEF Route
<1>3. ~(\E k \in Name : StrayDrop(k))
  BY DEF StrayDrop
<1>4. CASE UNCHANGED vars
  <2>1. /\ \A p, k : Pending(p, k)' <=> Pending(p, k)
        /\ \A p, o : Boxed(p, o)' <=> Boxed(p, o)
        /\ \A p : TombsOf(p)' = TombsOf(p)
        /\ \A d : Vouched(d)' <=> Vouched(d)
    BY <1>4 DEF vars, Pending, Boxed, TombsOf, Vouched
  <2>2. Route' /\ OnePlace' /\ Slots'
    BY <1>0, <1>4, <2>1 DEF Safe, vars, Route, OnePlace, Slots
  <2>3. Copies' /\ Doomed'
    <3>1. \A p \in Proc : (CopyAt(p)' <=> CopyAt(p)) /\ (DoomedAt(p)' <=> DoomedAt(p))
      BY <1>4, <2>1 DEF vars, CopyAt, DoomedAt
    <3> QED
      BY <1>0, <3>1 DEF Safe, Copies, Doomed
  <2>4. Victims' /\ Kept'
    <3>1. \A o : (Live(o)' <=> Live(o)) /\ (Firm(o)' <=> Firm(o))
      BY <1>4, <2>1 DEF vars, Live, Firm
    <3> QED
      BY <1>0, <1>4, <3>1 DEF Safe, vars, Victims, Kept
  <2> QED
    BY <2>2, <2>3, <2>4 DEF KeepInv
<1> QED
  BY <1>1, <1>2, <1>3, <1>4 DEF KeepInv, Safe, Next, Others

LEMMA KeepInit ==
  ASSUME Init
  PROVE  KeepInv
<1>1. PICK s \in Starts : /\ files = s.files /\ info = s.info
                          /\ place = s.place /\ body = s.body
  BY DEF Init
<1>2. /\ stage = [t \in Slot |-> NoEntry]
      /\ pc = [p \in Proc |-> "idle"] /\ me = [p \in Proc |-> Blank]
      /\ born = {v \in Data : \E o \in Obj : body[o] = v}
  BY DEF Init
<1>3. OnePlace
  BY <1>1, <1>2, StartsAssumption DEF OnePlace, NoEntry
<1>4. Route
  BY <1>2 DEF Route, RouteAt, CopyPC, Blank
<1>5. Slots /\ Victims
  BY <1>2 DEF Slots, Victims, CheckPC, Blank
<1>6. \A p \in Proc, k \in Name : ~Pending(p, k)
  BY <1>2 DEF Pending, PendPC
<1>7. Copies
  BY <1>2, <1>6 DEF Copies, CopyAt, BoxedPC
<1>8. Doomed
  BY <1>2 DEF Doomed, DoomedAt, Blank
<1>9. Kept
  <2>1. ASSUME NEW v \in born PROVE \E o \in Obj : body[o] = v /\ Firm(o)
    <3>1. PICK o \in Obj : body[o] = v
      BY <1>2
    <3>2. v # None
      BY <1>2, ConstantsAssumption
    <3>3. (\E k \in Name : files[k] = o) \/ (\E x \in Place : place[x] = o)
      BY <1>1, <3>1, <3>2, StartsAssumption
    <3> QED
      BY <1>6, <3>1, <3>3 DEF Firm
  <2> QED
    BY <2>1 DEF Kept
<1> QED
  BY <1>3, <1>4, <1>5, <1>7, <1>8, <1>9 DEF KeepInv

LEMMA KeptNoLoss ==
  ASSUME TypeOK, Kept
  PROVE  NoLoss
<1>1. ASSUME NEW v \in born \ released PROVE AtHome(v) \/ Astray(v) \/ InTrash(v)
  <2>1. PICK o \in Obj : body[o] = v /\ Firm(o)
    BY DEF Kept
  <2>2. o # None
    BY ConstantsAssumption
  <2>3. CASE \E x \in Place : place[x] = o
    BY <2>1, <2>2, <2>3 DEF AtHome, Astray
  <2>4. CASE \E k \in Name : files[k] = o
    BY <2>1, <2>4 DEF InTrash
  <2> QED
    BY <2>1, <2>3, <2>4 DEF Firm
<1> QED
  BY <1>1 DEF NoLoss

LEMMA KeepAlways ==
  ASSUME HasFlock, Stray = {}, Renames, Homely
  PROVE  Spec => [](KeepInv /\ TypeOK /\ Exclusion /\ Names /\ Clear)
<1>1. Init => KeepInv
  BY KeepInit
<1>2. TypeOK /\ Exclusion /\ Names /\ Clear /\ KeepInv /\ [Next]_vars => KeepInv'
  BY KeepNext
<1>3. Spec => []Exclusion /\ []Names
  BY ExclusionHolds, NamesAlways
<1> QED
  BY <1>1, <1>2, <1>3, ClearAlways, PTL DEF Spec

(* No content is lost that its user has not overwritten or agreed, item by *)
(* item, to delete: however put by rename and by copy, restore by rename,  *)
(* empty and purge interleave, whoever saves or edits meanwhile, and       *)
(* wherever processes are killed; inode numbers may be reused at once.     *)
(* Homely leaves restore by copy out: it is checked only.                  *)
THEOREM NoLossHolds ==
  ASSUME HasFlock, Stray = {}, Renames, Homely
  PROVE  Spec => []NoLoss
<1>1. TypeOK /\ KeepInv => NoLoss
  BY KeptNoLoss DEF KeepInv
<1> QED
  BY <1>1, KeepAlways, PTL
=============================================================================
