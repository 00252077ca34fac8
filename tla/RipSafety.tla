------------------------------ MODULE RipSafety ------------------------------
(***************************************************************************)
(* Rip, for any number of processes, candidates, directories and contents. *)
(* Every variable keeps its type, and no process comes to a call without   *)
(* the candidate, directory, copy box or tombstone the call needs (TypeOK),*)
(* with or without flock and renameat2.  With flock, no exclusive section  *)
(* of empty or purge overlaps another locked one (Exclusion), every entry  *)
(* of files/ has its .trashinfo (InfoOrder), and a name is in at most one  *)
(* process's hands (OneHolder).  The last two also need that nobody puts   *)
(* entries without a .trashinfo into files/.                               *)
(***************************************************************************)
EXTENDS RipProps, TLAPS

LEMMA BlankTyped == Blank \in Locals
BY ConstantsAssumption DEF Blank, Locals, Maybe, Name

LEMMA InitTyped == Init => TypeOK
<1> SUFFICES ASSUME Init PROVE TypeOK
  OBVIOUS
<1>1. DiskOK
  BY ConstantsAssumption, StartsAssumption
  DEF DiskOK, Init, Disk, StageEntry, NoEntry, Maybe
<1>2. ProcsOK
  BY BlankTyped
  DEF ProcsOK, Ready, Init, PC, NamePC, DirPC, PutPC, BoxPC, TombPC, ReservingPC, TakenPC
<1> QED
  BY <1>1, <1>2 DEF TypeOK

-----------------------------------------------------------------------------
(* A process that moves keeps the others ready.                            *)
LEMMA Moves ==
  ASSUME ProcsOK, NEW p \in Proc, NEW l \in PC, NEW m \in Locals, Ready(l, m),
         pc' = [pc EXCEPT ![p] = l], me' = [me EXCEPT ![p] = m]
  PROVE  ProcsOK'
BY DEF ProcsOK

LEMMA Jumps ==
  ASSUME ProcsOK, NEW p \in Proc, NEW l \in PC, Ready(l, me[p]), Goto(p, l), UNCHANGED me
  PROVE  ProcsOK'
BY DEF ProcsOK, Goto

LEMMA Returns ==
  ASSUME ProcsOK, NEW p \in Proc, Return(p)
  PROVE  ProcsOK'
BY BlankTyped, Moves
DEF Return, Goto, Ready, PC, NamePC, DirPC, PutPC, BoxPC, TombPC, ReservingPC, TakenPC

LEMMA Here ==
  ASSUME ProcsOK, NEW p \in Proc
  PROVE  pc[p] \in PC /\ me[p] \in Locals /\ Ready(pc[p], me[p])
BY DEF ProcsOK

LEMMA Unlocks ==
  ASSUME NEW p \in Proc, lock \in [Proc -> {"none", "SH", "EX"}],
         Unlock(p) \/ LockShared(p) \/ LockExclusive(p)
  PROVE  lock' \in [Proc -> {"none", "SH", "EX"}]
BY DEF Unlock, LockShared, LockExclusive

(* What is fresh is what was asked for.                                    *)
LEMMA Fresh ==
  /\ FreeSlots # {} => NewSlot \in Slot
  /\ FreeIds # {} => NewId \in InfoId
  /\ NewObjs \subseteq Obj
BY DEF FreeSlots, NewSlot, FreeIds, NewId, NewObjs, FreeObjs

(* Assignments to several local variables at once.                         *)
LEMMA SetNameInfo ==
  ASSUME NEW m \in Locals, NEW k \in 0..(MaxName + 1), NEW i \in Maybe(Info)
  PROVE  [m EXCEPT !.name = k, !.info = i] \in Locals
BY DEF Locals

LEMMA SetNameEntry ==
  ASSUME NEW m \in Locals, NEW k \in 0..(MaxName + 1), NEW o \in Maybe(Obj)
  PROVE  [m EXCEPT !.name = k, !.entry = o] \in Locals
BY DEF Locals

LEMMA SetDoomed ==
  ASSUME NEW m \in Locals, NEW d \in Maybe(Listed), NEW k \in 0..(MaxName + 1),
         NEW D \in SUBSET Listed
  PROVE  [m EXCEPT !.cur = d, !.name = k, !.doomed = D] \in Locals
<1>1. [m EXCEPT !.cur = d, !.name = k] \in Locals
  BY DEF Locals
<1>2. [[m EXCEPT !.cur = d, !.name = k] EXCEPT !.doomed = D] \in Locals
  BY <1>1 DEF Locals
<1> QED
  BY <1>2

LEMMA SetVictim ==
  ASSUME NEW m \in Locals, NEW s \in Maybe(Slot), NEW o \in Maybe(Obj),
         NEW T \in SUBSET Slot
  PROVE  [m EXCEPT !.tomb = s, !.victim = o, !.tombs = T] \in Locals
<1>1. [m EXCEPT !.tomb = s, !.victim = o] \in Locals
  BY DEF Locals
<1>2. [[m EXCEPT !.tomb = s, !.victim = o] EXCEPT !.tombs = T] \in Locals
  BY <1>1 DEF Locals
<1> QED
  BY <1>2

-----------------------------------------------------------------------------
(* A reservation is given up, and the process is ready for what follows.   *)
LEMMA LetsGoReady ==
  ASSUME ProcsOK, NEW p \in Proc, LetsGo(p)
  PROVE  ProcsOK'
<1> USE DEF Ready, NamePC, DirPC, PutPC, BoxPC, TombPC, ReservingPC,
            TakenPC, SharedPC, PC, Goto
<1>1. me[p] \in Locals /\ me[p].name \in Name /\ me[p].dir \in Dir
  BY Here DEF LetsGo
<1>2. CASE pc[p] = "advance"
  <2> DEFINE m == [me[p] EXCEPT !.name = @ + 1, !.info = None]
  <2>1. me[p].name + 1 \in 0..(MaxName + 1) /\ None \in Maybe(Info)
    BY <1>1, ConstantsAssumption DEF Name, Maybe
  <2>2. m \in Locals /\ m.dir \in Dir
    BY <1>1, <2>1, SetNameInfo DEF Locals
  <2>3. pc' = [pc EXCEPT ![p] = "claim"] /\ me' = [me EXCEPT ![p] = m]
    BY <1>2 DEF LetsGo, ProcsOK
  <2>4. Ready("claim", m)
    BY <2>2
  <2> QED
    BY <2>2, <2>3, <2>4, Moves
<1>3. CASE pc[p] # "advance"
  <2> DEFINE m == [me[p] EXCEPT !.info = None]
  <2>1. m \in Locals /\ m.dir \in Dir /\ m.slot = me[p].slot
    BY <1>1 DEF Locals, Maybe
  <2>2. me' = [me EXCEPT ![p] = m]
    BY <1>3 DEF LetsGo, ProcsOK
  <2>3. CASE pc' = [pc EXCEPT ![p] = "dropbox"] /\ me[p].slot # None
    <3>1. m.slot \in Slot
      BY <2>1, <2>3 DEF Locals, Maybe
    <3>2. Ready("dropbox", m)
      BY <3>1
    <3> QED
      BY <2>1, <2>2, <2>3, <3>2, Moves
  <2>4. CASE pc' = [pc EXCEPT ![p] = "unlock"]
    <3>1. Ready("unlock", m)
      OBVIOUS
    <3> QED
      BY <2>1, <2>2, <2>4, <3>1, Moves
  <2>5. CASE pc' = [pc EXCEPT ![p] = "unlockcp"]
    <3>1. Ready("unlockcp", m)
      BY <2>1
    <3> QED
      BY <2>1, <2>2, <2>5, <3>1, Moves
  <2> QED
    BY <1>3, <2>3, <2>4, <2>5 DEF LetsGo
<1> QED
  BY <1>2, <1>3

LEMMA ReserveTyped ==
  ASSUME TypeOK, NEW p \in Proc, ReserveStep(p)
  PROVE  TypeOK'
<1> USE DEF TypeOK, Ready, NamePC, DirPC, PutPC, BoxPC, TombPC, ReservingPC,
            TakenPC, SharedPC, PC, Goto
<1>1. CASE ClaimStat(p)
  <2>1. me[p] \in Locals /\ me[p].name \in Name /\ me[p].dir \in Dir
    BY <1>1, Here, ConstantsAssumption DEF ClaimStat, Locals, Name
  <2>2. DiskOK'
    BY <1>1 DEF ClaimStat, DiskOK, disk, bounds
  <2>3. CASE files[me[p].name] # None
    <3> DEFINE m == [me[p] EXCEPT !.name = @ + 1]
    <3>1. m \in Locals /\ m.dir \in Dir
      BY <2>1, ConstantsAssumption DEF Locals, Name
    <3>2. pc' = [pc EXCEPT ![p] = "claim"] /\ me' = [me EXCEPT ![p] = m]
      BY <1>1, <2>3 DEF ClaimStat, ProcsOK
    <3>3. Ready("claim", m)
      BY <3>1
    <3> QED
      BY <2>2, <3>1, <3>2, <3>3, Moves
  <2>4. CASE files[me[p].name] = None
    BY <1>1, <2>1, <2>2, <2>4, Jumps DEF ClaimStat
  <2> QED
    BY <2>3, <2>4
<1>2. CASE ClaimOpen(p)
  <2>1. me[p] \in Locals /\ me[p].name \in Name /\ me[p].dir \in Dir
    BY <1>2, Here DEF ClaimOpen
  <2>2. CASE info[me[p].name] # None /\ info' = info
    <3> DEFINE m == [me[p] EXCEPT !.name = @ + 1]
    <3>1. m \in Locals /\ m.dir \in Dir
      BY <2>1, ConstantsAssumption DEF Locals, Name
    <3>2. pc' = [pc EXCEPT ![p] = "claim"] /\ me' = [me EXCEPT ![p] = m]
      BY <1>2, <2>2 DEF ClaimOpen
    <3>3. Ready("claim", m)
      BY <3>1
    <3>4. DiskOK'
      BY <1>2, <2>2 DEF ClaimOpen, DiskOK, bounds
    <3> QED
      BY <3>1, <3>2, <3>3, <3>4, Moves
  <2>3. CASE info[me[p].name] = None /\ FreeIds # {}
    <3> DEFINE new == [id |-> NewId, path |-> me[p].dir]
               m == [me[p] EXCEPT !.info = new]
    <3>1. new \in Info
      BY <2>1, <2>3, Fresh DEF Info
    <3>2. m \in Locals /\ m.info \in Info /\ m.name \in Name /\ m.dir \in Dir
      BY <2>1, <3>1 DEF Locals, Maybe
    <3>3. /\ info' = [info EXCEPT ![me[p].name] = new]
          /\ pc' = [pc EXCEPT ![p] = "publish"] /\ me' = [me EXCEPT ![p] = m]
      BY <1>2, <2>3 DEF ClaimOpen
    <3>4. DiskOK'
      BY <1>2, <2>1, <3>1, <3>3 DEF ClaimOpen, DiskOK, bounds, Maybe
    <3>5. Ready("publish", m)
      BY <3>2
    <3> QED
      BY <3>2, <3>3, <3>4, <3>5, Moves
  <2> QED
    BY <1>2, <2>2, <2>3 DEF ClaimOpen
<1>3. CASE ClaimFails(p)
  <2>1. DiskOK'
    BY <1>3 DEF ClaimFails, DiskOK, disk, bounds
  <2>2. me[p] \in Locals /\ me[p].dir \in Dir
    BY <1>3, Here DEF ClaimFails
  <2>3. CASE me[p].slot = None
    <3>1. pc' = [pc EXCEPT ![p] = "unlock"] /\ UNCHANGED me
      BY <1>3, <2>3 DEF ClaimFails
    <3> QED
      BY <2>1, <3>1, Jumps
  <2>4. CASE me[p].slot # None
    <3>1. me[p].slot \in Slot
      BY <2>2, <2>4 DEF Locals, Maybe
    <3> QED
      BY <1>3, <2>1, <2>4, <3>1, Jumps DEF ClaimFails
  <2> QED
    BY <2>3, <2>4
<1>4. CASE Release(p)
  <2>1. me[p].name \in Name
    BY <1>4, Here DEF Release, LetsGo
  <2>2. DiskOK'
    BY <1>4, <2>1 DEF Release, DiskOK, bounds, Maybe
  <2> QED
    BY <1>4, <2>2, LetsGoReady DEF Release
<1> QED
  BY <1>1, <1>2, <1>3, <1>4 DEF ReserveStep

-----------------------------------------------------------------------------
LEMMA DiscardTyped ==
  ASSUME TypeOK, NEW p \in Proc, DiscardStep(p)
  PROVE  TypeOK'
<1> USE DEF TypeOK, Ready, NamePC, DirPC, PutPC, BoxPC, TombPC, ReservingPC,
            TakenPC, SharedPC, PC, Goto
<1>1. CASE Tombstone(p)
  <2>1. me[p] \in Locals /\ me[p].name \in Name
    BY <1>1, Here DEF Tombstone
  <2>2. CASE /\ pc' = [pc EXCEPT ![p] = "unlock"]
             /\ UNCHANGED <<files, stage, me>>
    <3>1. DiskOK'
      BY <1>1, <2>2 DEF Tombstone, DiskOK, bounds
    <3> QED
      BY <2>2, <3>1, Jumps
  <2>3. CASE /\ FreeSlots # {}
             /\ stage' = [stage EXCEPT ![NewSlot] = [kind |-> "del", obj |-> files[me[p].name]]]
             /\ files' = [files EXCEPT ![me[p].name] = None]
             /\ me' = [me EXCEPT ![p].tomb = NewSlot]
             /\ pc' = [pc EXCEPT ![p] = "verify"]
    <3> DEFINE m == [me[p] EXCEPT !.tomb = NewSlot]
    <3>1. NewSlot \in Slot
      BY <2>3, Fresh
    <3>2. m \in Locals /\ m.tomb \in Slot /\ m.name \in Name
      BY <2>1, <3>1 DEF Locals, Maybe
    <3>3. DiskOK'
      BY <1>1, <2>1, <2>3, <3>1 DEF Tombstone, DiskOK, bounds, StageEntry, Maybe
    <3>4. Ready("verify", m)
      BY <3>2
    <3> QED
      BY <2>3, <3>2, <3>3, <3>4, Moves
  <2> QED
    BY <1>1, <2>2, <2>3 DEF Tombstone
<1>2. CASE Verify(p)
  <2>1. DiskOK'
    BY <1>2 DEF Verify, DiskOK, disk, bounds
  <2>2. me[p].name \in Name /\ me[p].tomb \in Slot
    BY <1>2, Here DEF Verify
  <2> QED
    BY <1>2, <2>1, <2>2, Jumps DEF Verify
<1>3. CASE PutBack(p)
  <2>1. me[p].name \in Name /\ me[p].tomb \in Slot
    BY <1>3, Here DEF PutBack
  <2>2. stage[me[p].tomb].obj \in Maybe(Obj)
    BY <2>1 DEF DiskOK, StageEntry
  <2>3. DiskOK'
    BY <1>3, <2>1, <2>2 DEF PutBack, DiskOK, bounds, StageEntry, NoEntry, Maybe
  <2> QED
    BY <1>3, <2>3, Jumps DEF PutBack
<1>4. CASE CheckInfo(p)
  <2>1. DiskOK'
    BY <1>4 DEF CheckInfo, DiskOK, disk, bounds
  <2>2. me[p] \in Locals /\ me[p].name \in Name
    BY <1>4, Here DEF CheckInfo
  <2>3. me[p].tomb # None => me[p].tomb \in Slot
    BY <2>2 DEF Locals, Maybe
  <2> QED
    BY <1>4, <2>1, <2>2, <2>3, Jumps DEF CheckInfo, AfterInfo
<1>5. CASE UnlinkInfo(p)
  <2>1. me[p] \in Locals /\ me[p].name \in Name
    BY <1>5, Here DEF UnlinkInfo
  <2>2. DiskOK'
    BY <1>5, <2>1 DEF UnlinkInfo, DiskOK, bounds, Maybe
  <2>3. me[p].tomb # None => me[p].tomb \in Slot
    BY <2>1 DEF Locals, Maybe
  <2> QED
    <3>1. pc' = [pc EXCEPT ![p] = AfterInfo(p)] /\ UNCHANGED me
      BY <1>5 DEF UnlinkInfo
    <3>2. AfterInfo(p) \in PC /\ Ready(AfterInfo(p), me[p])
      BY <2>3 DEF AfterInfo
    <3> QED
      BY <2>2, <3>1, <3>2, Jumps
<1>6. CASE RemoveTomb(p)
  <2>1. me[p].tomb \in Slot
    BY <1>6, Here DEF RemoveTomb
  <2>2. DiskOK'
    BY <1>6, <2>1 DEF RemoveTomb, Without, DiskOK, bounds, StageEntry, NoEntry, Maybe
  <2> QED
    BY <1>6, <2>2, Jumps DEF RemoveTomb
<1> QED
  BY <1>1, <1>2, <1>3, <1>4, <1>5, <1>6 DEF DiscardStep

-----------------------------------------------------------------------------
LEMMA ArgInPlace == ASSUME NEW p, me[p].dir \in Dir PROVE Arg(p) \in Place
BY ConstantsAssumption DEF Arg, Place, Name

LEMMA PutTyped ==
  ASSUME TypeOK, NEW p \in Proc, PutStep(p)
  PROVE  TypeOK'
<1> USE DEF TypeOK, Ready, NamePC, DirPC, PutPC, BoxPC, TombPC, ReservingPC,
            TakenPC, SharedPC, PC, Goto
<1>1. ASSUME NEW d \in Dir, PutStart(p, d) PROVE TypeOK'
  <2> DEFINE m == [me[p] EXCEPT !.dir = d]
  <2>1. m \in Locals /\ m.dir \in Dir
    BY Here DEF Locals, Maybe
  <2>2. DiskOK'
    BY <1>1, ConstantsAssumption DEF PutStart, DiskOK, disk
  <2>3. me' = [me EXCEPT ![p] = m] /\ Ready("wait", m) /\ Ready("walk", m)
    BY <1>1, <2>1 DEF PutStart
  <2> QED
    BY <1>1, <2>1, <2>2, <2>3, Moves DEF PutStart
<1>2. CASE PutLock(p)
  <2>1. DiskOK'
    BY <1>2, Unlocks DEF PutLock, DiskOK, disk, bounds
  <2>2. me[p].dir \in Dir
    BY <1>2, Here DEF PutLock
  <2> QED
    BY <1>2, <2>1, <2>2, Jumps DEF PutLock
<1>3. CASE MoveIn(p)
  <2>1. /\ me[p] \in Locals /\ me[p].name \in Name /\ me[p].dir \in Dir
        /\ me[p].info \in Info
    BY <1>3, Here DEF MoveIn
  <2>2. DiskOK'
    <3>1. Arg(p) \in Place
      BY <2>1, ArgInPlace
    <3>2. place[Arg(p)] \in Maybe(Obj)
      BY <3>1 DEF DiskOK
    <3> QED
      BY <1>3, <2>1, <3>1, <3>2 DEF MoveIn, DiskOK, bounds, Maybe
  <2> DEFINE m == [me[p] EXCEPT !.clear = FALSE]
  <2>3. m \in Locals /\ m.name \in Name /\ m.dir \in Dir /\ m.info \in Info
    BY <2>1 DEF Locals
  <2>4. /\ Ready("unlock", m) /\ Ready("advance", m) /\ Ready("exdev", m)
        /\ Ready("release", m) /\ me' = [me EXCEPT ![p] = m]
    BY <1>3, <2>3 DEF MoveIn
  <2> QED
    BY <1>3, <2>2, <2>3, <2>4, Moves DEF MoveIn
<1>4. CASE PutUnlock(p)
  <2> DEFINE m == [me[p] EXCEPT !.name = 0]
  <2>1. m \in Locals /\ m.dir \in Dir
    BY <1>4, Here, ConstantsAssumption DEF PutUnlock, Locals
  <2>2. DiskOK'
    BY <1>4, Unlocks DEF PutUnlock, DiskOK, disk, bounds
  <2>3. Ready("walk", m) /\ me' = [me EXCEPT ![p] = m]
    BY <1>4, <2>1 DEF PutUnlock
  <2> QED
    BY <1>4, <2>1, <2>2, <2>3, Moves DEF PutUnlock
<1>5. CASE Walk(p)
  <2> DEFINE o == place[Arg(p)]
             m == [me[p] EXCEPT !.src = o, !.seen = body[o]]
  <2>1. me[p] \in Locals /\ me[p].dir \in Dir
    BY <1>5, Here DEF Walk
  <2>2. o \in Maybe(Obj) /\ body[o] \in Maybe(Data)
    <3>1. Arg(p) \in Place
      BY <2>1, ArgInPlace
    <3> QED
      BY <1>5, <3>1 DEF Walk, DiskOK, Maybe
  <2>3. m \in Locals
    BY <2>1, <2>2 DEF Locals
  <2>4. m.dir \in Dir
    BY <2>1 DEF Locals
  <2>5. Ready("waitcp", m) /\ me' = [me EXCEPT ![p] = m]
    BY <1>5, <2>4 DEF Walk
  <2>6. DiskOK'
    BY <1>5 DEF Walk, DiskOK, disk, bounds
  <2> QED
    BY <1>5, <2>3, <2>5, <2>6, Moves DEF Walk
<1>6. CASE CopyDeclined(p)
  BY <1>6, Returns DEF CopyDeclined, DiskOK, disk, bounds
<1>7. CASE CopyLock(p)
  <2>1. DiskOK'
    BY <1>7, Unlocks DEF CopyLock, DiskOK, disk, bounds
  <2>2. me[p].dir \in Dir
    BY <1>7, Here DEF CopyLock
  <2> QED
    BY <1>7, <2>1, <2>2, Jumps DEF CopyLock
<1>8. CASE MakeBox(p)
  <2>1. CASE /\ NewBox
             /\ me' = [me EXCEPT ![p].slot = NewSlot]
             /\ Goto(p, "cp")
    <3> DEFINE m == [me[p] EXCEPT !.slot = NewSlot]
    <3>1. me[p] \in Locals /\ me[p].dir \in Dir /\ NewSlot \in Slot
      BY <1>8, <2>1, Here, Fresh DEF MakeBox, NewBox
    <3>2. m \in Locals /\ m.dir \in Dir /\ m.slot \in Slot
      BY <3>1 DEF Locals, Maybe
    <3>3. DiskOK'
      BY <1>8, <2>1, <3>1 DEF MakeBox, NewBox, DiskOK, bounds, StageEntry, Maybe
    <3>4. Ready("cp", m) /\ me' = [me EXCEPT ![p] = m]
      BY <2>1, <3>2
    <3> QED
      BY <2>1, <3>2, <3>3, <3>4, Moves
  <2>2. CASE Goto(p, "unlock") /\ UNCHANGED <<stage, me>>
    <3>1. DiskOK'
      BY <1>8, <2>2 DEF MakeBox, DiskOK, bounds
    <3> QED
      BY <2>2, <3>1, Jumps
  <2> QED
    BY <1>8, <2>1, <2>2 DEF MakeBox
<1>9. CASE CopyIn(p)
  <2> DEFINE o == place[Arg(p)]
             s == me[p].slot
  <2>1. me[p] \in Locals /\ me[p].dir \in Dir /\ s \in Slot
    BY <1>9, Here DEF CopyIn
  <2>2. CASE pc' = [pc EXCEPT ![p] = "dropbox"] /\ UNCHANGED <<body, stage, me>>
    <3>1. DiskOK'
      BY <1>9, <2>2 DEF CopyIn, DiskOK, bounds
    <3> QED
      BY <2>1, <2>2, <3>1, Jumps
  <2>3. ASSUME o # None, NEW c \in NewObjs, body' = [body EXCEPT ![c] = body[o]],
               stage' = [stage EXCEPT ![s].obj = c],
               me' = [me EXCEPT ![p].copied = body[o]],
               pc' = [pc EXCEPT ![p] = "claim"]
        PROVE  TypeOK'
    <3> DEFINE m == [me[p] EXCEPT !.copied = body[o]]
    <3>1. Arg(p) \in Place
      BY <2>1, ArgInPlace
    <3>2. body[o] \in Maybe(Data) /\ c \in Obj
      BY <2>3, <3>1, Fresh DEF DiskOK, Maybe
    <3>3. m \in Locals
      BY <2>1, <3>2 DEF Locals
    <3>4. m.dir \in Dir
      BY <2>1 DEF Locals
    <3>5. Ready("claim", m) /\ me' = [me EXCEPT ![p] = m]
      BY <2>3, <3>4
    <3>6. DiskOK'
      BY <1>9, <2>1, <2>3, <3>2 DEF CopyIn, DiskOK, bounds, StageEntry, Maybe
    <3> QED
      BY <2>3, <3>3, <3>5, <3>6, Moves
  <2> QED
    BY <1>9, <2>2, <2>3 DEF CopyIn
<1>10. CASE Publish(p)
  <2> DEFINE o == stage[me[p].slot].obj
             m == [me[p] EXCEPT !.clear = FALSE]
  <2>1. /\ me[p] \in Locals /\ me[p].name \in Name /\ me[p].dir \in Dir
        /\ me[p].info \in Info
    BY <1>10, Here DEF Publish
  <2>2. me[p].slot \in Slot
    BY <1>10, <2>1 DEF Publish, Locals, Maybe
  <2>3. DiskOK'
    <3>1. o \in Maybe(Obj)
      BY <2>2 DEF DiskOK, StageEntry
    <3>2. files' \in [Name -> Maybe(Obj)]
      BY <1>10, <2>1, <3>1 DEF Publish, DiskOK
    <3>3. stage' \in [Slot -> StageEntry]
      BY <1>10, <2>2 DEF Publish, DiskOK, StageEntry, Maybe
    <3> QED
      BY <1>10, <3>2, <3>3 DEF Publish, DiskOK, bounds
  <2>4. m \in Locals
    BY <2>1 DEF Locals
  <2>5. m.name \in Name /\ m.dir \in Dir /\ m.info \in Info /\ m.slot \in Slot
    BY <2>1, <2>2 DEF Locals
  <2>6. /\ Ready("capture", m) /\ Ready("advance", m) /\ Ready("release", m)
        /\ me' = [me EXCEPT ![p] = m]
    BY <1>10, <2>5 DEF Publish
  <2> QED
    BY <1>10, <2>3, <2>4, <2>6, Moves DEF Publish
<1>11. CASE Capture(p)
  <2> DEFINE k == me[p].name
             both == files[k] # None /\ info[k] # None
             e == IF both THEN files[k] ELSE None
             i == IF both THEN info[k] ELSE None
             m == [me[p] EXCEPT !.entry = e, !.info = i]
  <2>1. me[p] \in Locals /\ k \in Name /\ me[p].dir \in Dir /\ me[p].slot \in Slot
    BY <1>11, Here DEF Capture
  <2>2. e \in Maybe(Obj) /\ i \in Maybe(Info)
    BY <2>1 DEF DiskOK, Maybe
  <2> HIDE DEF e, i
  <2>3. m \in Locals
    BY <2>1, <2>2 DEF Locals
  <2>4. m.dir \in Dir /\ m.slot \in Slot /\ m.name \in Name
    BY <2>1 DEF Locals
  <2>5. Ready("sync", m)
    BY <2>4
  <2>6. me' = [me EXCEPT ![p] = m] /\ pc' = [pc EXCEPT ![p] = "sync"]
    BY <1>11 DEF Capture, e, i
  <2>7. DiskOK'
    BY <1>11 DEF Capture, DiskOK, disk, bounds
  <2> QED
    BY <2>3, <2>5, <2>6, <2>7, Moves
<1>12. CASE SyncIn(p)
  <2> DEFINE m == [me[p] EXCEPT !.slot = None]
  <2>1. /\ me[p] \in Locals /\ me[p].name \in Name /\ me[p].dir \in Dir
        /\ me[p].slot \in Slot
    BY <1>12, Here DEF SyncIn
  <2>2. m \in Locals /\ m.name \in Name /\ m.dir \in Dir
    BY <2>1 DEF Locals, Maybe
  <2>3. DiskOK'
    BY <1>12, <2>1 DEF SyncIn, DiskOK, bounds, StageEntry, NoEntry, Maybe
  <2>4. Ready("source", m) /\ Ready("unlock", m) /\ me' = [me EXCEPT ![p] = m]
    BY <1>12, <2>2 DEF SyncIn
  <2> QED
    BY <1>12, <2>2, <2>3, <2>4, Moves DEF SyncIn
<1>13. CASE RemoveSource(p)
  <2>1. me[p].name \in Name /\ me[p].dir \in Dir
    BY <1>13, Here DEF RemoveSource
  <2>2. Arg(p) \in Place
    BY <2>1, ArgInPlace
  <2>3. DiskOK'
    BY <1>13, <2>2 DEF RemoveSource, DiskOK, bounds, Maybe
  <2> QED
    <3>1. PICK l \in {"unlock", "tomb"} : Goto(p, l) /\ UNCHANGED me
      BY <1>13 DEF RemoveSource
    <3>2. l \in PC /\ Ready(l, me[p])
      BY <2>1
    <3> HIDE DEF Goto, Ready, PC
    <3> QED
      BY <2>3, <3>1, <3>2, Jumps
<1>14. CASE DropBox(p)
  <2>1. me[p].slot \in Slot
    BY <1>14, Here DEF DropBox
  <2>2. DiskOK'
    BY <1>14, <2>1 DEF DropBox, Without, DiskOK, bounds, StageEntry, NoEntry, Maybe
  <2> QED
    BY <1>14, <2>2, Jumps DEF DropBox
<1> QED
  BY <1>1, <1>2, <1>3, <1>4, <1>5, <1>6, <1>7, <1>8, <1>9, <1>10, <1>11, <1>12,
     <1>13, <1>14 DEF PutStep

-----------------------------------------------------------------------------
(* rename_free: the process stays where it is, or gives up.                *)
LEMMA Renamed ==
  ASSUME ProcsOK, NEW p \in Proc, NEW l \in {"unlock", "dropout"}, NextDest(p, l),
         pc[p] \in {"back", "out"}, l = "dropout" => pc[p] = "out"
  PROVE  ProcsOK'
<1> USE DEF Ready, NamePC, DirPC, PutPC, BoxPC, TombPC, ReservingPC, TakenPC,
            SharedPC, PC
<1>1. /\ me[p] \in Locals /\ me[p].name \in Name /\ me[p].dir \in Dir
      /\ pc[p] = "out" => me[p].box \in Obj
  BY Here
<1>2. CASE p \in Renamers /\ me[p].to < MaxName
  <2> DEFINE m == [me[p] EXCEPT !.to = @ + 1]
  <2>1. me[p].to + 1 \in Name
    BY <1>1, <1>2, ConstantsAssumption DEF Locals, Name
  <2>2. m \in Locals
    BY <1>1, <2>1 DEF Locals
  <2>3. m.name = me[p].name /\ m.dir = me[p].dir /\ m.box = me[p].box
    BY <1>1 DEF Locals
  <2>4. Ready(pc[p], m)
    BY <1>1, <2>3
  <2>5. me' = [me EXCEPT ![p] = m] /\ pc' = [pc EXCEPT ![p] = pc[p]]
    BY <1>2 DEF NextDest, ProcsOK
  <2> QED
    BY <2>2, <2>4, <2>5, Moves
<1>3. CASE ~(p \in Renamers /\ me[p].to < MaxName)
  <2>1. l \in PC /\ Ready(l, me[p])
    BY <1>1
  <2> HIDE DEF Ready, PC
  <2> QED
    BY <1>3, <2>1, Jumps DEF NextDest
<1> QED
  BY <1>2, <1>3

LEMMA RestoreTyped ==
  ASSUME TypeOK, NEW p \in Proc, RestoreStep(p)
  PROVE  TypeOK'
<1> USE DEF TypeOK, Ready, NamePC, DirPC, PutPC, BoxPC, TombPC, ReservingPC,
            TakenPC, SharedPC, PC, Goto
<1>1. ASSUME NEW k \in Name, ListItem(p, k) PROVE TypeOK'
  <2> DEFINE m == [me[p] EXCEPT !.name = k, !.entry = files[k]]
  <2>1. me[p] \in Locals /\ k \in 0..(MaxName + 1) /\ files[k] \in Maybe(Obj)
    BY <1>1, Here, ConstantsAssumption DEF Name, DiskOK
  <2>2. m \in Locals
    BY <2>1, SetNameEntry
  <2>3. m.name \in Name
    BY <2>1 DEF Locals
  <2>4. DiskOK'
    BY <1>1, ConstantsAssumption DEF ListItem, DiskOK, disk
  <2>5. me' = [me EXCEPT ![p] = m] /\ Ready("read", m)
    BY <1>1, <2>3 DEF ListItem
  <2> QED
    BY <1>1, <2>2, <2>4, <2>5, Moves DEF ListItem
<1>2. CASE ReadInfo(p)
  <2> DEFINE i == info[me[p].name]
             m == [me[p] EXCEPT !.info = i, !.dir = i.path]
  <2>1. DiskOK'
    BY <1>2 DEF ReadInfo, DiskOK, disk, bounds
  <2>2. CASE i = None
    BY <1>2, <2>1, <2>2, Returns DEF ReadInfo
  <2>3. CASE i # None
    <3>1. me[p] \in Locals /\ me[p].name \in Name
      BY <1>2, Here DEF ReadInfo
    <3>2. i \in Maybe(Info) /\ i.path \in Dir /\ i.path \in Maybe(Dir)
      BY <2>3, <3>1 DEF DiskOK, Info, Maybe
    <3>3. m \in Locals
      BY <3>1, <3>2 DEF Locals
    <3>4. m.name \in Name /\ m.dir \in Dir
      BY <3>1, <3>2 DEF Locals
    <3>5. me' = [me EXCEPT ![p] = m] /\ Ready("dest", m)
      BY <1>2, <2>3, <3>4 DEF ReadInfo
    <3> QED
      BY <1>2, <2>1, <2>3, <3>3, <3>5, Moves DEF ReadInfo
  <2> QED
    BY <2>2, <2>3
<1>3. CASE CheckDest(p)
  <2>1. DiskOK'
    BY <1>3 DEF CheckDest, DiskOK, disk, bounds
  <2>2. me[p].name \in Name /\ me[p].dir \in Dir
    BY <1>3, Here DEF CheckDest
  <2>3. CASE Return(p)
    BY <2>1, <2>3, Returns
  <2>4. CASE Goto(p, "waitr") /\ UNCHANGED me
    BY <2>1, <2>2, <2>4, Jumps
  <2> QED
    BY <1>3, <2>3, <2>4 DEF CheckDest
<1>4. CASE RestoreLock(p)
  <2>1. DiskOK'
    BY <1>4, Unlocks DEF RestoreLock, DiskOK, disk, bounds
  <2>2. me[p].name \in Name /\ me[p].dir \in Dir
    BY <1>4, Here DEF RestoreLock
  <2> QED
    BY <1>4, <2>1, <2>2, Jumps DEF RestoreLock
<1>5. CASE Recheck(p)
  <2>1. DiskOK'
    BY <1>5 DEF Recheck, DiskOK, disk, bounds
  <2>2. me[p].name \in Name /\ me[p].dir \in Dir
    BY <1>5, Here DEF Recheck
  <2>3. PICK l \in {"unlock", "back", "cpback"} : Goto(p, l) /\ UNCHANGED me
    BY <1>5 DEF Recheck
  <2>4. l \in PC /\ Ready(l, me[p])
    BY <2>2
  <2> HIDE DEF Goto, Ready, PC
  <2> QED
    BY <2>1, <2>3, <2>4, Jumps
<1>6. CASE RenameBack(p)
  <2>1. me[p] \in Locals /\ me[p].name \in Name /\ me[p].dir \in Dir
    BY <1>6, Here DEF RenameBack
  <2>2. Dest(p) \in Place /\ me[p].to \in Name
    BY <2>1 DEF Dest, Place, Locals
  <2>3. DiskOK'
    BY <1>6, <2>1, <2>2 DEF RenameBack, DiskOK, bounds, Maybe
  <2>4. CASE me' = [me EXCEPT ![p].clear = FALSE] /\ Goto(p, "checkinfo")
    <3> DEFINE m == [me[p] EXCEPT !.clear = FALSE]
    <3>1. m \in Locals /\ m.name \in Name
      BY <2>1 DEF Locals
    <3>2. me' = [me EXCEPT ![p] = m] /\ Ready("checkinfo", m)
      BY <2>4, <3>1
    <3> QED
      BY <2>3, <2>4, <3>1, <3>2, Moves
  <2>5. CASE NextDest(p, "unlock")
    BY <1>6, <2>1, <2>2, <2>3, <2>5, Renamed DEF RenameBack
  <2>6. CASE (Goto(p, "unlock") \/ Goto(p, "recheck2")) /\ UNCHANGED me
    BY <2>1, <2>3, <2>6, Jumps
  <2> QED
    BY <1>6, <2>4, <2>5, <2>6 DEF RenameBack
<1>7. CASE CopyBack(p)
  <2> DEFINE o == files[me[p].name]
  <2>1. me[p] \in Locals /\ me[p].name \in Name /\ me[p].dir \in Dir
    BY <1>7, Here DEF CopyBack
  <2>2. CASE Goto(p, "unlock") /\ UNCHANGED <<body, me>>
    <3>1. DiskOK'
      BY <1>7, <2>2 DEF CopyBack, DiskOK, bounds
    <3> QED
      BY <2>2, <3>1, Jumps
  <2>3. ASSUME o # None, NEW c \in NewObjs, body' = [body EXCEPT ![c] = body[o]],
               me' = [me EXCEPT ![p].box = c], Goto(p, "out")
        PROVE  TypeOK'
    <3> DEFINE m == [me[p] EXCEPT !.box = c]
    <3>1. c \in Obj /\ body[o] \in Maybe(Data)
      BY <2>1, <2>3, Fresh DEF DiskOK, Maybe
    <3>2. DiskOK'
      BY <1>7, <2>3, <3>1 DEF CopyBack, DiskOK, bounds
    <3>3. m \in Locals
      BY <2>1, <3>1 DEF Locals, Maybe
    <3>4. m.box \in Obj /\ m.dir \in Dir /\ m.name \in Name
      BY <2>1, <3>1 DEF Locals
    <3>5. me' = [me EXCEPT ![p] = m] /\ Ready("out", m)
      BY <2>3, <3>4
    <3> QED
      BY <2>3, <3>2, <3>3, <3>5, Moves
  <2> QED
    BY <1>7, <2>2, <2>3 DEF CopyBack
<1>8. CASE PublishBack(p)
  <2>1. /\ me[p] \in Locals /\ me[p].name \in Name /\ me[p].dir \in Dir
        /\ me[p].box \in Obj
    BY <1>8, Here DEF PublishBack
  <2>2. Dest(p) \in Place /\ me[p].to \in Name
    BY <2>1 DEF Dest, Place, Locals
  <2>3. DiskOK'
    BY <1>8, <2>1, <2>2 DEF PublishBack, DiskOK, bounds, Maybe
  <2>4. CASE NextDest(p, "dropout")
    BY <1>8, <2>1, <2>2, <2>3, <2>4, Renamed DEF PublishBack
  <2>5. CASE me' = [me EXCEPT ![p].clear = FALSE, ![p].box = None] /\ Goto(p, "syncout")
    <3> DEFINE m == [me[p] EXCEPT !.clear = FALSE, !.box = None]
    <3>1. m \in Locals
      BY <2>1 DEF Locals, Maybe
    <3>2. m.name \in Name
      BY <2>1 DEF Locals
    <3>3. me' = [me EXCEPT ![p] = m] /\ Ready("syncout", m)
      BY <2>5, <3>2 DEF ProcsOK
    <3> QED
      BY <2>3, <2>5, <3>1, <3>3, Moves
  <2>6. CASE UNCHANGED me /\ Goto(p, "dropout")
    <3>1. me' = [me EXCEPT ![p] = me[p]] /\ Ready("dropout", me[p])
      BY <2>1, <2>6 DEF ProcsOK
    <3> QED
      BY <2>1, <2>3, <2>6, <3>1, Moves
  <2> QED
    BY <1>8, <2>4, <2>5, <2>6 DEF PublishBack
<1>9. CASE DropOut(p)
  <2> DEFINE m == [me[p] EXCEPT !.box = None]
  <2>1. me[p] \in Locals /\ me[p].box \in Obj
    BY <1>9, Here DEF DropOut
  <2>2. m \in Locals
    BY <2>1 DEF Locals, Maybe
  <2>3. me' = [me EXCEPT ![p] = m] /\ Ready("unlock", m)
    BY <1>9 DEF DropOut
  <2>4. DiskOK'
    BY <1>9, <2>1 DEF DropOut, DiskOK, bounds, Maybe
  <2> QED
    BY <1>9, <2>2, <2>3, <2>4, Moves DEF DropOut
<1>10. CASE SyncOut(p)
  <2>1. DiskOK'
    BY <1>10 DEF SyncOut, DiskOK, disk, bounds
  <2>2. me[p].name \in Name
    BY <1>10, Here DEF SyncOut
  <2> QED
    BY <1>10, <2>1, <2>2, Jumps DEF SyncOut
<1> QED
  BY <1>1, <1>2, <1>3, <1>4, <1>5, <1>6, <1>7, <1>8, <1>9, <1>10 DEF RestoreStep

-----------------------------------------------------------------------------
(* A deleter's calls need a candidate, which comes from a listed entry.    *)
LEMMA EntryTyped ==
  ASSUME DiskOK, NEW k \in Name, NEW kind \in {"item", "orphan", "dangling"}
  PROVE  /\ Entry(kind, k) \in Listed
         /\ [Entry(kind, k) EXCEPT !.info = None] \in Listed
<1>1. /\ files[k] \in Maybe(Obj) /\ info[k] \in Maybe(Info)
      /\ Content(k) \in Maybe(Data)
  BY DEF DiskOK, Content, Maybe
<1> QED
  BY <1>1 DEF Entry, Listed, Maybe

LEMMA CollectReady ==
  ASSUME ProcsOK, NEW p \in Proc, NEW S \in SUBSET Slot, Collect(p, S)
  PROVE  ProcsOK'
<1> DEFINE T == me[p].tombs \cup S
           m == [me[p] EXCEPT !.tombs = T, !.cur = None]
<1>1. me[p] \in Locals /\ T \in SUBSET Slot /\ None \in Maybe(Listed)
  BY Here DEF Locals, Maybe
<1>2. m \in Locals
  <2> HIDE DEF T
  <2> QED
    BY <1>1 DEF Locals
<1>3. /\ me' = [me EXCEPT ![p] = m]
      /\ pc' = [pc EXCEPT ![p] = "unlockx"]
  BY DEF Collect, Goto, ProcsOK
<1>4. "unlockx" \in PC /\ Ready("unlockx", m)
  BY DEF Ready, PC, ExclusivePC, NamePC, DirPC, PutPC, BoxPC, TombPC, ReservingPC, TakenPC
<1> HIDE DEF m
<1> QED
  BY <1>2, <1>3, <1>4, Moves

LEMMA DeleteTyped ==
  ASSUME TypeOK, NEW p \in Proc, DeleteStep(p)
  PROVE  TypeOK'
<1> USE DEF TypeOK, Ready, NamePC, DirPC, PutPC, BoxPC, TombPC, ReservingPC,
            TakenPC, SharedPC, ExclusivePC, PC, Goto
<1>1. CASE ScanInfo(p)
  <2> DEFINE D == {Entry(IF files[k] = None THEN "dangling" ELSE "item", k) :
                     k \in {n \in Name : info[n] # None}}
             m == [me[p] EXCEPT !.doomed = D]
  <2>1. D \subseteq Listed
    BY EntryTyped
  <2> HIDE DEF D
  <2>2. m \in Locals
    BY <2>1, Here DEF Locals
  <2>3. me' = [me EXCEPT ![p] = m] /\ Ready("listed", m)
    BY <1>1 DEF ScanInfo, D
  <2>4. DiskOK'
    BY <1>1, ConstantsAssumption DEF ScanInfo, DiskOK, disk
  <2> QED
    BY <1>1, <2>2, <2>3, <2>4, Moves DEF ScanInfo
<1>2. CASE Choose(p)
  <2> DEFINE named == {d.name : d \in me[p].doomed}
             orphans == {Entry("orphan", k) :
                           k \in {n \in Name \ named : files[n] # None}}
             items == {d \in me[p].doomed : d.kind = "item"}
             dangling == me[p].doomed \ items
             loose == {[d EXCEPT !.info = None] : d \in orphans}
  <2>1. PICK D \in SUBSET (items \cup loose \cup dangling) :
               me' = [me EXCEPT ![p].doomed = D]
    <3>1. PICK sel \in SUBSET (items \cup loose) :
                 me' = [me EXCEPT ![p].doomed =
                          IF p \in Emptiers THEN sel \cup dangling ELSE sel]
      BY <1>2 DEF Choose
    <3> HIDE DEF items, loose, dangling
    <3> QED
      BY <3>1
  <2>2. me[p] \in Locals /\ me[p].doomed \subseteq Listed
    BY Here DEF Locals
  <2>3. loose \subseteq Listed
    <3> SUFFICES ASSUME NEW d \in orphans PROVE [d EXCEPT !.info = None] \in Listed
      OBVIOUS
    <3>1. PICK k \in Name : d = Entry("orphan", k)
      OBVIOUS
    <3> QED
      BY <3>1, EntryTyped
  <2>4. D \subseteq Listed
    BY <2>1, <2>2, <2>3
  <2> HIDE DEF items, loose, dangling
  <2> DEFINE m == [me[p] EXCEPT !.doomed = D]
  <2>5. m \in Locals
    BY <2>2, <2>4 DEF Locals
  <2>6. me' = [me EXCEPT ![p] = m] /\ Ready("waitx", m)
    BY <2>1
  <2>7. DiskOK'
    BY <1>2 DEF Choose, DiskOK, disk, bounds
  <2>8. pc' = [pc EXCEPT ![p] = "waitx"]
    BY <1>2 DEF Choose
  <2> QED
    BY <2>5, <2>6, <2>7, <2>8, Moves
<1>3. CASE Declined(p) \/ Done(p)
  BY <1>3, Returns DEF Declined, Done, DiskOK, disk, bounds
<1>4. CASE DeleteLock(p)
  <2>1. DiskOK'
    BY <1>4, Unlocks DEF DeleteLock, DiskOK, disk, bounds
  <2> QED
    BY <1>4, <2>1, Jumps DEF DeleteLock
<1>5. CASE CheckDoomed(p)
  <2>1. PICK d \in me[p].doomed :
          \/ /\ me' = [me EXCEPT ![p].cur = d, ![p].name = d.name,
                                 ![p].doomed = @ \ {d}]
             /\ Goto(p, IF d.kind = "dangling" THEN "drop" ELSE "doom")
          \/ /\ me' = [me EXCEPT ![p].doomed = @ \ {d}]
             /\ UNCHANGED pc
    BY <1>5 DEF CheckDoomed
  <2>2. me[p] \in Locals /\ d \in Listed /\ me[p].doomed \ {d} \in SUBSET Listed
    BY Here DEF Locals
  <2>3. d.name \in Name /\ d.name \in 0..(MaxName + 1) /\ d \in Maybe(Listed)
    BY <2>2, ConstantsAssumption DEF Listed, Maybe, Name
  <2>4. DiskOK'
    BY <1>5 DEF CheckDoomed, DiskOK, disk, bounds
  <2>5. CASE /\ me' = [me EXCEPT ![p].cur = d, ![p].name = d.name,
                                 ![p].doomed = @ \ {d}]
             /\ Goto(p, IF d.kind = "dangling" THEN "drop" ELSE "doom")
    <3> DEFINE D == me[p].doomed \ {d}
               m == [me[p] EXCEPT !.cur = d, !.name = d.name, !.doomed = D]
    <3>1. m \in Locals
      BY <2>2, <2>3, SetDoomed
    <3>2. m.name \in Name /\ m.cur \in Listed
      BY <2>2, <2>3 DEF Locals
    <3>3. me' = [me EXCEPT ![p] = m]
      BY <2>5 DEF ProcsOK
    <3>4. Ready("drop", m) /\ Ready("doom", m)
      BY <3>2
    <3>5. PICK l \in {"drop", "doom"} : pc' = [pc EXCEPT ![p] = l]
      BY <2>5
    <3> HIDE DEF m
    <3> QED
      BY <2>4, <3>1, <3>3, <3>4, <3>5, Moves
  <2>6. CASE me' = [me EXCEPT ![p].doomed = @ \ {d}] /\ UNCHANGED pc
    <3> DEFINE m == [me[p] EXCEPT !.doomed = @ \ {d}]
    <3>1. m \in Locals
      BY <2>2 DEF Locals
    <3>2. me' = [me EXCEPT ![p] = m] /\ pc' = [pc EXCEPT ![p] = "next"]
      BY <1>5, <2>6 DEF CheckDoomed, ProcsOK
    <3>3. Ready("next", m)
      OBVIOUS
    <3> QED
      BY <2>4, <3>1, <3>2, <3>3, Moves
  <2> QED
    BY <2>1, <2>5, <2>6
<1>6. CASE Doom(p)
  <2>1. me[p] \in Locals /\ me[p].name \in Name /\ me[p].cur \in Listed
    BY <1>6, Here DEF Doom
  <2>2. CASE Goto(p, "next") /\ UNCHANGED <<stage, files, me, released>>
    <3>1. DiskOK'
      BY <1>6, <2>2 DEF Doom, DiskOK
    <3> QED
      BY <2>2, <3>1, Jumps
  <2>3. CASE /\ FreeSlots # {}
             /\ stage' = [stage EXCEPT ![NewSlot] = [kind |-> "del", obj |-> files[me[p].name]]]
             /\ files' = [files EXCEPT ![me[p].name] = None]
             /\ me' = [me EXCEPT ![p].tombs = @ \cup {NewSlot}]
             /\ released' = released \cup ({me[p].cur.data} \ {None})
             /\ Goto(p, IF me[p].cur.kind = "item" THEN "drop" ELSE "next")
    <3> DEFINE m == [me[p] EXCEPT !.tombs = @ \cup {NewSlot}]
    <3>1. NewSlot \in Slot
      BY <2>3, Fresh
    <3>2. m \in Locals
      BY <2>1, <3>1 DEF Locals
    <3>3. m.name \in Name
      BY <2>1 DEF Locals
    <3>4. released' \subseteq Data
      BY <2>1, <2>3 DEF Listed, DiskOK, Maybe
    <3>5. stage' \in [Slot -> StageEntry] /\ files' \in [Name -> Maybe(Obj)]
      BY <2>1, <2>3, <3>1 DEF DiskOK, StageEntry, Maybe
    <3>6. DiskOK'
      BY <1>6, <3>4, <3>5 DEF Doom, DiskOK
    <3>7. me' = [me EXCEPT ![p] = m] /\ Ready("drop", m) /\ Ready("next", m)
      BY <2>3, <3>3
    <3>8. PICK l \in {"drop", "next"} : pc' = [pc EXCEPT ![p] = l]
      BY <2>3
    <3> HIDE DEF m
    <3> QED
      BY <3>2, <3>6, <3>7, <3>8, Moves
  <2> QED
    BY <1>6, <2>2, <2>3 DEF Doom
<1>7. CASE DropInfo(p)
  <2>1. me[p].name \in Name
    BY <1>7, Here DEF DropInfo
  <2>2. DiskOK'
    BY <1>7, <2>1 DEF DropInfo, DiskOK, bounds, Maybe
  <2> QED
    BY <1>7, <2>2, Jumps DEF DropInfo
<1>8. CASE CleanStaging(p)
  <2>1. DiskOK'
    BY <1>8 DEF CleanStaging, Collect, DiskOK, bounds, StageEntry
  <2> QED
    BY <1>8, <2>1, CollectReady DEF CleanStaging, Garbage
<1>9. CASE DeleteUnlock(p)
  <2>1. DiskOK'
    BY <1>9, Unlocks DEF DeleteUnlock, DiskOK, disk, bounds
  <2> QED
    BY <1>9, <2>1, Jumps DEF DeleteUnlock
<1>10. CASE Sweep(p)
  <2> DEFINE s == CHOOSE t \in me[p].tombs : TRUE
             T == me[p].tombs \ {s}
             m == [me[p] EXCEPT !.tomb = s, !.victim = stage[s].obj, !.tombs = T]
  <2>1. me[p] \in Locals /\ me[p].tombs \in SUBSET Slot
    BY Here DEF Locals
  <2>2. s \in me[p].tombs
    BY <1>10 DEF Sweep
  <2> HIDE DEF s
  <2>3. /\ s \in Slot /\ s \in Maybe(Slot) /\ stage[s].obj \in Maybe(Obj)
        /\ T \in SUBSET Slot
    BY <2>1, <2>2 DEF DiskOK, StageEntry, Maybe
  <2>4. m \in Locals
    BY <2>1, <2>3, SetVictim
  <2>5. me' = [me EXCEPT ![p] = m] /\ pc' = [pc EXCEPT ![p] = "burn"]
    BY <1>10 DEF Sweep, ProcsOK, s
  <2>6. DiskOK' /\ Ready("burn", m)
    BY <1>10 DEF Sweep, DiskOK, disk, bounds
  <2> QED
    BY <2>4, <2>5, <2>6, Moves
<1>11. CASE Burn(p)
  <2> DEFINE m == [me[p] EXCEPT !.tomb = None, !.victim = None]
  <2>1. m \in Locals
    <3>1. me[p] \in Locals /\ None \in Maybe(Slot) /\ None \in Maybe(Obj)
      BY Here DEF Maybe
    <3> QED
      BY <3>1 DEF Locals
  <2>2. me' = [me EXCEPT ![p] = m] /\ Ready("sweep", m)
    BY <1>11 DEF Burn, ProcsOK
  <2>3. DiskOK'
    BY <1>11 DEF Burn, Without, DiskOK, bounds, StageEntry, NoEntry, Maybe
  <2>4. pc' = [pc EXCEPT ![p] = "sweep"]
    BY <1>11 DEF Burn
  <2> QED
    BY <2>1, <2>2, <2>3, <2>4, Moves
<1> QED
  BY <1>1, <1>2, <1>3, <1>4, <1>5, <1>6, <1>7, <1>8, <1>9, <1>10, <1>11, SMTT(30)
  DEF DeleteStep

-----------------------------------------------------------------------------
(* The end of an operation, a crash, and other programs.                   *)
LEMMA SharedTyped ==
  ASSUME TypeOK, NEW p \in Proc, Finish(p) \/ FallbackStat(p) \/ Crash(p)
  PROVE  TypeOK'
<1> USE DEF TypeOK
<1>1. CASE Finish(p)
  BY <1>1, Returns, Unlocks DEF Finish, DiskOK, disk, bounds
<1>2. CASE FallbackStat(p)
  <2> DEFINE m == [me[p] EXCEPT !.clear = TRUE]
  <2>1. pc[p] \in PC /\ me[p] \in Locals /\ Ready(pc[p], me[p])
    BY Here
  <2>2. m \in Locals /\ Ready(pc[p], m)
    BY <2>1 DEF Locals, Ready
  <2>3. me' = [me EXCEPT ![p] = m] /\ pc' = [pc EXCEPT ![p] = pc[p]]
    BY <1>2 DEF FallbackStat, ProcsOK
  <2>4. DiskOK'
    BY <1>2 DEF FallbackStat, DiskOK, disk, bounds
  <2> QED
    BY <2>1, <2>2, <2>3, <2>4, Moves
<1>3. CASE Crash(p)
  BY <1>3, Returns, Unlocks DEF Crash, Slips, DiskOK, disk
<1> QED
  BY <1>1, <1>2, <1>3

(* A clean-up call that fails leaves files/, info/, the users' directories *)
(* and the lock alone, and the process goes on as if it had succeeded.     *)
SlipTo ==
  {<<"advance", "claim">>, <<"release", "unlock">>, <<"release", "dropbox">>,
   <<"exdev", "unlockcp">>, <<"putback", "unlock">>, <<"unlink", "unlock">>,
   <<"unlink", "rm">>, <<"rm", "unlock">>, <<"mkbox", "unlock">>,
   <<"sync", "source">>, <<"sync", "unlock">>, <<"dropbox", "unlock">>,
   <<"dropout", "unlock">>, <<"drop", "next">>, <<"next", "unlockx">>,
   <<"burn", "sweep">>}

LEMMA SlipLeaves ==
  ASSUME NEW p \in Proc, Slip(p)
  PROVE  UNCHANGED <<files, info, place, lock>> /\ Slips
BY DEF Slip, ReleaseFails, BoxFails, DropOutFails, DeleteFails, DiscardFails, Collect,
       disk

LEMMA SlipMoves ==
  ASSUME ProcsOK, NEW p \in Proc, Slip(p)
  PROVE  /\ \A q \in Proc \ {p} : pc'[q] = pc[q] /\ me'[q] = me[q]
         /\ <<pc[p], pc'[p]>> \in SlipTo
<1> USE DEF Goto, SlipTo
<1>0. pc \in [Proc -> PC] /\ me \in [Proc -> Locals]
  BY DEF ProcsOK
<1>1. CASE ReleaseFails(p)
  BY <1>0, <1>1 DEF ReleaseFails, LetsGo
<1>2. CASE BoxFails(p)
  BY <1>0, <1>2 DEF BoxFails
<1>3. CASE DropOutFails(p)
  BY <1>0, <1>3 DEF DropOutFails
<1>4. CASE DeleteFails(p)
  BY <1>0, <1>4 DEF DeleteFails, Collect
<1>5. CASE DiscardFails(p)
  BY <1>0, <1>5 DEF DiscardFails, AfterInfo
<1> QED
  BY <1>1, <1>2, <1>3, <1>4, <1>5 DEF Slip

LEMMA SlipTyped ==
  ASSUME TypeOK, NEW p \in Proc, Slip(p)
  PROVE  TypeOK'
<1> USE DEF TypeOK, Ready, NamePC, DirPC, PutPC, BoxPC, TombPC, ReservingPC,
            TakenPC, SharedPC, PC, Goto
<1>1. me[p] \in Locals
  BY Here
<1>2. CASE ReleaseFails(p)
  <2>1. DiskOK'
    BY <1>2 DEF ReleaseFails, Slips, DiskOK, disk
  <2> QED
    BY <1>2, <2>1, LetsGoReady DEF ReleaseFails
<1>3. CASE BoxFails(p)
  <2>1. DiskOK'
    BY <1>3, Fresh DEF BoxFails, NewBox, BreaksOff, Without, Slips, DiskOK, StageEntry,
                       Maybe
  <2>2. CASE pc[p] = "sync"
    <3> DEFINE m == [me[p] EXCEPT !.slot = None]
    <3>1. m \in Locals /\ m.name \in Name /\ m.dir \in Dir
      BY <1>1, <2>2, Here DEF Locals, Maybe
    <3>2. /\ me' = [me EXCEPT ![p] = m]
          /\ Ready("source", m) /\ Ready("unlock", m)
      BY <1>3, <2>2, <3>1 DEF BoxFails
    <3> QED
      BY <1>3, <2>1, <2>2, <3>1, <3>2, Moves DEF BoxFails
  <2>3. CASE pc[p] # "sync"
    BY <1>3, <2>1, <2>3, Jumps DEF BoxFails
  <2> QED
    BY <2>2, <2>3
<1>4. CASE DropOutFails(p)
  <2> DEFINE m == [me[p] EXCEPT !.box = None]
  <2>1. m \in Locals /\ Ready("unlock", m) /\ me' = [me EXCEPT ![p] = m]
    BY <1>1, <1>4 DEF DropOutFails, Locals, Maybe
  <2>2. DiskOK'
    BY <1>4 DEF DropOutFails, Slips, DiskOK, disk
  <2> QED
    BY <1>4, <2>1, <2>2, Moves DEF DropOutFails
<1>5. CASE DeleteFails(p)
  <2>1. CASE pc[p] = "drop"
    <3>1. UNCHANGED <<disk, lock, me>> /\ Goto(p, "next") /\ Slips
      BY <1>5, <2>1 DEF DeleteFails, Collect
    <3>2. DiskOK'
      BY <3>1 DEF Slips, DiskOK, disk
    <3> QED
      BY <3>1, <3>2, Jumps DEF ExclusivePC
  <2>2. ASSUME NEW S \in SUBSET Garbage, Collect(p, S) PROVE TypeOK'
    <3>1. S \in SUBSET Slot
      BY DEF Garbage
    <3>2. DiskOK'
      BY <1>5, <2>2, <3>1 DEF DeleteFails, Collect, Slips, DiskOK, StageEntry
    <3> QED
      BY <2>2, <3>1, <3>2, CollectReady
  <2>3. CASE pc[p] = "burn"
    <3> DEFINE m == [me[p] EXCEPT !.tomb = None, !.victim = None]
    <3>1. /\ me' = [me EXCEPT ![p].tomb = None, ![p].victim = None]
          /\ pc' = [pc EXCEPT ![p] = "sweep"]
          /\ BreaksOff(me[p].victim) /\ Slips
          /\ UNCHANGED <<files, info, stage, place, lock>>
      BY <1>5, <2>3 DEF DeleteFails, Collect
    <3>2. m \in Locals
      <4>1. None \in Maybe(Slot) /\ None \in Maybe(Obj) /\ me[p] \in Locals
        BY <1>1 DEF Maybe
      <4> QED
        BY <4>1 DEF Locals
    <3>3. me' = [me EXCEPT ![p] = m] /\ Ready("sweep", m)
      BY <3>1 DEF ProcsOK
    <3>4. DiskOK'
      BY <3>1 DEF BreaksOff, Without, Slips, DiskOK, Maybe
    <3> QED
      BY <3>1, <3>2, <3>3, <3>4, Moves
  <2> QED
    BY <1>5, <2>1, <2>2, <2>3 DEF DeleteFails
<1>6. CASE DiscardFails(p)
  <2>1. DiskOK'
    BY <1>6 DEF DiscardFails, BreaksOff, Without, Slips, DiskOK, Maybe
  <2>2. me[p].tomb # None => me[p].tomb \in Slot
    BY <1>1 DEF Locals, Maybe
  <2>3. /\ AfterInfo(p) \in PC /\ Ready(AfterInfo(p), me[p])
        /\ Ready("unlock", me[p])
    BY <2>2 DEF AfterInfo
  <2>4. PICK l \in {"unlock", AfterInfo(p)} : Goto(p, l) /\ UNCHANGED me
    BY <1>6 DEF DiscardFails
  <2>5. l \in PC /\ Ready(l, me[p])
    BY <2>3, <2>4
  <2> HIDE DEF Goto, Ready, PC
  <2> QED
    BY <2>1, <2>4, <2>5, Jumps
<1> QED
  BY <1>2, <1>3, <1>4, <1>5, <1>6 DEF Slip

LEMMA OthersTyped ==
  ASSUME TypeOK, Others
  PROVE  TypeOK'
<1> USE DEF TypeOK
<1>1. ASSUME NEW d \in Dir, Save(d) PROVE TypeOK'
  <2>1. <<d, 0>> \in Place
    BY ConstantsAssumption DEF Place, Name
  <2>2. DiskOK'
    BY <1>1, <2>1, Fresh DEF Save, NewData, DiskOK, Maybe
  <2> QED
    BY <1>1, <2>2 DEF Save, ProcsOK
<1>2. ASSUME NEW d \in Dir, EditInPlace(d) PROVE TypeOK'
  <2>1. <<d, 0>> \in Place
    BY ConstantsAssumption DEF Place, Name
  <2>2. DiskOK'
    BY <1>2, <2>1 DEF EditInPlace, NewData, DiskOK, Maybe
  <2> QED
    BY <1>2, <2>2 DEF EditInPlace, ProcsOK
<1>3. ASSUME NEW k \in Name, StrayDrop(k) PROVE TypeOK'
  <2>1. DiskOK'
    BY <1>3, ConstantsAssumption DEF StrayDrop, DiskOK, Maybe
  <2> QED
    BY <1>3, <2>1 DEF StrayDrop, ProcsOK
<1> QED
  BY <1>1, <1>2, <1>3 DEF Others

(* Every variable of Rip keeps its type, and no call of a command is       *)
(* reached without the candidate below the limit, the directory, the copy  *)
(* box or the tombstone it works on.                                       *)
THEOREM TypeCorrect == Spec => []TypeOK
<1>1. TypeOK /\ [Next]_vars => TypeOK'
  <2> SUFFICES ASSUME TypeOK, [Next]_vars PROVE TypeOK'
    OBVIOUS
  <2>1. CASE UNCHANGED vars
    BY <2>1 DEF vars, TypeOK, DiskOK, ProcsOK
  <2>2. CASE Others
    BY <2>2, OthersTyped
  <2>3. ASSUME NEW p \in Proc, Step(p) \/ Slip(p) \/ Crash(p) PROVE TypeOK'
    BY <2>3, PutTyped, ReserveTyped, DiscardTyped, RestoreTyped, DeleteTyped,
       SharedTyped, SlipTyped DEF Step
  <2> QED
    BY <2>1, <2>2, <2>3 DEF Next
<1> QED
  BY <1>1, InitTyped, PTL DEF Spec

-----------------------------------------------------------------------------
(* What one process's step does to the others, to the lock, and to where   *)
(* the process is with respect to the locked sections.                     *)
Alone(p) == \A q \in Proc \ {p} :
  pc'[q] = pc[q] /\ me'[q] = me[q]

Region(p) ==
  \/ /\ UNCHANGED lock
     /\ pc'[p] \in SharedPC => pc[p] \in SharedPC
     /\ pc'[p] \in ExclusivePC => pc[p] \in ExclusivePC
  \/ LockShared(p) /\ pc'[p] \in SharedPC
  \/ LockExclusive(p) /\ pc'[p] \in ExclusivePC
  \/ Unlock(p) /\ pc'[p] \notin SharedPC \cup ExclusivePC

LEMMA PutRegion ==
  ASSUME ProcsOK, NEW p \in Proc, PutStep(p) \/ ReserveStep(p)
  PROVE  Alone(p) /\ Region(p)
<1> USE DEF Alone, Region, Goto, SharedPC, ExclusivePC, ReservingPC, TakenPC, PC
<1>0. pc \in [Proc -> PC] /\ me \in [Proc -> Locals] /\ DOMAIN me = Proc
  BY DEF ProcsOK
<1>1. ASSUME NEW d \in Dir, PutStart(p, d) PROVE Alone(p) /\ Region(p)
  BY <1>0, <1>1 DEF PutStart
<1>2. CASE PutLock(p)
  BY <1>0, <1>2 DEF PutLock
<1>3. CASE MoveIn(p)
  BY <1>0, <1>3 DEF MoveIn
<1>4. CASE PutUnlock(p)
  BY <1>0, <1>4 DEF PutUnlock
<1>5. CASE Walk(p)
  BY <1>0, <1>5 DEF Walk
<1>6. CASE CopyDeclined(p)
  BY <1>0, <1>6 DEF CopyDeclined, Return
<1>7. CASE CopyLock(p)
  BY <1>0, <1>7 DEF CopyLock
<1>8. CASE MakeBox(p)
  BY <1>0, <1>8 DEF MakeBox
<1>9. CASE CopyIn(p)
  BY <1>0, <1>9 DEF CopyIn
<1>10. CASE Publish(p)
  BY <1>0, <1>10 DEF Publish
<1>11. CASE Capture(p)
  BY <1>0, <1>11 DEF Capture
<1>12. CASE SyncIn(p)
  BY <1>0, <1>12 DEF SyncIn
<1>13. CASE RemoveSource(p)
  BY <1>0, <1>13 DEF RemoveSource
<1>14. CASE DropBox(p)
  BY <1>0, <1>14 DEF DropBox
<1>15. CASE ClaimStat(p)
  BY <1>0, <1>15 DEF ClaimStat
<1>16. CASE ClaimOpen(p)
  BY <1>0, <1>16 DEF ClaimOpen
<1>17. CASE ClaimFails(p)
  BY <1>0, <1>17 DEF ClaimFails
<1>18. CASE Release(p)
  BY <1>0, <1>18 DEF Release, LetsGo
<1> QED
  BY <1>1, <1>2, <1>3, <1>4, <1>5, <1>6, <1>7, <1>8, <1>9, <1>10, <1>11, <1>12,
     <1>13, <1>14, <1>15, <1>16, <1>17, <1>18 DEF PutStep, ReserveStep

LEMMA RestoreRegion ==
  ASSUME ProcsOK, NEW p \in Proc,
         RestoreStep(p) \/ DiscardStep(p) \/ Finish(p) \/ FallbackStat(p) \/ Crash(p)
  PROVE  Alone(p) /\ Region(p)
<1> USE DEF Alone, Region, Goto, SharedPC, ExclusivePC, ReservingPC, TakenPC, PC
<1>0. pc \in [Proc -> PC] /\ me \in [Proc -> Locals] /\ DOMAIN me = Proc
  BY DEF ProcsOK
<1>1. ASSUME NEW k \in Name, ListItem(p, k) PROVE Alone(p) /\ Region(p)
  BY <1>0, <1>1 DEF ListItem
<1>2. CASE ReadInfo(p)
  BY <1>0, <1>2 DEF ReadInfo, Return
<1>3. CASE CheckDest(p)
  BY <1>0, <1>3 DEF CheckDest, Return
<1>4. CASE RestoreLock(p)
  BY <1>0, <1>4 DEF RestoreLock
<1>5. CASE Recheck(p)
  BY <1>0, <1>5 DEF Recheck
<1>6. CASE RenameBack(p)
  BY <1>0, <1>6 DEF RenameBack, NextDest
<1>7. CASE CopyBack(p)
  BY <1>0, <1>7 DEF CopyBack
<1>8. CASE PublishBack(p)
  BY <1>0, <1>8 DEF PublishBack, NextDest
<1>9. CASE DropOut(p)
  BY <1>0, <1>9 DEF DropOut
<1>10. CASE SyncOut(p)
  BY <1>0, <1>10 DEF SyncOut
<1>11. CASE Tombstone(p)
  BY <1>0, <1>11 DEF Tombstone
<1>12. CASE Verify(p)
  BY <1>0, <1>12 DEF Verify
<1>13. CASE PutBack(p)
  BY <1>0, <1>13 DEF PutBack
<1>14. CASE CheckInfo(p)
  BY <1>0, <1>14 DEF CheckInfo, AfterInfo
<1>15. CASE UnlinkInfo(p)
  BY <1>0, <1>15 DEF UnlinkInfo, AfterInfo
<1>16. CASE RemoveTomb(p)
  BY <1>0, <1>16 DEF RemoveTomb
<1>17. CASE Finish(p)
  BY <1>0, <1>17 DEF Finish, Return
<1>18. CASE FallbackStat(p)
  BY <1>0, <1>18 DEF FallbackStat
<1>19. CASE Crash(p)
  BY <1>0, <1>19 DEF Crash, Return
<1> QED
  BY <1>1, <1>2, <1>3, <1>4, <1>5, <1>6, <1>7, <1>8, <1>9, <1>10, <1>11, <1>12,
     <1>13, <1>14, <1>15, <1>16, <1>17, <1>18, <1>19 DEF RestoreStep, DiscardStep

LEMMA DeleteRegion ==
  ASSUME ProcsOK, NEW p \in Proc, DeleteStep(p)
  PROVE  Alone(p) /\ Region(p)
<1> USE DEF Alone, Region, Goto, SharedPC, ExclusivePC, ReservingPC, TakenPC, PC
<1>0. pc \in [Proc -> PC] /\ me \in [Proc -> Locals] /\ DOMAIN me = Proc
  BY DEF ProcsOK
<1>1. CASE ScanInfo(p)
  BY <1>0, <1>1 DEF ScanInfo
<1>2. CASE Choose(p)
  BY <1>0, <1>2 DEF Choose
<1>3. CASE Declined(p)
  BY <1>0, <1>3 DEF Declined, Return
<1>4. CASE DeleteLock(p)
  BY <1>0, <1>4 DEF DeleteLock
<1>5. CASE CheckDoomed(p)
  BY <1>0, <1>5 DEF CheckDoomed
<1>6. CASE Doom(p)
  BY <1>0, <1>6 DEF Doom
<1>7. CASE DropInfo(p)
  BY <1>0, <1>7 DEF DropInfo
<1>8. CASE CleanStaging(p)
  BY <1>0, <1>8 DEF CleanStaging, Collect
<1>9. CASE DeleteUnlock(p)
  BY <1>0, <1>9 DEF DeleteUnlock
<1>10. CASE Sweep(p)
  BY <1>0, <1>10 DEF Sweep
<1>11. CASE Burn(p)
  BY <1>0, <1>11 DEF Burn
<1>12. CASE Done(p)
  BY <1>0, <1>12 DEF Done, Return
<1> QED
  BY <1>1, <1>2, <1>3, <1>4, <1>5, <1>6, <1>7, <1>8, <1>9, <1>10, <1>11, <1>12
  DEF DeleteStep

LEMMA SlipRegion ==
  ASSUME ProcsOK, NEW p \in Proc, Slip(p)
  PROVE  Alone(p) /\ Region(p)
BY SlipLeaves, SlipMoves
DEF SlipTo, Alone, Region, SharedPC, ExclusivePC, ReservingPC, TakenPC

LEMMA StepRegion ==
  ASSUME ProcsOK, NEW p \in Proc, Step(p) \/ Slip(p) \/ Crash(p)
  PROVE  Alone(p) /\ Region(p)
BY PutRegion, RestoreRegion, DeleteRegion, SlipRegion DEF Step

-----------------------------------------------------------------------------
(* In a locked section a process holds the lock of its kind, and an        *)
(* exclusive lock is the only one.                                         *)
Locked ==
  \A p \in Proc :
    /\ pc[p] \in SharedPC => lock[p] = "SH"
    /\ pc[p] \in ExclusivePC => lock[p] = "EX"
    /\ lock[p] = "EX" => \A q \in Proc \ {p} : lock[q] = "none"

LEMMA LockedExcludes == Locked => Exclusion
BY DEF Locked, Exclusion

LEMMA LockedStep ==
  ASSUME HasFlock, TypeOK, Locked, NEW p \in Proc, Alone(p), Region(p)
  PROVE  Locked'
<1> USE DEF TypeOK, DiskOK, ProcsOK
<1>1. CASE UNCHANGED lock /\ (pc'[p] \in SharedPC => pc[p] \in SharedPC)
                          /\ (pc'[p] \in ExclusivePC => pc[p] \in ExclusivePC)
  BY <1>1 DEF Locked, Alone
<1>2. CASE LockShared(p) /\ pc'[p] \in SharedPC
  BY <1>2 DEF Locked, Alone, LockShared, SharedPC, ExclusivePC, ReservingPC, TakenPC
<1>3. CASE LockExclusive(p) /\ pc'[p] \in ExclusivePC
  BY <1>3 DEF Locked, Alone, LockExclusive, SharedPC, ExclusivePC, ReservingPC, TakenPC
<1>4. CASE Unlock(p) /\ pc'[p] \notin SharedPC \cup ExclusivePC
  BY <1>4 DEF Locked, Alone, Unlock
<1> QED
  BY <1>1, <1>2, <1>3, <1>4 DEF Region

LEMMA LockedNext == HasFlock /\ TypeOK /\ Locked /\ [Next]_vars => Locked'
<1> SUFFICES ASSUME HasFlock, TypeOK, Locked, [Next]_vars PROVE Locked'
  OBVIOUS
<1>1. CASE UNCHANGED vars
  BY <1>1 DEF vars, Locked
<1>2. CASE Others
  <2>1. UNCHANGED <<pc, lock>>
    BY <1>2 DEF Others, Save, EditInPlace, StrayDrop
  <2> QED
    BY <2>1 DEF Locked
<1>3. ASSUME NEW p \in Proc, Step(p) \/ Slip(p) \/ Crash(p) PROVE Locked'
  BY <1>3, StepRegion, LockedStep DEF TypeOK
<1> QED
  BY <1>1, <1>2, <1>3 DEF Next

LEMMA LockedAlways == HasFlock /\ Spec => []Locked
<1> SUFFICES ASSUME HasFlock PROVE Spec => []Locked
  OBVIOUS
<1>1. Init => Locked
  BY DEF Init, Locked, SharedPC, ExclusivePC, ReservingPC, TakenPC
<1>2. TypeOK /\ Locked /\ [Next]_vars => Locked'
  BY LockedNext
<1> QED
  BY <1>1, <1>2, TypeCorrect, PTL DEF Spec

(* On a filesystem with flock, no process is in an exclusive section while *)
(* another is anywhere under a lock, whatever commands run, fail or are    *)
(* killed.                                                                 *)
THEOREM ExclusionHolds == HasFlock /\ Spec => []Exclusion
BY LockedExcludes, LockedAlways, PTL

-----------------------------------------------------------------------------
(* The inductive invariant about names.  InfoOrder alone is not inductive: *)
(* a step that publishes under a name, or unlinks its .trashinfo, keeps it *)
(* only because the process holds the name, and nobody else does.          *)
Named == \A k \in Name : files[k] # None => info[k] # None
Held == \A p \in Proc, k \in Name :
          Holding(p, k) => files[k] = None /\ info[k] # None
Single == \A p, q \in Proc, k \in Name : Holding(p, k) /\ Holding(q, k) => p = q
Names == Named /\ Held /\ Single

LEMMA NamesImply == ASSUME Names, TypeOK, Stray = {} PROVE InfoOrder /\ OneHolder
<1>1. InfoOrder
  BY ConstantsAssumption DEF Names, Named, InfoOrder
<1>2. OneHolder
  BY DEF Names, Held, Single, OneHolder
<1> QED
  BY <1>1, <1>2

(* A step that leaves the names alone and does not take hold of one.       *)
Quiet(p) ==
  /\ UNCHANGED <<files, info>>
  /\ pc'[p] \in HoldPC => pc[p] \in HoldPC /\ me'[p].name = me[p].name

LEMMA QuietNames ==
  ASSUME Names, NEW p \in Proc, Alone(p), Quiet(p)
  PROVE  Names'
<1>1. \A q \in Proc, k \in Name : Holding(q, k)' => Holding(q, k)
  BY DEF Alone, Quiet, Holding
<1> QED
  BY <1>1 DEF Names, Named, Held, Single, Quiet

(* A step by the one process that holds k, after which it does not: it     *)
(* publishes an entry under k, or unlinks the .trashinfo.                  *)
LEMMA SettleNames ==
  ASSUME Names, TypeOK, NEW p \in Proc, NEW k \in Name, Alone(p),
         Holding(p, k), pc'[p] \notin HoldPC,
         NEW o \in Maybe(Obj), NEW i \in Maybe(Info),
         files' = [files EXCEPT ![k] = o], info' = [info EXCEPT ![k] = i],
         o # None => i # None
  PROVE  Names'
<1>1. \A q \in Proc, n \in Name : Holding(q, n)' => Holding(q, n) /\ n # k
  BY DEF Alone, Holding, Names, Single
<1> QED
  BY <1>1 DEF Names, Named, Held, Single, TypeOK, DiskOK

(* A step that takes hold of k: nobody held it, because there was an entry *)
(* under it, or no .trashinfo; afterwards there is a .trashinfo and no     *)
(* entry.                                                                  *)
LEMMA TakeNames ==
  ASSUME Names, TypeOK, NEW p \in Proc, NEW k \in Name, Alone(p),
         pc[p] \notin HoldPC, \A q \in Proc : ~Holding(q, k),
         me'[p].name = k, NEW i \in Info,
         files' = [files EXCEPT ![k] = None], info' = [info EXCEPT ![k] = i]
  PROVE  Names'
<1>1. \A q \in Proc, n \in Name : q # p => (Holding(q, n)' <=> Holding(q, n))
  BY DEF Alone, Holding
<1>2. \A n \in Name : Holding(p, n)' => n = k
  BY DEF Holding
<1>3. i # None
  BY ConstantsAssumption
<1>4. Named'
  BY <1>3 DEF Names, Named, TypeOK, DiskOK
<1>5. Held'
  BY <1>1, <1>2, <1>3 DEF Names, Held, TypeOK, DiskOK
<1>6. Single'
  BY <1>1, <1>2 DEF Names, Single
<1> QED
  BY <1>4, <1>5, <1>6 DEF Names

-----------------------------------------------------------------------------
LEMMA PutNames ==
  ASSUME TypeOK, Names, NEW p \in Proc, PutStep(p) \/ ReserveStep(p)
  PROVE  Names'
<1> USE DEF TypeOK, Goto, HoldPC, ReservingPC, TakenPC
<1>0. /\ pc \in [Proc -> PC] /\ me \in [Proc -> Locals] /\ DOMAIN me = Proc
      /\ Alone(p)
  BY PutRegion DEF ProcsOK
<1> DEFINE k == me[p].name
<1>1. ASSUME NEW d \in Dir, PutStart(p, d) PROVE Quiet(p)
  BY <1>0, <1>1 DEF PutStart, Quiet, disk
<1>2. CASE \/ PutLock(p) \/ PutUnlock(p) \/ Walk(p) \/ CopyDeclined(p)
           \/ CopyLock(p) \/ MakeBox(p) \/ CopyIn(p) \/ Capture(p)
  <2>1. UNCHANGED <<files, info>>
    BY <1>2 DEF PutLock, PutUnlock, Walk, CopyDeclined, CopyLock, MakeBox, CopyIn,
                Capture, disk
  <2>2. pc'[p] \notin HoldPC
    BY <1>0, <1>2 DEF PutLock, PutUnlock, Walk, CopyDeclined, CopyLock, MakeBox, CopyIn,
                Capture, Return
  <2> QED
    BY <1>0, <2>1, <2>2, QuietNames DEF Quiet
<1>3. CASE SyncIn(p) \/ RemoveSource(p) \/ DropBox(p) \/ ClaimStat(p) \/ ClaimFails(p)
  <2>1. UNCHANGED <<files, info>>
    BY <1>3 DEF SyncIn, RemoveSource, DropBox, ClaimStat, ClaimFails, disk
  <2>2. pc'[p] \notin HoldPC
    BY <1>0, <1>3 DEF SyncIn, RemoveSource, DropBox, ClaimStat, ClaimFails
  <2> QED
    BY <1>0, <2>1, <2>2, QuietNames DEF Quiet
<1>4. CASE MoveIn(p)
  <2>1. k \in Name /\ Holding(p, k) /\ Arg(p) \in Place
    BY <1>4, Here, ConstantsAssumption
    DEF MoveIn, Ready, NamePC, DirPC, PutPC, Holding, Arg, Place, Name
  <2>2. CASE UNCHANGED files /\ pc'[p] \in {"advance", "exdev", "release"}
    BY <1>0, <1>4, <2>2, QuietNames DEF MoveIn, Quiet
  <2>3. CASE files' = [files EXCEPT ![k] = place[Arg(p)]] /\ pc'[p] = "unlock"
    <3>1. place[Arg(p)] \in Maybe(Obj) /\ info[k] \in Maybe(Info) /\ info[k] # None
      BY <2>1 DEF DiskOK, Names, Held
    <3>2. info' = [info EXCEPT ![k] = info[k]]
      BY <1>4 DEF MoveIn, DiskOK
    <3> QED
      BY <1>0, <2>1, <2>3, <3>1, <3>2, SettleNames
  <2> QED
    BY <1>0, <1>4, <2>2, <2>3 DEF MoveIn
<1>5. CASE Publish(p)
  <2>1. k \in Name /\ Holding(p, k)
    BY <1>5, Here DEF Publish, Ready, NamePC, Holding
  <2>2. CASE UNCHANGED files /\ pc'[p] \in {"advance", "release"}
    BY <1>0, <1>5, <2>2, QuietNames DEF Publish, Quiet
  <2>3. CASE files' = [files EXCEPT ![k] = stage[me[p].slot].obj] /\ pc'[p] = "capture"
    <3>1. me[p].slot \in Slot
      BY <1>0, <1>5 DEF Publish, Locals, Maybe
    <3>2. /\ stage[me[p].slot].obj \in Maybe(Obj)
          /\ info[k] \in Maybe(Info) /\ info[k] # None
      BY <2>1, <3>1 DEF DiskOK, StageEntry, Names, Held
    <3>3. info' = [info EXCEPT ![k] = info[k]]
      BY <1>5 DEF Publish, DiskOK
    <3> QED
      BY <1>0, <2>1, <2>3, <3>2, <3>3, SettleNames
  <2> QED
    BY <1>0, <1>5, <2>2, <2>3 DEF Publish
<1>6. CASE ClaimOpen(p)
  <2>1. k \in Name /\ me[p].dir \in Dir
    BY <1>6, Here DEF ClaimOpen, Ready, NamePC, DirPC, PutPC
  <2>2. CASE UNCHANGED info /\ pc'[p] = "claim"
    BY <1>0, <1>6, <2>2, QuietNames DEF ClaimOpen, Quiet
  <2>3. CASE info[k] = None /\ FreeIds # {}
    <3> DEFINE new == [id |-> NewId, path |-> me[p].dir]
    <3>1. new \in Info
      BY <2>1, <2>3, Fresh DEF Info
    <3>2. info' = [info EXCEPT ![k] = new] /\ me'[p].name = k /\ pc[p] = "open"
      <4>1. info' = [info EXCEPT ![k] = new] /\ me' = [me EXCEPT ![p].info = new]
        BY <1>6, <2>3 DEF ClaimOpen
      <4> HIDE DEF new
      <4>2. me'[p].name = me[p].name
        BY <1>0, <4>1 DEF Locals
      <4> QED
        BY <1>6, <4>1, <4>2 DEF ClaimOpen
    <3>3. files[k] = None /\ \A q \in Proc : ~Holding(q, k)
      BY <2>1, <2>3 DEF Names, Named, Held
    <3>4. files' = [files EXCEPT ![k] = None]
      BY <1>6, <2>1, <3>3 DEF ClaimOpen, DiskOK
    <3> HIDE DEF new
    <3> QED
      BY <1>0, <2>1, <3>1, <3>2, <3>3, <3>4, TakeNames
  <2> QED
    BY <1>0, <1>6, <2>2, <2>3 DEF ClaimOpen
<1>7. CASE Release(p)
  <2>1. k \in Name /\ Holding(p, k)
    BY <1>7, Here DEF Release, LetsGo, Ready, NamePC, Holding
  <2>2. pc'[p] \notin HoldPC /\ info' = [info EXCEPT ![k] = None]
    BY <1>0, <1>7 DEF Release, LetsGo
  <2>3. files' = [files EXCEPT ![k] = None]
    BY <1>7, <2>1 DEF Release, DiskOK, Names, Held
  <2> QED
    BY <1>0, <2>1, <2>2, <2>3, SettleNames DEF Maybe
<1> QED
  BY <1>0, <1>1, <1>2, <1>3, <1>4, <1>5, <1>6, <1>7, QuietNames DEF PutStep, ReserveStep

LEMMA RestoreNames ==
  ASSUME TypeOK, Names, NEW p \in Proc,
         RestoreStep(p) \/ DiscardStep(p) \/ Finish(p) \/ FallbackStat(p) \/ Crash(p)
  PROVE  Names'
<1> USE DEF TypeOK, Goto, HoldPC, ReservingPC, TakenPC
<1>0. /\ pc \in [Proc -> PC] /\ me \in [Proc -> Locals] /\ DOMAIN me = Proc
      /\ Alone(p)
  BY RestoreRegion DEF ProcsOK
<1> DEFINE k == me[p].name
<1>1. ASSUME NEW n \in Name, ListItem(p, n) PROVE Quiet(p)
  BY <1>0, <1>1 DEF ListItem, Quiet, disk
<1>2. CASE \/ ReadInfo(p) \/ CheckDest(p) \/ RestoreLock(p) \/ Recheck(p)
           \/ CopyBack(p) \/ DropOut(p) \/ SyncOut(p)
  <2>1. UNCHANGED <<files, info>>
    BY <1>2 DEF ReadInfo, CheckDest, RestoreLock, Recheck, CopyBack, DropOut, SyncOut,
                disk
  <2>2. pc'[p] \notin HoldPC
    BY <1>0, <1>2 DEF ReadInfo, CheckDest, RestoreLock, Recheck, CopyBack, DropOut,
                      SyncOut, Return
  <2> QED
    BY <1>0, <2>1, <2>2, QuietNames DEF Quiet
<1>3. CASE PublishBack(p) \/ RemoveTomb(p) \/ Finish(p) \/ Crash(p)
  <2>1. UNCHANGED <<files, info>>
    BY <1>3 DEF PublishBack, RemoveTomb, Finish, Crash, disk
  <2>2. pc'[p] \notin HoldPC
    BY <1>0, <1>3 DEF PublishBack, NextDest, RemoveTomb, Finish, Crash, Return
  <2> QED
    BY <1>0, <2>1, <2>2, QuietNames DEF Quiet
<1>4. CASE Verify(p) \/ CheckInfo(p) \/ FallbackStat(p)
  <2>1. UNCHANGED <<files, info>>
    BY <1>4 DEF Verify, CheckInfo, FallbackStat, disk
  <2>2. me'[p].name = me[p].name
    BY <1>0, <1>4 DEF Verify, CheckInfo, FallbackStat, Locals
  <2>3. pc'[p] \in HoldPC => pc[p] \in HoldPC
    BY <1>0, <1>4 DEF Verify, CheckInfo, FallbackStat
  <2> QED
    BY <1>0, <2>1, <2>2, <2>3, QuietNames DEF Quiet
<1>5. CASE Tombstone(p)
  <2>1. k \in Name
    BY <1>5, Here DEF Tombstone, Ready, NamePC
  <2>2. CASE UNCHANGED files /\ pc'[p] = "unlock"
    BY <1>0, <1>5, <2>2, QuietNames DEF Tombstone, Quiet
  <2>3. CASE files[k] # None /\ files' = [files EXCEPT ![k] = None]
             /\ me' = [me EXCEPT ![p].tomb = NewSlot]
    <3>1. me'[p].name = k
      BY <1>0, <2>3 DEF Locals
    <3>2. info[k] \in Info /\ \A q \in Proc : ~Holding(q, k)
      BY <2>1, <2>3 DEF DiskOK, Maybe, Names, Named, Held
    <3>3. info' = [info EXCEPT ![k] = info[k]]
      BY <1>5 DEF Tombstone, DiskOK
    <3>4. pc[p] \notin HoldPC
      BY <1>5 DEF Tombstone
    <3> QED
      BY <1>0, <2>1, <2>3, <3>1, <3>2, <3>3, <3>4, TakeNames
  <2> QED
    BY <1>0, <1>5, <2>2, <2>3 DEF Tombstone
<1>6. CASE PutBack(p)
  <2>1. k \in Name /\ Holding(p, k) /\ me[p].tomb \in Slot
    BY <1>6, Here DEF PutBack, Ready, NamePC, TombPC, Holding
  <2>2. CASE UNCHANGED files
    BY <1>0, <1>6, <2>2, QuietNames DEF PutBack, Quiet
  <2>3. CASE files' = [files EXCEPT ![k] = stage[me[p].tomb].obj]
    <3>1. /\ stage[me[p].tomb].obj \in Maybe(Obj)
          /\ info[k] \in Maybe(Info) /\ info[k] # None
      BY <2>1 DEF DiskOK, StageEntry, Names, Held
    <3>2. info' = [info EXCEPT ![k] = info[k]] /\ pc'[p] = "unlock"
      BY <1>0, <1>6 DEF PutBack, DiskOK
    <3> QED
      BY <1>0, <2>1, <2>3, <3>1, <3>2, SettleNames
  <2> QED
    BY <1>6, <2>2, <2>3 DEF PutBack
<1>7. CASE UnlinkInfo(p)
  <2>1. k \in Name /\ Holding(p, k)
    BY <1>7, Here DEF UnlinkInfo, Ready, NamePC, Holding
  <2>2. pc'[p] \notin HoldPC /\ info' = [info EXCEPT ![k] = None]
    BY <1>0, <1>7 DEF UnlinkInfo, AfterInfo
  <2>3. files' = [files EXCEPT ![k] = None]
    BY <1>7, <2>1 DEF UnlinkInfo, DiskOK, Names, Held
  <2> QED
    BY <1>0, <2>1, <2>2, <2>3, SettleNames DEF Maybe
<1>8. CASE RenameBack(p)
  <2>1. k \in Name
    BY <1>8, Here DEF RenameBack, Ready, NamePC
  <2>2. CASE UNCHANGED files /\ pc'[p] \notin HoldPC
    BY <1>0, <1>8, <2>2, QuietNames DEF RenameBack, Quiet
  <2>3. CASE files[k] # None /\ files' = [files EXCEPT ![k] = None]
             /\ me' = [me EXCEPT ![p].clear = FALSE]
    <3>1. me'[p].name = k
      BY <1>0, <2>3 DEF Locals
    <3>2. info[k] \in Info /\ \A q \in Proc : ~Holding(q, k)
      BY <2>1, <2>3 DEF DiskOK, Maybe, Names, Named, Held
    <3>3. info' = [info EXCEPT ![k] = info[k]]
      BY <1>8 DEF RenameBack, DiskOK
    <3>4. pc[p] \notin HoldPC
      BY <1>8 DEF RenameBack
    <3> QED
      BY <1>0, <2>1, <2>3, <3>1, <3>2, <3>3, <3>4, TakeNames
  <2> QED
    BY <1>0, <1>8, <2>2, <2>3 DEF RenameBack, NextDest
<1> QED
  BY <1>0, <1>1, <1>2, <1>3, <1>4, <1>5, <1>6, <1>7, <1>8, QuietNames
  DEF RestoreStep, DiscardStep

LEMMA DeleteNames ==
  ASSUME TypeOK, Exclusion, Names, NEW p \in Proc, DeleteStep(p)
  PROVE  Names'
<1> USE DEF TypeOK, Goto, HoldPC, ReservingPC, TakenPC
<1>0. /\ pc \in [Proc -> PC] /\ me \in [Proc -> Locals] /\ DOMAIN me = Proc
      /\ Alone(p)
  BY DeleteRegion DEF ProcsOK
<1> DEFINE k == me[p].name
<1>1. CASE \/ ScanInfo(p) \/ Choose(p) \/ Declined(p) \/ DeleteLock(p)
           \/ CleanStaging(p) \/ DeleteUnlock(p) \/ Sweep(p) \/ Burn(p) \/ Done(p)
  <2>1. UNCHANGED <<files, info>>
    BY <1>1, ZenonT(40) DEF ScanInfo, Choose, Declined, DeleteLock, CleanStaging, Collect, DeleteUnlock,
                Sweep, Burn, Done, disk
  <2>2. pc'[p] \notin HoldPC
    BY <1>0, <1>1 DEF ScanInfo, Choose, Declined, DeleteLock, CleanStaging,
                      Collect, DeleteUnlock, Sweep, Burn, Done, Return
  <2> QED
    BY <1>0, <2>1, <2>2, QuietNames, SMTT(30) DEF Quiet
<1>2. CASE CheckDoomed(p)
  <2>1. UNCHANGED <<files, info>> /\ pc[p] = "next"
    BY <1>2 DEF CheckDoomed, disk
  <2>2. CASE pc'[p] # "drop"
    <3>1. pc'[p] \notin HoldPC
      BY <1>0, <1>2, <2>2 DEF CheckDoomed
    <3> QED
      BY <1>0, <2>1, <3>1, QuietNames DEF Quiet
  <2>3. CASE pc'[p] = "drop"
    <3>1. PICK d \in me[p].doomed :
            /\ Same(d) /\ d.kind = "dangling"
            /\ me' = [me EXCEPT ![p].cur = d, ![p].name = d.name,
                                ![p].doomed = @ \ {d}]
      BY <1>0, <1>2, <2>3 DEF CheckDoomed
    <3>2. d \in Listed /\ d.name \in Name
      BY <1>0 DEF Locals, Listed
    <3>3. files[d.name] = None /\ info[d.name] \in Info
      BY <3>1, <3>2 DEF Same, InfoMatches, DiskOK, Maybe
    <3>4. \A q \in Proc : ~Holding(q, d.name)
      BY <2>1 DEF Exclusion, Holding, ExclusivePC, SharedPC
    <3>5. me'[p].name = d.name
      BY <1>0, <3>1 DEF Locals
    <3>6. /\ files' = [files EXCEPT ![d.name] = None]
          /\ info' = [info EXCEPT ![d.name] = info[d.name]]
      BY <2>1, <3>2, <3>3 DEF DiskOK
    <3> QED
      BY <1>0, <2>1, <3>2, <3>3, <3>4, <3>5, <3>6, TakeNames
  <2> QED
    BY <2>2, <2>3
<1>3. CASE Doom(p)
  <2>1. k \in Name /\ pc[p] \notin HoldPC
    BY <1>3, Here DEF Doom, Ready, NamePC
  <2>2. CASE UNCHANGED files /\ pc'[p] = "next"
    BY <1>0, <1>3, <2>2, QuietNames DEF Doom, Quiet
  <2>3. CASE files[k] # None /\ files' = [files EXCEPT ![k] = None]
             /\ me' = [me EXCEPT ![p].tombs = @ \cup {NewSlot}]
    <3>1. me'[p].name = k
      BY <1>0, <2>3 DEF Locals
    <3>2. info[k] \in Info /\ \A q \in Proc : ~Holding(q, k)
      BY <2>1, <2>3 DEF DiskOK, Maybe, Names, Named, Held
    <3>3. info' = [info EXCEPT ![k] = info[k]]
      BY <1>3 DEF Doom, DiskOK
    <3> QED
      BY <1>0, <2>1, <2>3, <3>1, <3>2, <3>3, TakeNames
  <2> QED
    BY <1>0, <1>3, <2>2, <2>3 DEF Doom
<1>4. CASE DropInfo(p)
  <2>1. k \in Name /\ Holding(p, k)
    BY <1>4, Here DEF DropInfo, Ready, NamePC, Holding
  <2>2. pc'[p] \notin HoldPC /\ info' = [info EXCEPT ![k] = None]
    BY <1>0, <1>4 DEF DropInfo
  <2>3. files' = [files EXCEPT ![k] = None]
    BY <1>4, <2>1 DEF DropInfo, DiskOK, Names, Held
  <2> QED
    BY <1>0, <2>1, <2>2, <2>3, SettleNames DEF Maybe
<1> QED
  BY <1>1, <1>2, <1>3, <1>4 DEF DeleteStep

LEMMA SlipNames ==
  ASSUME ProcsOK, Names, NEW p \in Proc, Slip(p)
  PROVE  Names'
<1>1. Alone(p) /\ UNCHANGED <<files, info>> /\ pc'[p] \notin HoldPC
  BY SlipLeaves, SlipMoves, SlipRegion DEF SlipTo, HoldPC, ReservingPC, TakenPC
<1> QED
  BY <1>1, QuietNames DEF Quiet

LEMMA NamesNext ==
  ASSUME Stray = {}, TypeOK, Exclusion, Names, [Next]_vars
  PROVE  Names'
<1>1. CASE UNCHANGED vars
  BY <1>1 DEF vars, Names, Named, Held, Single, Holding
<1>2. CASE Others
  <2>1. UNCHANGED <<files, info, pc, me>>
    BY <1>2 DEF Others, Save, EditInPlace, StrayDrop
  <2> QED
    BY <2>1 DEF Names, Named, Held, Single, Holding
<1>3. ASSUME NEW p \in Proc, Step(p) \/ Slip(p) \/ Crash(p) PROVE Names'
  BY <1>3, PutNames, RestoreNames, DeleteNames, SlipNames DEF Step, TypeOK
<1> QED
  BY <1>1, <1>2, <1>3 DEF Next

LEMMA NamesAlways == ASSUME HasFlock, Stray = {} PROVE Spec => [](Names /\ TypeOK)
<1>1. Init => Names
  BY StartsAssumption, ConstantsAssumption
  DEF Init, Names, Named, Held, Single, Holding, HoldPC, ReservingPC, TakenPC, Disk, Maybe
<1>2. TypeOK /\ Exclusion /\ Names /\ [Next]_vars => Names'
  BY NamesNext
<1>3. Spec => []Exclusion
  BY ExclusionHolds
<1> QED
  BY <1>1, <1>2, <1>3, TypeCorrect, PTL DEF Spec

(* Where every entry of files/ was put there by rip, each has its          *)
(* .trashinfo at all times, with or without renameat2: the order of the    *)
(* steps of put, restore, empty and purge, O_EXCL and the lock suffice.    *)
THEOREM InfoOrderHolds == ASSUME HasFlock, Stray = {} PROVE Spec => []InfoOrder
<1>1. Names /\ TypeOK => InfoOrder
  BY NamesImply
<1> QED
  BY <1>1, NamesAlways, PTL

(* There, too, a name is in at most one process's hands at any time, and   *)
(* while it is, nothing appears under it.                                  *)
THEOREM OneHolderHolds == ASSUME HasFlock, Stray = {} PROVE Spec => []OneHolder
<1>1. Names /\ TypeOK => OneHolder
  BY NamesImply
<1> QED
  BY <1>1, NamesAlways, PTL
=============================================================================
