--------------------------------- MODULE Put ---------------------------------
(***************************************************************************)
(* `rip PATH` for one argument: the rename into the trash, and the copy    *)
(* into it where no rename is possible.  The argument is the base name in  *)
(* a directory, <<d, 0>>; every argument has the same base name, so that   *)
(* the processes compete for the same candidates.                          *)
(***************************************************************************)
EXTENDS Reserve

Arg(p) == <<me[p].dir, 0>>

(* put_one() up to choose(): the argument exists.  A directory with no     *)
(* rename route is copied from at once, or first tried with the rename     *)
(* that then crosses a filesystem boundary.                                *)
PutStart(p, d) ==
  /\ pc[p] = "idle" /\ runs[p] > 0
  /\ place[<<d, 0>>] # None
  /\ runs' = [runs EXCEPT ![p] = @ - 1]
  /\ me' = [me EXCEPT ![p].dir = d]
  /\ \/ Goto(p, "wait")
     \/ d \notin Local /\ Goto(p, "walk")
  /\ UNCHANGED <<disk, lock, mishaps, edits, born, released>>

(* move_in() takes LOCK_SH before it reserves.                             *)
PutLock(p) ==
  /\ pc[p] = "wait"
  /\ LockShared(p)
  /\ Goto(p, "claim")
  /\ UNCHANGED <<disk, me, bounds>>

(* Mutant: commit() is not called after the rename, so that the drop of    *)
(* the reservation unlinks the .trashinfo.                                 *)
MoveInUncommitted(p) ==
  /\ pc[p] = "publish" /\ me[p].slot = None
  /\ place[Arg(p)] # None /\ Vacant(p, files[me[p].name])
  /\ files' = [files EXCEPT ![me[p].name] = place[Arg(p)]]
  /\ place' = [place EXCEPT ![Arg(p)] = None]
  /\ Goto(p, "release")
  /\ UNCHANGED <<info, stage, body, lock, me, bounds>>

(* The rename of move_in(): done, EEXIST, EXDEV, or any other error.       *)
MoveIn(p) ==
  /\ pc[p] = "publish" /\ me[p].slot = None
  /\ LET k == me[p].name
         o == place[Arg(p)] IN
     \/ /\ me[p].dir \in Local /\ o # None /\ Vacant(p, files[k])
        /\ files' = [files EXCEPT ![k] = o]
        /\ place' = [place EXCEPT ![Arg(p)] = None]
        /\ Goto(p, "unlock")
     \/ /\ me[p].dir \in Local /\ Exists(p, files[k])
        /\ Goto(p, "advance")
        /\ UNCHANGED <<files, place>>
     \/ /\ me[p].dir \notin Local
        /\ Goto(p, "exdev")
        /\ UNCHANGED <<files, place>>
     \/ /\ me[p].dir \in Local
        /\ Goto(p, "release")
        /\ UNCHANGED <<files, place>>
  /\ me' = [me EXCEPT ![p].clear = FALSE]
  /\ UNCHANGED <<info, stage, body, lock, bounds>>

(* EXDEV: the reservation is gone and so is the lock; the copy starts over.*)
PutUnlock(p) ==
  /\ pc[p] = "unlockcp"
  /\ Unlock(p)
  /\ Goto(p, "walk")
  /\ me' = [me EXCEPT ![p].name = 0]
  /\ UNCHANGED <<disk, bounds>>

(* copy_to_home(): the walk records what the source is, before any write.  *)
Walk(p) ==
  /\ pc[p] = "walk"
  /\ LET o == place[Arg(p)] IN
     /\ o # None
     /\ me' = [me EXCEPT ![p].src = o, ![p].seen = body[o]]
  /\ Goto(p, "waitcp")
  /\ UNCHANGED <<disk, lock, bounds>>

(* The walk found a problem or nothing, fallback = "refuse", or the person *)
(* declined the size prompt, or an error of flock(): nothing was done yet. *)
CopyDeclined(p) ==
  /\ pc[p] = "walk"
  /\ Return(p)
  /\ UNCHANGED <<disk, lock, bounds>>

(* Mutant: the copy is made without the lock.                              *)
CopyLockNone(p) ==
  /\ pc[p] = "waitcp"
  /\ Goto(p, "mkbox")
  /\ UNCHANGED <<disk, lock, me, bounds>>

CopyLock(p) ==
  /\ pc[p] = "waitcp"
  /\ LockShared(p)
  /\ Goto(p, "mkbox")
  /\ UNCHANGED <<disk, me, bounds>>

(* staging() and make_box().                                               *)
NewBox == /\ FreeSlots # {}
          /\ stage' = [stage EXCEPT ![NewSlot] = [kind |-> "put", obj |-> None]]

MakeBox(p) ==
  /\ pc[p] = "mkbox"
  /\ \/ /\ NewBox
        /\ me' = [me EXCEPT ![p].slot = NewSlot]
        /\ Goto(p, "cp")
     \/ /\ Goto(p, "unlock")              \* no directory was made
        /\ UNCHANGED <<stage, me>>
  /\ UNCHANGED <<files, info, place, body, lock, bounds>>

(* `cp -a` of what is at the argument now, into the open box, and          *)
(* verify_copy(), which records what landed there.                         *)
CopyIn(p) ==
  /\ pc[p] = "cp"
  /\ LET o == place[Arg(p)]
         s == me[p].slot IN
     \/ /\ o # None /\ stage[s].kind # "none"
        /\ \E c \in NewObjs :
             /\ body' = [body EXCEPT ![c] = body[o]]
             /\ stage' = [stage EXCEPT ![s].obj = c]
        /\ me' = [me EXCEPT ![p].copied = body[o]]
        /\ Goto(p, "claim")
     \/ /\ Goto(p, "dropbox")           \* gone, ENOSPC, a read error
        /\ UNCHANGED <<body, stage, me>>
  /\ UNCHANGED <<files, info, place, lock, bounds>>

(* The rename out of the box, through its open directory.                  *)
Publish(p) ==
  /\ pc[p] = "publish" /\ me[p].slot # None
  /\ LET k == me[p].name
         s == me[p].slot
         o == stage[s].obj IN
     \/ /\ o # None /\ Vacant(p, files[k])
        /\ files' = [files EXCEPT ![k] = o]
        /\ stage' = [stage EXCEPT ![s].obj = None]
        /\ Goto(p, "capture")
     \/ /\ Exists(p, files[k])
        /\ Goto(p, "advance")
        /\ UNCHANGED <<files, stage>>
     \/ /\ Goto(p, "release")           \* ENOENT or an I/O error
        /\ UNCHANGED <<files, stage>>
  /\ me' = [me EXCEPT ![p].clear = FALSE]
  /\ UNCHANGED <<info, place, body, lock, bounds>>

(* `published`: what is at the name now and its .trashinfo, if both are.   *)
Capture(p) ==
  /\ pc[p] = "capture"
  /\ LET k == me[p].name
         both == files[k] # None /\ info[k] # None IN
     me' = [me EXCEPT ![p].entry = IF both THEN files[k] ELSE None,
                      ![p].info = IF both THEN info[k] ELSE None]
  /\ Goto(p, "sync")
  /\ UNCHANGED <<disk, lock, bounds>>

(* The empty box is removed; syncfs() must succeed before a source byte    *)
(* goes.  If it fails both copies stay.                                    *)
SyncIn(p) ==
  /\ pc[p] = "sync"
  /\ stage' = [stage EXCEPT ![me[p].slot] = NoEntry]
  /\ me' = [me EXCEPT ![p].slot = None]
  /\ Goto(p, "source") \/ Goto(p, "unlock")
  /\ UNCHANGED <<files, info, place, body, lock, bounds>>

(* Mutant: the manifest is compared by path only.                          *)
UnchangedPath(p) == place[Arg(p)] # None

(* Manifest::unchanged: what is at the argument is what the walk saw, and  *)
(* the verified copy has the same content.                                 *)
Unchanged(p) ==
  LET o == place[Arg(p)] IN
  o # None /\ o = me[p].src /\ body[o] = me[p].seen /\ me[p].copied = body[o]

(* remove_tree() with Policy::Source: all of it is removed; or nothing is, *)
(* and the published copy is discarded; or the changed part of a tree is   *)
(* kept, and the complete copy stays in the trash.                         *)
RemoveSource(p) ==
  /\ pc[p] = "source"
  /\ LET o == place[Arg(p)] IN
     \/ /\ Unchanged(p)
        /\ place' = [place EXCEPT ![Arg(p)] = None]
        /\ body' = [body EXCEPT ![o] = None]
        /\ Goto(p, "unlock")
     \/ /\ Goto(p, IF me[p].entry = None THEN "unlock" ELSE "tomb")
        /\ UNCHANGED <<place, body>>
     \/ /\ o # None /\ o = me[p].src /\ ~Unchanged(p)
        /\ Goto(p, "unlock")
        /\ UNCHANGED <<place, body>>
  /\ UNCHANGED <<files, info, stage, lock, me, bounds>>

(* StagingBox::drop on an early return, before the lock is released.       *)
DropBox(p) ==
  /\ pc[p] = "dropbox"
  /\ body' = Without(stage[me[p].slot].obj)
  /\ stage' = [stage EXCEPT ![me[p].slot] = NoEntry]
  /\ Goto(p, "unlock")
  /\ UNCHANGED <<files, info, place, lock, me, bounds>>

(* The box is made but cannot be opened, and nothing guards it yet; it     *)
(* cannot be removed once it is empty, or with what is in it.              *)
BoxFails(p) ==
  /\ \/ pc[p] = "mkbox" /\ NewBox /\ Goto(p, "unlock") /\ UNCHANGED <<body, me>>
     \/ /\ pc[p] = "sync"
        /\ me' = [me EXCEPT ![p].slot = None]
        /\ Goto(p, "source") \/ Goto(p, "unlock")
        /\ UNCHANGED <<stage, body>>
     \/ /\ pc[p] = "dropbox" /\ Goto(p, "unlock")
        /\ BreaksOff(stage[me[p].slot].obj)
        /\ UNCHANGED <<stage, me>>
  /\ Slips
  /\ UNCHANGED <<files, info, place, lock>>

PutStep(p) ==
  \/ \E d \in Dir : PutStart(p, d)
  \/ PutLock(p) \/ MoveIn(p) \/ PutUnlock(p)
  \/ Walk(p) \/ CopyDeclined(p) \/ CopyLock(p) \/ MakeBox(p) \/ CopyIn(p)
  \/ Publish(p) \/ Capture(p) \/ SyncIn(p) \/ RemoveSource(p) \/ DropBox(p)

=============================================================================
