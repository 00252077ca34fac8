------------------------------- MODULE Restore -------------------------------
(***************************************************************************)
(* `rip restore` of one item: listed and checked without a lock, then      *)
(* renamed back or copied back under LOCK_SH (restore_item()).             *)
(***************************************************************************)
EXTENDS TrashDisk

Dest(p) == <<me[p].dir, me[p].to>>

(* load_info_entry(): lstat of files/NAME for an info that exists ...      *)
ListItem(p, k) ==
  /\ pc[p] = "idle" /\ runs[p] > 0
  /\ info[k] # None /\ files[k] # None
  /\ runs' = [runs EXCEPT ![p] = @ - 1]
  /\ me' = [me EXCEPT ![p].name = k, ![p].entry = files[k]]
  /\ Goto(p, "read")
  /\ UNCHANGED <<disk, lock, mishaps, edits, born, released>>

(* ... then its .trashinfo is read; without one the entry is an orphan,    *)
(* which restore does not take.                                            *)
ReadInfo(p) ==
  /\ pc[p] = "read"
  /\ LET i == info[me[p].name] IN
     \/ /\ i # None
        /\ me' = [me EXCEPT ![p].info = i, ![p].dir = i.path]
        /\ Goto(p, "dest")
     \/ i = None /\ Return(p)
  /\ UNCHANGED <<disk, lock, bounds>>

(* Without --rename an existing destination is a conflict; the size prompt *)
(* of a copy back may be declined.  Both before the lock.                  *)
CheckDest(p) ==
  /\ pc[p] = "dest"
  /\ \/ /\ p \in Renamers \/ place[Dest(p)] = None
        /\ Goto(p, "waitr")
        /\ UNCHANGED me
     \/ /\ \/ p \notin Renamers /\ place[Dest(p)] # None
           \/ me[p].dir \notin Local
        /\ Return(p)
  /\ UNCHANGED <<disk, lock, bounds>>

(* LOCK_SH; a destination with a rename route is renamed to, any other is  *)
(* copied to.  A route may look usable and turn out not to be.             *)
RestoreLock(p) ==
  /\ pc[p] = "waitr"
  /\ LockShared(p)
  /\ \/ Goto(p, "recheck")
     \/ me[p].dir \notin Local /\ Goto(p, "recheck2")
  /\ UNCHANGED <<disk, me, bounds>>

(* recheck(), run twice in a row before the rename ("recheck") and around  *)
(* the making of the box before the copy ("recheck2").                     *)
Recheck(p) ==
  /\ pc[p] \in {"recheck", "recheck2"}
  /\ Goto(p, IF ~StillSame(me[p].name, me[p].entry, me[p].info) THEN "unlock"
             ELSE IF pc[p] = "recheck" THEN "back" ELSE "cpback")
  /\ UNCHANGED <<disk, lock, me, bounds>>

(* Mutant: a rename that found the destination taken counts as done.       *)
NextDestDone(p, giveup) ==
  /\ Exists(p, place[Dest(p)])
  /\ Goto(p, IF pc[p] = "out" THEN "syncout" ELSE giveup)
  /\ UNCHANGED me

(* EEXIST at the destination in rename_free(): the next candidate with     *)
(* --rename, an error without.                                             *)
NextDest(p, giveup) ==
  /\ Exists(p, place[Dest(p)])
  /\ IF p \in Renamers /\ me[p].to < MaxName
     THEN me' = [me EXCEPT ![p].to = @ + 1] /\ UNCHANGED pc
     ELSE Goto(p, giveup) /\ UNCHANGED me

(* The rename back takes whatever is at the name.  EXDEV falls through to  *)
(* the copy, or asks to run again if that would need a prompt.             *)
RenameBack(p) ==
  /\ pc[p] = "back"
  /\ LET k == me[p].name IN
     \/ /\ me[p].dir \in Local /\ files[k] # None /\ Vacant(p, place[Dest(p)])
        /\ place' = [place EXCEPT ![Dest(p)] = files[k]]
        /\ files' = [files EXCEPT ![k] = None]
        /\ me' = [me EXCEPT ![p].clear = FALSE]
        /\ Goto(p, "checkinfo")
     \/ /\ me[p].dir \in Local /\ NextDest(p, "unlock")
        /\ UNCHANGED <<files, place>>
     \/ /\ me[p].dir \in Local     \* nothing at the name, or another error
        /\ Goto(p, "unlock")
        /\ UNCHANGED <<files, place, me>>
     \/ /\ me[p].dir \notin Local
        /\ Goto(p, "recheck2") \/ Goto(p, "unlock")
        /\ UNCHANGED <<files, place, me>>
  /\ UNCHANGED <<info, stage, body, lock, bounds>>

(* `cp -a` of what is at the name into a .rip-restore box beside the       *)
(* destination; a failed copy is dropped with its box.                     *)
CopyBack(p) ==
  /\ pc[p] = "cpback"
  /\ LET o == files[me[p].name] IN
     \/ /\ o # None
        /\ \E c \in NewObjs :
             /\ body' = [body EXCEPT ![c] = body[o]]
             /\ me' = [me EXCEPT ![p].box = c]
        /\ Goto(p, "out")
     \/ Goto(p, "unlock") /\ UNCHANGED <<body, me>>
  /\ UNCHANGED <<files, info, stage, place, lock, bounds>>

(* The rename out of the box to the destination.                           *)
PublishBack(p) ==
  /\ pc[p] = "out"
  /\ \/ /\ Vacant(p, place[Dest(p)])
        /\ place' = [place EXCEPT ![Dest(p)] = me[p].box]
        /\ me' = [me EXCEPT ![p].clear = FALSE, ![p].box = None]
        /\ Goto(p, "syncout")
     \/ NextDest(p, "dropout") /\ UNCHANGED place
     \/ Goto(p, "dropout") /\ UNCHANGED <<place, me>>     \* another error
  /\ UNCHANGED <<files, info, stage, body, lock, bounds>>

DropOut(p) ==
  /\ pc[p] = "dropout"
  /\ body' = [body EXCEPT ![me[p].box] = None]
  /\ me' = [me EXCEPT ![p].box = None]
  /\ Goto(p, "unlock")
  /\ UNCHANGED <<files, info, stage, place, lock, bounds>>

(* The box stays beside the destination, with the copy in it.              *)
DropOutFails(p) ==
  /\ pc[p] = "dropout"
  /\ me' = [me EXCEPT ![p].box = None]
  /\ Goto(p, "unlock")
  /\ Slips
  /\ UNCHANGED <<disk, lock>>

(* syncfs() of the destination; if it fails the item also stays in trash.  *)
SyncOut(p) ==
  /\ pc[p] = "syncout"
  /\ Goto(p, "tomb") \/ Goto(p, "unlock")
  /\ UNCHANGED <<disk, lock, me, bounds>>

RestoreStep(p) ==
  \/ \E k \in Name : ListItem(p, k)
  \/ ReadInfo(p) \/ CheckDest(p) \/ RestoreLock(p) \/ Recheck(p)
  \/ RenameBack(p) \/ CopyBack(p) \/ PublishBack(p) \/ DropOut(p) \/ SyncOut(p)

=============================================================================
