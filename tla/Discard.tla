------------------------------- MODULE Discard -------------------------------
(***************************************************************************)
(* trash::discard_verified, the removal of one entry under LOCK_SH: by a   *)
(* restore that copied the item back, and by a put whose source could not  *)
(* be removed.  `entry` and `info` are what the caller expects under       *)
(* `name`.  The rename way back of restore shares the last two steps.      *)
(***************************************************************************)
EXTENDS TrashDisk

(* tombstone(): whatever is at the name leaves files/.                     *)
Tombstone(p) ==
  /\ pc[p] = "tomb"
  /\ LET k == me[p].name IN
     \/ /\ files[k] # None /\ FreeSlots # {}
        /\ stage' = [stage EXCEPT ![NewSlot] = [kind |-> "del", obj |-> files[k]]]
        /\ files' = [files EXCEPT ![k] = None]
        /\ me' = [me EXCEPT ![p].tomb = NewSlot]
        /\ Goto(p, "verify")
     \/ /\ Goto(p, "unlock")      \* ENOENT or an I/O error: reported
        /\ UNCHANGED <<files, stage, me>>
  /\ UNCHANGED <<info, place, body, lock, bounds>>

(* Mutant: whatever was at the name is taken for the expected entry.       *)
VerifyNothing(p) ==
  /\ pc[p] = "verify"
  /\ Goto(p, "checkinfo")
  /\ UNCHANGED <<disk, lock, me, bounds>>

(* The tombstoned entry must be the expected inode.                        *)
Verify(p) ==
  /\ pc[p] = "verify"
  /\ Goto(p, IF stage[me[p].tomb].obj = me[p].entry THEN "checkinfo" ELSE "putback")
  /\ UNCHANGED <<disk, lock, me, bounds>>

(* It is not: back under its name with NOREPLACE; a failure is ignored.    *)
PutBack(p) ==
  /\ pc[p] = "putback"
  /\ LET k == me[p].name
         o == stage[me[p].tomb].obj IN
     \/ /\ Vacant(p, files[k]) /\ o # None
        /\ files' = [files EXCEPT ![k] = o]
        /\ stage' = [stage EXCEPT ![me[p].tomb] = NoEntry]
     \/ /\ Exists(p, files[k]) \/ o = None
        /\ UNCHANGED <<files, stage>>
  /\ Goto(p, "unlock")
  /\ UNCHANGED <<info, place, body, lock, me, bounds>>

AfterInfo(p) == IF me[p].tomb = None THEN "unlock" ELSE "rm"

(* Mutant: the .trashinfo is never unlinked.                               *)
CheckInfoSkips(p) ==
  /\ pc[p] = "checkinfo"
  /\ Goto(p, AfterInfo(p))
  /\ UNCHANGED <<disk, lock, me, bounds>>

(* info_matches(): the .trashinfo is unlinked only if it is the item's own.*)
CheckInfo(p) ==
  /\ pc[p] = "checkinfo"
  /\ Goto(p, IF InfoMatches(me[p].name, me[p].info) THEN "unlink" ELSE AfterInfo(p))
  /\ UNCHANGED <<disk, lock, me, bounds>>

UnlinkInfo(p) ==
  /\ pc[p] = "unlink"
  /\ info' = [info EXCEPT ![me[p].name] = None]
  /\ Goto(p, AfterInfo(p))
  /\ UNCHANGED <<files, stage, place, body, lock, me, bounds>>

(* remove_tree() of the tombstone, still under LOCK_SH.                    *)
RemoveTomb(p) ==
  /\ pc[p] = "rm"
  /\ body' = Without(stage[me[p].tomb].obj)
  /\ stage' = [stage EXCEPT ![me[p].tomb] = NoEntry]
  /\ Goto(p, "unlock")
  /\ UNCHANGED <<files, info, place, lock, me, bounds>>

(* The entry does not go back, its .trashinfo stays, or the tombstone.     *)
DiscardFails(p) ==
  /\ \/ pc[p] = "putback" /\ Goto(p, "unlock") /\ UNCHANGED body
     \/ pc[p] = "unlink" /\ Goto(p, AfterInfo(p)) /\ UNCHANGED body
     \/ /\ pc[p] = "rm" /\ Goto(p, "unlock")
        /\ BreaksOff(stage[me[p].tomb].obj)
  /\ Slips
  /\ UNCHANGED <<files, info, stage, place, lock, me>>

DiscardStep(p) == \/ Tombstone(p) \/ Verify(p) \/ PutBack(p)
                  \/ CheckInfo(p) \/ UnlinkInfo(p) \/ RemoveTomb(p)

=============================================================================
