----------------------------- MODULE DeleteBatch -----------------------------
(***************************************************************************)
(* `rip empty` and `rip purge` on one trash directory: the scan and the    *)
(* person's answer without a lock, the tombstones under LOCK_EX            *)
(* (delete_batch()), the recursive delete after the lock.                  *)
(***************************************************************************)
EXTENDS TrashDisk

Content(k) == IF files[k] = None THEN None ELSE body[files[k]]
Entry(kind, k) ==
  [kind |-> kind, name |-> k, entry |-> files[k], info |-> info[k],
   data |-> Content(k)]

(* load_one(), the info/ scan: an info is an item, or dangling.            *)
ScanInfo(p) ==
  /\ pc[p] = "idle" /\ runs[p] > 0
  /\ runs' = [runs EXCEPT ![p] = @ - 1]
  /\ me' = [me EXCEPT ![p].doomed =
              {Entry(IF files[k] = None THEN "dangling" ELSE "item", k) :
                 k \in {n \in Name : info[n] # None}}]
  /\ Goto(p, "listed")
  /\ UNCHANGED <<disk, lock, mishaps, edits, born, released>>

(* The files/ scan adds what no info names as orphans; then the filters    *)
(* and the person choose.  `empty` adds every dangling info unasked.       *)
Choose(p) ==
  /\ pc[p] = "listed"
  /\ LET named == {d.name : d \in me[p].doomed}
         orphans == {Entry("orphan", k) :
                       k \in {n \in Name \ named : files[n] # None}}
         items == {d \in me[p].doomed : d.kind = "item"}
         dangling == me[p].doomed \ items IN
     \E sel \in SUBSET (items \cup {[d EXCEPT !.info = None] : d \in orphans}) :
       /\ p \notin Emptiers => sel # {}
       /\ me' = [me EXCEPT ![p].doomed =
                   IF p \in Emptiers THEN sel \cup dangling ELSE sel]
  /\ Goto(p, "waitx")
  /\ UNCHANGED <<disk, lock, bounds>>

(* Nothing to purge, "no" at the prompt, no .rip-staging, or an error of   *)
(* flock(): nothing was done yet.                                          *)
Declined(p) ==
  /\ pc[p] = "listed"
  /\ Return(p)
  /\ UNCHANGED <<disk, lock, bounds>>

(* Mutant: the batch takes LOCK_SH.                                        *)
DeleteLockShared(p) ==
  /\ pc[p] = "waitx"
  /\ LockShared(p)
  /\ Goto(p, "next")
  /\ UNCHANGED <<disk, me, bounds>>

DeleteLock(p) ==
  /\ pc[p] = "waitx"
  /\ LockExclusive(p)
  /\ Goto(p, "next")
  /\ UNCHANGED <<disk, me, bounds>>

(* Mutant: an orphan is known by its inode alone.                          *)
SameOrphanByInode(d) ==
  CASE d.kind = "item" -> StillSame(d.name, d.entry, d.info)
    [] d.kind = "orphan" -> files[d.name] # None /\ files[d.name] = d.entry
    [] d.kind = "dangling" -> files[d.name] = None /\ InfoMatches(d.name, d.info)

(* still_same(), orphan_still_same(), and delete_dangling()'s own check.   *)
Same(d) ==
  CASE d.kind = "item" -> StillSame(d.name, d.entry, d.info)
    [] d.kind = "orphan" -> /\ files[d.name] # None /\ files[d.name] = d.entry
                            /\ info[d.name] = None
    [] d.kind = "dangling" -> files[d.name] = None /\ InfoMatches(d.name, d.info)

(* Each doomed entry is checked again under the lock; one that changed     *)
(* since it was listed is skipped.                                         *)
CheckDoomed(p) ==
  /\ pc[p] = "next"
  /\ \E d \in me[p].doomed :
       \/ /\ Same(d)
          /\ me' = [me EXCEPT ![p].cur = d, ![p].name = d.name,
                              ![p].doomed = @ \ {d}]
          /\ Goto(p, IF d.kind = "dangling" THEN "drop" ELSE "doom")
       \/ /\ ~Same(d)
          /\ me' = [me EXCEPT ![p].doomed = @ \ {d}]
          /\ UNCHANGED pc
  /\ UNCHANGED <<disk, lock, bounds>>

(* The tombstone.  What the person agreed to lose is the content listed.   *)
Doom(p) ==
  /\ pc[p] = "doom"
  /\ LET d == me[p].cur
         k == me[p].name IN
     \/ /\ files[k] # None /\ FreeSlots # {}
        /\ stage' = [stage EXCEPT ![NewSlot] = [kind |-> "del", obj |-> files[k]]]
        /\ files' = [files EXCEPT ![k] = None]
        /\ me' = [me EXCEPT ![p].tombs = @ \cup {NewSlot}]
        /\ released' = released \cup ({d.data} \ {None})
        /\ Goto(p, IF d.kind = "item" THEN "drop" ELSE "next")
     \/ /\ Goto(p, "next")        \* ENOENT or an I/O error: skipped
        /\ UNCHANGED <<stage, files, me, released>>
  /\ UNCHANGED <<info, place, body, lock, runs, mishaps, edits, born>>

(* The .trashinfo of a tombstoned item, or a dangling one.                 *)
DropInfo(p) ==
  /\ pc[p] = "drop"
  /\ info' = [info EXCEPT ![me[p].name] = None]
  /\ Goto(p, "next")
  /\ UNCHANGED <<files, stage, place, body, lock, me, bounds>>

(* Mutant: copy boxes are not recognised as garbage.                       *)
CleanStagingTombs(p) ==
  /\ pc[p] = "next" /\ me[p].doomed = {}
  /\ me' = [me EXCEPT ![p].tombs = @ \cup {s \in Slot : stage[s].kind = "del"},
                      ![p].cur = None]
  /\ Goto(p, "unlockx")
  /\ UNCHANGED <<disk, lock, bounds>>

(* Entries of .rip-staging the process takes over, the boxes under fresh   *)
(* tombstone names; the directory behind an entry is the same.             *)
Collect(p, S) ==
  /\ pc[p] = "next" /\ me[p].doomed = {}
  /\ stage' = [s \in Slot |-> IF s \in S THEN [stage[s] EXCEPT !.kind = "del"]
                                         ELSE stage[s]]
  /\ me' = [me EXCEPT ![p].tombs = @ \cup S, ![p].cur = None]
  /\ Goto(p, "unlockx")
  /\ UNCHANGED <<files, info, place, body, lock>>

(* clean_staging: `empty` takes all there is, `purge` takes nothing more.  *)
Garbage == {s \in Slot : stage[s].kind # "none"}
CleanStaging(p) ==
  Collect(p, IF p \in Emptiers THEN Garbage ELSE {}) /\ UNCHANGED bounds

DeleteUnlock(p) ==
  /\ pc[p] = "unlockx"
  /\ Unlock(p)
  /\ Goto(p, "sweep")
  /\ UNCHANGED <<disk, me, bounds>>

(* remove_tree() of each tombstone, without a lock: it opens the tree ...  *)
Sweep(p) ==
  /\ pc[p] = "sweep" /\ me[p].tombs # {}
  /\ LET s == CHOOSE t \in me[p].tombs : TRUE IN
     /\ me' = [me EXCEPT ![p].tomb = s, ![p].victim = stage[s].obj,
                         ![p].tombs = @ \ {s}]
  /\ Goto(p, "burn")
  /\ UNCHANGED <<disk, lock, bounds>>

(* ... and deletes what it opened, wherever that is by now.                *)
Burn(p) ==
  /\ pc[p] = "burn"
  /\ LET s == me[p].tomb
         o == me[p].victim IN
     /\ body' = Without(o)
     /\ stage' = IF stage[s].obj \in {o, None}
                 THEN [stage EXCEPT ![s] = NoEntry] ELSE stage
  /\ me' = [me EXCEPT ![p].tomb = None, ![p].victim = None]
  /\ Goto(p, "sweep")
  /\ UNCHANGED <<files, info, place, lock, bounds>>

Done(p) ==
  /\ pc[p] = "sweep" /\ me[p].tombs = {}
  /\ Return(p)
  /\ UNCHANGED <<disk, lock, bounds>>

(* A .trashinfo stays; .rip-staging cannot be read, or a box not renamed;  *)
(* a tombstone stays.                                                      *)
DeleteFails(p) ==
  /\ \/ /\ pc[p] = "drop" /\ Goto(p, "next")
        /\ UNCHANGED <<disk, lock, me>>
     \/ p \in Emptiers /\ \E S \in SUBSET Garbage : S # Garbage /\ Collect(p, S)
     \/ /\ pc[p] = "burn" /\ Goto(p, "sweep")
        /\ BreaksOff(me[p].victim)
        /\ me' = [me EXCEPT ![p].tomb = None, ![p].victim = None]
        /\ UNCHANGED <<files, info, stage, place, lock>>
  /\ Slips

DeleteStep(p) ==
  \/ ScanInfo(p) \/ Choose(p) \/ Declined(p) \/ DeleteLock(p)
  \/ CheckDoomed(p) \/ Doom(p) \/ DropInfo(p) \/ CleanStaging(p)
  \/ DeleteUnlock(p) \/ Sweep(p) \/ Burn(p) \/ Done(p)

=============================================================================
