------------------------------ MODULE RipProps ------------------------------
(***************************************************************************)
(* What must hold of Rip, and what is said of it that does not.            *)
(***************************************************************************)
EXTENDS Rip

(* A process in an exclusive section of delete_batch excludes every other  *)
(* one from all that runs under a lock, on every way in and out of it      *)
(* (design.md, invariant 9).                                               *)
Exclusion ==
  \A p, q \in Proc :
    pc[p] \in ExclusivePC /\ p # q => pc[q] \notin SharedPC \cup ExclusivePC

(* Every entry rip put into files/ has a .trashinfo from before it appears *)
(* until after it left (design.md, invariant 3), whoever else reserves,    *)
(* releases, restores or deletes the same name.                            *)
InfoOrder == \A k \in Name : files[k] \in Obj \ Stray => info[k] # None

(* A process holds a candidate name while it has it reserved, or has taken *)
(* the entry out and has not yet settled what becomes of the .trashinfo.   *)
HoldPC == ReservingPC \cup TakenPC \cup {"drop"}
Holding(p, k) == pc[p] \in HoldPC /\ me[p].name = k

(* At most one process at a time holds a name, and then nothing is under   *)
(* it: O_EXCL on the .trashinfo, the renames and the lock together do what *)
(* no single one of them does (put, restore and empty on one name).        *)
OneHolder ==
  \A k \in Name, p \in Proc : Holding(p, k) =>
    /\ files[k] \in {None} \cup Stray
    /\ \A q \in Proc : Holding(q, k) => q = p

(* Content is at the user's, in files/, or in the hands of a live process  *)
(* that has tombstoned it and puts it back if it is not the one it meant.  *)
AtHome(v) == \E x \in Place : place[x] # None /\ body[place[x]] = v /\ x[1] = Origin[v]
Astray(v) == \E x \in Place : place[x] # None /\ body[place[x]] = v /\ x[1] # Origin[v]
InHand(o) == \E p \in Proc : /\ pc[p] \in {"verify", "putback"}
                             /\ stage[me[p].tomb].obj = o
InTrash(v) == \E o \in Obj : /\ body[o] = v
                             /\ InHand(o) \/ \E k \in Name : files[k] = o
Where == [v \in Data |-> (IF AtHome(v) THEN {"home"} ELSE {}) \cup
                         (IF InTrash(v) THEN {"trash"} ELSE {}) \cup
                         (IF Astray(v) THEN {"astray"} ELSE {})]

(* No content is lost that its user has not overwritten or agreed, item by *)
(* item, to delete (design.md, invariants 2, 7 and 8).                     *)
NoLoss == \A v \in born \ released : AtHome(v) \/ Astray(v) \/ InTrash(v)

(* Rip implements Vault: besides NoLoss, an item goes back to where it was,*)
(* and what was deleted does not come back.                                *)
V == INSTANCE Vault WITH where <- Where
Promise == V!Spec

(* No step of rip replaces an entry of files/ or of a user's directory     *)
(* (design.md, invariant 1), with RENAME_NOREPLACE and with its fallback.  *)
Keeps(f, g) == \A x \in DOMAIN f : f[x] # None => g[x] \in {f[x], None}
NoOverwrite == [][edits' = edits => Keeps(files, files') /\ Keeps(place, place')]_vars

(* When every command has come to its end, none was killed and no clean-up *)
(* call failed, nothing of theirs is left over: no copy box, no tombstone, *)
(* no new .trashinfo without its entry, whatever else failed in between    *)
(* (design.md, 5.1 to 5.3).                                                *)
AtRest ==
  (\A p \in Proc : pc[p] = "idle") /\ mishaps = MaxMishaps =>
    /\ \A s \in Slot : stage[s] = NoEntry
    /\ \A k \in Name : info[k] # None /\ files[k] = None =>
         \E s \in Starts : s.info[k] = info[k]

(* Every command ends: no wait for the lock, no claim loop and no prompt   *)
(* goes on for ever.                                                       *)
Terminates == \A p \in Proc : pc[p] # "idle" ~> pc[p] = "idle"

(* What a killed command, or one that could not clean up, left in          *)
(* .rip-staging is gone after the next `empty` (design.md, invariant 8),   *)
(* provided that one can.                                                  *)
Swept == \A s \in Slot, p \in Emptiers :
  pc[p] = "next" /\ mishaps = 0 /\ stage[s].kind # "none" ~> stage[s].kind = "none"

-----------------------------------------------------------------------------
(* What the documentation says and the code does not do: each of these is  *)
(* violated by a run of its own (README, "Findings").                      *)

(* "the rollback must discard exactly this entry, not whatever a           *)
(* concurrent restore or put has since done with the name" (put.rs:796).   *)
RollbackOwn == \A p \in Putters :
  pc[p] \in {"checkinfo", "unlink", "rm"} =>
    body[stage[me[p].tomb].obj] = me[p].copied

(* "A crash cannot delete anything that was not selected" (design.md:407): *)
(* content nobody gave up is somewhere, be it in .rip-staging.             *)
Survives == \A v \in born \ released : \E o \in Obj : body[o] = v

=============================================================================
