------------------------------- MODULE Reserve -------------------------------
(***************************************************************************)
(* trash::Reserved: claiming a free candidate name by creating its         *)
(* .trashinfo with O_EXCL, and giving it up again.  Both ways of `put` use *)
(* it; `slot` tells the copy path (a copy box is held) from the rename one.*)
(***************************************************************************)
EXTENDS TrashDisk

(* The first half of a round of Reserved::claim: skip a candidate whose    *)
(* files/ entry exists.                                                    *)
ClaimStat(p) ==
  /\ pc[p] = "claim" /\ me[p].name <= MaxName
  /\ IF files[me[p].name] # None
     THEN me' = [me EXCEPT ![p].name = @ + 1] /\ UNCHANGED pc
     ELSE Goto(p, "open") /\ UNCHANGED me
  /\ UNCHANGED <<disk, lock, bounds>>

(* Mutant: without O_EXCL an existing .trashinfo is written over.          *)
ClaimOpenOver(p) ==
  /\ pc[p] = "open" /\ FreeIds # {}
  /\ LET new == [id |-> NewId, path |-> me[p].dir] IN
     /\ info' = [info EXCEPT ![me[p].name] = new]
     /\ me' = [me EXCEPT ![p].info = new]
  /\ Goto(p, "publish")
  /\ UNCHANGED <<files, stage, place, body, lock, bounds>>

(* The second half: open(O_CREAT|O_EXCL) of the .trashinfo, and its text.  *)
ClaimOpen(p) ==
  /\ pc[p] = "open"
  /\ LET k == me[p].name IN
     \/ /\ info[k] # None
        /\ me' = [me EXCEPT ![p].name = @ + 1]
        /\ Goto(p, "claim")
        /\ UNCHANGED info
     \/ /\ info[k] = None /\ FreeIds # {}
        /\ LET new == [id |-> NewId, path |-> me[p].dir] IN
           /\ info' = [info EXCEPT ![k] = new]
           /\ me' = [me EXCEPT ![p].info = new]
        /\ Goto(p, "publish")
  /\ UNCHANGED <<files, stage, place, body, lock, bounds>>

(* Mutant: the copy box is forgotten when nothing could be reserved.       *)
ClaimFailsKeepsBox(p) ==
  /\ pc[p] \in {"claim", "open"}
  /\ Goto(p, "unlock")
  /\ UNCHANGED <<disk, lock, me, bounds>>

(* No candidate left, or an I/O error (a .trashinfo that could not be      *)
(* written is unlinked again): nothing is reserved.                        *)
ClaimFails(p) ==
  /\ pc[p] \in {"claim", "open"}
  /\ Goto(p, IF me[p].slot = None THEN "unlock" ELSE "dropbox")
  /\ UNCHANGED <<disk, lock, me, bounds>>

(* Mutant: advance() opens the next candidate without asking whether there *)
(* is one.                                                                 *)
ReleaseOpens(p) ==
  /\ pc[p] = "advance"
  /\ info' = [info EXCEPT ![me[p].name] = None]
  /\ me' = [me EXCEPT ![p].name = @ + 1, ![p].info = None]
  /\ Goto(p, "open")
  /\ UNCHANGED <<files, stage, place, body, lock, bounds>>

(* Mutant: advance() steps to the next candidate first and unlinks that    *)
(* one's .trashinfo.                                                       *)
ReleaseNext(p) ==
  /\ pc[p] = "advance" /\ me[p].name < MaxName
  /\ info' = [info EXCEPT ![me[p].name + 1] = None]
  /\ me' = [me EXCEPT ![p].name = @ + 1, ![p].info = None]
  /\ Goto(p, "claim")
  /\ UNCHANGED <<files, stage, place, body, lock, bounds>>

(* Reserved::release, from advance() after EEXIST and from drop on every   *)
(* error ...                                                               *)
LetsGo(p) ==
  \/ /\ pc[p] = "advance"
     /\ me' = [me EXCEPT ![p].name = @ + 1, ![p].info = None]
     /\ Goto(p, "claim")
  \/ /\ pc[p] = "release"
     /\ me' = [me EXCEPT ![p].info = None]
     /\ Goto(p, IF me[p].slot = None THEN "unlock" ELSE "dropbox")
  \/ /\ pc[p] = "exdev"
     /\ me' = [me EXCEPT ![p].info = None]
     /\ Goto(p, "unlockcp")

(* ... unlinks the reserved .trashinfo, by name, and goes on if it cannot. *)
Release(p) ==
  /\ LetsGo(p)
  /\ info' = [info EXCEPT ![me[p].name] = None]
  /\ UNCHANGED <<files, stage, place, body, lock, bounds>>

ReleaseFails(p) == LetsGo(p) /\ Slips /\ UNCHANGED <<disk, lock>>

ReserveStep(p) == ClaimStat(p) \/ ClaimOpen(p) \/ ClaimFails(p) \/ Release(p)

=============================================================================
