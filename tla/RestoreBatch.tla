---------------------------- MODULE RestoreBatch ----------------------------
(***************************************************************************)
(* `rip undo` and `rip restore` of several items (restore_batch()): parents*)
(* before children, the directories on the way created and, if the item    *)
(* does not come back, removed again, children of what did not come back   *)
(* left alone.  What happens in the trash directory is Restore; here an    *)
(* item comes back, with all it holds, or its restore ends in one of the   *)
(* code's other ways.                                                      *)
(***************************************************************************)
EXTENDS Naturals, SequencesExt

CONSTANTS
  Path,      \* original paths: sequences of components, closed under prefixes
  Trees      \* what may exist already: functions on Path

Node == {"none", "dir", "file"}

ASSUME TreesAssumption ==
  /\ Path \subseteq Seq(Nat)
  /\ \A p \in Path : /\ Len(p) > 0
                     /\ \A d \in 1..(Len(p) - 1) : SubSeq(p, 1, d) \in Path
  /\ Trees \subseteq [Path -> Node]
  /\ \A t \in Trees, p, q \in Path : t[p] = "none" /\ IsPrefix(p, q) => t[q] = "none"

VARIABLES
  rename,         \* --rename was given
  before, node,   \* what existed when the command began, and what exists
  queue,          \* the items still to be restored: path, and holds: what comes
                  \* with it, at which paths
  status,         \* item -> what became of it
  blocked,        \* original paths of items that did not come back
  depth, made,    \* ensure_parent: components resolved, directories created
  pc
batchVars == <<rename, before, node, queue, status, blocked, depth, made, pc>>

Batch == DOMAIN status
Cur == Head(queue)
Above(p, q) == IsPrefix(p, q)      \* Path::starts_with: q is p or under it
Placed(s) == {x \in Batch : status[x] = s}

RestoreBatchInit ==
  /\ rename \in BOOLEAN /\ before \in Trees /\ node = before
  /\ queue = <<>> /\ status = <<>>
  /\ blocked = {} /\ depth = 0 /\ made = <<>>

(* Mutant: the batch stays in the order it was listed in.                  *)
SortNot == pc = "sort" /\ pc' = "next"
           /\ UNCHANGED <<rename, before, node, queue, status, blocked, depth, made>>

(* sort_parents_first(): by the number of components; the order of items   *)
(* with as many (their bytes) is left open.                                *)
Sort ==
  /\ pc = "sort"
  /\ \E f \in Bijection(DOMAIN queue, DOMAIN queue) :
       /\ queue' = [k \in DOMAIN queue |-> queue[f[k]]]
       /\ \A j, k \in DOMAIN queue : j < k => Len(queue'[j].path) <= Len(queue'[k].path)
  /\ pc' = "next"
  /\ UNCHANGED <<rename, before, node, status, blocked, depth, made>>

(* An item under one that did not come back is skipped and reported.       *)
Skip ==
  /\ pc = "next" /\ queue # <<>>
  /\ \E b \in blocked : Above(b, Cur.path)
  /\ status' = [status EXCEPT ![Cur] = "skipped"]
  /\ queue' = Tail(queue)
  /\ UNCHANGED <<rename, before, node, blocked, depth, made, pc>>

Begin ==
  /\ pc = "next" /\ queue # <<>>
  /\ ~\E b \in blocked : Above(b, Cur.path)
  /\ depth' = 0 /\ made' = <<>>
  /\ pc' = "parent"
  /\ UNCHANGED <<rename, before, node, queue, status, blocked>>

(* The end of restore_item() and of the round of restore_batch().          *)
Finish(s) ==
  /\ status' = [status EXCEPT ![Cur] = s]
  /\ queue' = Tail(queue)
  /\ pc' = "next"

(* One component of ensure_parent().  If it cannot be opened, or mkdir     *)
(* fails, or to open what mkdir made, then what this call created so far   *)
(* is left: the guard that removes it exists only once ensure_parent() has *)
(* returned.                                                               *)
EnsureParent ==
  /\ pc = "parent" /\ depth < Len(Cur.path) - 1
  /\ LET p == SubSeq(Cur.path, 1, depth + 1) IN
     \/ /\ node[p] = "dir"
        /\ depth' = depth + 1
        /\ UNCHANGED <<node, made, queue, status, blocked, pc>>
     \/ /\ node[p] = "none"
        /\ node' = [node EXCEPT ![p] = "dir"]
        /\ made' = Append(made, p)
        /\ depth' = depth + 1
        /\ UNCHANGED <<queue, status, blocked, pc>>
     \/ /\ \/ UNCHANGED node
           \/ node[p] = "none" /\ node' = [node EXCEPT ![p] = "dir"]
        /\ Finish("noparent")
        /\ blocked' = blocked \cup {Cur.path}
        /\ UNCHANGED <<made, depth>>
  /\ UNCHANGED <<rename, before>>

(* ParentGuard::drop.                                                      *)
RmdirReverse == node' = [p \in Path |-> IF p \in Range(made) THEN "none" ELSE node[p]]

Taken == ~rename /\ node[Cur.path] # "none"
AtParent == pc = "parent" /\ depth = Len(Cur.path) - 1

(* Mutant: the created directories are kept, as after a success.           *)
GiveUpKeeps(s) ==
  /\ AtParent
  /\ s = "conflict" <=> Taken
  /\ Finish(s)
  /\ blocked' = blocked \cup {Cur.path}
  /\ UNCHANGED <<rename, before, node, depth, made>>

(* Mutant: only a failure blocks, not a declined prompt.                   *)
GiveUpDeclinedFree(s) ==
  /\ AtParent
  /\ s = "conflict" <=> Taken
  /\ Finish(s)
  /\ blocked' = IF s = "declined" THEN blocked ELSE blocked \cup {Cur.path}
  /\ RmdirReverse
  /\ UNCHANGED <<rename, before, depth, made>>

(* The item stays in the trash: its path exists and there is no --rename;  *)
(* the size prompt is declined; or anything fails up to the rename that    *)
(* publishes it (or, to the same effect, before ensure_parent()).          *)
GiveUp(s) ==
  /\ AtParent
  /\ s = "conflict" <=> Taken
  /\ Finish(s)
  /\ blocked' = blocked \cup {Cur.path}
  /\ RmdirReverse
  /\ UNCHANGED <<rename, before, depth, made>>

(* An item that is still in the trash is renamed or copied to its path, or *)
(* with --rename to a free name beside it, with what it holds; a syncfs()  *)
(* that fails after a copy makes it a failure.                             *)
Publish(s) ==
  /\ AtParent /\ status[Cur] = "trashed"
  /\ \/ /\ node[Cur.path] = "none"
        /\ node' = [p \in Path |-> IF Above(Cur.path, p) THEN Cur.holds[p] ELSE node[p]]
     \/ rename /\ node[Cur.path] # "none" /\ UNCHANGED node
  /\ Finish(s)
  /\ blocked' = IF s = "unsynced" THEN blocked \cup {Cur.path} ELSE blocked
  /\ made' = <<>>
  /\ UNCHANGED <<rename, before, depth>>

RestoreBatchNext ==
  \/ Sort \/ Skip \/ Begin \/ EnsureParent
  \/ \E s \in {"conflict", "declined", "failed"} : GiveUp(s)
  \/ \E s \in {"restored", "unsynced"} : Publish(s)

-----------------------------------------------------------------------------
Back == Placed("restored") \cup Placed("unsynced")
Settled == pc = "next" /\ queue = <<>>

(* No directory is made up in the place of an item of the batch that did   *)
(* not come back (design.md, 6: "Undo/restore fabricates a parent          *)
(* directory for a child whose own parent restore was declined, refused or *)
(* failed"): if its path changed, then to what an item that is back holds. *)
NoFabrication == pc = "next" =>
  \A x \in Batch \ Back :
    status[x] # "trashed" /\ node[x.path] # before[x.path] =>
      \E y \in Back : y.holds[x.path] = node[x.path]

(* `rip dir/f dir` can be undone: an item finds its path taken only by     *)
(* what was there before, or by what another item is or brought back with  *)
(* it, never by a directory that the same batch made for one of its        *)
(* children.                                                               *)
NoSelfConflict == \A x \in Placed("conflict") :
  before[x.path] # "none" \/ \E y \in Back \ {x} : y.holds[x.path] # "none"

(* A directory that the command made and that no item brought back is on   *)
(* the way to an item that came back, or to one for which even the way     *)
(* there could not be made.                                                *)
RollsBack == Settled =>
  \A p \in Path : before[p] = "none" /\ node[p] # "none" =>
    \/ \E x \in Back : Above(p, x.path) \/ x.holds[p] = node[p]
    \/ \E x \in Placed("noparent") : Above(p, x.path)

=============================================================================
