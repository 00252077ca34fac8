------------------------ MODULE RestoreCommandProofs ------------------------
(***************************************************************************)
(* restore_batch() makes up no directory for an item that did not come     *)
(* back, never lets a directory it made stand in the way of an item, and   *)
(* leaves no directory behind but on the way to what it restored or tried  *)
(* to reach.  Parents come before children, so a path that changed holds   *)
(* what an item that is back brought with it or is above an item that was  *)
(* begun (Changed), and what is above an item that is begun is never       *)
(* blocked (AtWork).                                                       *)
(*                                                                         *)
(* This holds of every command line: no command begins a batch with        *)
(* anything but items of the trash directories, each once.  undo takes the *)
(* newest invocation, a PATH argument nothing it does not name, and what   *)
(* another file system's .trashinfo says leads nowhere outside of it.      *)
(***************************************************************************)
EXTENDS RestoreCommand, DataLemmas

Failed == {"skipped", "noparent", "conflict", "declined", "failed"}
Outcome == {"trashed", "restored", "unsynced"} \cup Failed

(* An item is there, and what it holds is in it.                           *)
Whole(x) ==
  /\ x.holds \in [Path -> Node] /\ x.holds[x.path] # "none"
  /\ \A p \in Path : x.holds[p] # "none" => Above(x.path, p)

BatchTypes ==
  /\ rename \in BOOLEAN
  /\ before \in Trees /\ before \in [Path -> Node] /\ node \in [Path -> Node]
  /\ status \in [Batch -> Outcome]
  /\ \A x \in Batch : x.path \in Path /\ Whole(x)
  /\ queue \in Seq(Batch)
  /\ blocked \subseteq Path /\ depth \in Nat /\ made \in Seq(Path)

(* The queue holds what is still to be restored, each item once.           *)
Waiting ==
  /\ \A j, k \in 1..Len(queue) : queue[j] = queue[k] => j = k
  /\ \A x \in Batch : status[x] = "trashed" <=> \E k \in 1..Len(queue) : queue[k] = x

InLoop == pc \in {"next", "parent"}
Untouched == node = before /\ blocked = {} /\ \A x \in Batch : status[x] = "trashed"

(* An item that was begun has no more components than one that was not.    *)
InOrder ==
  /\ \A j, k \in 1..Len(queue) : j < k => Len(queue[j].path) <= Len(queue[k].path)
  /\ \A x \in Batch, k \in 1..Len(queue) :
       status[x] # "trashed" => Len(x.path) <= Len(queue[k].path)

(* ensure_parent() is for an item under nothing that is blocked, and makes *)
(* only what is above it.                                                  *)
AtWork ==
  /\ queue # <<>> /\ \A b \in blocked : ~Above(b, Cur.path)
  /\ \A k \in 1..Len(made) :
       /\ IsStrictPrefix(made[k], Cur.path) /\ before[made[k]] = "none"
       /\ \A y \in Back : y.path # made[k]

Reached == Back \cup Placed("noparent")
Changed == \A p \in Path : node[p] # before[p] =>
  /\ before[p] = "none"
  /\ \/ \E y \in Back : y.holds[p] = node[p]
     \/ \E z \in Reached : IsStrictPrefix(p, z.path)
     \/ pc = "parent" /\ \E k \in 1..Len(made) : made[k] = p

BackThere == \A y \in Back : node[y.path] # "none"

LeftOut == \A x \in Batch : status[x] \in Failed =>
  /\ \E b \in blocked : Above(b, x.path)
  /\ node[x.path] # before[x.path] => \E y \in Back : y.holds[x.path] = node[x.path]

BatchInv ==
  /\ BatchTypes /\ Waiting
  /\ ~InLoop => Untouched
  /\ InLoop => InOrder
  /\ pc = "parent" => AtWork
  /\ Changed /\ BackThere /\ LeftOut /\ NoSelfConflict

-----------------------------------------------------------------------------
(* Prefixes of paths.                                                      *)
LEMMA PathsAreSequences ==
  ASSUME NEW p \in Path
  PROVE  p \in Seq(Nat) /\ Len(p) \in Nat \ {0}
BY TreesAssumption

(* A prefix of a path, component by component.                             *)
LEMMA PrefixIs ==
  ASSUME NEW p \in Seq(Nat), NEW q \in Seq(Nat)
  PROVE  IsPrefix(p, q) <=> Len(p) <= Len(q) /\ \A i \in 1..Len(p) : p[i] = q[i]
BY PrefixOf

(* Above is a partial order, and what is above a path is shorter.          *)
LEMMA AboveIs ==
  /\ \A p \in Path : Above(p, p)
  /\ \A p, q, r \in Path : Above(p, q) /\ Above(q, r) => Above(p, r)
  /\ \A p, q \in Path : Above(p, q) /\ p # q => Len(p) < Len(q)
  /\ \A p, q \in Path : IsStrictPrefix(p, q) <=> Above(p, q) /\ p # q
<1>1. \A p \in Path : p \in Seq(Nat) /\ Len(p) \in Nat
  BY PathsAreSequences
<1>2. \A p, q \in Path :
        Above(p, q) <=> Len(p) <= Len(q) /\ \A i \in 1..Len(p) : p[i] = q[i]
  BY <1>1, PrefixIs DEF Above
<1>3. ASSUME NEW p \in Path, NEW q \in Path, Above(p, q), p # q PROVE Len(p) < Len(q)
  BY <1>1, <1>2, <1>3, SeqEqual
<1> QED
  BY <1>1, <1>2, <1>3 DEF IsStrictPrefix, Above

(* A component of ensure_parent() is a path of its own, strictly above.    *)
LEMMA ComponentIs ==
  ASSUME NEW q \in Path, NEW d \in Nat, d < Len(q) - 1
  PROVE  /\ SubSeq(q, 1, d + 1) \in Path
         /\ IsStrictPrefix(SubSeq(q, 1, d + 1), q)
<1>1. q \in Seq(Nat) /\ Len(q) \in Nat
  BY PathsAreSequences
<1> DEFINE p == SubSeq(q, 1, d + 1)
<1>2. p \in Path
  BY <1>1, TreesAssumption
<1>3. p \in Seq(Nat) /\ Len(p) = d + 1 /\ \A i \in 1..(d + 1) : p[i] = q[i]
  BY <1>1
<1> HIDE DEF p
<1>4. IsPrefix(p, q) /\ p # q
  BY <1>1, <1>3, PrefixIs, SMTT(30)
<1> QED
  BY <1>2, <1>4 DEF IsStrictPrefix, p

-----------------------------------------------------------------------------
(* What the end of a round does to the queue and to the statuses.          *)
LEMMA RoundEnds ==
  ASSUME BatchTypes, Waiting, queue # <<>>, NEW s \in Outcome \ {"trashed"}, Finish(s)
  PROVE  /\ Cur \in Batch /\ status[Cur] = "trashed"
         /\ Batch' = Batch /\ status' \in [Batch -> Outcome]
         /\ status'[Cur] = s /\ \A x \in Batch : x # Cur => status'[x] = status[x]
         /\ queue' \in Seq(Batch)
         /\ Waiting' /\ (InOrder => InOrder')
<1>1. /\ queue \in Seq(Batch) /\ Len(queue) \in Nat \ {0}
      /\ Cur = queue[1] /\ Cur \in Batch /\ 1 \in 1..Len(queue)
  BY DEF BatchTypes, Cur
<1>2. status[Cur] = "trashed"
  BY <1>1 DEF Waiting
<1>3. /\ Batch' = Batch /\ status' \in [Batch -> Outcome] /\ status'[Cur] = s
      /\ \A x \in Batch : x # Cur => status'[x] = status[x]
  BY <1>1 DEF BatchTypes, Finish, Batch
<1>4. /\ queue' \in Seq(Batch) /\ Len(queue') = Len(queue) - 1
      /\ \A k \in 1..Len(queue') : queue'[k] = queue[k + 1] /\ k + 1 \in 1..Len(queue)
  BY <1>1 DEF Finish
<1>5. Waiting'
  <2>1. \A j, k \in 1..Len(queue') : queue'[j] = queue'[k] => j = k
    BY <1>1, <1>4 DEF Waiting
  <2>2. ASSUME NEW x \in Batch, status'[x] = "trashed"
        PROVE  \E k \in 1..Len(queue') : queue'[k] = x
    <3>1. x # Cur /\ status[x] = "trashed"
      BY <1>3, <2>2
    <3>2. PICK k \in 1..Len(queue) : queue[k] = x
      BY <3>1 DEF Waiting
    <3>3. k # 1 /\ k - 1 \in 1..Len(queue') /\ (k - 1) + 1 = k
      BY <1>1, <1>4, <3>1, <3>2
    <3> QED
      BY <1>4, <3>2, <3>3
  <2>3. ASSUME NEW x \in Batch, NEW k \in 1..Len(queue'), queue'[k] = x
        PROVE  status'[x] = "trashed"
    <3>1. queue[k + 1] = x /\ k + 1 \in 1..Len(queue) /\ k + 1 # 1
      BY <1>1, <1>4, <2>3
    <3>2. x # Cur /\ status[x] = "trashed"
      BY <1>1, <3>1 DEF Waiting
    <3> QED
      BY <1>3, <3>2
  <2> QED
    BY <1>3, <2>1, <2>2, <2>3 DEF Waiting
<1>6. ASSUME InOrder PROVE InOrder'
  <2>1. \A x \in Batch : Len(x.path) \in Nat
    BY PathsAreSequences DEF BatchTypes
  <2>2. ASSUME NEW j \in 1..Len(queue'), NEW k \in 1..Len(queue'), j < k
        PROVE  Len(queue'[j].path) <= Len(queue'[k].path)
    BY <1>1, <1>4, <1>6, <2>2, SMTT(30) DEF InOrder
  <2>3. ASSUME NEW x \in Batch, NEW k \in 1..Len(queue'), status'[x] # "trashed"
        PROVE  Len(x.path) <= Len(queue'[k].path)
    <3>1. queue'[k] = queue[k + 1] /\ k + 1 \in 1..Len(queue) /\ 1 < k + 1
      BY <1>1, <1>4
    <3>2. CASE x = Cur
      BY <1>1, <1>6, <3>1, <3>2 DEF InOrder
    <3>3. CASE x # Cur
      BY <1>3, <1>6, <2>3, <3>1, <3>3 DEF InOrder
    <3> QED
      BY <3>2, <3>3
  <2> QED
    BY <1>3, <2>2, <2>3 DEF InOrder
<1> QED
  BY <1>1, <1>2, <1>3, <1>4, <1>5, <1>6

(* The queue is put in order; what is in it stays.                         *)
LEMMA SortStep ==
  ASSUME BatchInv, Sort
  PROVE  BatchInv'
<1>0. Waiting
  BY DEF BatchInv
<1>1. PICK f \in Bijection(DOMAIN queue, DOMAIN queue) :
        /\ queue' = [k \in DOMAIN queue |-> queue[f[k]]]
        /\ \A j, k \in DOMAIN queue : j < k => Len(queue'[j].path) <= Len(queue'[k].path)
  BY DEF Sort
<1>2. /\ queue \in Seq(Batch) /\ Len(queue) \in Nat /\ DOMAIN queue = 1..Len(queue)
      /\ \A k \in 1..Len(queue) : queue[k] \in Batch
  BY DEF BatchInv, BatchTypes
<1>3. /\ f \in [1..Len(queue) -> 1..Len(queue)]
      /\ \A j, k \in 1..Len(queue) : f[j] = f[k] => j = k
      /\ \A k \in 1..Len(queue) : \E j \in 1..Len(queue) : f[j] = k
  BY <1>1, <1>2 DEF Bijection, Injection, Surjection, IsInjective
<1>4. /\ queue' \in Seq(Batch) /\ Len(queue') = Len(queue)
      /\ \A k \in 1..Len(queue) : queue'[k] = queue[f[k]]
  BY <1>1, <1>2, <1>3
<1>5. Untouched /\ ~InLoop
  BY DEF BatchInv, Sort, InLoop
<1>6. /\ pc' = "next" /\ Batch' = Batch
      /\ UNCHANGED <<rename, before, node, status, blocked, depth, made>>
  BY DEF Sort, Batch
<1>7. BatchTypes'
  BY <1>4, <1>6 DEF BatchInv, BatchTypes
<1>8. Waiting'
  <2>1. \A j, k \in 1..Len(queue') : queue'[j] = queue'[k] => j = k
    <3>1. ASSUME NEW j \in 1..Len(queue), NEW k \in 1..Len(queue), queue'[j] = queue'[k]
          PROVE  j = k
      <4>1. queue[f[j]] = queue[f[k]] /\ f[j] \in 1..Len(queue) /\ f[k] \in 1..Len(queue)
        BY <1>3, <1>4, <3>1
      <4>2. f[j] = f[k]
        BY <1>0, <4>1 DEF Waiting
      <4> QED
        BY <1>3, <4>2
    <3> QED
      BY <1>4, <3>1
  <2>2. ASSUME NEW x \in Batch
        PROVE  (\E k \in 1..Len(queue) : queue[k] = x)
                 <=> \E k \in 1..Len(queue') : queue'[k] = x
    <3>1. ASSUME NEW k \in 1..Len(queue), queue[k] = x
          PROVE  \E j \in 1..Len(queue') : queue'[j] = x
      <4>1. PICK j \in 1..Len(queue) : f[j] = k
        BY <1>3
      <4> QED
        BY <1>4, <3>1, <4>1
    <3>2. ASSUME NEW k \in 1..Len(queue'), queue'[k] = x
          PROVE  \E j \in 1..Len(queue) : queue[j] = x
      BY <1>3, <1>4, <3>2
    <3> QED
      BY <3>1, <3>2
  <2> QED
    BY <1>0, <1>6, <2>1, <2>2 DEF Waiting
<1>9. InOrder'
  BY <1>1, <1>2, <1>4, <1>5, <1>6 DEF InOrder, Untouched
<1>10. (Changed /\ BackThere /\ LeftOut /\ NoSelfConflict)'
  BY <1>5, <1>6 DEF Changed, BackThere, LeftOut, NoSelfConflict, Untouched, Back, Placed,
     Failed
<1> QED
  BY <1>6, <1>7, <1>8, <1>9, <1>10 DEF BatchInv, InLoop

(* What changed at the path of the first item waiting is an item: anything *)
(* made on the way to another one is shorter.                              *)
LEMMA NothingBelowFirst ==
  ASSUME BatchInv, InLoop, queue # <<>>,
         NEW q, q = Cur.path, node[q] # before[q]
  PROVE  \E y \in Back : y.holds[q] = node[q]
<1>1. /\ Cur = queue[1] /\ Cur \in Batch /\ 1 \in 1..Len(queue) /\ q \in Path
  BY DEF BatchInv, BatchTypes, Cur
<1>2. ASSUME NEW z \in Reached, IsStrictPrefix(q, z.path) PROVE FALSE
  <2>1. z \in Batch /\ status[z] # "trashed" /\ z.path \in Path
    BY DEF Reached, Back, Placed, BatchInv, BatchTypes
  <2>2. Len(z.path) <= Len(q)
    BY <1>1, <2>1 DEF BatchInv, InLoop, InOrder
  <2>3. Len(q) < Len(z.path)
    BY <1>1, <1>2, <2>1, AboveIs
  <2> QED
    BY <1>1, <2>1, <2>2, <2>3, PathsAreSequences
<1>3. pc = "parent" => \A k \in 1..Len(made) : made[k] # q
  BY DEF BatchInv, AtWork, IsStrictPrefix
<1> QED
  BY <1>1, <1>2, <1>3 DEF BatchInv, Changed

(* An item under one that did not come back is skipped.                    *)
LEMMA SkipStep ==
  ASSUME BatchInv, Skip
  PROVE  BatchInv'
<1> USE DEF BatchInv
<1>1. /\ pc = "next" /\ pc' = "next" /\ queue # <<>> /\ Finish("skipped")
      /\ UNCHANGED <<rename, before, node, blocked, depth, made>>
  BY DEF Skip, Finish
<1>2. /\ Cur \in Batch /\ status[Cur] = "trashed"
      /\ Batch' = Batch /\ status' \in [Batch -> Outcome]
      /\ status'[Cur] = "skipped" /\ \A x \in Batch : x # Cur => status'[x] = status[x]
      /\ queue' \in Seq(Batch) /\ Waiting' /\ (InOrder => InOrder')
  BY <1>1, RoundEnds, "skipped" \in Outcome \ {"trashed"} DEF Outcome, Failed
<1>3. InOrder /\ InOrder'
  BY <1>1, <1>2 DEF InLoop
<1>4. BatchTypes'
  BY <1>1, <1>2 DEF BatchTypes
<1>5. Back' = Back /\ Placed("noparent")' = Placed("noparent")
  BY <1>2 DEF Back, Placed
<1>6. Changed' /\ BackThere'
  BY <1>1, <1>5 DEF Changed, BackThere, Reached
<1>7. LeftOut'
  <2>1. ASSUME NEW x \in Batch, x # Cur, status'[x] \in Failed
        PROVE  /\ \E b \in blocked' : Above(b, x.path)
               /\ node'[x.path] # before'[x.path] =>
                    \E y \in Back' : y.holds[x.path] = node'[x.path]
    BY <1>1, <1>2, <1>5, <2>1 DEF LeftOut
  <2>2. \E b \in blocked' : Above(b, Cur.path)
    BY <1>1 DEF Skip
  <2>3. ASSUME node[Cur.path] # before[Cur.path]
        PROVE  \E y \in Back : y.holds[Cur.path] = node[Cur.path]
    BY <1>1, <1>2, <1>3, <2>3, NothingBelowFirst DEF InLoop
  <2> QED
    BY <1>1, <1>2, <1>5, <2>1, <2>2, <2>3 DEF LeftOut
<1>8. NoSelfConflict'
  BY <1>1, <1>2, <1>5 DEF NoSelfConflict, Placed
<1> QED
  BY <1>1, <1>2, <1>3, <1>4, <1>6, <1>7, <1>8 DEF InLoop

(* The next item is begun: it is under nothing that is blocked.            *)
LEMMA BeginStep ==
  ASSUME BatchInv, Begin
  PROVE  BatchInv'
<1> USE DEF BatchInv
<1>1. /\ pc = "next" /\ pc' = "parent" /\ queue # <<>> /\ Batch' = Batch /\ Back' = Back
      /\ UNCHANGED <<rename, before, node, queue, status, blocked>>
      /\ depth' = 0 /\ made' = <<>>
  BY DEF Begin, Batch, Back, Placed
<1>2. BatchTypes' /\ Waiting' /\ InOrder'
  BY <1>1 DEF BatchTypes, Waiting, InOrder, InLoop
<1>3. AtWork'
  BY <1>1 DEF AtWork, Begin, Cur
<1>4. (Changed /\ BackThere /\ LeftOut /\ NoSelfConflict)'
  BY <1>1 DEF Changed, BackThere, LeftOut, NoSelfConflict, Reached, Placed
<1> QED
  BY <1>1, <1>2, <1>3, <1>4 DEF InLoop

(* mkdir of a component on the way.                                        *)
LEMMA MkdirStep ==
  ASSUME BatchInv, pc = "parent", depth < Len(Cur.path) - 1,
         NEW p, p = SubSeq(Cur.path, 1, depth + 1), node[p] = "none",
         node' = [node EXCEPT ![p] = "dir"], made' = Append(made, p), depth' = depth + 1,
         UNCHANGED <<rename, before, queue, status, blocked, pc>>
  PROVE  BatchInv'
<1> USE DEF BatchInv
<1>1. /\ queue # <<>> /\ Cur = queue[1] /\ Cur \in Batch /\ Cur.path \in Path
      /\ depth \in Nat /\ Cur' = Cur /\ Batch' = Batch /\ Back' = Back
      /\ Placed("noparent")' = Placed("noparent")
  BY DEF BatchTypes, AtWork, Cur, Batch, Back, Placed
<1>2. p \in Path /\ IsStrictPrefix(p, Cur.path) /\ Above(p, Cur.path)
  BY <1>1, ComponentIs DEF IsStrictPrefix, Above
<1>3. /\ made' \in Seq(Path) /\ Len(made') = Len(made) + 1 /\ Len(made) \in Nat
      /\ \A k \in 1..Len(made) : made'[k] = made[k]
      /\ made'[Len(made) + 1] = p
  BY <1>2 DEF BatchTypes
<1>4. /\ node' \in [Path -> Node] /\ node'[p] = "dir"
      /\ \A q \in Path : q # p => node'[q] = node[q]
  BY <1>2 DEF BatchTypes, Node
<1>5. BatchTypes' /\ Waiting' /\ InOrder' /\ InLoop'
  <2>1. BatchTypes'
    <3>1. BatchTypes /\ depth' \in Nat
      BY <1>1
    <3>2. made' \in Seq(Path) /\ node' \in [Path -> Node]
      BY <1>3, <1>4
    <3> QED
      BY <1>1, <3>1, <3>2 DEF BatchTypes
  <2>2. Waiting'
    BY <1>1 DEF Waiting
  <2>4. InOrder'
    <3>1. InOrder
      BY DEF InLoop
    <3>2. queue' = queue /\ status' = status /\ Batch' = Batch
      BY DEF Batch
    <3> QED
      BY ONLY <3>1, <3>2 DEF InOrder
  <2>3. InLoop'
    BY DEF InLoop
  <2> QED
    BY <2>1, <2>2, <2>3, <2>4
<1>6. before[p] = "none" /\ \A y \in Back : y.path # p
  BY <1>2 DEF Changed, BackThere
<1>7. AtWork'
  <2>1. ASSUME NEW k \in 1..Len(made')
        PROVE  /\ IsStrictPrefix(made'[k], Cur.path) /\ before[made'[k]] = "none"
               /\ \A y \in Back : y.path # made'[k]
    <3>1. k \in 1..Len(made) \/ k = Len(made) + 1
      BY <1>3
    <3> QED
      BY <1>2, <1>3, <1>6, <3>1 DEF AtWork
  <2> QED
    BY <1>1, <2>1 DEF AtWork
<1>8. Changed'
  <2>1. ASSUME NEW q \in Path, q # p, node'[q] # before[q]
        PROVE  /\ before[q] = "none"
               /\ \/ \E y \in Back : y.holds[q] = node'[q]
                  \/ \E z \in Reached : IsStrictPrefix(q, z.path)
                  \/ \E k \in 1..Len(made') : made'[k] = q
    <3>1. node[q] # before[q]
      BY <1>4, <2>1
    <3>2. ASSUME NEW k \in 1..Len(made), made[k] = q
          PROVE  \E j \in 1..Len(made') : made'[j] = q
      <4>1. k \in 1..Len(made') /\ made'[k] = q
        BY <1>3, <3>2
      <4> QED
        BY <4>1
    <3> QED
      BY <1>4, <2>1, <3>1, <3>2 DEF Changed
  <2>2. \E k \in 1..Len(made') : made'[k] = p
    <3>1. Len(made) + 1 \in 1..Len(made')
      BY <1>3
    <3> QED
      BY <1>3, <3>1
  <2>3. ASSUME NEW q \in Path, node'[q] # before'[q]
        PROVE  /\ before'[q] = "none"
               /\ \/ \E y \in Back' : y.holds[q] = node'[q]
                  \/ \E z \in Reached' : IsStrictPrefix(q, z.path)
                  \/ pc' = "parent" /\ \E k \in 1..Len(made') : made'[k] = q
    <3>1. Reached' = Reached
      BY <1>1 DEF Reached
    <3>2. CASE q = p
      BY <1>6, <2>2, <3>2
    <3>3. CASE q # p
      BY <1>1, <2>1, <2>3, <3>1, <3>3
    <3> QED
      BY <3>2, <3>3
  <2> QED
    BY <2>3 DEF Changed
<1>9. BackThere'
  BY <1>1, <1>4, <1>6 DEF BackThere, Back, Placed, BatchTypes
<1>10. LeftOut'
  <2>1. ASSUME NEW x \in Batch, status[x] \in Failed PROVE x.path # p
    <3>1. PICK b \in blocked : Above(b, x.path)
      BY <2>1 DEF LeftOut
    <3>2. b \in Path /\ x.path \in Path
      BY DEF BatchTypes
    <3> QED
      BY <1>1, <1>2, <3>1, <3>2, AboveIs DEF AtWork
  <2> QED
    BY <1>1, <1>4, <2>1 DEF LeftOut, BatchTypes
<1>11. NoSelfConflict'
  BY <1>1 DEF NoSelfConflict, Placed
<1> QED
  BY <1>5, <1>7, <1>8, <1>9, <1>10, <1>11

(* A component that cannot be opened, or is made and then cannot, or a     *)
(* mkdir that fails.                                                       *)
LEMMA NoParentStep ==
  ASSUME BatchInv, pc = "parent", depth < Len(Cur.path) - 1,
         NEW p, p = SubSeq(Cur.path, 1, depth + 1),
         \/ UNCHANGED node
         \/ node[p] = "none" /\ node' = [node EXCEPT ![p] = "dir"],
         Finish("noparent"), blocked' = blocked \cup {Cur.path},
         UNCHANGED <<rename, before, made, depth>>
  PROVE  BatchInv'
<1> USE DEF BatchInv
<1>1. queue # <<>> /\ pc' = "next" /\ InOrder /\ InLoop
  BY DEF AtWork, Finish, InLoop
<1>2. /\ Cur \in Batch /\ status[Cur] = "trashed" /\ Cur.path \in Path
      /\ Batch' = Batch /\ status' \in [Batch -> Outcome]
      /\ status'[Cur] = "noparent" /\ \A x \in Batch : x # Cur => status'[x] = status[x]
      /\ queue' \in Seq(Batch) /\ Waiting' /\ InOrder'
  BY <1>1, RoundEnds, "noparent" \in Outcome \ {"trashed"} DEF Outcome, Failed, BatchTypes
<1>3. p \in Path /\ IsStrictPrefix(p, Cur.path) /\ Above(p, Cur.path) /\ p # Cur.path
  BY <1>2, ComponentIs DEF IsStrictPrefix, Above, BatchTypes
<1>4. Back' = Back /\ Placed("noparent")' = Placed("noparent") \cup {Cur}
  BY <1>2 DEF Back, Placed
<1>5. /\ node' \in [Path -> Node]
      /\ \A q \in Path : q # p => node'[q] = node[q]
      /\ node'[p] # node[p] => node[p] = "none"
  <2>1. CASE UNCHANGED node
    BY <2>1 DEF BatchTypes
  <2>2. CASE node[p] = "none" /\ node' = [node EXCEPT ![p] = "dir"]
    BY <1>3, <2>2 DEF BatchTypes, Node
  <2> QED
    BY <2>1, <2>2
<1>6. BatchTypes'
  BY <1>2, <1>5 DEF BatchTypes
<1>7. Changed'
  <2> SUFFICES ASSUME NEW q \in Path, node'[q] # before[q]
               PROVE  /\ before[q] = "none"
                      /\ \/ \E y \in Back' : y.holds[q] = node'[q]
                         \/ \E z \in Reached' : IsStrictPrefix(q, z.path)
    BY DEF Changed
  <2>1. Cur \in Reached' /\ Reached \subseteq Reached'
    BY <1>4 DEF Reached
  <2>2. CASE q = p
    <3>1. before[p] = "none"
      BY <1>3, <1>5, <2>2 DEF Changed
    <3> QED
      BY <1>3, <2>1, <2>2, <3>1
  <2>3. CASE q # p
    <3>1. node'[q] = node[q] /\ node[q] # before[q]
      BY <1>5, <2>3
    <3> QED
      BY <1>4, <2>1, <3>1 DEF Changed, AtWork
  <2> QED
    BY <2>2, <2>3
<1>8. BackThere'
  <2>1. \A y \in Back : y.path \in Path /\ node[y.path] # "none"
    BY DEF BatchTypes, BackThere, Back, Placed
  <2> QED
    BY <1>4, <1>5, <2>1 DEF BackThere
<1>9. LeftOut'
  <2>1. ASSUME node[Cur.path] # before[Cur.path]
        PROVE  \E y \in Back : y.holds[Cur.path] = node[Cur.path]
    BY <1>1, <2>1, NothingBelowFirst
  <2>2. Above(Cur.path, Cur.path) /\ node'[Cur.path] = node[Cur.path]
    BY <1>2, <1>3, <1>5, AboveIs
  <2>3. ASSUME NEW x \in Batch, x # Cur, status'[x] \in Failed
        PROVE  /\ \E b \in blocked' : Above(b, x.path)
               /\ node'[x.path] # before'[x.path] =>
                    \E y \in Back' : y.holds[x.path] = node'[x.path]
    <3>1. x.path \in Path /\ status[x] \in Failed
      BY <1>2, <2>3 DEF BatchTypes
    <3>2. PICK b \in blocked : Above(b, x.path)
      BY <3>1 DEF LeftOut
    <3>3. x.path # p
      BY <1>2, <1>3, <3>1, <3>2, AboveIs DEF AtWork, BatchTypes
    <3>4. node'[x.path] = node[x.path]
      BY <1>5, <3>1, <3>3
    <3> QED
      BY <1>4, <3>1, <3>2, <3>4 DEF LeftOut
  <2> QED
    BY <1>2, <1>4, <2>1, <2>2, <2>3 DEF LeftOut
<1>10. NoSelfConflict'
  BY <1>2, <1>4 DEF NoSelfConflict, Placed
<1> QED
  BY <1>1, <1>2, <1>6, <1>7, <1>8, <1>9, <1>10 DEF InLoop

(* One component of the parent: it is there, it is made, or it stops the   *)
(* item.                                                                   *)
LEMMA EnsureParentStep ==
  ASSUME BatchInv, EnsureParent
  PROVE  BatchInv'
<1> DEFINE p == SubSeq(Cur.path, 1, depth + 1)
<1>1. CASE node[p] = "dir" /\ depth' = depth + 1
           /\ UNCHANGED <<node, made, queue, status, blocked, pc, rename, before>>
  <2>1. depth' \in Nat
    BY <1>1 DEF BatchInv, BatchTypes
  <2> QED
    BY <1>1, <2>1 DEF BatchInv, BatchTypes, Waiting, InLoop, Untouched, InOrder, AtWork,
       Changed, BackThere, LeftOut, NoSelfConflict, Reached, Back, Placed, Batch, Cur
<1>2. CASE /\ node[p] = "none" /\ node' = [node EXCEPT ![p] = "dir"]
           /\ made' = Append(made, p) /\ depth' = depth + 1
           /\ UNCHANGED <<queue, status, blocked, pc, rename, before>>
  BY <1>2, MkdirStep DEF EnsureParent
<1>3. CASE /\ \/ UNCHANGED node
              \/ node[p] = "none" /\ node' = [node EXCEPT ![p] = "dir"]
           /\ Finish("noparent") /\ blocked' = blocked \cup {Cur.path}
           /\ UNCHANGED <<made, depth, rename, before>>
  <2>1. pc = "parent" /\ depth < Len(Cur.path) - 1
    BY DEF EnsureParent
  <2>2. CASE UNCHANGED node
    BY <1>3, <2>1, <2>2, NoParentStep
  <2>3. CASE node[p] = "none" /\ node' = [node EXCEPT ![p] = "dir"]
    BY <1>3, <2>1, <2>3, NoParentStep
  <2> QED
    BY <1>3, <2>2, <2>3
<1> QED
  BY <1>1, <1>2, <1>3 DEF EnsureParent

(* ParentGuard: what was made for the item goes, and only that.            *)
LEMMA GiveUpStep ==
  ASSUME BatchInv, NEW s \in {"conflict", "declined", "failed"}, GiveUp(s)
  PROVE  BatchInv'
<1> USE DEF BatchInv
<1>1. /\ pc = "parent" /\ queue # <<>> /\ pc' = "next" /\ InOrder /\ InLoop /\ AtWork
      /\ Finish(s) /\ blocked' = blocked \cup {Cur.path}
      /\ UNCHANGED <<rename, before, depth, made>>
  BY DEF GiveUp, AtParent, AtWork, Finish, InLoop
<1>2. /\ Cur \in Batch /\ status[Cur] = "trashed" /\ Cur.path \in Path
      /\ Batch' = Batch /\ status' \in [Batch -> Outcome]
      /\ status'[Cur] = s /\ \A x \in Batch : x # Cur => status'[x] = status[x]
      /\ queue' \in Seq(Batch) /\ Waiting' /\ InOrder'
  BY <1>1, RoundEnds, s \in Outcome \ {"trashed"} DEF Outcome, Failed, BatchTypes
<1>3. /\ node' \in [Path -> Node]
      /\ \A q \in Path : node'[q] = node[q] \/ (node'[q] = "none" /\ before[q] = "none")
      /\ \A q \in Path : node'[q] # before[q] =>
           /\ node'[q] = node[q]
           /\ \A k \in 1..Len(made) : made[k] # q
  <2>1. DOMAIN made = 1..Len(made) /\ \A k \in 1..Len(made) : made[k] \in Path
    BY DEF BatchTypes
  <2>2. \A q \in Path :
          node'[q] = IF \E k \in 1..Len(made) : made[k] = q THEN "none" ELSE node[q]
    BY <2>1 DEF GiveUp, RmdirReverse, Range
  <2>3. \A q \in Path : (\E k \in 1..Len(made) : made[k] = q) => before[q] = "none"
    BY <1>1 DEF AtWork
  <2>4. node \in [Path -> Node] /\ node' \in [Path -> Node]
    BY DEF GiveUp, RmdirReverse, BatchTypes, Node
  <2> QED
    BY <2>2, <2>3, <2>4
<1>4. BatchTypes'
  BY <1>1, <1>2, <1>3 DEF BatchTypes
<1>5. Back' = Back /\ Placed("noparent")' = Placed("noparent")
  BY <1>2 DEF Back, Placed
<1>6. Changed'
  BY <1>1, <1>3, <1>5 DEF Changed, Reached
<1>7. BackThere'
  <2>1. ASSUME NEW y \in Back, node'[y.path] = "none" PROVE FALSE
    <3>1. y.path \in Path /\ node[y.path] # "none"
      BY DEF BatchTypes, BackThere, Back, Placed
    <3>2. \A k \in 1..Len(made) : made[k] # y.path
      BY <1>1 DEF AtWork
    <3>3. node'[y.path] = node[y.path]
      BY <3>1, <3>2 DEF GiveUp, RmdirReverse, Range, BatchTypes
    <3> QED
      BY <2>1, <3>1, <3>3
  <2> QED
    BY <1>5, <2>1 DEF BackThere
<1>8. LeftOut'
  <2>1. ASSUME node'[Cur.path] # before[Cur.path]
        PROVE  \E y \in Back : y.holds[Cur.path] = node'[Cur.path]
    BY <1>1, <1>2, <1>3, <2>1, NothingBelowFirst
  <2>2. Above(Cur.path, Cur.path)
    BY <1>2, AboveIs
  <2>3. ASSUME NEW x \in Batch, x # Cur, status'[x] \in Failed
        PROVE  /\ \E b \in blocked' : Above(b, x.path)
               /\ node'[x.path] # before'[x.path] =>
                    \E y \in Back' : y.holds[x.path] = node'[x.path]
    BY <1>1, <1>2, <1>3, <1>5, <2>3 DEF LeftOut, BatchTypes
  <2> QED
    BY <1>1, <1>2, <1>5, <2>1, <2>2, <2>3 DEF LeftOut
<1>9. NoSelfConflict'
  <2>1. ASSUME s = "conflict", before[Cur.path] = "none"
        PROVE  \E y \in Back \ {Cur} : y.holds[Cur.path] # "none"
    <3>1. node[Cur.path] # "none" /\ node[Cur.path] # before[Cur.path]
      BY <2>1 DEF GiveUp, Taken
    <3>2. Cur \notin Back
      BY <1>2 DEF Back, Placed
    <3> QED
      BY <1>1, <3>1, <3>2, NothingBelowFirst
  <2> QED
    BY <1>1, <1>2, <1>5, <2>1 DEF NoSelfConflict, Placed
<1> QED
  BY <1>1, <1>2, <1>4, <1>6, <1>7, <1>8, <1>9 DEF InLoop

(* The item is back, at its own place or next to it.                       *)
LEMMA PublishStep ==
  ASSUME BatchInv, NEW s \in {"restored", "unsynced"}, Publish(s)
  PROVE  BatchInv'
<1> USE DEF BatchInv
<1>1. /\ pc = "parent" /\ queue # <<>> /\ pc' = "next" /\ InOrder /\ InLoop /\ AtWork
      /\ Finish(s) /\ blocked' \subseteq blocked \cup {Cur.path} /\ blocked \subseteq blocked'
      /\ made' = <<>> /\ UNCHANGED <<rename, before, depth>>
  BY DEF Publish, AtParent, AtWork, Finish, InLoop
<1>2. /\ Cur \in Batch /\ status[Cur] = "trashed" /\ Cur.path \in Path
      /\ Whole(Cur)
      /\ Batch' = Batch /\ status' \in [Batch -> Outcome]
      /\ status'[Cur] = s /\ \A x \in Batch : x # Cur => status'[x] = status[x]
      /\ queue' \in Seq(Batch) /\ Waiting' /\ InOrder'
  BY <1>1, RoundEnds, s \in Outcome \ {"trashed"} DEF Outcome, Failed, BatchTypes
<1>3. /\ node' \in [Path -> Node] /\ node'[Cur.path] # "none"
      /\ \A q \in Path : ~Above(Cur.path, q) => node'[q] = node[q]
      /\ \A q \in Path : Above(Cur.path, q) =>
           \/ node'[q] = node[q]
           \/ node[Cur.path] = "none" /\ node'[q] = Cur.holds[q]
  <2>1. CASE /\ node[Cur.path] = "none"
             /\ node' = [p \in Path |-> IF Above(Cur.path, p) THEN Cur.holds[p] ELSE node[p]]
    <3>1. Above(Cur.path, Cur.path)
      BY <1>2, AboveIs
    <3> QED
      BY <1>2, <2>1, <3>1 DEF BatchTypes, Whole
  <2>2. CASE node[Cur.path] # "none" /\ UNCHANGED node
    BY <1>2, <2>2 DEF BatchTypes
  <2> QED
    BY <2>1, <2>2 DEF Publish
<1>4. BatchTypes'
  BY <1>1, <1>2, <1>3 DEF BatchTypes
<1>5. /\ Back' = Back \cup {Cur} /\ Placed("noparent")' = Placed("noparent")
      /\ Placed("conflict")' = Placed("conflict")
  BY <1>2 DEF Back, Placed
<1>6. ASSUME NEW q \in Path, Above(Cur.path, q), node'[q] # node[q]
      PROVE  before[q] = "none" /\ Cur.holds[q] = node'[q]
  <2>1. node[Cur.path] = "none" /\ node'[q] = Cur.holds[q]
    BY <1>3, <1>6
  <2>2. before[Cur.path] = "none"
    BY <1>2, <2>1 DEF Changed
  <2>3. before \in Trees
    BY DEF BatchTypes
  <2> QED
    BY <1>2, <1>6, <2>1, <2>2, <2>3, TreesAssumption DEF Above
<1>7. Changed'
  <2> SUFFICES ASSUME NEW q \in Path, node'[q] # before[q]
               PROVE  /\ before[q] = "none"
                      /\ \/ \E y \in Back' : y.holds[q] = node'[q]
                         \/ \E z \in Reached' : IsStrictPrefix(q, z.path)
    BY <1>1 DEF Changed
  <2>1. CASE node'[q] = node[q]
    <3>1. Cur \in Back' /\ Back \subseteq Back' /\ Reached \subseteq Reached'
      BY <1>5 DEF Reached
    <3>2. Cur \in Reached'
      BY <1>5 DEF Reached
    <3>3. \A k \in 1..Len(made) : made[k] = q => IsStrictPrefix(q, Cur.path)
      BY <1>1 DEF AtWork
    <3> QED
      BY <2>1, <3>1, <3>2, <3>3 DEF Changed
  <2>2. CASE node'[q] # node[q]
    BY <1>3, <1>5, <1>6, <2>2
  <2> QED
    BY <2>1, <2>2
<1>8. BackThere'
  <2>1. ASSUME NEW y \in Back PROVE node'[y.path] # "none"
    <3>1. y \in Batch /\ y.path \in Path /\ node[y.path] # "none" /\ status[y] # "trashed"
      BY <2>1 DEF BatchTypes, BackThere, Back, Placed
    <3>2. CASE ~Above(Cur.path, y.path)
      BY <1>3, <3>1, <3>2
    <3>3. CASE Above(Cur.path, y.path)
      <4>1. Len(y.path) <= Len(Cur.path)
        BY <1>1, <3>1 DEF InOrder, BatchTypes, Cur
      <4>2. Cur.path = y.path
        BY <1>2, <3>1, <3>3, <4>1, AboveIs, PathsAreSequences
      <4> QED
        BY <1>3, <4>2
    <3> QED
      BY <3>2, <3>3
  <2> QED
    BY <1>3, <1>5, <2>1 DEF BackThere
<1>10. LeftOut'
  <2>1. ASSUME NEW x \in Batch, status'[x] \in Failed
        PROVE  /\ \E b \in blocked' : Above(b, x.path)
               /\ node'[x.path] # before'[x.path] =>
                    \E y \in Back' : y.holds[x.path] = node'[x.path]
    <3>1. x # Cur /\ status[x] \in Failed /\ x.path \in Path
      BY <1>2, <2>1 DEF Failed, BatchTypes
    <3>2. CASE node'[x.path] = node[x.path]
      BY <1>1, <1>5, <3>1, <3>2 DEF LeftOut
    <3>3. CASE node'[x.path] # node[x.path]
      <4>1. Cur.holds[x.path] = node'[x.path]
        BY <1>3, <1>6, <3>1, <3>3
      <4> QED
        BY <1>1, <1>5, <3>1, <4>1 DEF LeftOut
    <3> QED
      BY <3>2, <3>3
  <2> QED
    BY <1>2, <2>1 DEF LeftOut
<1>9. NoSelfConflict'
  BY <1>1, <1>5 DEF NoSelfConflict
<1> QED
  BY <1>1, <1>2, <1>4, <1>7, <1>8, <1>9, <1>10 DEF InLoop

(* Each step of restore_batch() keeps the invariant.                       *)
LEMMA BatchStep ==
  ASSUME BatchInv, RestoreBatchNext
  PROVE  BatchInv'
BY SortStep, SkipStep, BeginStep, EnsureParentStep, GiveUpStep, PublishStep
   DEF RestoreBatchNext

(* What the invariant says of a batch, in the words of RestoreBatch.       *)
LEMMA BatchInvImplies ==
  ASSUME BatchInv
  PROVE  NoFabrication /\ NoSelfConflict /\ RollsBack
<1> USE DEF BatchInv
<1>1. NoFabrication
  <2> SUFFICES ASSUME NEW x \in Batch \ Back, status[x] # "trashed", node[x.path] # before[x.path]
               PROVE  \E y \in Back : y.holds[x.path] = node[x.path]
    BY DEF NoFabrication
  <2>1. status[x] \in Failed
    BY DEF BatchTypes, Outcome, Back, Placed
  <2> QED
    BY <2>1 DEF LeftOut
<1>2. RollsBack
  <2> SUFFICES ASSUME Settled, NEW p \in Path, before[p] = "none", node[p] # "none"
               PROVE  \/ \E x \in Back : Above(p, x.path) \/ x.holds[p] = node[p]
                      \/ \E x \in Placed("noparent") : Above(p, x.path)
    BY DEF RollsBack
  <2>1. \/ \E y \in Back : y.holds[p] = node[p]
        \/ \E z \in Reached : IsStrictPrefix(p, z.path)
    BY DEF Changed, Settled
  <2> QED
    BY <2>1, AboveIs DEF Reached, IsStrictPrefix, Above
<1> QED
  BY <1>1, <1>2

-----------------------------------------------------------------------------
(* The command around it.                                                  *)
Running == pc \in {"sort", "next", "parent"}
Touchable == Items \cup (IF verb = "purge" THEN Orphans ELSE {})
Resolved(a) ==
  LET w == Wanted(a) IN
  /\ w # {} /\ (Cardinality(w) > 1 => case.tty)
  /\ Cardinality(w) = 1 => w \subseteq Range(targets)

CommandTypes ==
  /\ <<case, before>> \in Starts
  /\ targets \in Seq(Touchable) /\ args \in Seq(Arg)
  /\ doomed \in [Trash -> SUBSET Touchable]

(* Where the command is: nothing is begun before its items are known.      *)
Phases ==
  /\ pc = "argv" => args = case.args /\ targets = <<>>
  /\ pc = "targets" => args = <<>>
  /\ ~Running => queue = <<>> /\ status = <<>>
  /\ pc # "purge" => doomed = [t \in Trash |-> {}]
  /\ Batch \subseteq Items

(* Every argument is still to be resolved, or names what it may.           *)
Arguments == verb # "undo" /\ case.args # <<>> =>
  /\ Range(targets) \subseteq UNION {Wanted(a) : a \in Range(case.args)}
  /\ Range(args) \subseteq Range(case.args)
  /\ \A a \in Range(case.args) \ Range(args) : Resolved(a)
  /\ pc = "select" => args # <<>>
  /\ Chosen # {} => args = <<>> /\ Chosen = Range(targets)

CommandInv == BatchInv /\ CommandTypes /\ Phases /\ UndoesLast /\ Arguments

-----------------------------------------------------------------------------
(* dedup() keeps all that is in the list, and each once.                   *)
LEMMA DedupIs ==
  ASSUME NEW S, NEW s \in Seq(S)
  PROVE  /\ Dedup(s) \in Seq(S) /\ Range(Dedup(s)) = Range(s)
         /\ \A i, j \in 1..Len(Dedup(s)) : Dedup(s)[i] = Dedup(s)[j] => i = j
<1> DEFINE N == Len(s)
           Add(r, e) == IF Contains(r, e) THEN r ELSE Append(r, e)
           Firsts(f, k) == f = [n \in 0..k |-> IF n = 0 THEN <<>> ELSE Add(f[n - 1], s[n])]
           Each(r) == \A i, j \in 1..Len(r) : r[i] = r[j] => i = j
<1>1. N \in Nat /\ s \in [1..N -> S]
  OBVIOUS
<1> HIDE DEF N
<1>2. \E f : Firsts(f, N)
  <2> DEFINE G == {k \in 0..N : \E f : Firsts(f, k)}
  <2>0. \A k : k \in G <=> k \in 0..N /\ \E f : Firsts(f, k)
    OBVIOUS
  <2> HIDE DEF G
  <2>1. 0 \in G
    <3>1. Firsts([n \in 0..0 |-> <<>>], 0)
      OBVIOUS
    <3> HIDE DEF Firsts
    <3> QED
      BY <2>0, <3>1, <1>1
  <2>2. ASSUME NEW k \in 1..N, k - 1 \in G PROVE k \in G
    <3>1. PICK f : Firsts(f, k - 1)
      <4> HIDE DEF Firsts
      <4> QED
        BY <2>0, <2>2
    <3> DEFINE g == [n \in 0..k |-> IF n = k THEN Add(f[k - 1], s[k]) ELSE f[n]]
    <3>2. \A n \in 1..k : g[n - 1] = f[n - 1]
      BY <1>1
    <3>3. \A n \in 0..k : n # k => n \in 0..(k - 1) /\ g[n] = f[n]
      BY <1>1
    <3>4. \A n \in 0..(k - 1) : f[n] = IF n = 0 THEN <<>> ELSE Add(f[n - 1], s[n])
      BY <3>1
    <3>5. ASSUME NEW n \in 0..k
          PROVE  g[n] = IF n = 0 THEN <<>> ELSE Add(g[n - 1], s[n])
      <4>1. CASE n = k
        BY <1>1, <3>2, <4>1
      <4>2. CASE n # k
        <5>1. g[n] = IF n = 0 THEN <<>> ELSE Add(f[n - 1], s[n])
          BY <3>3, <3>4, <4>2
        <5>2. n # 0 => n \in 1..k
          OBVIOUS
        <5> HIDE DEF g, Add
        <5> QED
          BY <3>2, <5>1, <5>2
      <4> QED
        BY <4>1, <4>2
    <3>6. g = [n \in 0..k |-> g[n]]
      OBVIOUS
    <3> HIDE DEF g, Add
    <3>7. Firsts(g, k)
      BY <3>5, <3>6
    <3> HIDE DEF Firsts
    <3> QED
      BY <2>0, <3>7
  <2>3. \A k \in 0..N : k \in G
    BY <1>1, <2>1, <2>2, UpTo
  <2> HIDE DEF Firsts
  <2> QED
    BY <1>1, <2>0, <2>3
<1> DEFINE F == CHOOSE f : Firsts(f, N)
<1>3. Firsts(F, N)
  BY <1>2
<1>4. Dedup(s) = F[N]
  BY DEF Dedup, N
<1> HIDE DEF F
<1>5. /\ F[0] = <<>>
      /\ \A k \in 1..N : F[k] = Add(F[k - 1], s[k])
  <2> HIDE DEF Add
  <2>1. \A k \in 0..N : F[k] = IF k = 0 THEN <<>> ELSE Add(F[k - 1], s[k])
    BY <1>3
  <2> QED
    BY <1>1, <2>1
<1> DEFINE Good(k) == /\ F[k] \in Seq(S) /\ Each(F[k])
                      /\ \A x : (\E i \in 1..Len(F[k]) : F[k][i] = x)
                               <=> (\E i \in 1..k : s[i] = x)
<1>6. Good(N)
  <2> DEFINE G == {k \in 0..N : Good(k)}
  <2>0. \A k : k \in G <=> k \in 0..N /\ Good(k)
    OBVIOUS
  <2> HIDE DEF G
  <2>1. 0 \in G
    <3>1. Good(0)
      BY <1>5
    <3> HIDE DEF Good
    <3> QED
      BY <1>1, <2>0, <3>1
  <2>2. ASSUME NEW k \in 1..N, k - 1 \in G PROVE k \in G
    <3> DEFINE r == F[k - 1]
               e == s[k]
    <3>1. Good(k - 1) /\ e \in S
      <4> HIDE DEF Good
      <4> QED
        BY <1>1, <2>0, <2>2
    <3>8. Good(k) => k \in G
      <4> HIDE DEF Good
      <4> QED
        BY <2>0
    <3>2. F[k] = Add(r, e)
      BY <1>5
    <3>3. r \in Seq(S) /\ Len(r) \in Nat /\ Each(r)
      BY <3>1
    <3>4. \A x : (\E i \in 1..Len(r) : r[i] = x) <=> (\E i \in 1..(k - 1) : s[i] = x)
      BY <3>1
    <3>5. \A x : (\E i \in 1..k : s[i] = x) <=> (\E i \in 1..(k - 1) : s[i] = x) \/ x = e
      <4>1. \A i \in 1..k : i = k \/ i \in 1..(k - 1)
        BY <1>1
      <4>2. k \in 1..k /\ \A i \in 1..(k - 1) : i \in 1..k
        BY <1>1
      <4> QED
        BY <4>1, <4>2
    <3> HIDE DEF r, e
    <3>6. CASE Contains(r, e)
      <4>1. F[k] = r
        BY <3>2, <3>6
      <4>2. \A x : (\E i \in 1..Len(r) : r[i] = x) <=> (\E i \in 1..k : s[i] = x)
        BY <3>4, <3>5, <3>6 DEF Contains
      <4>3. Good(k)
        BY <3>3, <4>1, <4>2
      <4> QED
        BY <3>8, <4>3
    <3>7. CASE ~Contains(r, e)
      <4>1. F[k] = Append(r, e)
        BY <3>2, <3>7
      <4> DEFINE q == Append(r, e)
      <4>2. /\ q \in Seq(S) /\ Len(q) = Len(r) + 1 /\ q[Len(q)] = e
            /\ \A i \in 1..Len(r) : q[i] = r[i]
        BY <3>1, <3>3
      <4> HIDE DEF q
      <4>3. \A i \in 1..Len(q) : i = Len(q) \/ i \in 1..Len(r)
        BY <3>3, <4>2
      <4>4. Len(q) \in 1..Len(q) /\ \A i \in 1..Len(r) : i \in 1..Len(q)
        BY <3>3, <4>2
      <4>5. Each(q)
        BY <3>3, <3>7, <4>2, <4>3 DEF Contains
      <4>6. \A x : (\E i \in 1..Len(q) : q[i] = x) <=> (\E i \in 1..k : s[i] = x)
        BY <3>4, <3>5, <4>2, <4>3, <4>4
      <4>7. Good(k)
        <5>1. F[k] = q
          BY <4>1 DEF q
        <5> QED
          BY <4>2, <4>5, <4>6, <5>1
      <4> QED
        BY <3>8, <4>7
    <3> QED
      BY <3>6, <3>7
  <2>3. \A k \in 0..N : k \in G
    BY <1>1, <2>1, <2>2, UpTo
  <2> HIDE DEF Good
  <2> QED
    BY <1>1, <2>0, <2>3
<1>7. Range(Dedup(s)) = Range(s)
  <2>1. \A x : x \in Range(s) <=> \E i \in 1..N : s[i] = x
    BY <1>1 DEF Range
  <2>2. \A x : x \in Range(F[N]) <=> \E i \in 1..Len(F[N]) : F[N][i] = x
    BY <1>6 DEF Range
  <2>3. \A x : x \in Range(F[N]) <=> x \in Range(s)
    BY <1>6, <2>1, <2>2
  <2> QED
    BY <1>4, <2>3
<1> QED
  BY <1>4, <1>6, <1>7

-----------------------------------------------------------------------------
(* What the trash directories hold, and the items made of it.              *)
LEMMA DiskIs ==
  ASSUME <<case, before>> \in Starts
  PROVE  /\ case.disk \subseteq Entry /\ IsFiniteSet(case.disk) /\ case.args \in Seq(Arg)
         /\ \A e \in case.disk :
              /\ ~Contains(e.field.to, Up) => FieldPath(e) \in Path \cup {<<>>}
              /\ \A p \in Path : e.holds[p] # "none" => IsPrefix(FieldPath(e), p)
              /\ FieldPath(e) \in Path => e.holds[FieldPath(e)] # "none"
              /\ e.put > 0 =>
                   /\ e.field = PathField(Where[e.trash], e.path) /\ ~Contains(e.path, Up)
                   /\ Where[e.trash].scope = "topdir" =>
                        IsStrictPrefix(Where[e.trash].base, e.path)
         /\ \A e, f \in case.disk : 0 < e.put /\ e.put = f.put => e.date = f.date
         /\ \A t \in Trash, p \in Path :
              Where[t].scope = "topdir" /\ IsPrefix(p, Where[t].base) => before[p] = "dir"
<1> DEFINE s == <<case, before>>
<1>1. s \in Starts /\ s[1] = case /\ s[2] = before /\ case \in {r[1] : r \in Starts}
  OBVIOUS
<1> HIDE DEF s
<1> QED
  BY <1>1, StartsAssumption

(* An item is an entry that is there and readable, at the path its Path=   *)
(* says.                                                                   *)
LEMMA ItemsAre ==
  ASSUME <<case, before>> \in Starts
  PROVE  /\ \A x \in Items : \E e \in case.disk :
              /\ e.file = "there" /\ Readable(e) /\ x = [e EXCEPT !.path = Original(e)]
              /\ x.path = Original(e) /\ x.path \in Path /\ Whole(x)
              /\ x.trash = e.trash /\ x.trash \in Trash
              /\ x.put = e.put /\ x.date = e.date /\ x.date \in Nat /\ x.put \in Nat
         /\ \A e \in case.disk : e.file = "there" /\ Readable(e) =>
              [e EXCEPT !.path = Original(e)] \in Items
         /\ \A e \in Orphans : e \in case.disk /\ e.trash \in Trash
         /\ IsFiniteSet(Items) /\ IsFiniteSet(Orphans)
<1>1. \A e \in case.disk : Readable(e) => Original(e) \in Path
  BY DiskIs DEF Readable, Original
<1>2. \A e \in case.disk : e \in Entry
  BY DiskIs
<1>3. ASSUME NEW x \in Items
      PROVE  \E e \in case.disk :
               /\ e.file = "there" /\ Readable(e) /\ x = [e EXCEPT !.path = Original(e)]
               /\ x.path = Original(e) /\ x.path \in Path /\ Whole(x)
               /\ x.trash = e.trash /\ x.trash \in Trash
               /\ x.put = e.put /\ x.date = e.date /\ x.date \in Nat /\ x.put \in Nat
  <2>1. PICK e \in case.disk :
          e.file = "there" /\ Readable(e) /\ x = [e EXCEPT !.path = Original(e)]
    BY DEF Items
  <2>2. e \in Entry /\ Original(e) \in Path /\ Original(e) = FieldPath(e)
    BY <1>1, <1>2, <2>1 DEF Readable, Original
  <2>3. /\ x.path = Original(e) /\ x.holds = e.holds /\ x.trash = e.trash
        /\ x.put = e.put /\ x.date = e.date
    BY <2>1, <2>2 DEF Entry
  <2>4. Whole(x)
    BY <2>2, <2>3, DiskIs DEF Whole, Entry, Above
  <2> QED
    BY <2>1, <2>2, <2>3, <2>4 DEF Entry
<1>4. IsFiniteSet(Items) /\ IsFiniteSet(Orphans)
  <2> DEFINE D == {d \in case.disk : d.file = "there" /\ Readable(d)}
             f == [e \in D |-> [e EXCEPT !.path = Original(e)]]
  <2>1. IsFiniteSet(D) /\ IsFiniteSet(Orphans)
    BY DiskIs, FS_Subset DEF Orphans
  <2>2. Items = {f[e] : e \in D}
    BY DEF Items
  <2>3. f \in Surjection(D, Items)
    BY <2>2 DEF Surjection
  <2> HIDE DEF D, f
  <2> QED
    BY <2>1, <2>3, FS_Surjection
<1> QED
  BY <1>2, <1>3, <1>4 DEF Items, Orphans, Entry

-----------------------------------------------------------------------------
(* Before and after the batch nothing of it moves.                         *)
LEMMA QuietStep ==
  ASSUME BatchInv, ~Running, ~Running',
         UNCHANGED <<rename, before, node, queue, status, blocked, depth, made>>
  PROVE  BatchInv' /\ Batch' = Batch
<1>1. ~InLoop /\ ~InLoop' /\ pc # "parent" /\ pc' # "parent"
  BY DEF Running, InLoop
<1>2. Batch' = Batch /\ Back' = Back /\ Reached' = Reached
  BY DEF Batch, Back, Reached, Placed
<1>3. BatchTypes' /\ Waiting'
  BY <1>2 DEF BatchInv, BatchTypes, Waiting
<1>4. Untouched /\ Untouched'
  BY <1>1, <1>2 DEF BatchInv, Untouched
<1>5. Changed' /\ BackThere' /\ LeftOut' /\ NoSelfConflict'
  BY <1>1, <1>2, <1>4
     DEF BatchInv, Untouched, Changed, BackThere, LeftOut, NoSelfConflict, Placed
<1> QED
  BY <1>1, <1>2, <1>3, <1>4, <1>5 DEF BatchInv

(* A batch begins with items, each once, and nothing changed so far.       *)
LEMMA BeginsStep ==
  ASSUME CommandInv, pc \in {"select", "targets"},
         UNCHANGED <<case, verb, args, targets, doomed>>,
         NEW s \in Seq(Items), \A i, j \in 1..Len(s) : s[i] = s[j] => i = j,
         Begins(s)
  PROVE  /\ BatchInv' /\ CommandTypes' /\ Phases'
         /\ Batch' = Range(s) /\ Items' = Items
<1> DEFINE n == Len(s)
<1>1. n \in Nat /\ s \in [1..n -> Items] /\ DOMAIN s = 1..n
  OBVIOUS
<1>2. /\ Batch' = Range(s) /\ queue' = s
      /\ \A x \in Batch' : status'[x] = "trashed"
      /\ status' \in [Batch' -> Outcome]
  BY DEF Begins, Batch, Outcome
<1>3. Range(s) \subseteq Items /\ \A i \in 1..n : s[i] \in Range(s)
  BY <1>1 DEF Range
<1>4. s \in Seq(Range(s))
  BY <1>1, <1>3
<1>5. node = before /\ blocked = {} /\ pc' = "sort" /\ pc \notin {"next", "parent"}
  BY DEF CommandInv, BatchInv, Untouched, InLoop, Running, Begins
<1>6. Back' = {} /\ \A o : o # "trashed" => Placed(o)' = {}
  BY <1>2 DEF Back, Placed
<1>7. <<case, before>> \in Starts
  BY DEF CommandInv, CommandTypes
<1>8. BatchTypes'
  <2>1. \A x \in Batch' : x.path \in Path /\ Whole(x)
    BY <1>2, <1>3, <1>7, ItemsAre
  <2> QED
    BY <1>2, <1>4, <2>1 DEF CommandInv, BatchInv, BatchTypes, Begins
<1>9. Waiting'
  <2>1. \A x \in Range(s) : \E k \in 1..Len(s) : s[k] = x
    BY <1>1 DEF Range
  <2> QED
    BY <1>2, <2>1 DEF Waiting
<1>10. Untouched' /\ Changed' /\ BackThere' /\ LeftOut' /\ NoSelfConflict'
  BY <1>2, <1>5, <1>6
     DEF Begins, Untouched, Changed, BackThere, LeftOut, NoSelfConflict, Failed
<1>11. BatchInv'
  BY <1>5, <1>8, <1>9, <1>10 DEF BatchInv, InLoop
<1>12. Items' = Items /\ Touchable' = Touchable
  BY DEF Items, Touchable, Orphans, Readable, Original, FieldPath
<1>13. CommandTypes'
  BY <1>12 DEF CommandInv, CommandTypes, Begins
<1>14. Phases'
  BY <1>2, <1>3, <1>5, <1>12 DEF CommandInv, Phases, Running
<1> QED
  BY <1>2, <1>11, <1>12, <1>13, <1>14

(* What has been chosen before a batch or a purge begins: nothing.         *)
LEMMA NothingChosen ==
  ASSUME Phases, ~Running, pc # "purge"
  PROVE  Batch = {} /\ Chosen = {}
BY DEF Phases, Chosen, Batch

(* A command that ends before it begins anything leaves all as it was.     *)
LEMMA RefuseStep ==
  ASSUME CommandInv, ~Running, pc # "purge", Refuse
  PROVE  CommandInv'
<1>1. ~Running' /\ pc' = "refused"
  BY DEF Refuse, Running
<1>2. BatchInv' /\ Batch' = Batch
  BY <1>1, QuietStep DEF CommandInv, Refuse
<1>3. Items' = Items /\ Touchable' = Touchable /\ \A a : Wanted(a)' = Wanted(a)
  BY DEF Refuse, Items, Touchable, Orphans, Wanted, Named, Matches
<1>4. Batch' = {} /\ Chosen' = {}
  BY <1>2, NothingChosen DEF CommandInv, Chosen, Refuse
<1>5. CommandTypes' /\ Phases'
  BY <1>1, <1>3, <1>4 DEF CommandInv, CommandTypes, Phases, Refuse
<1>6. UndoesLast'
  BY <1>4 DEF UndoesLast
<1>7. Arguments'
  BY <1>1, <1>3, <1>4 DEF CommandInv, Arguments, Resolved, Refuse
<1> QED
  BY <1>2, <1>5, <1>6, <1>7 DEF CommandInv

(* The command is known; nothing is selected yet.                          *)
LEMMA DispatchStep ==
  ASSUME CommandInv, Dispatch
  PROVE  CommandInv'
<1>1. ~Running /\ pc = "argv" /\ pc # "purge"
  BY DEF Dispatch, Running
<1>2. CASE Refuse
  BY <1>1, <1>2, RefuseStep
<1>3. CASE ~Refuse
  <2>1. /\ pc' \in {"select", "another"}
        /\ UNCHANGED <<rename, before, node, queue, status, blocked, depth, made,
                       case, args, targets, doomed>>
        /\ verb' # "undo" => pc' = "select" \/ pc' = "another"
    BY <1>3 DEF Dispatch
  <2>2. \E v : v = Command(case.line) /\ verb' = v
    BY <1>3 DEF Dispatch
  <2>3. BatchInv' /\ Batch' = Batch
    BY <1>1, <2>1, QuietStep DEF CommandInv, Running
  <2>4. Batch' = {} /\ Chosen' = {}
    BY <1>1, <2>1, <2>3, NothingChosen DEF CommandInv, Chosen
  <2>5. args' = case'.args /\ targets' = <<>>
    BY <1>1, <2>1 DEF CommandInv, Phases
  <2>6. doomed' = [t \in Trash |-> {}] /\ <<case', before'>> \in Starts
    BY <1>1, <2>1 DEF CommandInv, CommandTypes, Phases
  <2>7. CommandTypes'
    BY <2>1, <2>5, <2>6 DEF CommandInv, CommandTypes
  <2>8. Phases'
    BY <1>1, <2>1, <2>4, <2>6 DEF CommandInv, Phases
  <2>9. UndoesLast'
    BY <2>4 DEF UndoesLast
  <2>10. Arguments'
    <3>1. Range(targets') = {}
      BY <2>5 DEF Range
    <3> QED
      BY <2>1, <2>4, <2>5, <3>1 DEF Arguments
  <2> QED
    BY <2>3, <2>7, <2>8, <2>9, <2>10 DEF CommandInv
<1> QED
  BY <1>2, <1>3

-----------------------------------------------------------------------------
(* What is left of a sequence without its first m.                         *)
LEMMA TailIs ==
  ASSUME NEW s \in Seq(Nat), NEW m \in Nat, m <= Len(s)
  PROVE  /\ SubSeq(s, m + 1, Len(s)) \in Seq(Nat)
         /\ Len(SubSeq(s, m + 1, Len(s))) = Len(s) - m
         /\ \A i \in 1..(Len(s) - m) : SubSeq(s, m + 1, Len(s))[i] = s[m + i]
<1> DEFINE n == Len(s)
           to == SubSeq(s, m + 1, n)
<1>1. n \in Nat /\ m + 1 \in Int /\ n \in Int /\ \A i \in (m + 1)..n : s[i] \in Nat
  BY LenProperties, ElementOfSeq
<1> HIDE DEF n
<1>2. /\ to \in Seq(Nat) /\ Len(to) = IF m + 1 <= n THEN n - (m + 1) + 1 ELSE 0
      /\ \A i \in 1..(n - (m + 1) + 1) : to[i] = s[(m + 1) + i - 1]
  BY <1>1, SubSeqProperties
<1> HIDE DEF to
<1>3. /\ to \in Seq(Nat) /\ Len(to) = n - m
      /\ \A i \in 1..(n - m) : to[i] = s[m + i]
  BY <1>1, <1>2 DEF n
<1> QED
  BY <1>3 DEF n, to

(* What rip trashed goes back to where it was trashed from.                *)
LEMMA PutIsReadable ==
  ASSUME <<case, before>> \in Starts, NEW e \in case.disk, e.put > 0, e.info = "valid"
  PROVE  Readable(e) /\ [e EXCEPT !.path = Original(e)] = e
<1> DEFINE w == Where[e.trash]
           b == w.base
           p == e.path
<1>1. /\ e \in Entry /\ p \in Path /\ e.field = PathField(w, p) /\ ~Contains(p, Up)
      /\ w.scope = "topdir" => IsStrictPrefix(b, p)
  BY DiskIs DEF Entry
<1>2. b \in Seq(Nat) /\ p \in Seq(Nat) /\ p # <<>>
  BY <1>1, StartsAssumption, PathsAreSequences DEF Entry
<1>3. ~Contains(e.field.to, Up) /\ FieldPath(e) = p
  <2>1. CASE w.scope = "topdir" /\ IsPrefix(b, p)
    <3> DEFINE m == Len(b)
               n == Len(p)
               to == SubSeq(p, m + 1, n)
    <3>1. e.field = [abs |-> FALSE, to |-> to]
      BY <1>1, <2>1 DEF PathField
    <3>2. m \in Nat /\ n \in Nat /\ m <= n /\ \A i \in 1..m : b[i] = p[i]
      BY <1>2, <2>1, PrefixIs, SMTT(30)
    <3>3. to \in Seq(Nat) /\ Len(to) = n - m /\ \A i \in 1..(n - m) : to[i] = p[m + i]
      BY <1>2, <3>2, TailIs
    <3> HIDE DEF to
    <3>4. ~Contains(to, Up)
      <4>1. \A i \in 1..(n - m) : m + i \in 1..n
        BY <3>2
      <4> QED
        BY <1>1, <3>3, <4>1 DEF Contains
    <3>5. b \o to = p
      <4> DEFINE q == b \o to
      <4>1. q \in Seq(Nat) /\ Len(q) = n
        BY <1>2, <3>2, <3>3
      <4>2. \A i \in 1..n : q[i] = p[i]
        <5> SUFFICES ASSUME NEW i \in 1..n PROVE q[i] = p[i]
          OBVIOUS
        <5>1. CASE i <= m
          BY <1>2, <3>2, <3>3, <5>1
        <5>2. CASE ~(i <= m)
          <6>1. q[i] = to[i - m] /\ i - m \in 1..(n - m) /\ m + (i - m) = i
            BY <1>2, <3>2, <3>3, <5>2
          <6> QED
            BY <3>3, <6>1
        <5> QED
          BY <5>1, <5>2
      <4> HIDE DEF q
      <4> QED
        BY <1>2, <4>1, <4>2, SeqEqual DEF q
    <3> QED
      BY <3>1, <3>4, <3>5 DEF FieldPath
  <2>2. CASE ~(w.scope = "topdir" /\ IsPrefix(b, p))
    <3>1. e.field = [abs |-> TRUE, to |-> p]
      BY <1>1, <2>2 DEF PathField
    <3> QED
      BY <1>1, <3>1 DEF FieldPath
  <2> QED
    BY <2>1, <2>2
<1>4. Original(e) = p
  BY <1>1, <1>3 DEF Original
<1> QED
  BY <1>1, <1>2, <1>4 DEF Readable, Entry

(* An undo takes all with the newest date.  What was trashed with one of   *)
(* those has that date too and, if dates go on, what was trashed later no  *)
(* older one.                                                              *)
LEMMA UndoStep ==
  ASSUME CommandInv, Undo
  PROVE  CommandInv'
<1>1. pc = "select" /\ verb = "undo" /\ <<case, before>> \in Starts
  BY DEF Undo, CommandInv, CommandTypes
<1>2. CASE Refuse
  BY <1>1, <1>2, RefuseStep DEF Running
<1>3. CASE ~Refuse
  <2> DEFINE newest == Max(Dates(Items))
             last == {e \in Items : e.date = newest}
  <2>1. /\ Items # {} /\ Begins(SetToSeq(last))
        /\ UNCHANGED <<case, verb, args, targets, doomed>>
    BY <1>3 DEF Undo
  <2>2. IsFiniteSet(last)
    BY <1>1, ItemsAre, FS_Subset
  <2>3. \A x \in Items : x.date <= newest
    <3> DEFINE f == [x \in Items |-> x.date]
    <3>1. Dates(Items) \in SUBSET Nat /\ Dates(Items) # {}
      BY <1>1, <2>1, ItemsAre DEF Dates
    <3>2. f \in Surjection(Items, Dates(Items))
      BY DEF Surjection, Dates
    <3>3. IsFiniteSet(Dates(Items))
      <4> HIDE DEF f
      <4> QED
        BY <1>1, <3>2, ItemsAre, FS_Surjection
    <3>4. \A d \in Dates(Items) : d <= newest
      BY <3>1, <3>3, FiniteMax
    <3> QED
      BY <3>4 DEF Dates
  <2> HIDE DEF newest
  <2> DEFINE s == SetToSeq(last)
  <2>4. /\ s \in Seq(Items) /\ Range(s) = last
        /\ \A i, j \in 1..Len(s) : s[i] = s[j] => i = j
    <3>1. last \subseteq Items
      OBVIOUS
    <3> HIDE DEF last
    <3> QED
      BY <2>2, <3>1, Listed
  <2> HIDE DEF last, s
  <2>5. /\ BatchInv' /\ CommandTypes' /\ Phases'
        /\ Batch' = last /\ Items' = Items
    BY <1>1, <2>1, <2>4, BeginsStep DEF s
  <2>6. ASSUME NEW x \in last, x.put > 0, NEW y \in case.disk,
               y.put = x.put \/ (Onward /\ y.put >= x.put),
               y.file = "there", y.info = "valid"
        PROVE  y \in last /\ y.date = x.date
    <3>1. x \in Items /\ x.date = newest
      BY DEF last
    <3>2. PICK e \in case.disk : x.put = e.put /\ x.date = e.date /\ x.put \in Nat /\ x.date \in Nat
      BY <1>1, <3>1, ItemsAre
    <3>3. y.put \in Nat /\ y.date \in Nat
      BY <1>1, DiskIs DEF Entry
    <3>4. x.put <= y.put /\ y \in Items
      BY <1>1, <2>6, <3>2, <3>3, PutIsReadable, ItemsAre
    <3>5. x.date <= y.date
      <4>1. CASE y.put = x.put
        BY <1>1, <2>6, <3>2, <3>3, <4>1, DiskIs
      <4>2. CASE Onward /\ y.put >= x.put
        BY <2>6, <3>2, <3>3, <3>4, <4>2 DEF Onward
      <4> QED
        BY <2>6, <4>1, <4>2
    <3>6. y.date <= newest
      BY <2>3, <3>4
    <3> QED
      BY <3>1, <3>2, <3>3, <3>4, <3>5, <3>6 DEF last
  <2>7. UndoesLast'
    BY <2>1, <2>5, <2>6 DEF UndoesLast, Onward
  <2>8. Arguments'
    BY <1>1, <2>1 DEF Arguments
  <2> QED
    BY <2>5, <2>7, <2>8 DEF CommandInv
<1> QED
  BY <1>2, <1>3

-----------------------------------------------------------------------------
(* What a PATH argument names may be touched, and is finite.               *)
LEMMA WantedIs ==
  ASSUME <<case, before>> \in Starts
  PROVE  \A a : Wanted(a) \subseteq Touchable /\ IsFiniteSet(Wanted(a))
<1>1. IsFiniteSet(Touchable)
  <2>1. IsFiniteSet(Items) /\ IsFiniteSet(Orphans)
    BY ItemsAre
  <2>2. IsFiniteSet({})
    BY FS_EmptySet
  <2> QED
    BY <2>1, <2>2, FS_Union DEF Touchable
<1>2. \A a : Wanted(a) \subseteq Touchable
  BY DEF Wanted, Named, Matches, Touchable
<1> QED
  BY <1>1, <1>2, FS_Subset

(* Targets are added: S, of the argument that is resolved, or of the pool. *)
LEMMA TakesStep ==
  ASSUME CommandInv, pc = "select", verb # "undo",
         NEW S, S \subseteq Touchable, IsFiniteSet(S),
         targets' = targets \o SetToSeq(S), args' \in Seq(Arg),
         pc' \in {"targets", "select"}, pc' = "targets" => args' = <<>>,
         UNCHANGED <<rename, before, node, queue, status, blocked, depth, made,
                     case, verb, doomed>>
  PROVE  /\ BatchInv' /\ CommandTypes' /\ Phases' /\ UndoesLast'
         /\ Range(targets') = Range(targets) \cup S /\ Chosen' = {}
         /\ \A a : Wanted(a)' = Wanted(a)
<1>1. ~Running /\ ~Running' /\ pc # "purge" /\ pc' # "purge"
  BY DEF Running
<1>2. BatchInv' /\ Batch' = Batch
  BY <1>1, QuietStep DEF CommandInv
<1>3. Items' = Items /\ Touchable' = Touchable /\ \A a : Wanted(a)' = Wanted(a)
  BY DEF Items, Touchable, Orphans, Wanted, Named, Matches
<1>4. Batch' = {} /\ Chosen' = {}
  BY <1>1, <1>2, NothingChosen DEF CommandInv, Chosen
<1>5. /\ targets \in Seq(Touchable)
      /\ SetToSeq(S) \in Seq(Touchable) /\ Range(SetToSeq(S)) = S
  <2>1. SetToSeq(S) \in Seq(S) /\ Range(SetToSeq(S)) = S
    BY Listed
  <2>2. SetToSeq(S) \in Seq(Touchable)
    BY <2>1
  <2> QED
    BY <2>1, <2>2 DEF CommandInv, CommandTypes
<1>6. targets' \in Seq(Touchable) /\ Range(targets') = Range(targets) \cup S
  BY <1>5, ConcatProperties, RangeConcatenation
<1>7. CommandTypes' /\ Phases'
  BY <1>1, <1>3, <1>4, <1>6 DEF CommandInv, CommandTypes, Phases
<1>8. UndoesLast'
  BY <1>4 DEF UndoesLast
<1> QED
  BY <1>2, <1>3, <1>4, <1>6, <1>7, <1>8

(* An argument adds what it names, or a choice of it.                      *)
LEMMA SelectPathStep ==
  ASSUME CommandInv, SelectPath
  PROVE  CommandInv'
<1>0. PICK a : a = Head(args)
  OBVIOUS
<1> DEFINE found == Wanted(a)
<1>1. /\ pc = "select" /\ ~Running /\ verb # "undo" /\ args # <<>>
      /\ <<case, before>> \in Starts /\ args \in Seq(Arg)
  BY DEF SelectPath, CommandInv, CommandTypes, Running
<1>2. CASE Refuse
  BY <1>1, <1>2, RefuseStep
<1>3. CASE ~Refuse
  <2>1. /\ args' = Tail(args)
        /\ pc' = IF args' = <<>> THEN "targets" ELSE "select"
        /\ UNCHANGED <<rename, before, node, queue, status, blocked, depth, made,
                       case, verb, doomed>>
        /\ \E S \in SUBSET found :
             /\ targets' = targets \o SetToSeq(S)
             /\ found # {} /\ (Cardinality(found) > 1 => case.tty)
             /\ Cardinality(found) = 1 => S = found
    <3>1. /\ IsFiniteSet(found) /\ Cardinality(found) \in Nat
          /\ Cardinality(found) > 0 => found # {}
      BY <1>1, WantedIs, FS_CardinalityType, FS_EmptySet
    <3>2. Len(args) = 1 <=> Tail(args) = <<>>
      <4>1. Tail(args) \in Seq(Arg) /\ Len(Tail(args)) = Len(args) - 1 /\ Len(args) \in Nat
        BY <1>1
      <4>2. Tail(args) = <<>> <=> Len(Tail(args)) = 0
        BY <4>1, EmptySeq
      <4> QED
        BY <4>1, <4>2
    <3> HIDE DEF found
    <3>3. CASE Cardinality(found) = 1 /\ Takes(SetToSeq(found))
      BY <3>1, <3>2, <3>3 DEF Takes
    <3>4. CASE Cardinality(found) > 1 /\ Picks(found, Tail(args))
      <4>1. /\ case.tty /\ args' = Tail(args)
            /\ pc' = IF Tail(args) = <<>> THEN "targets" ELSE "select"
            /\ UNCHANGED <<rename, before, node, queue, status, blocked, depth, made,
                           case, verb, doomed>>
            /\ \E S \in SUBSET found : targets' = targets \o SetToSeq(S)
        BY <1>3, <3>4 DEF Picks
      <4>2. found # {} /\ Cardinality(found) # 1
        BY <3>1, <3>4
      <4> QED
        BY <4>1, <4>2
    <3> QED
      BY <1>0, <1>3, <3>3, <3>4 DEF SelectPath, found
  <2>2. PICK S \in SUBSET found :
          /\ targets' = targets \o SetToSeq(S)
          /\ found # {} /\ (Cardinality(found) > 1 => case.tty)
          /\ Cardinality(found) = 1 => S = found
    BY <2>1
  <2>3. /\ args' \in Seq(Arg) /\ Range(args') \subseteq Range(args)
        /\ Range(args) = Range(args') \cup {a}
    BY <1>0, <1>1, <2>1, HeadAndTail
  <2>4. /\ BatchInv' /\ CommandTypes' /\ Phases' /\ UndoesLast'
        /\ Range(targets') = Range(targets) \cup S /\ Chosen' = {}
        /\ \A b : Wanted(b)' = Wanted(b)
    <3>1. S \subseteq Touchable /\ IsFiniteSet(S)
      BY <1>1, WantedIs, FS_Subset
    <3> HIDE DEF found
    <3> QED
      BY <1>1, <2>1, <2>2, <2>3, <3>1, TakesStep
  <2>5. Arguments'
    <3> SUFFICES ASSUME verb # "undo", case.args # <<>> PROVE
          /\ Range(targets') \subseteq UNION {Wanted(b) : b \in Range(case.args)}
          /\ Range(args') \subseteq Range(case.args)
          /\ \A b \in Range(case.args) \ Range(args') : Resolved(b)'
          /\ pc' = "select" => args' # <<>>
      BY <2>1, <2>4 DEF Arguments
    <3>1. /\ Range(targets) \subseteq UNION {Wanted(b) : b \in Range(case.args)}
          /\ Range(args) \subseteq Range(case.args)
          /\ \A b \in Range(case.args) \ Range(args) : Resolved(b)
      BY DEF CommandInv, Arguments
    <3>2. a \in Range(case.args)
      BY <2>3, <3>1
    <3>3. Range(targets') \subseteq UNION {Wanted(b) : b \in Range(case.args)}
      BY <2>2, <2>4, <3>1, <3>2
    <3>4. \A b : Resolved(b) => Resolved(b)'
      BY <2>1, <2>4 DEF Resolved
    <3>5. Resolved(a)'
      BY <2>1, <2>2, <2>4 DEF Resolved
    <3> QED
      BY <2>1, <2>3, <3>1, <3>3, <3>4, <3>5
  <2> QED
    BY <2>4, <2>5 DEF CommandInv
<1> QED
  BY <1>2, <1>3

(* The picker adds a choice of what was trashed under the directory.       *)
LEMMA SelectPoolStep ==
  ASSUME CommandInv, SelectPool
  PROVE  CommandInv'
<1>1. /\ pc = "select" /\ ~Running /\ verb # "undo" /\ args = <<>>
      /\ <<case, before>> \in Starts /\ case.args = <<>>
  BY DEF SelectPool, CommandInv, CommandTypes, Running, Arguments
<1>2. CASE Refuse
  BY <1>1, <1>2, RefuseStep
<1>3. CASE ~Refuse
  <2>1. /\ args' = <<>> /\ pc' = "targets"
        /\ UNCHANGED <<rename, before, node, queue, status, blocked, depth, made,
                       case, verb, doomed>>
        /\ \E S \in SUBSET Items : targets' = targets \o SetToSeq(S)
    BY <1>3 DEF SelectPool, Picks
  <2>2. PICK S \in SUBSET Items : targets' = targets \o SetToSeq(S)
    BY <2>1
  <2>3. S \subseteq Touchable /\ IsFiniteSet(S)
    BY <1>1, ItemsAre, FS_Subset DEF Touchable
  <2>4. BatchInv' /\ CommandTypes' /\ Phases' /\ UndoesLast'
    BY <1>1, <2>1, <2>2, <2>3, TakesStep
  <2>5. Arguments'
    BY <1>1, <2>1 DEF Arguments
  <2> QED
    BY <2>4, <2>5 DEF CommandInv
<1> QED
  BY <1>2, <1>3

-----------------------------------------------------------------------------
(* dedup() hands each target over once.                                    *)
LEMMA RestoreStep ==
  ASSUME CommandInv, Restore
  PROVE  CommandInv'
<1>1. /\ pc = "targets" /\ verb = "restore" /\ <<case, before>> \in Starts
      /\ targets \in Seq(Items) /\ args = <<>>
  BY DEF Restore, CommandInv, CommandTypes, Touchable, Phases
<1> DEFINE s == Dedup(targets)
<1>2. /\ s \in Seq(Items) /\ Range(s) = Range(targets)
      /\ \A i, j \in 1..Len(s) : s[i] = s[j] => i = j
  BY <1>1, DedupIs
<1> HIDE DEF s
<1>3. Begins(s) /\ UNCHANGED <<case, verb, args, targets, doomed>>
  BY DEF Restore, s
<1>4. /\ BatchInv' /\ CommandTypes' /\ Phases' /\ Batch' = Range(s) /\ Items' = Items
  BY <1>1, <1>2, <1>3, BeginsStep
<1>5. UndoesLast'
  BY <1>1, <1>3 DEF UndoesLast
<1>6. Arguments'
  <2>1. Chosen' = Range(targets)
    BY <1>1, <1>2, <1>3, <1>4 DEF Chosen, CommandInv, Phases
  <2>2. \A a : Wanted(a)' = Wanted(a)
    BY <1>3, <1>4 DEF Wanted, Named, Matches, Orphans
  <2>3. pc' = "sort"
    BY <1>3 DEF Begins
  <2> QED
    BY <1>1, <1>3, <2>1, <2>2, <2>3 DEF CommandInv, Arguments, Resolved
<1> QED
  BY <1>4, <1>5, <1>6 DEF CommandInv

(* Each directory is given its share of the targets: together, all of      *)
(* them.                                                                   *)
LEMMA PurgeStep ==
  ASSUME CommandInv, Purge
  PROVE  CommandInv'
<1>1. /\ pc = "targets" /\ verb = "purge" /\ <<case, before>> \in Starts
      /\ targets \in Seq(Touchable) /\ args = <<>> /\ ~Running
  BY DEF Purge, CommandInv, CommandTypes, Phases, Running
<1>2. CASE Refuse
  BY <1>1, <1>2, RefuseStep
<1>3. CASE ~Refuse
  <2>1. Range(Dedup(targets)) = Range(targets) /\ Range(targets) \subseteq Touchable
    BY <1>1, DedupIs, RangeOfSeq
  <2>2. /\ doomed' = [t \in Trash |-> {e \in Range(targets) : e.trash = t}]
        /\ pc' = "purge"
        /\ UNCHANGED <<rename, before, node, queue, status, blocked, depth, made,
                       case, verb, args, targets>>
    BY <1>3, <2>1 DEF Purge
  <2>3. BatchInv' /\ Batch' = Batch
    BY <1>1, <2>2, QuietStep DEF CommandInv, Running
  <2>4. Items' = Items /\ Touchable' = Touchable /\ \A a : Wanted(a)' = Wanted(a)
    BY <2>2 DEF Items, Touchable, Orphans, Wanted, Named, Matches
  <2>5. Batch' = {} /\ Chosen' = Range(targets)
    <3>1. Batch = {}
      BY <1>1, NothingChosen DEF CommandInv
    <3>2. \A e \in Touchable : e.trash \in Trash
      BY <1>1, ItemsAre DEF Touchable
    <3>3. UNION {doomed'[t] : t \in Trash} = Range(targets)
      BY <2>1, <2>2, <3>2
    <3> QED
      BY <2>3, <3>1, <3>3 DEF Chosen
  <2>6. CommandTypes' /\ Phases'
    BY <1>1, <2>1, <2>2, <2>4, <2>5 DEF CommandInv, CommandTypes, Phases, Running
  <2>7. UndoesLast'
    BY <2>5 DEF UndoesLast
  <2>8. Arguments'
    BY <1>1, <2>2, <2>4, <2>5 DEF CommandInv, Arguments, Resolved
  <2> QED
    BY <2>3, <2>6, <2>7, <2>8 DEF CommandInv
<1> QED
  BY <1>2, <1>3

(* The batch changes neither what it was given nor what has been chosen.   *)
LEMMA InBatchStep ==
  ASSUME CommandInv, RestoreBatchNext, UNCHANGED <<case, verb, args, targets, doomed>>
  PROVE  /\ CommandInv'
         /\ Batch' = Batch /\ Placed("restored") \subseteq Placed("restored")'
<1>1. BatchInv' /\ BatchInv
  BY BatchStep DEF CommandInv
<1>2. Running /\ Running' /\ before' = before
  BY DEF RestoreBatchNext, Sort, Skip, Begin, EnsureParent, GiveUp, Publish, AtParent,
         Finish, Running
<1>3. /\ Batch' = Batch
      /\ \A x \in Batch : status[x] # "trashed" => status'[x] = status[x]
  <2>1. CASE UNCHANGED status
    BY <2>1 DEF Batch
  <2>2. CASE queue # <<>> /\ \E s : status' = [status EXCEPT ![Cur] = s]
    <3>1. Cur = queue[1] /\ queue[1] \in Batch /\ 1 \in 1..Len(queue)
      BY <1>1, <2>2 DEF BatchInv, BatchTypes, Cur
    <3>2. status[Cur] = "trashed" /\ status \in [Batch -> Outcome]
      BY <1>1, <3>1 DEF BatchInv, BatchTypes, Waiting
    <3> QED
      BY <2>2, <3>1, <3>2 DEF Batch
  <2>3. pc = "parent" => queue # <<>>
    BY <1>1 DEF BatchInv, AtWork
  <2> QED
    BY <2>1, <2>2, <2>3
       DEF RestoreBatchNext, Sort, Skip, Begin, EnsureParent, GiveUp, Publish, AtParent, Finish
<1>4. Placed("restored") \subseteq Placed("restored")'
  BY <1>3 DEF Placed
<1>5. Items' = Items /\ Touchable' = Touchable /\ \A a : Wanted(a)' = Wanted(a)
  BY DEF Items, Touchable, Orphans, Wanted, Named, Matches
<1>6. CommandTypes' /\ Phases'
  BY <1>2, <1>3, <1>5 DEF CommandInv, CommandTypes, Phases, Running
<1>7. UndoesLast'
  BY <1>3 DEF CommandInv, UndoesLast, Onward
<1>8. Arguments'
  <2>1. Chosen' = Chosen /\ pc' # "select"
    BY <1>2, <1>3 DEF Chosen, Running
  <2> QED
    BY <1>5, <2>1 DEF CommandInv, Arguments, Resolved
<1> QED
  BY <1>1, <1>3, <1>4, <1>6, <1>7, <1>8 DEF CommandInv

-----------------------------------------------------------------------------
(* Before the line is read nothing is chosen.                              *)
LEMMA CommandStarts ==
  ASSUME Init
  PROVE  CommandInv
<1>1. /\ <<case, before>> \in Starts /\ before \in Trees /\ node = before
      /\ rename \in BOOLEAN /\ queue = <<>> /\ status = <<>> /\ blocked = {}
      /\ depth = 0 /\ made = <<>> /\ pc = "argv" /\ args = case.args /\ verb = "none"
      /\ targets = <<>> /\ doomed = [t \in Trash |-> {}]
  <2>1. PICK s \in Starts : case = s[1] /\ before = s[2]
    BY DEF Init
  <2>2. <<case, before>> \in Starts
    <3>1. s \in {r[1] : r \in Starts} \X Trees
      BY StartsAssumption
    <3>2. s = <<s[1], s[2]>>
      BY <3>1
    <3> QED
      BY <2>1, <3>2
  <2> QED
    BY <2>2 DEF Init, RestoreBatchInit
<1>2. Batch = {} /\ Chosen = {} /\ \A o : Placed(o) = {}
  BY <1>1 DEF Batch, Chosen, Placed
<1>3. BatchInv
  <2>1. before \in [Path -> Node] /\ status \in [Batch -> Outcome]
    BY <1>1, <1>2, TreesAssumption
  <2> QED
    BY <1>1, <1>2, <2>1
       DEF BatchInv, BatchTypes, Waiting, InLoop, Untouched, Changed, BackThere, LeftOut,
           NoSelfConflict, Back
<1>4. CommandTypes /\ Phases
  BY <1>1, <1>2, DiskIs DEF CommandTypes, Phases, Running
<1>5. UndoesLast /\ Arguments
  <2>1. Range(targets) = {}
    BY <1>1 DEF Range
  <2> QED
    BY <1>1, <1>2, <2>1 DEF UndoesLast, Arguments
<1> QED
  BY <1>3, <1>4, <1>5 DEF CommandInv

(* Every step keeps the invariant, and takes back nothing that is          *)
(* restored.                                                               *)
LEMMA CommandStep ==
  ASSUME CommandInv, [Next]_vars
  PROVE  CommandInv' /\ Placed("restored") \subseteq Placed("restored")'
<1>1. CASE Dispatch \/ Undo \/ SelectPath \/ SelectPool \/ Restore \/ Purge
  <2>1. CommandInv'
    BY <1>1, DispatchStep, UndoStep, SelectPathStep, SelectPoolStep, RestoreStep, PurgeStep
  <2>2. ~Running
    BY <1>1 DEF Dispatch, Undo, SelectPath, SelectPool, Restore, Purge, Running
  <2>3. Placed("restored") = {}
    BY <2>2 DEF CommandInv, Phases, Placed, Batch
  <2> QED
    BY <2>1, <2>3
<1>2. CASE RestoreBatchNext /\ UNCHANGED <<case, verb, args, targets, doomed>>
  BY <1>2, InBatchStep
<1>3. CASE UNCHANGED vars
  <2>1. UNCHANGED <<rename, before, node, queue, status, blocked, depth, made, pc,
                    case, verb, args, targets, doomed>>
    BY <1>3 DEF vars, batchVars
  <2>2. /\ Batch' = Batch /\ \A s : Placed(s)' = Placed(s)
        /\ Items' = Items /\ Touchable' = Touchable /\ \A a : Wanted(a)' = Wanted(a)
    BY <2>1 DEF Batch, Placed, Items, Touchable, Orphans, Wanted, Named, Matches
  <2>3. Back' = Back /\ Reached' = Reached /\ Chosen' = Chosen /\ Cur' = Cur
    BY <2>1, <2>2 DEF Back, Reached, Chosen, Cur
  <2>4. BatchTypes' /\ Waiting' /\ (InLoop <=> InLoop') /\ (Untouched <=> Untouched')
    BY <2>1, <2>2 DEF CommandInv, BatchInv, BatchTypes, Waiting, InLoop, Untouched
  <2>5. (InOrder => InOrder') /\ (AtWork => AtWork')
    BY <2>1, <2>2, <2>3 DEF InOrder, AtWork
  <2>6. Changed' /\ BackThere' /\ LeftOut' /\ NoSelfConflict'
    BY <2>1, <2>2, <2>3
       DEF CommandInv, BatchInv, Changed, BackThere, LeftOut, NoSelfConflict
  <2>7. BatchInv'
    BY <2>1, <2>4, <2>5, <2>6 DEF CommandInv, BatchInv
  <2>8. CommandTypes' /\ Phases'
    BY <2>1, <2>2, <2>3 DEF CommandInv, CommandTypes, Phases, Running
  <2>9. UndoesLast' /\ Arguments'
    BY <2>1, <2>2, <2>3 DEF CommandInv, UndoesLast, Onward, Arguments, Resolved
  <2> QED
    BY <2>2, <2>7, <2>8, <2>9 DEF CommandInv
<1> QED
  BY <1>1, <1>2, <1>3 DEF Next

-----------------------------------------------------------------------------
(* Two prefixes of one path: one is a prefix of the other.                 *)
LEMMA PrefixesMeet ==
  ASSUME NEW b \in Seq(Nat), NEW p \in Seq(Nat), NEW q \in Seq(Nat),
         IsPrefix(b, q), IsPrefix(p, q)
  PROVE  IsPrefix(p, b) \/ IsStrictPrefix(b, p)
<1>1. /\ Len(b) \in Nat /\ Len(p) \in Nat
      /\ \A i \in 1..Len(b) : b[i] = q[i]
      /\ \A i \in 1..Len(p) : p[i] = q[i]
  <2>1. \A i \in 1..Len(b) : b[i] = q[i]
    BY PrefixIs
  <2>2. \A i \in 1..Len(p) : p[i] = q[i]
    BY PrefixIs
  <2> QED
    BY <2>1, <2>2
<1>2. CASE Len(p) <= Len(b)
  BY <1>1, <1>2, PrefixIs
<1>3. CASE ~(Len(p) <= Len(b))
  <2>1. IsPrefix(b, p)
    BY <1>1, <1>3, PrefixIs
  <2>2. b # p
    BY <1>3, <1>1
  <2> QED
    BY <2>1, <2>2 DEF IsStrictPrefix
<1> QED
  BY <1>2, <1>3

(* A prefix of a prefix.                                                   *)
LEMMA PrefixesChain ==
  ASSUME NEW b \in Seq(Nat), NEW q \in Seq(Nat), NEW p \in Seq(Nat),
         IsPrefix(b, q), b # q, IsPrefix(q, p)
  PROVE  IsStrictPrefix(b, p)
<1>1. /\ Len(b) \in Nat /\ Len(q) \in Nat /\ Len(p) \in Nat
      /\ Len(b) <= Len(q) /\ \A i \in 1..Len(b) : b[i] = q[i]
  BY PrefixIs
<1>2. Len(q) <= Len(p) /\ \A i \in 1..Len(q) : q[i] = p[i]
  BY PrefixIs
<1>3. Len(b) # Len(q)
  BY <1>1, SeqEqual
<1>4. IsPrefix(b, p)
  BY <1>1, <1>2, PrefixIs
<1> QED
  BY <1>1, <1>2, <1>3, <1>4 DEF IsStrictPrefix

(* A path that changed is in an item, or above one: below the mount point, *)
(* which exists and cannot be made.                                        *)
LEMMA Beneath ==
  ASSUME CommandInv
  PROVE  StaysBeneath
<1> SUFFICES ASSUME NEW t \in Trash, NEW base, base = Where[t].base, Batch # {},
                    \A x \in Batch : Where[x.trash] = [scope |-> "topdir", base |-> base],
                    NEW p \in Path, node[p] # before[p]
             PROVE  IsStrictPrefix(base, p)
  BY DEF StaysBeneath
<1>1. <<case, before>> \in Starts /\ base \in Seq(Nat) /\ Where[t].base = base
  BY StartsAssumption DEF CommandInv, CommandTypes
<1>2. \A x \in Batch : x.path \in Path /\ IsStrictPrefix(base, x.path)
  <2> SUFFICES ASSUME NEW x \in Batch PROVE x.path \in Path /\ IsStrictPrefix(base, x.path)
    OBVIOUS
  <2>1. PICK e \in case.disk :
          /\ Readable(e) /\ x.path = Original(e) /\ x.path \in Path /\ x.trash = e.trash
    BY <1>1, ItemsAre DEF CommandInv, Phases
  <2> QED
    BY <2>1 DEF Readable, Original
<1>3. \A q \in Path : IsPrefix(q, base) => before[q] = "dir"
  <2>1. PICK x \in Batch : Where[x.trash] = [scope |-> "topdir", base |-> base]
    OBVIOUS
  <2>2. x.trash \in Trash /\ Where[x.trash].scope = "topdir" /\ Where[x.trash].base = base
    BY <1>1, <2>1, ItemsAre DEF CommandInv, Phases
  <2> QED
    BY <1>1, <2>2, DiskIs
<1>4. /\ before[p] = "none"
      /\ \/ \E y \in Batch : Above(y.path, p)
         \/ \E x \in Batch : IsPrefix(p, x.path)
  <2>1. /\ before[p] = "none"
        /\ \/ \E y \in Back : y.holds[p] = node[p]
           \/ \E z \in Reached : IsStrictPrefix(p, z.path)
           \/ pc = "parent" /\ \E k \in 1..Len(made) : made[k] = p
    BY DEF CommandInv, BatchInv, Changed
  <2>2. Back \subseteq Batch /\ Reached \subseteq Batch
    BY DEF Back, Reached, Placed
  <2>3. ASSUME NEW y \in Back, y.holds[p] = node[p] PROVE y \in Batch /\ Above(y.path, p)
    <3>1. node[p] # "none" /\ Whole(y)
      BY <2>1, <2>2 DEF CommandInv, BatchInv, BatchTypes
    <3> QED
      BY <2>2, <2>3, <3>1 DEF Whole
  <2>4. ASSUME pc = "parent", NEW k \in 1..Len(made), made[k] = p
        PROVE  Cur \in Batch /\ IsPrefix(p, Cur.path)
    <3>1. AtWork /\ BatchTypes
      BY <2>4 DEF CommandInv, BatchInv
    <3> QED
      BY <2>4, <3>1 DEF AtWork, IsStrictPrefix, BatchTypes, Cur
  <2> QED
    BY <2>1, <2>2, <2>3, <2>4 DEF IsStrictPrefix
<1>5. CASE \E y \in Batch : Above(y.path, p)
  <2>1. PICK y \in Batch : Above(y.path, p)
    BY <1>5
  <2> QED
    BY <1>1, <1>2, <2>1, PathsAreSequences, PrefixesChain DEF IsStrictPrefix, Above
<1>6. CASE \E x \in Batch : IsPrefix(p, x.path)
  <2>1. PICK x \in Batch : IsPrefix(p, x.path)
    BY <1>6
  <2>2. p \in Seq(Nat) /\ x.path \in Seq(Nat) /\ IsPrefix(base, x.path)
    BY <1>2, <2>1, PathsAreSequences DEF IsStrictPrefix
  <2>3. IsPrefix(p, base) \/ IsStrictPrefix(base, p)
    BY <1>1, <2>1, <2>2, PrefixesMeet
  <2> QED
    BY <1>3, <1>4, <2>3
<1> QED
  BY <1>4, <1>5, <1>6

(* When something is chosen no argument is left to be resolved.            *)
LEMMA ArgumentsName ==
  ASSUME CommandInv
  PROVE  AsNamed
<1> SUFFICES ASSUME Chosen # {}, verb # "undo", case.args # <<>>
             PROVE  /\ Chosen \subseteq UNION {Wanted(a) : a \in Range(case.args)}
                    /\ \A a \in Range(case.args) :
                         LET w == Wanted(a) IN
                         /\ w # {} /\ (Cardinality(w) > 1 => case.tty)
                         /\ Cardinality(w) = 1 => w \subseteq Chosen
  BY DEF AsNamed
<1>1. Arguments
  BY DEF CommandInv
<1>2. Range(args) = {}
  BY <1>1 DEF Arguments, Range
<1> QED
  BY <1>1, <1>2 DEF Arguments, Resolved

-----------------------------------------------------------------------------
(* A word is skipped if the one before it takes a value and is not skipped.*)
LEMMA SkippedIs ==
  ASSUME NEW line \in Seq(Word)
  PROVE  \A i \in 1..Len(line) :
           i \in Skipped(line) <=>
             i > 1 /\ line[i - 1] \in TakesValue /\ i - 1 \notin Skipped(line)
<1> DEFINE N == Len(line)
           Adds(n, x) == IF n > 1 /\ line[n - 1] \in TakesValue /\ n - 1 \notin x
                          THEN x \cup {n} ELSE x
           step == [q \in (1..N) \X SUBSET Nat |-> Adds(q[1], q[2])]
           F == CHOOSE f : f = [n \in 0..N |-> IF n = 0 THEN {} ELSE Adds(n, f[n - 1])]
<1>1. N \in Nat
  OBVIOUS
<1>2. F = [n \in 0..N |-> IF n = 0 THEN {} ELSE Adds(n, F[n - 1])]
  <2>1. step \in [(1..N) \X SUBSET Nat -> SUBSET Nat]
    OBVIOUS
  <2>2. \A n \in 1..N, x \in SUBSET Nat : step[<<n, x>>] = Adds(n, x)
    OBVIOUS
  <2> HIDE DEF step, Adds, N
  <2>3. {} \in SUBSET Nat
    OBVIOUS
  <2>4. PICK f : Unfolds(f, N, SUBSET Nat, {}, step)
    BY <1>1, <2>1, <2>3, Recursion
  <2>5. /\ f \in [0..N -> SUBSET Nat]
        /\ f[0] = {} /\ \A k \in 1..N : f[k] = step[<<k, f[k - 1]>>]
    BY <2>4 DEF Unfolds
  <2>6. \A n \in 0..N : f[n] = IF n = 0 THEN {} ELSE Adds(n, f[n - 1])
    <3> SUFFICES ASSUME NEW n \in 1..N PROVE f[n] = Adds(n, f[n - 1])
      BY <1>1, <2>5
    <3>1. n - 1 \in 0..N
      BY <1>1
    <3> QED
      BY <2>2, <2>5, <3>1
  <2>7. f = [n \in 0..N |-> IF n = 0 THEN {} ELSE Adds(n, f[n - 1])]
    BY <2>5, <2>6
  <2> QED
    BY <2>7
<1>3. Skipped(line) = F[N]
  BY DEF Skipped
<1> HIDE DEF F, step, N
<1>4. F[0] = {} /\ \A k \in 1..N : F[k] = Adds(k, F[k - 1])
  <2> HIDE DEF Adds
  <2>1. \A n \in 0..N : F[n] = IF n = 0 THEN {} ELSE Adds(n, F[n - 1])
    BY <1>2, Zenon
  <2> QED
    BY <1>1, <2>1
<1> DEFINE Good(k) == /\ F[k] \subseteq 1..k
                      /\ \A i \in 1..k :
                           i \in F[k] <=> i > 1 /\ line[i - 1] \in TakesValue /\ i - 1 \notin F[k]
           G == {k \in 0..N : Good(k)}
<1>5. \A k : k \in G <=> k \in 0..N /\ Good(k)
  OBVIOUS
<1> HIDE DEF G
<1>6. 0 \in G
  <2>1. Good(0)
    BY <1>4
  <2> HIDE DEF Good
  <2> QED
    BY <1>1, <1>5, <2>1
<1>7. ASSUME NEW k \in 1..N, k - 1 \in G PROVE k \in G
  <2>1. Good(k - 1)
    <3> HIDE DEF Good
    <3> QED
      BY <1>5, <1>7
  <2>2. F[k] = Adds(k, F[k - 1])
    BY <1>4
  <2>3. \A i : i # k => (i \in F[k] <=> i \in F[k - 1])
    BY <2>2
  <2>4. k \notin F[k - 1] /\ F[k - 1] \subseteq 1..(k - 1) /\ k \in Nat /\ k > 0
    BY <1>1, <2>1
  <2>5. k \in F[k] <=> k > 1 /\ line[k - 1] \in TakesValue /\ k - 1 \notin F[k]
    BY <2>2, <2>3, <2>4
  <2>6. F[k] \subseteq 1..k
    BY <2>3, <2>4
  <2>7. ASSUME NEW i \in 1..k, i # k
        PROVE  i \in F[k] <=> i > 1 /\ line[i - 1] \in TakesValue /\ i - 1 \notin F[k]
    <3>1. i \in 1..(k - 1) /\ i - 1 # k
      BY <2>4, <2>7
    <3> QED
      BY <2>1, <2>3, <2>7, <3>1
  <2>8. Good(k)
    BY <2>5, <2>6, <2>7
  <2> HIDE DEF Good
  <2> QED
    BY <1>5, <2>8
<1>8. Good(N)
  <2> HIDE DEF Good
  <2>1. \A k \in 0..N : k \in G
    BY <1>1, <1>6, <1>7, UpTo
  <2> QED
    BY <1>1, <1>5, <2>1
<1> QED
  BY <1>3, <1>8 DEF N

ParserState ==
  [state : {"free", "files", "value", "rest", "command", "ends"},
   verb : Verbs \cup {"put"}, seen : BOOLEAN, config : BOOLEAN, force : BOOLEAN,
   files : BOOLEAN]

(* A word read leaves clap in a state of its own.                          *)
LEMMA ReadTypes ==
  ASSUME NEW s \in ParserState, NEW w \in Word, NEW c \in BOOLEAN
  PROVE  Read(s, w, c) \in ParserState
<1>1. \A t \in ParserState, x \in {"free", "files", "value", "rest", "command", "ends"} :
        /\ [t EXCEPT !.state = x] \in ParserState
        /\ Keep(t, x) \in ParserState /\ OwnFile(t, x) \in ParserState
        /\ [Keep(t, x) EXCEPT !.config = TRUE] \in ParserState
        /\ [Keep(t, x) EXCEPT !.force = TRUE] \in ParserState
  BY ZenonT(40) DEF ParserState, Keep, OwnFile
<1>2. w \in Verbs => [s EXCEPT !.state = "command", !.verb = w] \in ParserState
  BY DEF ParserState
<1>3. s.state \in {"free", "files", "value", "rest", "command", "ends"}
  BY DEF ParserState
<1> QED
  BY <1>1, <1>2, <1>3 DEF Read, IsCommand

(* What clap has made of each beginning of a line.                         *)
LEMMA ClapIs ==
  ASSUME NEW line \in Seq(Word), NEW c \in BOOLEAN
  PROVE  \E f \in [0..Len(line) -> ParserState] :
           /\ f[0] = Fresh /\ Clap(line, c) = f[Len(line)]
           /\ \A k \in 1..Len(line) : f[k] = Read(f[k - 1], line[k], c)
<1> DEFINE N == Len(line)
           step == [q \in (1..N) \X ParserState |-> Read(q[2], line[q[1]], c)]
           F == CHOOSE f : f = [n \in 0..N |->
                                  IF n = 0 THEN Fresh ELSE Read(f[n - 1], line[n], c)]
<1>1. N \in Nat /\ \A k \in 1..N : line[k] \in Word
  OBVIOUS
<1>2. Fresh \in ParserState
  BY DEF Fresh, ParserState
<1>3. Clap(line, c) = F[N]
  BY DEF Clap
<1> HIDE DEF N
<1>4. step \in [(1..N) \X ParserState -> ParserState]
  BY <1>1, ReadTypes
<1>5. \A n \in 1..N, x \in ParserState : step[<<n, x>>] = Read(x, line[n], c)
  OBVIOUS
<1> HIDE DEF step
<1>6. PICK f : Unfolds(f, N, ParserState, Fresh, step)
  BY <1>1, <1>2, <1>4, Recursion
<1>7. /\ f \in [0..N -> ParserState]
      /\ f[0] = Fresh /\ \A k \in 1..N : f[k] = step[<<k, f[k - 1]>>]
  BY <1>6 DEF Unfolds
<1>8. \A k \in 1..N : k - 1 \in 0..N /\ k # 0
  BY <1>1
<1>9. \A k \in 1..N : f[k] = Read(f[k - 1], line[k], c)
  BY <1>5, <1>7, <1>8
<1>10. f = [n \in 0..N |-> IF n = 0 THEN Fresh ELSE Read(f[n - 1], line[n], c)]
  <2>1. \A n \in 0..N : n = 0 \/ n \in 1..N
    BY <1>1
  <2> QED
    BY <1>7, <1>9, <2>1
<1>11. F = [n \in 0..N |-> IF n = 0 THEN Fresh ELSE Read(F[n - 1], line[n], c)]
  BY <1>10
<1> HIDE DEF F
<1>12. F \in [0..N -> ParserState] /\ F[0] = Fresh
       /\ \A k \in 1..N : F[k] = Read(F[k - 1], line[k], c)
  <2>1. F[0] = Fresh /\ \A k \in 1..N : F[k] = Read(F[k - 1], line[k], c)
    BY <1>1, <1>8, <1>11
  <2> DEFINE G == {k \in 0..N : F[k] \in ParserState}
  <2>2. 0 \in G
    BY <1>1, <1>2, <2>1
  <2>3. \A k \in 1..N : k - 1 \in G => k \in G
    BY <1>1, <1>8, <2>1, ReadTypes
  <2>4. \A k \in 0..N : k \in G
    <3> HIDE DEF G
    <3> QED
      BY <1>1, <2>2, <2>3, UpTo
  <2>5. \A k \in 0..N : F[k] \in ParserState
    BY <2>4
  <2> QED
    BY <1>11, <2>1, <2>5
<1> QED
  BY <1>3, <1>12 DEF N

(* Where a command's name leads a line.                                    *)
LEMMA LeadsIs ==
  ASSUME NEW line \in Seq(Word), NEW v \in Verbs
  PROVE  Leads(v, line) <=>
           \/ Len(line) >= 1 /\ line[1] = v
           \/ Len(line) >= 2 /\ line[1] = "--config=" /\ line[2] = v
           \/ /\ Len(line) >= 3 /\ line[1] = "--config"
              /\ line[2] \in Word \ Dashed /\ line[3] = v
<1>1. v \in Word /\ "--config=" \in Word /\ "--config" \in Word /\ Len(line) \in Nat
  BY DEF Word, Dashed, TakesValue
<1>2. ASSUME NEW p \in Seq(Word)
      PROVE  IsPrefix(p \o <<v>>, line) <=>
               /\ Len(line) >= Len(p) + 1 /\ line[Len(p) + 1] = v
               /\ \A i \in 1..Len(p) : p[i] = line[i]
  <2> DEFINE q == Append(p, v)
             n == Len(p)
  <2>1. /\ q \in Seq(Word) /\ Len(q) = n + 1 /\ q[n + 1] = v
        /\ \A i \in 1..n : q[i] = p[i]
    BY <1>1, AppendProperties
  <2>2. q = p \o <<v>> /\ n \in Nat
    BY <1>1, AppendIsConcat
  <2> HIDE DEF q, n
  <2>3. IsPrefix(q, line) <=> Len(q) <= Len(line) /\ \A i \in 1..Len(q) : q[i] = line[i]
    BY <2>1, PrefixOf
  <2>4. \A i : i \in 1..(n + 1) <=> i \in 1..n \/ i = n + 1
    BY <2>2
  <2> QED
    BY <1>1, <2>1, <2>2, <2>3, <2>4 DEF n
<1>3. IsPrefix(<<>> \o <<v>>, line) <=> Len(line) >= 1 /\ line[1] = v
  <2> DEFINE p == <<>>
  <2>1. p \in Seq(Word) /\ Len(p) = 0
    OBVIOUS
  <2> HIDE DEF p
  <2>2. IsPrefix(p \o <<v>>, line) <=>
          /\ Len(line) >= Len(p) + 1 /\ line[Len(p) + 1] = v
          /\ \A i \in 1..Len(p) : p[i] = line[i]
    BY <1>2, <2>1
  <2> QED
    BY <1>1, <2>1, <2>2 DEF p
<1>4. IsPrefix(<<"--config=">> \o <<v>>, line) <=>
        Len(line) >= 2 /\ line[1] = "--config=" /\ line[2] = v
  <2> DEFINE p == <<"--config=">>
  <2>1. p \in Seq(Word) /\ Len(p) = 1 /\ p[1] = "--config="
    BY <1>1
  <2> HIDE DEF p
  <2>2. \A i : i \in 1..1 <=> i = 1
    OBVIOUS
  <2>3. IsPrefix(p \o <<v>>, line) <=>
          /\ Len(line) >= Len(p) + 1 /\ line[Len(p) + 1] = v
          /\ \A i \in 1..Len(p) : p[i] = line[i]
    BY <1>2, <2>1
  <2> QED
    BY <1>1, <2>1, <2>2, <2>3 DEF p
<1>5. \A w \in Word : IsPrefix(<<"--config", w>> \o <<v>>, line) <=>
        Len(line) >= 3 /\ line[1] = "--config" /\ line[2] = w /\ line[3] = v
  <2> TAKE w \in Word
  <2> DEFINE p == <<"--config", w>>
  <2>1. p \in Seq(Word) /\ Len(p) = 2 /\ p[1] = "--config" /\ p[2] = w
    BY <1>1
  <2> HIDE DEF p
  <2>2. \A i : i \in 1..2 <=> i = 1 \/ i = 2
    OBVIOUS
  <2>3. IsPrefix(p \o <<v>>, line) <=>
          /\ Len(line) >= Len(p) + 1 /\ line[Len(p) + 1] = v
          /\ \A i \in 1..Len(p) : p[i] = line[i]
    BY <1>2, <2>1
  <2> QED
    BY <1>1, <2>1, <2>2, <2>3 DEF p
<1>6. Leads(v, line) <=>
        \/ IsPrefix(<<>> \o <<v>>, line) \/ IsPrefix(<<"--config=">> \o <<v>>, line)
        \/ \E w \in Word \ Dashed : IsPrefix(<<"--config", w>> \o <<v>>, line)
  BY Zenon DEF Leads
<1> QED
  BY <1>3, <1>4, <1>5, <1>6

(* The first word that is neither an option nor an option's value decides  *)
(* what first_word() says.                                                 *)
LEMMA FirstWordIs ==
  ASSUME NEW line \in Seq(Word), NEW n \in 1..Len(line),
         n \notin Skipped(line), line[n] \notin Dashed \ {"--"},
         \A i \in 1..(n - 1) : line[i] \in Dashed \ {"--"} \/ i \in Skipped(line)
  PROVE  FirstWord(line) =
           IF line[n] \notin Verbs THEN "File"
           ELSE IF \E j \in 1..(n - 1) : /\ line[j] \in {"-f", "--other"}
                                         /\ j \notin Skipped(line)
           THEN "AfterFlags" ELSE "Subcommand"
<1> DEFINE plain == {i \in 1..Len(line) \ Skipped(line) : line[i] \notin Dashed \ {"--"}}
<1>1. Len(line) \in Nat /\ n \in plain
  OBVIOUS
<1>2. \A i \in plain : i >= n
  <2> SUFFICES ASSUME NEW i \in plain, ~(i >= n) PROVE FALSE
    OBVIOUS
  <2>1. i \in 1..(n - 1)
    BY <1>1
  <2> QED
    BY <2>1
<1>3. plain \subseteq Nat /\ plain # {}
  BY <1>1
<1> HIDE DEF plain
<1>4. \A x \in plain : (\A y \in plain : x =< y) => x = n
  <2> SUFFICES ASSUME NEW x \in plain, \A y \in plain : x =< y PROVE x = n
    OBVIOUS
  <2>1. x <= n /\ x >= n /\ x \in Nat /\ n \in Nat
    BY <1>1, <1>2, <1>3
  <2> QED
    BY <2>1
<1>5. Min(plain) = n
  BY <1>1, <1>2, <1>3, <1>4 DEF Min
<1> QED
  BY <1>3, <1>5 DEF FirstWord, plain

Parses(f, line, c) ==
  /\ f \in [0..Len(line) -> ParserState]
  /\ f[0] = Fresh /\ Clap(line, c) = f[Len(line)]
  /\ \A k \in 1..Len(line) : f[k] = Read(f[k - 1], line[k], c)

(* clap gives up no subcommand it has found.                               *)
LEMMA CommandStays ==
  ASSUME NEW line \in Seq(Word), NEW c \in BOOLEAN, NEW f, Parses(f, line, c),
         NEW n \in 1..Len(line), f[n].state = "command"
  PROVE  Clap(line, c) = f[n]
<1> DEFINE N == Len(line)
           G == {k \in 0..N : k >= n => f[k] = f[n]}
<1>1. N \in Nat
  OBVIOUS
<1>2. \A k : k \in G <=> k \in 0..N /\ (k >= n => f[k] = f[n])
  OBVIOUS
<1> HIDE DEF G
<1>3. 0 \in G
  BY <1>1, <1>2
<1>4. ASSUME NEW k \in 1..N, k - 1 \in G PROVE k \in G
  <2>1. CASE k = n
    BY <1>1, <1>2, <2>1
  <2>2. CASE k > n
    <3>1. f[k - 1] = f[n]
      BY <1>1, <1>2, <1>4, <2>2
    <3>2. f[k] = Read(f[k - 1], line[k], c) /\ f[k - 1].state = "command"
      BY <3>1 DEF Parses
    <3>3. f[k] = f[k - 1]
      BY <3>2 DEF Read
    <3> QED
      BY <1>1, <1>2, <3>1, <3>3
  <2>3. CASE k < n
    BY <1>1, <1>2, <2>3
  <2> QED
    BY <1>1, <2>1, <2>2, <2>3
<1>5. \A k \in 0..N : k \in G
  BY <1>1, <1>3, <1>4, UpTo
<1> QED
  BY <1>1, <1>2, <1>5 DEF Parses

(* As long as clap still looks for a subcommand, and no file came first,   *)
(* it has read nothing but options, and first_word() agrees on which words *)
(* are their values.                                                       *)
Leading(s, line, k) ==
  \/ k = 0 /\ s.state = "free" /\ ~s.config
  \/ k = 1 /\ line[1] = "--config=" /\ s.state = "free" /\ s.config
  \/ k = 1 /\ line[1] = "--config" /\ s.state = "value" /\ s.config
  \/ /\ k = 2 /\ line[1] = "--config" /\ line[2] \in Word \ Dashed
     /\ s.state = "free" /\ s.config

Scanned(s, line, k) ==
  /\ s.state \in {"free", "value"} =>
       /\ \A i \in 1..k : line[i] \in Dashed \ {"--"} \/ i \in Skipped(line)
       /\ s.state = "value" <=>
            k > 0 /\ line[k] \in TakesValue /\ k \notin Skipped(line)
       /\ s.force => \E i \in 1..k : line[i] = "-f" /\ i \notin Skipped(line)
       /\ ~s.force => Leading(s, line, k)
  /\ s.state # "files"
  /\ s.state # "command" => s.verb = "put"

(* One word more.                                                          *)
LEMMA Scan ==
  ASSUME NEW line \in Seq(Word), FirstWord(line) # "File",
         NEW f, Parses(f, line, FALSE), NEW k \in 1..Len(line),
         Scanned(f[k - 1], line, k - 1)
  PROVE  Scanned(f[k], line, k)
<1> DEFINE s == f[k - 1]
           t == f[k]
           w == line[k]
           n == k - 1
<1>1. /\ s \in ParserState /\ t \in ParserState /\ w \in Word
      /\ t = Read(s, w, FALSE) /\ Scanned(s, line, n)
  <2>1. k - 1 \in 0..Len(line) /\ k \in 0..Len(line) /\ line[k] \in Word
    OBVIOUS
  <2> QED
    BY <2>1 DEF Parses
<1>2. n \in Nat /\ k = n + 1 /\ k > 0 /\ \A i \in 1..k : i = k \/ i \in 1..n
  OBVIOUS
<1>3. k \in Skipped(line) <=> n > 0 /\ line[n] \in TakesValue /\ n \notin Skipped(line)
  <2>1. k \in 1..Len(line) /\ k - 1 = n /\ (k > 1 <=> n > 0)
    OBVIOUS
  <2> HIDE DEF n
  <2> QED
    BY <2>1, SkippedIs
<1> SUFFICES Scanned(t, line, k)
  OBVIOUS
<1> HIDE DEF s, t, n
<1>4. CASE s.state \in {"ends", "command"}
  BY <1>1, <1>4 DEF Read, Scanned
<1>5. CASE s.state = "rest"
  BY <1>1, <1>5 DEF Read, Scanned, OwnFile, Keep, ParserState
<1>6. CASE s.state = "value"
  <2>1. t = Keep(s, IF w \in Dashed THEN "ends" ELSE "free")
    BY <1>1, <1>6 DEF Read
  <2>2. k \in Skipped(line)
    BY <1>1, <1>3, <1>6 DEF Scanned
  <2>3. t.verb = "put" /\ t.force = s.force /\ t.config = s.config
        /\ t.state = IF w \in Dashed THEN "ends" ELSE "free"
    BY <1>1, <1>6, <2>1 DEF Keep, ParserState, Scanned
  <2>4. CASE w \in Dashed
    BY <2>3, <2>4 DEF Scanned
  <2>5. CASE w \notin Dashed
    <3>1. \A i \in 1..k : line[i] \in Dashed \ {"--"} \/ i \in Skipped(line)
      BY <1>1, <1>2, <1>6, <2>2 DEF Scanned
    <3>2. s.force => \E i \in 1..k : line[i] = "-f" /\ i \notin Skipped(line)
      BY <1>1, <1>2, <1>6 DEF Scanned
    <3>3. ASSUME ~s.force PROVE Leading(t, line, k)
      <4>1. n = 1 /\ line[1] = "--config" /\ s.config
        BY <1>1, <1>6, <3>3 DEF Scanned, Leading
      <4>2. k = 2 /\ line[2] \in Word \ Dashed
        BY <1>1, <1>2, <2>5, <4>1
      <4> QED
        BY <2>3, <2>5, <4>1, <4>2 DEF Leading
    <3>4. t.state = "free" /\ t.verb = "put" /\ (t.force <=> s.force)
      BY <2>3, <2>5
    <3>5. t.state # "value" /\ t.state # "files"
      BY <3>4
    <3>6. t.force => \E i \in 1..k : line[i] = "-f" /\ i \notin Skipped(line)
      BY <3>2, <3>4
    <3>7. ~t.force => Leading(t, line, k)
      BY <3>3, <3>4
    <3>8. t.state = "value" <=> k > 0 /\ line[k] \in TakesValue /\ k \notin Skipped(line)
      BY <2>2, <3>5
    <3> HIDE DEF w
    <3> QED
      BY <3>1, <3>4, <3>5, <3>6, <3>7, <3>8 DEF Scanned
  <2> QED
    BY <2>4, <2>5
<1>7. CASE s.state = "free"
  <2>1. k \notin Skipped(line)
    BY <1>1, <1>3, <1>7 DEF Scanned
  <2>2. /\ \A i \in 1..n : line[i] \in Dashed \ {"--"} \/ i \in Skipped(line)
        /\ s.force => \E i \in 1..n : line[i] = "-f" /\ i \notin Skipped(line)
        /\ ~s.force => Leading(s, line, n)
        /\ s.verb = "put"
    BY <1>1, <1>7 DEF Scanned
  <2>3. w \notin Dashed \ {"--"} => w \in Verbs
    <3>1. n = k - 1
      BY <1>2
    <3> QED
      BY <2>1, <2>2, <3>1, FirstWordIs
  <2>4. CASE IsCommand(s, w, FALSE)
    BY <1>1, <1>7, <2>4 DEF Read, Scanned, ParserState
  <2>5. CASE ~IsCommand(s, w, FALSE)
    <3>1. w \notin Verbs
      BY <1>7, <2>5 DEF IsCommand
    <3>2. w \in Dashed \ {"--"}
      BY <2>3, <3>1
    <3>3. \A i \in 1..k : line[i] \in Dashed \ {"--"} \/ i \in Skipped(line)
      BY <1>2, <2>2, <3>2
    <3>4. CASE w \in {"-h", "--other", "--completions"}
      <4>1. t = Keep(s, "ends")
        BY <1>1, <1>7, <2>5, <3>4 DEF Read
      <4> QED
        BY <1>1, <2>2, <4>1 DEF Keep, ParserState, Scanned
    <3>5. CASE w \in {"--config", "--config="} /\ s.config
      <4>1. t = Keep(s, "ends")
        BY <1>1, <1>7, <2>5, <3>5 DEF Read
      <4> QED
        BY <1>1, <2>2, <4>1 DEF Keep, ParserState, Scanned
    <3>6. CASE w \in {"--config", "--config="} /\ ~s.config
      <4>1. t = [Keep(s, IF w = "--config" THEN "value" ELSE "free") EXCEPT !.config = TRUE]
        BY <1>1, <1>7, <2>5, <3>6 DEF Read
      <4>2. /\ t.verb = "put" /\ t.force = s.force /\ t.config
            /\ t.state = IF w = "--config" THEN "value" ELSE "free"
        BY <1>1, <2>2, <4>1 DEF Keep, ParserState
      <4>3. ~s.force => n = 0
        BY <2>2, <3>6 DEF Leading
      <4>4. ~s.force => Leading(t, line, k)
        BY <1>2, <3>6, <4>2, <4>3 DEF Leading
      <4>5. w \in TakesValue <=> w = "--config"
        BY <3>6 DEF TakesValue
      <4>6. s.force => \E i \in 1..k : line[i] = "-f" /\ i \notin Skipped(line)
        BY <1>2, <2>2
      <4> QED
        BY <1>2, <2>1, <3>3, <4>2, <4>4, <4>5, <4>6 DEF Scanned
    <3>7. CASE w = "-f"
      <4>1. t = [Keep(s, "free") EXCEPT !.force = TRUE]
        BY <1>1, <1>7, <2>5, <3>7 DEF Read
      <4>2. t.verb = "put" /\ t.force /\ t.state = "free"
        BY <1>1, <2>2, <4>1 DEF Keep, ParserState
      <4>3. k \in 1..k /\ line[k] = "-f"
        BY <1>2, <3>7
      <4>4. w \notin TakesValue
        BY <3>7 DEF TakesValue
      <4> QED
        BY <1>2, <2>1, <3>3, <4>2, <4>3, <4>4 DEF Scanned
    <3> QED
      BY <3>2, <3>4, <3>5, <3>6, <3>7 DEF Dashed, TakesValue
  <2> QED
    BY <2>4, <2>5
<1>8. s.state # "files" /\ s.state \in {"free", "files", "value", "rest", "command", "ends"}
  BY <1>1 DEF Scanned, ParserState
<1> QED
  BY <1>4, <1>5, <1>6, <1>7, <1>8

(* So it is at every word of a line that begins with no file.              *)
LEMMA Scans ==
  ASSUME NEW line \in Seq(Word), FirstWord(line) # "File",
         NEW f, Parses(f, line, FALSE)
  PROVE  \A k \in 0..Len(line) : Scanned(f[k], line, k)
<1> DEFINE G == {k \in 0..Len(line) : Scanned(f[k], line, k)}
<1>1. Len(line) \in Nat /\ \A k : k \in G <=> k \in 0..Len(line) /\ Scanned(f[k], line, k)
  OBVIOUS
<1> HIDE DEF G
<1>2. 0 \in G
  <2>1. f[0] = Fresh /\ \A i \in 1..0 : FALSE
    BY DEF Parses
  <2>2. Scanned(f[0], line, 0)
    BY <2>1 DEF Fresh, Scanned, Leading
  <2> QED
    BY <1>1, <2>2
<1>3. ASSUME NEW k \in 1..Len(line), k - 1 \in G PROVE k \in G
  <2>1. Scanned(f[k - 1], line, k - 1)
    BY <1>1, <1>3
  <2>2. Scanned(f[k], line, k)
    BY <2>1, Scan
  <2> QED
    BY <1>1, <2>2
<1>4. \A k \in 0..Len(line) : k \in G
  BY <1>1, <1>2, <1>3, UpTo
<1> QED
  BY <1>1, <1>4

(* A subcommand clap has found it found at a word that it looked for one   *)
(* at.                                                                     *)
LEMMA CommandFound ==
  ASSUME NEW line \in Seq(Word), NEW c \in BOOLEAN, NEW f, Parses(f, line, c),
         Clap(line, c).state = "command"
  PROVE  \E n \in 1..Len(line) :
           IsCommand(f[n - 1], line[n], c) /\ Clap(line, c).verb = line[n]
<1> DEFINE Found(k) == f[k].state = "command" =>
             \E n \in 1..Len(line) : IsCommand(f[n - 1], line[n], c) /\ f[k].verb = line[n]
           G == {k \in 0..Len(line) : Found(k)}
<1>1. Len(line) \in Nat /\ \A k : k \in G <=> k \in 0..Len(line) /\ Found(k)
  OBVIOUS
<1> HIDE DEF G
<1>2. 0 \in G
  <2>1. Found(0)
    BY DEF Parses, Fresh
  <2> HIDE DEF Found
  <2> QED
    BY <1>1, <2>1
<1>3. ASSUME NEW k \in 1..Len(line), k - 1 \in G PROVE k \in G
  <2> DEFINE s == f[k - 1]
             w == line[k]
  <2>1. s \in ParserState /\ w \in Word /\ f[k] = Read(s, w, c)
    BY DEF Parses
  <2>2. Found(k - 1)
    <3> HIDE DEF Found
    <3> QED
      BY <1>1, <1>3
  <2>3. s.state = "command" => f[k] = s
    <3> HIDE DEF s
    <3> QED
      BY <2>1 DEF Read
  <2>4. ~IsCommand(s, w, c) /\ s.state # "command" => f[k].state # "command"
    <3> HIDE DEF s, w
    <3>1. s.state \in {"free", "files", "value", "rest", "ends", "command"}
      BY <2>1 DEF ParserState
    <3> QED
      BY <2>1, <3>1 DEF Read, OwnFile, Keep, ParserState
  <2>5. IsCommand(s, w, c) => f[k].verb = w
    <3> HIDE DEF s, w
    <3> QED
      BY <2>1 DEF Read, IsCommand, ParserState
  <2>6. Found(k)
    BY <2>2, <2>3, <2>4, <2>5
  <2> HIDE DEF Found
  <2> QED
    BY <1>1, <2>6
<1>4. \A k \in 0..Len(line) : k \in G
  BY <1>1, <1>2, <1>3, UpTo
<1>5. Found(Len(line))
  <2> HIDE DEF Found
  <2> QED
    BY <1>1, <1>4
<1> QED
  BY <1>5 DEF Parses

(* With args_conflicts_with_subcommands clap finds one at the first word   *)
(* or not at all.                                                          *)
LEMMA ConflictingFirst ==
  ASSUME NEW line \in Seq(Word), NEW f, Parses(f, line, TRUE),
         NEW n \in 1..Len(line), IsCommand(f[n - 1], line[n], TRUE)
  PROVE  n = 1
<1> DEFINE New(k) == ~f[k].seen => k = 0 \/ f[k].state = "rest" \/ f[k].state = "command"
           G == {k \in 0..Len(line) : New(k)}
<1>1. Len(line) \in Nat /\ \A k : k \in G <=> k \in 0..Len(line) /\ New(k)
  OBVIOUS
<1> HIDE DEF G
<1>2. 0 \in G
  BY <1>1
<1>3. ASSUME NEW k \in 1..Len(line), k - 1 \in G PROVE k \in G
  <2> DEFINE s == f[k - 1]
             w == line[k]
  <2>1. s \in ParserState /\ f[k] = Read(s, w, TRUE) /\ w \in Word
    BY DEF Parses
  <2>2. ~s.seen => k - 1 = 0 \/ s.state = "rest" \/ s.state = "command"
    BY <1>1, <1>3
  <2>3. k - 1 = 0 => s.state = "free"
    BY DEF Parses, Fresh
  <2> HIDE DEF s
  <2>4. New(k)
    <3>1. CASE s.state \in {"ends", "command"}
      BY <2>1, <2>2, <2>3, <3>1 DEF Read
    <3>2. CASE s.state = "rest"
      BY <2>1, <3>2 DEF Read, OwnFile, Keep, ParserState
    <3>3. CASE s.state = "value"
      BY <2>1, <3>3 DEF Read, Keep, ParserState
    <3>4. CASE s.state \in {"free", "files"} /\ IsCommand(s, w, TRUE)
      BY <2>1, <3>4 DEF Read, ParserState
    <3>5. CASE s.state \in {"free", "files"} /\ ~IsCommand(s, w, TRUE)
      BY <2>1, <3>5 DEF Read, OwnFile, Keep, ParserState
    <3>6. s.state \in {"free", "files", "value", "rest", "ends", "command"}
      BY <2>1 DEF ParserState
    <3> QED
      BY <3>1, <3>2, <3>3, <3>4, <3>5, <3>6
  <2> HIDE DEF New
  <2> QED
    BY <1>1, <2>4
<1>4. \A k \in 0..Len(line) : k \in G
  BY <1>1, <1>2, <1>3, UpTo
<1>5. New(n - 1)
  <2> HIDE DEF New
  <2> QED
    BY <1>1, <1>4
<1> QED
  BY <1>5 DEF IsCommand

(* clap names a command only if it has found one.                          *)
LEMMA PutUnlessFound ==
  ASSUME NEW line \in Seq(Word), NEW c \in BOOLEAN, NEW f, Parses(f, line, c),
         Clap(line, c).verb # "put"
  PROVE  Clap(line, c).state = "command"
<1> DEFINE Put(k) == f[k].state # "command" => f[k].verb = "put"
           G == {k \in 0..Len(line) : Put(k)}
<1>1. Len(line) \in Nat /\ \A k : k \in G <=> k \in 0..Len(line) /\ Put(k)
  OBVIOUS
<1> HIDE DEF G
<1>2. 0 \in G
  BY <1>1 DEF Parses, Fresh
<1>3. ASSUME NEW k \in 1..Len(line), k - 1 \in G PROVE k \in G
  <2> DEFINE s == f[k - 1]
             w == line[k]
  <2>1. s \in ParserState /\ f[k] = Read(s, w, c) /\ w \in Word
    BY DEF Parses
  <2>2. s.state # "command" => s.verb = "put"
    BY <1>1, <1>3
  <2> HIDE DEF s
  <2>3. Put(k)
    <3>1. CASE s.state \in {"ends", "command"}
      BY <2>1, <2>2, <3>1 DEF Read
    <3>2. CASE s.state \in {"rest", "value"}
      BY <2>1, <2>2, <3>2 DEF Read, OwnFile, Keep, ParserState
    <3>3. CASE s.state \in {"free", "files"} /\ IsCommand(s, w, c)
      BY <2>1, <3>3 DEF Read, ParserState
    <3>4. CASE s.state \in {"free", "files"} /\ ~IsCommand(s, w, c)
      BY <2>1, <2>2, <3>4 DEF Read, OwnFile, Keep, ParserState
    <3>5. s.state \in {"free", "files", "value", "rest", "ends", "command"}
      BY <2>1 DEF ParserState
    <3> QED
      BY <3>1, <3>2, <3>3, <3>4, <3>5
  <2> HIDE DEF Put
  <2> QED
    BY <1>1, <2>3
<1>4. \A k \in 0..Len(line) : k \in G
  BY <1>1, <1>2, <1>3, UpTo
<1>5. Put(Len(line))
  <2> HIDE DEF Put
  <2> QED
    BY <1>1, <1>4
<1> QED
  BY <1>5 DEF Parses

(* A line that a subcommand's name leads runs that subcommand.             *)
LEMMA LedRuns ==
  ASSUME NEW line \in Seq(Word), NEW v \in Verbs, Leads(v, line)
  PROVE  Command(line) = v
<1> DEFINE Sk == Skipped(line)
<1>1. Len(line) \in Nat /\ v \in Word
  BY DEF Word
<1>2. \A w : w \in Verbs => w \notin Dashed /\ w \notin {"-f", "--other"} /\ w # "put"
  BY DEF Verbs, Dashed, TakesValue
<1>3. \A i \in 1..Len(line) :
        i \in Sk <=> i > 1 /\ line[i - 1] \in TakesValue /\ i - 1 \notin Sk
  BY SkippedIs
<1> HIDE DEF Sk
<1>4. \E n \in 1..Len(line) :
        /\ n \notin Sk /\ line[n] = v
        /\ \A i \in 1..(n - 1) : line[i] \in Dashed \ {"--"} \/ i \in Sk
        /\ \A j \in 1..(n - 1) : j \notin Sk => line[j] \notin {"-f", "--other"}
        /\ \/ n = 1
           \/ n = 2 /\ line[1] = "--config="
           \/ n = 3 /\ line[1] = "--config" /\ line[2] \notin Dashed
  <2>1. CASE Len(line) >= 1 /\ line[1] = v
    <3>1. 1 \in 1..Len(line) /\ \A i : i \notin 1..(1 - 1)
      BY <1>1, <2>1
    <3>2. 1 \notin Sk
      BY <1>3, <3>1
    <3> QED
      BY <2>1, <3>1, <3>2
  <2>2. CASE Len(line) >= 2 /\ line[1] = "--config=" /\ line[2] = v
    <3>1. 1 \in 1..Len(line) /\ 2 \in 1..Len(line) /\ 2 - 1 = 1 /\ \A i \in 1..(2 - 1) : i = 1
      BY <1>1, <2>2
    <3>2. 2 \notin Sk
      BY <1>3, <2>2, <3>1 DEF TakesValue
    <3>3. line[1] \in Dashed \ {"--"} /\ line[1] \notin {"-f", "--other"}
      BY <2>2 DEF Dashed
    <3> QED
      BY <2>2, <3>1, <3>2, <3>3
  <2>3. CASE /\ Len(line) >= 3 /\ line[1] = "--config"
             /\ line[2] \in Word \ Dashed /\ line[3] = v
    <3>1. /\ 1 \in 1..Len(line) /\ 2 \in 1..Len(line) /\ 3 \in 1..Len(line)
          /\ 2 - 1 = 1 /\ 3 - 1 = 2 /\ \A i \in 1..(3 - 1) : i = 1 \/ i = 2
      BY <1>1, <2>3
    <3>2. 1 \notin Sk
      BY <1>3, <3>1
    <3>3. 2 \in Sk
      BY <1>3, <2>3, <3>1, <3>2 DEF TakesValue
    <3>4. 3 \notin Sk
      BY <1>3, <3>1, <3>3
    <3>5. line[1] \in Dashed \ {"--"} /\ line[1] \notin {"-f", "--other"}
      BY <2>3 DEF Dashed, TakesValue
    <3> QED
      BY <2>3, <3>1, <3>3, <3>4, <3>5
  <2> QED
    BY <2>1, <2>2, <2>3, LeadsIs
<1>5. PICK n \in 1..Len(line) :
        /\ n \notin Sk /\ line[n] = v
        /\ \A i \in 1..(n - 1) : line[i] \in Dashed \ {"--"} \/ i \in Sk
        /\ \A j \in 1..(n - 1) : j \notin Sk => line[j] \notin {"-f", "--other"}
        /\ \/ n = 1
           \/ n = 2 /\ line[1] = "--config="
           \/ n = 3 /\ line[1] = "--config" /\ line[2] \notin Dashed
  BY <1>4
<1>6. FirstWord(line) = "Subcommand"
  <2>1. line[n] \notin Dashed \ {"--"}
    BY <1>2, <1>5
  <2> QED
    BY <1>5, <2>1, FirstWordIs DEF Sk
<1>7. PICK f : Parses(f, line, FALSE)
  BY ClapIs DEF Parses
<1>8. IsCommand(f[n - 1], line[n], FALSE)
  <2>1. f[0].state = "free" /\ ~f[0].config
    BY <1>7 DEF Parses, Fresh
  <2>2. CASE n = 1
    BY <1>5, <2>1, <2>2 DEF IsCommand
  <2>3. CASE n = 2 /\ line[1] = "--config="
    <3>1. f[1] = Read(f[0], line[1], FALSE) /\ f[0] \in ParserState
      BY <1>1, <1>7, <2>3 DEF Parses
    <3>2. ~IsCommand(f[0], line[1], FALSE)
      BY <2>3 DEF IsCommand, Verbs
    <3>3. f[1].state = "free"
      BY <2>1, <2>3, <3>1, <3>2 DEF Read, Keep, ParserState
    <3> QED
      BY <1>5, <2>3, <3>3 DEF IsCommand
  <2>4. CASE n = 3 /\ line[1] = "--config" /\ line[2] \notin Dashed
    <3>1. /\ f[1] = Read(f[0], line[1], FALSE) /\ f[0] \in ParserState
          /\ f[2] = Read(f[1], line[2], FALSE) /\ f[1] \in ParserState
      <4>1. /\ 0 \in 0..Len(line) /\ 1 \in 0..Len(line) /\ 1 \in 1..Len(line)
            /\ 2 \in 1..Len(line) /\ 1 - 1 = 0 /\ 2 - 1 = 1
        BY <1>1, <2>4
      <4> QED
        BY <1>7, <4>1 DEF Parses
    <3>2. ~IsCommand(f[0], line[1], FALSE)
      BY <2>4 DEF IsCommand, Verbs
    <3>3. f[1].state = "value"
      BY <2>1, <2>4, <3>1, <3>2 DEF Read, Keep, ParserState
    <3>4. f[2].state = "free"
      BY <2>4, <3>1, <3>3 DEF Read, Keep, ParserState
    <3> QED
      BY <1>5, <2>4, <3>4 DEF IsCommand
  <2> QED
    BY <1>5, <2>2, <2>3, <2>4
<1>9. f[n].state = "command" /\ f[n].verb = v
  <2>1. f[n] = Read(f[n - 1], line[n], FALSE) /\ f[n - 1] \in ParserState
    BY <1>1, <1>7 DEF Parses
  <2> QED
    BY <1>5, <1>8, <2>1 DEF Read, IsCommand, ParserState
<1>10. Clap(line, FALSE) = f[n]
  BY <1>7, <1>9, CommandStays
<1> QED
  BY <1>2, <1>6, <1>9, <1>10 DEF Command, Conflicts

(* A line that runs a subcommand is led by its name.                       *)
LEMMA RunsLed ==
  ASSUME NEW line \in Seq(Word), NEW v \in Verbs, Command(line) = v
  PROVE  Leads(v, line)
<1> DEFINE c == Conflicts(line)
<1>1. v # "none" /\ v # "put" /\ c \in BOOLEAN /\ Len(line) \in Nat
  BY DEF Verbs, Conflicts
<1>2. /\ FirstWord(line) # "AfterFlags" /\ Clap(line, c).verb = v
      /\ Clap(line, c).state \notin {"ends", "value"}
  BY <1>1 DEF Command
<1>3. c <=> FirstWord(line) = "File"
  BY DEF Conflicts
<1> HIDE DEF c
<1>4. PICK f : Parses(f, line, c)
  BY <1>1, ClapIs DEF Parses
<1>5. CASE c
  <2>1. c = TRUE
    BY <1>1, <1>5
  <2>2. Clap(line, c).state = "command"
    BY <1>1, <1>2, <1>4, PutUnlessFound
  <2>3. PICK n \in 1..Len(line) :
          IsCommand(f[n - 1], line[n], c) /\ Clap(line, c).verb = line[n]
    BY <1>1, <1>4, <2>2, CommandFound
  <2>4. n = 1
    BY <1>4, <2>1, <2>3, ConflictingFirst
  <2> QED
    BY <1>1, <1>2, <2>3, <2>4, LeadsIs
<1>6. CASE ~c
  <2>1. c = FALSE /\ FirstWord(line) # "File"
    BY <1>1, <1>3, <1>6
  <2>2. Clap(line, c).state = "command"
    BY <1>1, <1>2, <1>4, PutUnlessFound
  <2>3. PICK n \in 1..Len(line) :
          IsCommand(f[n - 1], line[n], c) /\ Clap(line, c).verb = line[n]
    BY <1>1, <1>4, <2>2, CommandFound
  <2>4. n - 1 \in 0..Len(line)
    BY <1>1
  <2>5. Scanned(f[n - 1], line, n - 1)
    BY <1>4, <2>1, <2>4, Scans
  <2>6. f[n - 1].state = "free" /\ line[n] = v
    BY <1>2, <2>3 DEF IsCommand
  <2>7. /\ \A i \in 1..(n - 1) : line[i] \in Dashed \ {"--"} \/ i \in Skipped(line)
        /\ ~(n - 1 > 0 /\ line[n - 1] \in TakesValue /\ n - 1 \notin Skipped(line))
        /\ f[n - 1].force => \E i \in 1..(n - 1) : line[i] = "-f" /\ i \notin Skipped(line)
        /\ ~f[n - 1].force => Leading(f[n - 1], line, n - 1)
    BY <2>5, <2>6 DEF Scanned
  <2>8. n \notin Skipped(line)
    BY <1>1, <2>7, SkippedIs
  <2>9. line[n] \notin Dashed \ {"--"}
    BY <2>6 DEF Verbs, Dashed, TakesValue
  <2>10. ~\E j \in 1..(n - 1) : line[j] \in {"-f", "--other"} /\ j \notin Skipped(line)
    BY <1>2, <2>6, <2>7, <2>8, <2>9, FirstWordIs
  <2>11. Leading(f[n - 1], line, n - 1)
    BY <2>7, <2>10
  <2>12. \/ n = 1
         \/ n = 2 /\ line[1] = "--config="
         \/ n = 3 /\ line[1] = "--config" /\ line[2] \in Word \ Dashed
    BY <1>1, <2>6, <2>11 DEF Leading
  <2> QED
    BY <1>1, <2>6, <2>12, LeadsIs
<1> QED
  BY <1>5, <1>6

(* The command that runs is the one the line says, once anything runs.     *)
Decided == case.line \in Seq(Word) /\ verb \in {"none", Command(case.line)}

(* Nothing but dispatch() sets the command, and from the whole line.       *)
LEMMA DecidedHolds == Spec => []Decided
<1>1. Init => Decided
  <2> SUFFICES ASSUME Init PROVE Decided
    OBVIOUS
  <2>1. PICK s \in Starts : case = s[1] /\ verb = "none"
    BY DEF Init
  <2>2. case \in {r[1] : r \in Starts}
    BY <2>1
  <2> QED
    BY <2>1, <2>2, StartsAssumption DEF Decided
<1>2. Decided /\ [Next]_vars => Decided'
  <2> SUFFICES ASSUME Decided, [Next]_vars PROVE Decided'
    OBVIOUS
  <2>1. CASE Dispatch
    BY <2>1 DEF Dispatch, Refuse, Decided
  <2>2. CASE Undo
    BY <2>2 DEF Undo, Refuse, Decided
  <2>3. CASE SelectPath
    BY <2>3 DEF SelectPath, Takes, Picks, Refuse, Decided
  <2>4. CASE SelectPool
    BY <2>4 DEF SelectPool, Picks, Refuse, Decided
  <2>5. CASE Restore
    BY <2>5 DEF Restore, Decided
  <2>6. CASE Purge
    BY <2>6 DEF Purge, Refuse, Decided
  <2>7. CASE RestoreBatchNext /\ UNCHANGED <<case, verb, args, targets, doomed>>
    BY <2>7 DEF Decided
  <2>8. CASE UNCHANGED vars
    BY <2>8 DEF vars, Decided
  <2> QED
    BY <2>1, <2>2, <2>3, <2>4, <2>5, <2>6, <2>7, <2>8 DEF Next
<1> QED
  BY <1>1, <1>2, PTL DEF Spec

(* A subcommand runs if and only if its name leads the line, after at most *)
(* a --config PATH: for a line of any length (first_word(),                *)
(* args_conflicts_with_subcommands).                                       *)
THEOREM FirstWordDecidesHolds == Spec => []FirstWordDecides
<1>1. Decided => FirstWordDecides
  <2> SUFFICES ASSUME Decided, verb # "none", NEW v \in Verbs
               PROVE  verb = v <=> Leads(v, case.line)
    BY DEF FirstWordDecides
  <2>1. case.line \in Seq(Word) /\ verb = Command(case.line)
    BY DEF Decided
  <2> QED
    BY <2>1, LedRuns, RunsLed
<1> QED
  BY <1>1, DecidedHolds, PTL

(* The invariant holds of every line, tree and trash directory.            *)
LEMMA CommandInvHolds == Spec => []CommandInv
<1>1. Init => CommandInv
  BY CommandStarts
<1>2. CommandInv /\ [Next]_vars => CommandInv'
  BY CommandStep
<1> QED
  BY <1>1, <1>2, PTL DEF Spec

(* For any tree, any contents of any number of trash directories and any   *)
(* command line: restore and undo make up no directory in the place of an  *)
(* item of the batch that does not come back (restore_batch()).            *)
THEOREM NoFabricationHolds == Spec => []NoFabrication
<1>1. CommandInv => NoFabrication
  BY BatchInvImplies DEF CommandInv
<1> QED
  BY <1>1, CommandInvHolds, PTL

(* What a batch makes on the way to one item stands in the way of no other *)
(* (sort_parents_first(), restore_batch()).                                *)
THEOREM NoSelfConflictHolds == Spec => []NoSelfConflict
<1>1. CommandInv => NoSelfConflict
  BY BatchInvImplies DEF CommandInv
<1> QED
  BY <1>1, CommandInvHolds, PTL

(* No directory stays but on the way to what a batch restored or could not *)
(* reach (ensure_parent(), ParentGuard).                                   *)
THEOREM RollsBackHolds == Spec => []RollsBack
<1>1. CommandInv => RollsBack
  BY BatchInvImplies DEF CommandInv
<1> QED
  BY <1>1, CommandInvHolds, PTL

(* undo() takes invocations whole, of one date, in any number of trash     *)
(* directories; of all, the last one, if their dates went on.              *)
THEOREM UndoesLastHolds == Spec => []UndoesLast
<1>1. CommandInv => UndoesLast
  BY DEF CommandInv
<1> QED
  BY <1>1, CommandInvHolds, PTL

(* What the .trashinfo files of a file system say leads nowhere outside of *)
(* it (original(), ensure_parent()).                                       *)
THEOREM StaysBeneathHolds == Spec => []StaysBeneath
<1>1. CommandInv => StaysBeneath
  BY Beneath
<1> QED
  BY <1>1, CommandInvHolds, PTL

(* restore and purge touch what their arguments name, if each names        *)
(* something, however many there are (select(), dedup()).                  *)
THEOREM AsNamedHolds == Spec => []AsNamed
<1>1. CommandInv => AsNamed
  BY ArgumentsName
<1> QED
  BY <1>1, CommandInvHolds, PTL

(* Once an item is back it is not tried again, however often it was named  *)
(* (dedup(), restore_batch()).                                             *)
THEOREM OnceBackHolds == Spec => OnceBack
<1>1. CommandInv /\ [Next]_vars => [Placed("restored") \subseteq Placed("restored")']_vars
  BY CommandStep
<1> QED
  BY <1>1, CommandInvHolds, PTL DEF Spec, OnceBack
=============================================================================
