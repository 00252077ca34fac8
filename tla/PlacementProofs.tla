--------------------------- MODULE PlacementProofs ---------------------------
(***************************************************************************)
(* Whatever others mount, unmount and swap between the steps of a put: a   *)
(* rename takes the argument from the directory the user named into a      *)
(* files/ that was checked (RightPlace), and no trash directory is made    *)
(* where the home trash will do (NoSideTrash).  Every directory the put    *)
(* holds open is on the filesystem of the mount it was reached through     *)
(* (Handle), and the mount of the argument is of another one when its top  *)
(* directory is opened (AtTopdir).                                         *)
(*                                                                         *)
(* And while others leave everything as it is: a writable mount that shows *)
(* both the argument's directory and the home trash is found (RouteFound), *)
(* and what was decided to be a rename is one (NeverCrosses).  The mount   *)
(* table is then true of the tree, before and after what the put itself    *)
(* makes and moves (Still); a directory has one path in its filesystem     *)
(* (WayUnique), so the paths that route() works out lead to it (ShownBy).  *)
(***************************************************************************)
EXTENDS Placement, DataLemmas

(* What can be open: an inode, through a mount of its filesystem.          *)
Handle == {w \in [mnt : Nat, ino : Ino] :
             \A m \in Known(world) : m.id = w.mnt => attr[w.ino].fs = m.fs}
Maybe == Handle \cup {None}
TrashDir == [path : Seq(Names), dir : Handle, files : Handle, info : Handle]

EntOK(e) == \A x \in DOMAIN e : {x[1], e[x]} \subseteq Ino /\ attr[e[x]].fs = attr[x[1]].fs
DiskOK ==
  /\ world \in Worlds /\ EntOK(ent)
  /\ mounts \in Seq(Known(world)) /\ mounts # <<>>

(* The mount table is one that was current, and the home trash is there    *)
(* from the beginning of the session on.                                   *)
Before == {"start", "home", "session"}
SessionOK ==
  /\ table \in Seq(Known(world)) /\ trashes \in Seq(TrashDir)
  /\ pc \notin Before \cup {"end"} => trashes # <<>>
  /\ pc \in Before => made = {}
  /\ \E S : moved \in Seq(S)

(* In a top directory: the mount is that of the argument, of another       *)
(* filesystem than the home trash's; then what was found, and what is made *)
(* there.                                                                  *)
Making == {"inside", "files", "info", "add"}
Found == {"pick", "admin", "user"}
Topdir == {"look"} \cup Found \cup Making
AtTopdir ==
  /\ pc \in Topdir \cup {"top"} => HasId(table, item.mnt) /\ Own.fs # HomeFs
  /\ pc \in Topdir => /\ top \in Handle /\ top.mnt = item.mnt
                      /\ attr[top.ino].dev = attr[item.ino].dev
  /\ pc \in Found => {found.admin, found.uid, found.user} \subseteq Maybe
  /\ pc = "admin" => found.admin # None
  /\ pc \in Making => trash \in [path : Seq(Names), dir : Handle, files : Maybe, info : Maybe]
  /\ pc \in {"info", "add"} => trash.files # None
  /\ pc = "add" => trash.info # None

(* Before the rename both directories are those that were checked.         *)
AtMove == pc = "move" => /\ from.ino = parent.ino
                         /\ \E t \in Range(trashes) : t.files.ino = trash.files.ino

MadeOK == \A x \in made : x.ino \in Ino
PlaceInv == DiskOK /\ SessionOK /\ AtTopdir /\ AtMove /\ MadeOK /\ NoSideTrash

-----------------------------------------------------------------------------
LEMMA WorldIs ==
  ASSUME DiskOK
  PROVE  /\ attr \in [Ino -> Attr] /\ \A i \in Ino : attr[i].fs \in Nat
         /\ \A i, j \in Ino : attr[i].dev = attr[j].dev => attr[i].fs = attr[j].fs
         /\ \A m \in Known(world) : /\ m.id \in Nat /\ m.point \in Seq(Names) /\ {m.at, m.top} \subseteq Ino
                                    /\ attr[m.top].fs = m.fs
                                    /\ \A n \in Known(world) : m.id = n.id => m.fs = n.fs
         /\ \A m \in Range(mounts) : m \in Known(world)
         /\ Head(mounts) \in Known(world)
         /\ world.data \in Seq(Names) /\ None \notin Handle
<1>1. world \in Worlds /\ mounts \in Seq(Known(world)) /\ mounts # <<>>
  BY DEF DiskOK
<1>2. attr \in [Ino -> Attr]
  BY <1>1, WorldsAssumption DEF attr
<1>3. \A i \in Ino : attr[i].fs \in Nat
  BY <1>2 DEF Attr
<1>4. \A i, j \in Ino : attr[i].dev = attr[j].dev => attr[i].fs = attr[j].fs
  BY <1>1, WorldsAssumption DEF attr
<1>5. \A m \in Known(world) : /\ m.id \in Nat /\ m.point \in Seq(Names) /\ {m.at, m.top} \subseteq Ino
                              /\ attr[m.top].fs = m.fs
                              /\ \A n \in Known(world) : m.id = n.id => m.fs = n.fs
  BY <1>1, WorldsAssumption DEF attr
<1>6. (\A m \in Range(mounts) : m \in Known(world)) /\ Head(mounts) \in Known(world)
  <2>1. \A k \in 1..Len(mounts) : mounts[k] \in Known(world)
    BY <1>1, ElementOfSeq
  <2>2. DOMAIN mounts = 1..Len(mounts) /\ 1 \in 1..Len(mounts) /\ Head(mounts) = mounts[1]
    BY <1>1
  <2> QED
    BY <2>1, <2>2 DEF Range
<1>7. world.data \in Seq(Names)
  BY <1>1, WorldsAssumption
<1>8. None \notin Handle
  BY NoneAssumption DEF Handle
<1> QED
  BY <1>2, <1>3, <1>4, <1>5, <1>6, <1>7, <1>8

(* Crossing a mount leads to a directory of the filesystem mounted.        *)
LEMMA CoveredOpen ==
  ASSUME DiskOK, NEW w \in Handle
  PROVE  Covered(w) \in Handle
<1>1. CASE Over(w) = {}
  BY <1>1 DEF Covered
<1>2. CASE Over(w) # {}
  <2> DEFINE m == CHOOSE m \in Over(w) : TRUE
  <2>1. m \in Range(mounts)
    BY <1>2 DEF Over
  <2>2. Covered(w) = [mnt |-> m.id, ino |-> m.top]
    BY <1>2 DEF Covered
  <2> HIDE DEF m
  <2>3. m \in Known(world)
    BY <2>1, WorldIs
  <2>4. m.id \in Nat /\ m.top \in Ino /\ attr[m.top].fs = m.fs
    BY <2>3, WorldIs
  <2>5. \A n \in Known(world) : n.id = m.id => attr[m.top].fs = n.fs
    BY <2>3, <2>4, WorldIs
  <2> QED
    BY <2>2, <2>4, <2>5 DEF Handle
<1> QED
  BY <1>1, <1>2

LEMMA Crossed ==
  ASSUME DiskOK, NEW w \in Handle
  PROVE  Cross(w) \in Handle
BY CoveredOpen DEF Cross

(* So is an entry of a directory.                                          *)
LEMMA EntryOpen ==
  ASSUME DiskOK, NEW w \in Handle, NEW i \in Ino, attr[i].fs = attr[w.ino].fs
  PROVE  [w EXCEPT !.ino = i] \in Handle /\ Cross([w EXCEPT !.ino = i]) \in Handle
<1>1. [w EXCEPT !.ino = i] \in Handle
  BY DEF Handle
<1> QED
  BY <1>1, Crossed

LEMMA Entered ==
  ASSUME DiskOK, NEW w \in Maybe, NEW n
  PROVE  Enter(w, n) \in Maybe
<1>1. CASE w = None \/ Child(w.ino, n) = None
  BY <1>1 DEF Enter, Maybe
<1>2. CASE ~(w = None \/ Child(w.ino, n) = None)
  <2> DEFINE i == Child(w.ino, n)
  <2>1. w \in Handle /\ Enter(w, n) = Cross([w EXCEPT !.ino = i])
    BY <1>2 DEF Enter, Maybe
  <2>2. <<w.ino, n>> \in DOMAIN ent /\ i = ent[<<w.ino, n>>]
    BY <1>2 DEF Child, ChildIn
  <2>3. i \in Ino /\ attr[i].fs = attr[w.ino].fs
    BY <2>2 DEF DiskOK, EntOK
  <2> HIDE DEF i
  <2> QED
    BY <2>1, <2>3, EntryOpen DEF Maybe
<1> QED
  BY <1>1, <1>2

(* A walk from the root of the namespace.                                  *)
LEMMA LookRuns ==
  ASSUME DiskOK, NEW S, NEW p \in Seq(S)
  PROVE  \E f : /\ f \in [0..Len(p) -> Maybe]
                /\ f[0] = Cross([mnt |-> Head(mounts).id, ino |-> Head(mounts).top])
                /\ \A k \in 1..Len(p) : f[k] = Enter(f[k - 1], p[k])
                /\ Lookup(p) = f[Len(p)]
<1> DEFINE n == Len(p)
           a == Cross([mnt |-> Head(mounts).id, ino |-> Head(mounts).top])
           step == [x \in (1..n) \X Maybe |-> Enter(x[2], p[x[1]])]
           F == CHOOSE f : f = [k \in 0..n |-> IF k = 0 THEN a ELSE Enter(f[k - 1], p[k])]
<1>1. n \in Nat
  OBVIOUS
<1>2. a \in Maybe
  <2> DEFINE m == Head(mounts)
  <2>1. m \in Known(world)
    BY WorldIs
  <2>2. m.id \in Nat /\ m.top \in Ino /\ attr[m.top].fs = m.fs
        /\ \A k \in Known(world) : k.id = m.id => k.fs = m.fs
    BY <2>1, WorldIs
  <2>3. [mnt |-> m.id, ino |-> m.top] \in Handle
    BY <2>2 DEF Handle
  <2> QED
    BY <2>3, Crossed DEF Maybe
<1>3. Lookup(p) = F[n]
  BY DEF Lookup
<1>4. step \in [(1..n) \X Maybe -> Maybe]
  <2>1. \A x \in (1..n) \X Maybe : Enter(x[2], p[x[1]]) \in Maybe
    BY Entered
  <2> QED
    BY <2>1
<1>5. \A k \in 1..n, x \in Maybe : step[<<k, x>>] = Enter(x, p[k])
  OBVIOUS
<1> HIDE DEF n, a, step
<1>6. PICK f : Unfolds(f, n, Maybe, a, step)
  BY <1>1, <1>2, <1>4, Recursion
<1>7. f \in [0..n -> Maybe] /\ f[0] = a /\ \A k \in 1..n : f[k] = step[<<k, f[k - 1]>>]
  BY <1>6 DEF Unfolds
<1>8. \A k \in 1..n : k - 1 \in 0..n /\ k \in 0..n /\ k # 0
  BY <1>1
<1>a. \A k \in 1..n : f[k] = Enter(f[k - 1], p[k])
  BY <1>5, <1>7, <1>8
<1>9. f = [k \in 0..n |-> IF k = 0 THEN a ELSE Enter(f[k - 1], p[k])]
  <2>1. \A k \in 0..n : k = 0 \/ k \in 1..n
    BY <1>1
  <2> QED
    BY <1>7, <1>a, <2>1
<1>10. F = [k \in 0..n |-> IF k = 0 THEN a ELSE Enter(F[k - 1], p[k])]
  BY <1>9
<1> HIDE DEF F
<1>11. F[0] = f[0] /\ \A k \in 1..n : F[k] = Enter(F[k - 1], p[k])
  BY <1>1, <1>7, <1>8, <1>10
<1>12. F[n] = f[n]
  <2>1. F[0] = f[0] /\ \A k \in 1..n : F[k - 1] = f[k - 1] => F[k] = f[k]
    BY <1>a, <1>11
  <2> QED
    BY <1>1, <2>1, SameWalk
<1> QED
  BY <1>3, <1>7, <1>a, <1>12 DEF n, a

LEMMA LookIs ==
  ASSUME DiskOK
  PROVE  /\ Lookup(<<>>) = Cross([mnt |-> Head(mounts).id, ino |-> Head(mounts).top])
         /\ \A S : \A p \in Seq(S) : Lookup(p) \in Maybe
         /\ \A S : \A p \in Seq(S), n \in S : Lookup(Append(p, n)) = Enter(Lookup(p), n)
<1>1. Lookup(<<>>) = Cross([mnt |-> Head(mounts).id, ino |-> Head(mounts).top])
  <2>1. <<>> \in Seq({}) /\ Len(<<>>) = 0
    BY EmptySeq
  <2>2. ASSUME NEW p \in Seq({}), Len(p) = 0
        PROVE  Lookup(p) = Cross([mnt |-> Head(mounts).id, ino |-> Head(mounts).top])
    <3>1. PICK f : /\ f[0] = Cross([mnt |-> Head(mounts).id, ino |-> Head(mounts).top])
                   /\ Lookup(p) = f[Len(p)]
      BY LookRuns
    <3> QED
      BY <2>2, <3>1
  <2> QED
    BY <2>1, <2>2
<1>2. ASSUME NEW S, NEW p \in Seq(S) PROVE Lookup(p) \in Maybe
  <2>1. PICK f : f \in [0..Len(p) -> Maybe] /\ Lookup(p) = f[Len(p)]
    BY LookRuns
  <2>2. Len(p) \in 0..Len(p)
    OBVIOUS
  <2> QED
    BY <2>1, <2>2
<1>3. ASSUME NEW S, NEW p \in Seq(S), NEW n \in S PROVE Lookup(Append(p, n)) = Enter(Lookup(p), n)
  <2> DEFINE q == Append(p, n)
             a == Cross([mnt |-> Head(mounts).id, ino |-> Head(mounts).top])
  <2>1. q \in Seq(S) /\ Len(q) = Len(p) + 1 /\ Len(p) \in Nat
        /\ (\A k \in 1..Len(p) : q[k] = p[k]) /\ q[Len(p) + 1] = n
    BY AppendProperties, LenProperties
  <2> HIDE DEF q
  <2>2. PICK f : /\ f[0] = a /\ \A k \in 1..Len(p) : f[k] = Enter(f[k - 1], p[k])
                 /\ Lookup(p) = f[Len(p)]
    BY LookRuns
  <2>3. PICK g : /\ g[0] = a /\ \A k \in 1..Len(q) : g[k] = Enter(g[k - 1], q[k])
                 /\ Lookup(q) = g[Len(q)]
    BY <2>1, LookRuns
  <2> HIDE DEF a
  <2>4. \A k \in 1..Len(p) : g[k] = Enter(g[k - 1], p[k])
    BY <2>1, <2>3
  <2>5. f[Len(p)] = g[Len(p)]
    <3>1. f[0] = g[0] /\ \A k \in 1..Len(p) : f[k - 1] = g[k - 1] => f[k] = g[k]
      BY <2>2, <2>3, <2>4
    <3> QED
      BY <2>1, <3>1, SameWalk
  <2>6. g[Len(p) + 1] = Enter(g[Len(p)], n)
    <3>1. Len(p) + 1 \in 1..Len(q) /\ (Len(p) + 1) - 1 = Len(p)
      BY <2>1
    <3>2. g[Len(p) + 1] = Enter(g[(Len(p) + 1) - 1], q[Len(p) + 1])
      BY <2>3, <3>1
    <3> QED
      BY <2>1, <3>1, <3>2
  <2> QED
    BY <2>1, <2>2, <2>3, <2>5, <2>6 DEF q
<1> QED
  BY <1>1, <1>2, <1>3

(* A path leads to such a directory, or nowhere.                           *)
LEMMA LookedUp ==
  ASSUME DiskOK, NEW p \in Seq(Names)
  PROVE  Lookup(p) \in Maybe
BY LookIs

(* What is usable as a trash directory is one with all its parts.          *)
LEMMA Opened ==
  ASSUME DiskOK, NEW p \in Seq(Names), Usable(Lookup(p))
  PROVE  AsTrash(p, Lookup(p)) \in TrashDir
<1> DEFINE w == Lookup(p)
<1>1. w \in Maybe /\ w # None /\ IsDir(Enter(w, "files")) /\ IsDir(Enter(w, "info"))
  BY LookedUp DEF Usable, IsDir
<1> HIDE DEF w
<1>2. Enter(w, "files") \in Handle /\ Enter(w, "info") \in Handle /\ w \in Handle
  BY <1>1, Entered DEF IsDir, Maybe
<1>3. AsTrash(p, w) = [path |-> p, dir |-> w, files |-> Enter(w, "files"), info |-> Enter(w, "info")]
  BY DEF AsTrash
<1> QED
  BY <1>2, <1>3 DEF TrashDir, w

(* discover() only adds to the home trash.                                 *)
Some(t) == {s \in Seq(TrashDir) : s # <<>> /\ Head(s) = t}
LEMMA Pushed ==
  ASSUME DiskOK, NEW t, NEW ts \in Some(t), NEW p \in Seq(Names)
  PROVE  PushNew(ts, p) \in Some(t)
<1> DEFINE u == AsTrash(p, Lookup(p))
<1>1. CASE PushNew(ts, p) = ts
  BY <1>1
<1>2. CASE Usable(Lookup(p)) /\ PushNew(ts, p) = Append(ts, u)
  <2>1. u \in TrashDir /\ ts \in Seq(TrashDir)
    BY <1>2, Opened DEF Some
  <2> HIDE DEF u
  <2>2. ts # <<>> /\ Head(ts) = t
    BY DEF Some
  <2>3. /\ Append(ts, u) \in Seq(TrashDir) /\ Append(ts, u) # <<>>
        /\ Head(Append(ts, u)) = Head(ts)
    BY <2>1, <2>2
  <2> QED
    BY <1>2, <2>2, <2>3 DEF Some
<1> QED
  BY <1>1, <1>2 DEF PushNew

LEMMA AtTops ==
  ASSUME DiskOK, NEW t, NEW ts \in Some(t), NEW m \in Known(world)
  PROVE  AtTop(ts, m) \in Some(t)
<1> DEFINE us == PushNew(ts, m.point \o <<Admin, Uid>>)
<1>1. m.point \in Seq(Names)
  BY WorldIs
<1>2. m.point \o <<Admin, Uid>> \in Seq(Names) /\ m.point \o <<User>> \in Seq(Names)
  <2>1. Admin \in Names /\ Uid \in Names /\ User \in Names
    BY NamesAssumption
  <2>2. <<Admin, Uid>> \in Seq(Names) /\ <<User>> \in Seq(Names)
    BY <2>1
  <2> QED
    BY <1>1, <2>2, ConcatProperties
<1>3. us \in Some(t)
  BY <1>2, Pushed
<1> HIDE DEF us
<1>4. PushNew(ts, m.point \o <<User>>) \in Some(t) /\ PushNew(us, m.point \o <<User>>) \in Some(t)
  BY <1>2, <1>3, Pushed
<1> QED
  BY <1>4 DEF AtTop, us

LEMMA Discovered ==
  ASSUME DiskOK, table \in Seq(Known(world)), NEW home \in TrashDir
  PROVE  Discover(home) \in Some(home)
<1> DEFINE n == Len(table)
           a == <<home>>
           step == [x \in (1..n) \X Some(home) |-> AtTop(x[2], table[x[1]])]
           F == CHOOSE f : f = [k \in 0..n |-> IF k = 0 THEN a ELSE AtTop(f[k - 1], table[k])]
<1>1. n \in Nat /\ \A k \in 1..n : table[k] \in Known(world)
  BY ElementOfSeq
<1>2. a \in Some(home)
  BY DEF Some
<1>3. Discover(home) = F[n]
  BY DEF Discover
<1>4. step \in [(1..n) \X Some(home) -> Some(home)]
  <2>1. \A x \in (1..n) \X Some(home) : AtTop(x[2], table[x[1]]) \in Some(home)
    BY <1>1, AtTops
  <2> QED
    BY <2>1
<1>5. \A k \in 1..n, x \in Some(home) : step[<<k, x>>] = AtTop(x, table[k])
  OBVIOUS
<1> HIDE DEF n, a, step
<1>6. PICK f : Unfolds(f, n, Some(home), a, step)
  BY <1>1, <1>2, <1>4, Recursion
<1>7. f \in [0..n -> Some(home)] /\ f[0] = a /\ \A k \in 1..n : f[k] = step[<<k, f[k - 1]>>]
  BY <1>6 DEF Unfolds
<1>8. \A k \in 1..n : k - 1 \in 0..n /\ k \in 0..n /\ k # 0
  BY <1>1
<1>9. f = [k \in 0..n |-> IF k = 0 THEN a ELSE AtTop(f[k - 1], table[k])]
  <2>1. \A k \in 0..n : k = 0 \/ k \in 1..n
    BY <1>1
  <2>2. \A k \in 1..n : f[k] = AtTop(f[k - 1], table[k])
    BY <1>5, <1>7, <1>8
  <2> QED
    BY <1>7, <2>1, <2>2
<1>10. F = [k \in 0..n |-> IF k = 0 THEN a ELSE AtTop(F[k - 1], table[k])]
  BY <1>9
<1> HIDE DEF F
<1> DEFINE G == {k \in 0..n : F[k] \in Some(home)}
<1>11. 0 \in G
  BY <1>1, <1>2, <1>10
<1>12. ASSUME NEW k \in 1..n, k - 1 \in G PROVE k \in G
  <2>1. F[k] = AtTop(F[k - 1], table[k]) /\ F[k - 1] \in Some(home) /\ k \in 0..n
    BY <1>8, <1>10, <1>12
  <2> QED
    BY <1>1, <2>1, AtTops
<1> HIDE DEF G
<1>13. \A k \in 0..n : k \in G
  BY <1>1, <1>11, <1>12, UpTo
<1>14. n \in 0..n
  BY <1>1
<1> QED
  BY <1>3, <1>13, <1>14 DEF G

(* mkdirat() makes nothing, or an entry with a new inode of the same       *)
(* filesystem, which is in nobody's hands.                                 *)
LEMMA MadeDir ==
  ASSUME NEW e, EntOK(e), DiskOK, NEW w \in Handle, NEW n
  PROVE  \/ Mkdir(e, w, n) = e
         \/ \E i \in Free(e, w.ino) :
              /\ <<w.ino, n>> \in DOMAIN Mkdir(e, w, n) /\ Mkdir(e, w, n)[<<w.ino, n>>] = i
              /\ attr[i].fs = attr[w.ino].fs /\ EntOK(Mkdir(e, w, n))
<1> DEFINE i == CHOOSE i \in Free(e, w.ino) : TRUE
           d == Entry(e, w.ino, n, i)
<1>1. CASE Mkdir(e, w, n) = e
  BY <1>1
<1>2. CASE Free(e, w.ino) # {} /\ Mkdir(e, w, n) = d
  <2>1. i \in Free(e, w.ino) /\ i \in Ino /\ w.ino \in Ino /\ attr[i].dev = attr[w.ino].dev
    BY <1>2 DEF Free, Handle
  <2> HIDE DEF i
  <2>2. attr[i].fs = attr[w.ino].fs
    BY <2>1, WorldIs
  <2>3. /\ <<w.ino, n>> \in DOMAIN d /\ d[<<w.ino, n>>] = i
        /\ \A x \in DOMAIN d : x # <<w.ino, n>> => x \in DOMAIN e /\ d[x] = e[x]
    BY DEF Entry
  <2> HIDE DEF d
  <2>4. EntOK(d)
    BY <2>1, <2>2, <2>3 DEF EntOK
  <2> QED
    BY <1>2, <2>1, <2>2, <2>3, <2>4
<1> QED
  BY <1>1, <1>2 DEF Mkdir

(* The mount of the argument, as the table has it.                         *)
LEMMA OwnIs ==
  ASSUME DiskOK, SessionOK, HasId(table, item.mnt)
  PROVE  Own \in Known(world) /\ Own.id = item.mnt
<1>1. Own \in Range(table) /\ Own.id = item.mnt
  BY DEF HasId, Own, ById
<1>2. \A m \in Range(table) : m \in Known(world)
  BY DEF SessionOK, Range
<1> QED
  BY <1>1, <1>2

(* What is open on that mount is of its filesystem, not the home trash's.  *)
LEMMA NotHome ==
  ASSUME PlaceInv, pc \in Topdir \cup {"top"}, NEW w \in Handle, w.mnt = item.mnt
  PROVE  attr[w.ino].fs # HomeFs
<1>1. HasId(table, item.mnt) /\ Own.fs # HomeFs
  BY DEF PlaceInv, AtTopdir
<1>2. Own \in Known(world) /\ Own.id = w.mnt
  BY <1>1, OwnIs DEF PlaceInv
<1>3. attr[w.ino].fs = Own.fs
  BY <1>2 DEF Handle
<1> QED
  BY <1>1, <1>3

(* open_or_mkdir(): a directory, or nothing; made is nothing, or one that  *)
(* nobody has.                                                             *)
LEMMA OpenedOrMade ==
  ASSUME DiskOK, NEW was \in Maybe, NEW w \in Handle, NEW n
  PROVE  LET o == OpenOrMkdir(was, w, n) IN
         /\ EntOK(o.ent) /\ o.dir \in Maybe
         /\ \/ o.made = made
            \/ \E i \in Free(ent, w.ino) :
                 /\ o.made = made \cup {[ino |-> i, mnt |-> w.mnt, top |-> top, for |-> item]}
                 /\ attr[i].fs = attr[w.ino].fs
<1> DEFINE e == IF was = None THEN Mkdir(ent, w, n) ELSE ent
           x == <<w.ino, n>>
           i == IF x \in DOMAIN e THEN e[x] ELSE None
           o == OpenOrMkdir(was, w, n)
           new == [ino |-> i, mnt |-> w.mnt, top |-> top, for |-> item]
<1>1. /\ o.ent = e /\ o.made = (IF e = ent THEN made ELSE made \cup {new})
      /\ o.dir = IF was # None THEN was
                 ELSE IF i = None THEN None ELSE Cross([w EXCEPT !.ino = i])
  BY DEF OpenOrMkdir
<1>2. EntOK(ent) /\ x[1] = w.ino
  BY DEF DiskOK
<1>3. \/ e = ent
      \/ /\ EntOK(e) /\ i \in Free(ent, w.ino) /\ attr[i].fs = attr[w.ino].fs
  BY <1>2, MadeDir
<1> HIDE DEF o, e
<1>4. EntOK(e)
  BY <1>2, <1>3
<1>5. i = None \/ (i \in Ino /\ attr[i].fs = attr[w.ino].fs)
  BY <1>2, <1>4 DEF EntOK
<1> HIDE DEF i, x
<1>6. o.dir \in Maybe
  <2>1. i # None => Cross([w EXCEPT !.ino = i]) \in Handle
    BY <1>5, EntryOpen
  <2> QED
    BY <1>1, <2>1 DEF Maybe
<1>7. \/ o.made = made
      \/ /\ i \in Free(ent, w.ino) /\ attr[i].fs = attr[w.ino].fs
         /\ o.made = made \cup {new}
  BY <1>1, <1>3
<1> QED
  BY <1>1, <1>4, <1>6, <1>7 DEF o

-----------------------------------------------------------------------------
(* What is made in a top directory is no side trash.                       *)
LEMMA MadeThere ==
  ASSUME PlaceInv, pc \in Topdir, NEW w \in Handle, NEW i \in Free(ent, w.ino),
         attr[i].fs = attr[w.ino].fs, UNCHANGED <<world, table, trashes>>,
         made' = made \cup {[ino |-> i, mnt |-> w.mnt, top |-> top, for |-> item]}
  PROVE  NoSideTrash' /\ MadeOK'
<1> DEFINE new == [ino |-> i, mnt |-> w.mnt, top |-> top, for |-> item]
           Apart(x) == /\ x.top.mnt = x.for.mnt /\ attr[x.top.ino].dev = attr[x.for.ino].dev
                       /\ attr[x.top.ino].fs # HomeFs
                       /\ attr[x.ino].fs = HomeFs =>
                            /\ x.mnt # x.top.mnt
                            /\ \A t \in Range(trashes) : x.ino \notin {t.dir.ino, t.files.ino, t.info.ino}
<1>1. top \in Handle /\ top.mnt = item.mnt /\ attr[top.ino].dev = attr[item.ino].dev
  BY DEF PlaceInv, AtTopdir
<1>2. attr[top.ino].fs # HomeFs
  BY <1>1, NotHome
<1>3. attr[i].fs = HomeFs => w.mnt # top.mnt
  BY <1>1, NotHome
<1>4. i \in Ino /\ \A t \in Range(trashes) : i \notin {t.dir.ino, t.files.ino, t.info.ino}
  BY DEF Free
<1>5. Apart(new)
  BY <1>1, <1>2, <1>3, <1>4
<1>6. \A x \in made : Apart(x)
  BY DEF PlaceInv, NoSideTrash
<1>7. \A x \in made' : Apart(x) /\ x.ino \in Ino
  BY <1>4, <1>5, <1>6 DEF PlaceInv, MadeOK
<1>8. attr' = attr /\ HomeFs' = HomeFs
  BY DEF attr, HomeFs, Home
<1> QED
  BY <1>7, <1>8 DEF NoSideTrash, MadeOK

(* The types depend on the world alone.                                    *)
LEMMA Fixed ==
  ASSUME world' = world
  PROVE  attr' = attr /\ Known(world)' = Known(world) /\ Handle' = Handle
         /\ Maybe' = Maybe /\ TrashDir' = TrashDir
<1>1. attr' = attr /\ Known(world)' = Known(world)
  BY DEF attr, Known
<1>2. Handle' = Handle
  BY <1>1 DEF Handle
<1> QED
  BY <1>1, <1>2 DEF Maybe, TrashDir

(* A step of the session that makes nothing.                               *)
LEMMA Stays ==
  ASSUME PlaceInv, pc \notin Before \cup {"end"}, pc' \notin Before,
         UNCHANGED <<world, ent, mounts, table, trashes, made, moved>>
  PROVE  DiskOK' /\ SessionOK' /\ MadeOK' /\ NoSideTrash'
<1>1. attr' = attr /\ Known(world)' = Known(world) /\ TrashDir' = TrashDir
  BY Fixed
<1>2. HomeFs' = HomeFs
  BY DEF HomeFs, Home
<1>3. DiskOK'
  BY <1>1 DEF PlaceInv, DiskOK, EntOK
<1>4. SessionOK'
  BY <1>1 DEF PlaceInv, SessionOK
<1>5. MadeOK' /\ NoSideTrash'
  BY <1>1, <1>2 DEF PlaceInv, MadeOK, NoSideTrash
<1> QED
  BY <1>3, <1>4, <1>5

(* A step that opens or makes a directory in a top directory.              *)
LEMMA Makes ==
  ASSUME PlaceInv, pc \in Topdir, pc' \notin Before, NEW was \in Maybe, NEW w \in Handle, NEW n,
         Does(OpenOrMkdir(was, w, n)), UNCHANGED <<world, mounts, table, trashes, moved>>
  PROVE  DiskOK' /\ SessionOK' /\ MadeOK' /\ NoSideTrash' /\ OpenOrMkdir(was, w, n).dir \in Maybe
<1> DEFINE o == OpenOrMkdir(was, w, n)
<1>1. /\ EntOK(o.ent) /\ o.dir \in Maybe
      /\ \/ o.made = made
         \/ \E i \in Free(ent, w.ino) :
              /\ o.made = made \cup {[ino |-> i, mnt |-> w.mnt, top |-> top, for |-> item]}
              /\ attr[i].fs = attr[w.ino].fs
  BY OpenedOrMade DEF PlaceInv
<1>2. ent' = o.ent /\ made' = o.made
  BY DEF Does
<1> HIDE DEF o
<1>3. attr' = attr /\ Known(world)' = Known(world) /\ TrashDir' = TrashDir
  BY Fixed
<1>4. HomeFs' = HomeFs
  BY DEF HomeFs, Home
<1>5. DiskOK'
  BY <1>1, <1>2, <1>3 DEF PlaceInv, DiskOK, EntOK
<1>6. SessionOK'
  BY <1>3 DEF PlaceInv, SessionOK, Topdir, Found, Making, Before
<1>7. MadeOK' /\ NoSideTrash'
  <2>1. CASE made' = made
    BY <1>3, <1>4, <2>1 DEF PlaceInv, MadeOK, NoSideTrash
  <2>2. CASE made' # made
    <3>1. PICK i \in Free(ent, w.ino) :
            /\ made' = made \cup {[ino |-> i, mnt |-> w.mnt, top |-> top, for |-> item]}
            /\ attr[i].fs = attr[w.ino].fs
      BY <1>1, <1>2, <2>2
    <3> QED
      BY <3>1, MadeThere
  <2> QED
    BY <2>1, <2>2
<1> QED
  BY <1>1, <1>5, <1>6, <1>7 DEF o

-----------------------------------------------------------------------------
(* At the start nothing is open, made or moved.                            *)
LEMMA Initially == Init => PlaceInv
<1> SUFFICES ASSUME Init PROVE PlaceInv
  OBVIOUS
<1>1. world \in Worlds /\ ent = world.ent /\ mounts = world.mounts
  BY DEF Init
<1>2. DiskOK
  <2>1. EntOK(ent)
    BY <1>1, WorldsAssumption DEF EntOK, attr
  <2>2. mounts \in Seq(Range(mounts)) /\ mounts # <<>> /\ Range(mounts) \subseteq Known(world)
    BY <1>1, WorldsAssumption DEF Known
  <2>3. mounts \in Seq(Known(world))
    BY <2>2
  <2> QED
    BY <1>1, <2>1, <2>2, <2>3 DEF DiskOK
<1>3. SessionOK
  <2>1. <<>> \in Seq({}) /\ <<>> \in Seq(Known(world)) /\ <<>> \in Seq(TrashDir)
    OBVIOUS
  <2> QED
    BY <2>1 DEF Init, SessionOK, Before
<1>4. AtTopdir /\ AtMove /\ MadeOK /\ NoSideTrash
  BY DEF Init, AtTopdir, AtMove, MadeOK, NoSideTrash, Topdir, Found, Making
<1> QED
  BY <1>2, <1>3, <1>4 DEF PlaceInv

(* The session begins.                                                     *)
LEMMA StartKeeps == PlaceInv /\ Start => PlaceInv'
<1> SUFFICES ASSUME PlaceInv, Start PROVE PlaceInv'
  OBVIOUS
<1>1. UNCHANGED <<world, ent, mounts, trashes, made, moved>> /\ table' = mounts
      /\ pc' = "home" /\ pc = "start"
  BY DEF Start, environment, place, history, Goto
<1>2. attr' = attr /\ Known(world)' = Known(world) /\ TrashDir' = TrashDir
  BY <1>1, Fixed
<1>3. DiskOK' /\ SessionOK'
  BY <1>1, <1>2 DEF PlaceInv, DiskOK, EntOK, SessionOK, Before
<1>4. made' = {}
  BY <1>1 DEF PlaceInv, SessionOK, Before
<1>5. AtTopdir' /\ AtMove' /\ MadeOK' /\ NoSideTrash'
  BY <1>1, <1>4 DEF AtTopdir, AtMove, MadeOK, NoSideTrash, Topdir, Found, Making
<1> QED
  BY <1>3, <1>5 DEF PlaceInv

LEMMA MakeHomeKeeps == PlaceInv /\ MakeHome => PlaceInv'
<1> SUFFICES ASSUME PlaceInv, MakeHome PROVE PlaceInv'
  OBVIOUS
<1> DEFINE h == Lookup(world.data)
           e == Mkdir(ent, h, "Trash")
           t == Cross([h EXCEPT !.ino = e[<<h.ino, "Trash">>]])
<1>1. /\ UNCHANGED <<world, mounts, table, trashes, made, moved>> /\ pc = "home"
      /\ \/ /\ h # None /\ <<h.ino, "Trash">> \in DOMAIN e
            /\ ent' = Mkdir(Mkdir(e, t, "files"), t, "info") /\ pc' = "session"
         \/ pc' = "end" /\ ent' = ent
  BY DEF MakeHome, environment, session, history, Goto
<1>2. DiskOK /\ EntOK(ent) /\ made = {}
  BY <1>1 DEF PlaceInv, DiskOK, SessionOK, Before
<1>3. h \in Maybe
  <2>1. world.data \in Seq(Names)
    BY <1>2, WorldIs
  <2> QED
    BY <1>2, <2>1, LookedUp
<1> HIDE DEF h
<1>4. EntOK(ent')
  <2>1. CASE ent' = ent
    BY <1>2, <2>1
  <2>2. CASE /\ h # None /\ <<h.ino, "Trash">> \in DOMAIN e
             /\ ent' = Mkdir(Mkdir(e, t, "files"), t, "info")
    <3>1. h \in Handle
      BY <1>3, <2>2 DEF Maybe
    <3>2. EntOK(e)
      BY <1>2, <3>1, MadeDir
    <3> DEFINE i == e[<<h.ino, "Trash">>]
    <3>3. i \in Ino /\ attr[i].fs = attr[h.ino].fs
      BY <2>2, <3>2 DEF EntOK
    <3> HIDE DEF e
    <3>4. t \in Handle
      <4> HIDE DEF i
      <4>1. Cross([h EXCEPT !.ino = i]) \in Handle
        BY <1>2, <3>1, <3>3, EntryOpen
      <4> QED
        BY <4>1 DEF i
    <3> HIDE DEF t
    <3>5. EntOK(Mkdir(e, t, "files"))
      BY <1>2, <3>2, <3>4, MadeDir
    <3>6. EntOK(Mkdir(Mkdir(e, t, "files"), t, "info"))
      BY <1>2, <3>4, <3>5, MadeDir
    <3> QED
      BY <2>2, <3>6
  <2> QED
    BY <1>1, <2>1, <2>2
<1>5. attr' = attr /\ Known(world)' = Known(world) /\ TrashDir' = TrashDir
  BY <1>1, Fixed
<1>6. EntOK(ent)'
  BY <1>4, <1>5 DEF EntOK
<1>7. DiskOK' /\ SessionOK'
  BY <1>1, <1>5, <1>6 DEF PlaceInv, DiskOK, SessionOK, Before
<1>8. AtTopdir' /\ AtMove' /\ MadeOK' /\ NoSideTrash'
  BY <1>1, <1>2 DEF AtTopdir, AtMove, MadeOK, NoSideTrash, Topdir, Found, Making
<1> QED
  BY <1>7, <1>8 DEF PlaceInv

LEMMA OpenSessionKeeps == PlaceInv /\ OpenSession => PlaceInv'
<1> SUFFICES ASSUME PlaceInv, OpenSession PROVE PlaceInv'
  OBVIOUS
<1> DEFINE p == Append(world.data, "Trash")
           h == Lookup(p)
<1>1. /\ UNCHANGED <<world, ent, mounts, table, made, moved>> /\ pc = "session"
      /\ \/ Usable(h) /\ trashes' = Discover(AsTrash(p, h)) /\ pc' = "operand"
         \/ pc' = "end" /\ trashes' = trashes
  BY DEF OpenSession, environment, history, Goto
<1>2. DiskOK /\ made = {} /\ trashes \in Seq(TrashDir) /\ table \in Seq(Known(world))
  BY <1>1 DEF PlaceInv, SessionOK, Before
<1>3. p \in Seq(Names)
  <2>1. world.data \in Seq(Names) /\ "Trash" \in Names
    BY <1>2, WorldIs, NamesAssumption
  <2> QED
    BY <2>1
<1> HIDE DEF p
<1>4. Usable(h) => AsTrash(p, h) \in TrashDir
  BY <1>2, <1>3, Opened
<1>5. AsTrash(p, h) \in TrashDir => Discover(AsTrash(p, h)) \in Some(AsTrash(p, h))
  BY <1>2, Discovered
<1>6. trashes' \in Seq(TrashDir) /\ (pc' # "end" => trashes' # <<>>)
  BY <1>1, <1>2, <1>4, <1>5 DEF Some
<1>7. attr' = attr /\ Known(world)' = Known(world) /\ TrashDir' = TrashDir
  BY <1>1, Fixed
<1>8. pc' \in {"operand", "end"}
  BY <1>1
<1>9. DiskOK'
  BY <1>1, <1>7 DEF PlaceInv, DiskOK, EntOK
<1>10. SessionOK'
  BY <1>1, <1>6, <1>7, <1>8 DEF PlaceInv, SessionOK, Before
<1>11. AtTopdir' /\ AtMove' /\ MadeOK' /\ NoSideTrash'
  BY <1>1, <1>2, <1>8 DEF AtTopdir, AtMove, MadeOK, NoSideTrash, Topdir, Found, Making
<1> QED
  BY <1>9, <1>10, <1>11 DEF PlaceInv

(* On to another operand, or to the copy: nothing is held any more.        *)
LEMMA NotHeld ==
  ASSUME pc' \in {"operand", "stat", "route", "copy", "end"}
  PROVE  AtTopdir' /\ AtMove'
BY DEF AtTopdir, AtMove, Topdir, Found, Making

LEMMA OperandKeeps ==
  PlaceInv /\ (OpenParent \/ NoRoute \/ Copy) => PlaceInv'
<1> SUFFICES ASSUME PlaceInv, OpenParent \/ NoRoute \/ Copy PROVE PlaceInv'
  OBVIOUS
<1>1. /\ UNCHANGED <<world, ent, mounts, table, trashes, made, moved>>
      /\ pc \in {"operand", "route", "copy"} /\ pc' \in {"operand", "stat", "route", "copy", "end"}
  BY DEF OpenParent, NoRoute, Copy, NextOperand, environment, session, history, Goto
<1>2. DiskOK' /\ SessionOK' /\ MadeOK' /\ NoSideTrash'
  BY <1>1, Stays DEF Before
<1>3. AtTopdir' /\ AtMove'
  BY <1>1, NotHeld
<1> QED
  BY <1>2, <1>3 DEF PlaceInv

LEMMA CheckKeeps == PlaceInv /\ Check => PlaceInv'
<1> SUFFICES ASSUME PlaceInv, Check PROVE PlaceInv'
  OBVIOUS
<1> DEFINE st == Enter(parent, Last(Path))
           own == ById(table, st.mnt)
<1>1. UNCHANGED <<world, ent, mounts, table, trashes, made, moved>> /\ pc = "stat"
  BY DEF Check, environment, session, history
<1>2. \/ HasId(table, st.mnt) /\ item' = st /\ pc' = Choose(st, own)
      \/ pc' = "operand"
  BY DEF Check, NextOperand, Goto
<1> HIDE DEF st
<1>3. pc' \in {"operand", "route", "copy", "top"} /\ (pc' = "top" => own.fs # HomeFs /\ HasId(table, st.mnt) /\ item' = st)
  BY <1>2 DEF Choose
<1>4. DiskOK' /\ SessionOK' /\ MadeOK' /\ NoSideTrash'
  BY <1>1, <1>3, Stays DEF Before
<1>5. AtTopdir' /\ AtMove'
  <2>1. CASE pc' # "top"
    BY <1>3, <2>1, NotHeld
  <2>2. CASE pc' = "top"
    <3>1. HomeFs' = HomeFs
      BY <1>1 DEF HomeFs, Home
    <3>2. Own' = own
      BY <1>1, <1>3, <2>2 DEF Own
    <3>3. HasId(table', item'.mnt)
      BY <1>1, <1>3, <2>2
    <3>4. (HasId(table, item.mnt) /\ Own.fs # HomeFs)'
      BY <1>3, <2>2, <3>1, <3>2, <3>3 DEF HasId
    <3>5. pc' \notin Topdir /\ pc' \notin Found /\ pc' \notin Making /\ pc' \notin {"info", "add", "admin", "move"}
      BY <2>2 DEF Topdir, Found, Making
    <3> QED
      BY <3>4, <3>5 DEF AtTopdir, AtMove
  <2> QED
    BY <2>1, <2>2
<1> QED
  BY <1>4, <1>5 DEF PlaceInv

(* route(): both directories are those that were checked.                  *)
LEMMA RouteKeeps == PlaceInv /\ Route => PlaceInv'
<1> SUFFICES ASSUME PlaceInv, Route PROVE PlaceInv'
  OBVIOUS
<1> DEFINE c == Head(cands)
           a == Lookup(c.a)
           b == Lookup(c.b)
<1>1. UNCHANGED <<world, ent, mounts, table, trashes, made, moved, parent>> /\ pc = "route"
  BY DEF Route, environment, session, operand, history
<1>2. \/ /\ Verified(a, c.mnt.id, parent) /\ Verified(b, c.mnt.id, Home.files)
         /\ from' = a /\ trash' = [Home EXCEPT !.files = b] /\ pc' = "move"
      \/ pc' = "route"
  BY <1>1 DEF Route, Goto
<1> HIDE DEF a, b
<1>3. DiskOK' /\ SessionOK' /\ MadeOK' /\ NoSideTrash'
  BY <1>1, <1>2, Stays DEF Before
<1>4. AtTopdir' /\ AtMove'
  <2>1. CASE pc' = "route"
    BY <2>1, NotHeld
  <2>2. CASE pc' = "move"
    <3>1. trashes \in Seq(TrashDir) /\ trashes # <<>>
      BY <1>1 DEF PlaceInv, SessionOK, Before
    <3>2. Home \in TrashDir /\ Home \in Range(trashes)
      <4>1. 1 \in DOMAIN trashes /\ Home = trashes[1] /\ trashes[1] \in TrashDir
        BY <3>1 DEF Home
      <4> QED
        BY <4>1 DEF Range
    <3>3. trash'.files.ino = Home.files.ino /\ from'.ino = parent.ino
      BY <1>2, <2>2, <3>2 DEF Verified, TrashDir
    <3>4. pc' \notin Topdir /\ pc' \notin Found /\ pc' \notin Making /\ pc' \notin {"info", "add", "admin", "top"}
      BY <2>2 DEF Topdir, Found, Making
    <3>5. \E t \in Range(trashes') : t.files.ino = trash'.files.ino
      BY <1>1, <3>2, <3>3
    <3>6. from'.ino = parent'.ino
      BY <1>1, <3>3
    <3> QED
      BY <2>2, <3>4, <3>5, <3>6 DEF AtTopdir, AtMove
  <2> QED
    BY <1>2, <2>1, <2>2
<1> QED
  BY <1>3, <1>4 DEF PlaceInv

-----------------------------------------------------------------------------
(* Between the steps in a top directory its mount and the argument's stay. *)
LEMMA SameTop ==
  ASSUME PlaceInv, pc \in Topdir, pc' \in Topdir, UNCHANGED <<world, table, trashes, item, top>>
  PROVE  /\ (HasId(table, item.mnt) /\ Own.fs # HomeFs)'
         /\ (top \in Handle /\ top.mnt = item.mnt /\ attr[top.ino].dev = attr[item.ino].dev)'
<1>1. attr' = attr /\ Handle' = Handle /\ HomeFs' = HomeFs /\ Own' = Own
  BY Fixed DEF HomeFs, Home, Own
<1>2. /\ HasId(table, item.mnt) /\ Own.fs # HomeFs
      /\ top \in Handle /\ top.mnt = item.mnt /\ attr[top.ino].dev = attr[item.ino].dev
  BY DEF PlaceInv, AtTopdir
<1> QED
  BY <1>1, <1>2 DEF HasId

(* The top directory is that of the argument's mount.                      *)
LEMMA OpenTopKeeps == PlaceInv /\ OpenTop => PlaceInv'
<1> SUFFICES ASSUME PlaceInv, OpenTop PROVE PlaceInv'
  OBVIOUS
<1> DEFINE w == Lookup(Own.point)
<1>1. /\ UNCHANGED <<world, ent, mounts, table, trashes, made, moved, item>> /\ pc = "top"
      /\ \/ pc' = "copy"
         \/ /\ w # None /\ w.mnt = Own.id /\ attr[w.ino].dev = attr[item.ino].dev
            /\ top' = w /\ pc' = "look"
  BY DEF OpenTop, Unusable, environment, session, operand, history, Goto
<1>2. HasId(table, item.mnt) /\ Own.fs # HomeFs
  BY <1>1 DEF PlaceInv, AtTopdir
<1>3. Own \in Known(world) /\ Own.id = item.mnt
  BY <1>2, OwnIs DEF PlaceInv
<1>4. w \in Maybe
  <2>1. Own.point \in Seq(Names)
    BY <1>3, WorldIs DEF PlaceInv
  <2> QED
    BY <2>1, LookedUp DEF PlaceInv
<1> HIDE DEF w
<1>5. DiskOK' /\ SessionOK' /\ MadeOK' /\ NoSideTrash'
  BY <1>1, Stays DEF Before
<1>6. AtTopdir' /\ AtMove'
  <2>1. CASE pc' = "copy"
    BY <2>1, NotHeld
  <2>2. CASE pc' = "look"
    <3>1. /\ attr' = attr /\ Handle' = Handle /\ HomeFs' = HomeFs /\ Own' = Own
          /\ HasId(table', item'.mnt)
      BY <1>1, <1>2, Fixed DEF HomeFs, Home, Own
    <3>2. w \in Handle /\ w.mnt = item.mnt /\ attr[w.ino].dev = attr[item.ino].dev /\ top' = w
      BY <1>1, <1>3, <1>4, <2>2 DEF Maybe
    <3>3. (HasId(table, item.mnt) /\ Own.fs # HomeFs)'
      BY <1>2, <3>1 DEF HasId
    <3>4. (top \in Handle /\ top.mnt = item.mnt /\ attr[top.ino].dev = attr[item.ino].dev)'
      BY <1>1, <3>1, <3>2
    <3>5. pc' \notin Found /\ pc' \notin Making /\ pc' \notin {"info", "add", "admin", "move"}
      BY <2>2 DEF Found, Making
    <3> QED
      BY <3>3, <3>4, <3>5 DEF AtTopdir, AtMove
  <2> QED
    BY <1>1, <2>1, <2>2
<1> QED
  BY <1>5, <1>6 DEF PlaceInv

(* What is found in it is open through a mount of its filesystem.          *)
LEMMA LookKeeps == PlaceInv /\ (Look \/ Pick) => PlaceInv'
<1> SUFFICES ASSUME PlaceInv, Look \/ Pick PROVE PlaceInv'
  OBVIOUS
<1>1. /\ UNCHANGED <<world, ent, mounts, table, trashes, made, moved, item, top>>
      /\ pc \in {"look", "pick"} /\ pc' \in Found \cup {"copy"}
  BY DEF Look, Pick, environment, session, operand, place, history, Goto, Found
<1>2. DiskOK' /\ SessionOK' /\ MadeOK' /\ NoSideTrash'
  BY <1>1, Stays DEF Before, Found
<1>3. {found'.admin, found'.uid, found'.user} \subseteq Maybe /\ (pc' = "admin" => found'.admin # None)
  <2>1. CASE Look
    <3>1. top \in Maybe /\ DiskOK /\ None \in Maybe
      BY <2>1 DEF Look, PlaceInv, AtTopdir, Topdir, Maybe
    <3>2. Enter(top, Admin) \in Maybe /\ Enter(top, User) \in Maybe
      BY <3>1, Entered
    <3>3. Enter(Enter(top, Admin), Uid) \in Maybe
      BY <3>1, <3>2, Entered
    <3>4. pc' = "pick" /\ found' = [admin |-> found'.admin, uid |-> found'.uid, user |-> Enter(top, User)]
          /\ found'.admin \in {Enter(top, Admin), None} /\ found'.uid \in {Enter(Enter(top, Admin), Uid), None}
      BY <2>1 DEF Look, Goto
    <3> QED
      BY <3>1, <3>2, <3>3, <3>4
  <2>2. CASE Pick
    BY <2>2 DEF Pick, place, Goto, PlaceInv, AtTopdir, Found
  <2> QED
    BY <2>1, <2>2
<1>4. Maybe' = Maybe
  BY <1>1, Fixed
<1>5. AtTopdir' /\ AtMove'
  <2>1. CASE pc' = "copy"
    BY <2>1, NotHeld
  <2>2. CASE pc' # "copy"
    <3>1. pc \in Topdir /\ pc' \in Topdir /\ pc' \notin Making /\ pc' \notin {"info", "add", "move"}
      BY <1>1, <2>2 DEF Topdir, Found, Making
    <3>2. /\ (HasId(table, item.mnt) /\ Own.fs # HomeFs)'
          /\ (top \in Handle /\ top.mnt = item.mnt /\ attr[top.ino].dev = attr[item.ino].dev)'
      BY <1>1, <3>1, SameTop
    <3> QED
      BY <1>3, <1>4, <3>1, <3>2 DEF AtTopdir, AtMove
  <2> QED
    BY <2>1, <2>2
<1> QED
  BY <1>2, <1>5 DEF PlaceInv

(* The trash directory, made or found.                                     *)
LEMMA MakeTrashKeeps == PlaceInv /\ (MakeAdmin \/ MakeUser) => PlaceInv'
<1> SUFFICES ASSUME PlaceInv, MakeAdmin \/ MakeUser PROVE PlaceInv'
  OBVIOUS
<1>1. /\ UNCHANGED <<world, mounts, table, trashes, moved, item, top, found>>
      /\ pc \in {"admin", "user"} /\ pc' \in {"inside", "user", "copy"}
      /\ (pc' = "user" => pc = "admin")
  BY DEF MakeAdmin, MakeUser, environment, session, operand, Goto, Good
<1>2. \E was \in Maybe, w \in Handle, n \in Names :
        /\ Does(OpenOrMkdir(was, w, n))
        /\ pc' = "inside" => /\ IsDir(OpenOrMkdir(was, w, n).dir)
                             /\ \/ As(Own.point \o <<Admin, Uid>>, OpenOrMkdir(was, w, n).dir)
                                \/ As(Own.point \o <<User>>, OpenOrMkdir(was, w, n).dir)
  <2>1. {found.admin, found.uid, found.user} \subseteq Maybe /\ top \in Handle
        /\ (pc = "admin" => found.admin \in Handle) /\ Uid \in Names /\ User \in Names
    BY <1>1, NamesAssumption DEF PlaceInv, AtTopdir, Found, Topdir, Maybe
  <2>2. CASE MakeAdmin
    <3>1. /\ pc = "admin" /\ Does(OpenOrMkdir(found.uid, found.admin, Uid))
          /\ pc' = "inside" => /\ IsDir(OpenOrMkdir(found.uid, found.admin, Uid).dir)
                               /\ As(Own.point \o <<Admin, Uid>>, OpenOrMkdir(found.uid, found.admin, Uid).dir)
      BY <2>2 DEF MakeAdmin, Goto
    <3> QED
      BY <2>1, <3>1
  <2>3. CASE MakeUser
    <3>1. /\ Does(OpenOrMkdir(found.user, top, User))
          /\ pc' = "inside" => /\ IsDir(OpenOrMkdir(found.user, top, User).dir)
                               /\ As(Own.point \o <<User>>, OpenOrMkdir(found.user, top, User).dir)
      BY <2>3 DEF MakeUser, Goto
    <3> QED
      BY <2>1, <3>1
  <2> QED
    BY <2>2, <2>3
<1>3. PICK was \in Maybe, w \in Handle, n \in Names :
        /\ Does(OpenOrMkdir(was, w, n))
        /\ pc' = "inside" => /\ IsDir(OpenOrMkdir(was, w, n).dir)
                             /\ \/ As(Own.point \o <<Admin, Uid>>, OpenOrMkdir(was, w, n).dir)
                                \/ As(Own.point \o <<User>>, OpenOrMkdir(was, w, n).dir)
  BY <1>2
<1> DEFINE d == OpenOrMkdir(was, w, n).dir
<1>4. DiskOK' /\ SessionOK' /\ MadeOK' /\ NoSideTrash' /\ d \in Maybe
  <2>1. pc \in Topdir /\ pc' \notin Before
    BY <1>1 DEF Topdir, Found, Before
  <2> QED
    BY <1>1, <1>3, <2>1, Makes
<1> HIDE DEF d
<1>5. pc' = "inside" =>
        trash' \in [path : Seq(Names), dir : Handle, files : Maybe, info : Maybe]
  <2> SUFFICES ASSUME pc' = "inside"
               PROVE  trash' \in [path : Seq(Names), dir : Handle, files : Maybe, info : Maybe]
    OBVIOUS
  <2>1. Own.point \in Seq(Names)
    <3>1. Own \in Known(world)
      BY <1>1, OwnIs DEF PlaceInv, AtTopdir, Topdir, Found
    <3> QED
      BY <3>1, WorldIs DEF PlaceInv
  <2>2. Own.point \o <<Admin, Uid>> \in Seq(Names) /\ Own.point \o <<User>> \in Seq(Names)
    <3>1. Admin \in Names /\ Uid \in Names /\ User \in Names
      BY NamesAssumption
    <3>2. <<Admin, Uid>> \in Seq(Names) /\ <<User>> \in Seq(Names) /\ Own.point \in Seq(Names)
      BY <2>1, <3>1
    <3> QED
      BY <3>2, ConcatProperties
  <2>3. d \in Handle /\ None \in Maybe
    BY <1>3, <1>4 DEF IsDir, Maybe, d
  <2>4. PICK q \in Seq(Names) : trash' = [path |-> q, dir |-> d, files |-> None, info |-> None]
    BY <1>3, <2>2 DEF As, d
  <2> QED
    BY <2>3, <2>4
<1>6. AtTopdir' /\ AtMove'
  <2>1. CASE pc' = "copy"
    BY <2>1, NotHeld
  <2>2. CASE pc' # "copy"
    <3>1. pc \in Topdir /\ pc' \in Topdir /\ pc' \notin {"info", "add", "move", "admin"}
          /\ (pc' \in Making => pc' = "inside") /\ (pc' \in Found => pc = "admin")
      BY <1>1, <2>2 DEF Topdir, Found, Making
    <3>2. /\ (HasId(table, item.mnt) /\ Own.fs # HomeFs)'
          /\ (top \in Handle /\ top.mnt = item.mnt /\ attr[top.ino].dev = attr[item.ino].dev)'
      BY <1>1, <3>1, SameTop
    <3>3. Handle' = Handle /\ Maybe' = Maybe
      BY <1>1, Fixed
    <3>4. pc' \in Found => {found'.admin, found'.uid, found'.user} \subseteq Maybe
      BY <1>1, <3>1 DEF PlaceInv, AtTopdir, Found
    <3> QED
      BY <1>5, <3>1, <3>2, <3>3, <3>4 DEF AtTopdir, AtMove
  <2> QED
    BY <2>1, <2>2
<1> QED
  BY <1>4, <1>6 DEF PlaceInv

(* What it is made of.                                                     *)
LEMMA InsideKeeps == PlaceInv /\ Inside => PlaceInv'
<1> SUFFICES ASSUME PlaceInv, Inside PROVE PlaceInv'
  OBVIOUS
<1>1. /\ UNCHANGED <<world, ent, mounts, table, trashes, made, moved>> /\ pc = "inside"
      /\ \/ pc' = "operand"
         \/ pc' = "files" /\ UNCHANGED <<item, top, trash>>
  BY DEF Inside, NextOperand, environment, session, operand, place, history, Goto
<1>2. DiskOK' /\ SessionOK' /\ MadeOK' /\ NoSideTrash'
  BY <1>1, Stays DEF Before
<1>3. AtTopdir' /\ AtMove'
  <2>1. CASE pc' = "operand"
    BY <2>1, NotHeld
  <2>2. CASE pc' = "files"
    <3>1. pc \in Topdir /\ pc' \in Topdir /\ pc \in Making /\ pc' \notin Found
          /\ pc' \notin {"info", "add", "move", "admin"}
      BY <1>1, <2>2 DEF Topdir, Found, Making
    <3>2. /\ (HasId(table, item.mnt) /\ Own.fs # HomeFs)'
          /\ (top \in Handle /\ top.mnt = item.mnt /\ attr[top.ino].dev = attr[item.ino].dev)'
      BY <1>1, <2>2, <3>1, SameTop
    <3>3. Handle' = Handle /\ Maybe' = Maybe
      BY <1>1, Fixed
    <3>4. trash' \in [path : Seq(Names), dir : Handle, files : Maybe, info : Maybe]
      BY <1>1, <2>2, <3>1 DEF PlaceInv, AtTopdir
    <3> QED
      BY <3>1, <3>2, <3>3, <3>4 DEF AtTopdir, AtMove
  <2> QED
    BY <1>1, <2>1, <2>2
<1> QED
  BY <1>2, <1>3 DEF PlaceInv

LEMMA MakePartsKeeps == PlaceInv /\ (MakeFiles \/ MakeInfo) => PlaceInv'
<1> SUFFICES ASSUME PlaceInv, MakeFiles \/ MakeInfo PROVE PlaceInv'
  OBVIOUS
<1>1. /\ UNCHANGED <<world, mounts, table, trashes, moved, item, top>>
      /\ pc \in {"files", "info"} /\ pc' \in {"info", "add", "copy"}
      /\ (pc' = "add" => pc = "info") /\ (pc' = "info" => pc = "files")
  BY DEF MakeFiles, MakeInfo, environment, session, operand, Goto
<1>2. \E n \in {"files", "info"} :
        /\ Does(OpenOrMkdir(None, trash.dir, n))
        /\ pc' = "info" => /\ IsDir(OpenOrMkdir(None, trash.dir, n).dir)
                           /\ trash' = [trash EXCEPT !.files = OpenOrMkdir(None, trash.dir, n).dir]
        /\ pc' = "add" => /\ IsDir(OpenOrMkdir(None, trash.dir, n).dir)
                          /\ trash' = [trash EXCEPT !.info = OpenOrMkdir(None, trash.dir, n).dir]
  <2>1. CASE MakeFiles
    <3>1. Does(OpenOrMkdir(None, trash.dir, "files"))
          /\ (pc' = "info" => /\ IsDir(OpenOrMkdir(None, trash.dir, "files").dir)
                              /\ trash' = [trash EXCEPT !.files = OpenOrMkdir(None, trash.dir, "files").dir])
          /\ pc' # "add"
      BY <2>1 DEF MakeFiles, Goto
    <3> QED
      BY <3>1
  <2>2. CASE MakeInfo
    <3>1. Does(OpenOrMkdir(None, trash.dir, "info"))
          /\ (pc' = "add" => /\ IsDir(OpenOrMkdir(None, trash.dir, "info").dir)
                             /\ trash' = [trash EXCEPT !.info = OpenOrMkdir(None, trash.dir, "info").dir])
          /\ pc' # "info"
      BY <2>2 DEF MakeInfo, Goto
    <3> QED
      BY <3>1
  <2> QED
    BY <2>1, <2>2
<1>3. PICK n \in {"files", "info"} :
        /\ Does(OpenOrMkdir(None, trash.dir, n))
        /\ pc' = "info" => /\ IsDir(OpenOrMkdir(None, trash.dir, n).dir)
                           /\ trash' = [trash EXCEPT !.files = OpenOrMkdir(None, trash.dir, n).dir]
        /\ pc' = "add" => /\ IsDir(OpenOrMkdir(None, trash.dir, n).dir)
                          /\ trash' = [trash EXCEPT !.info = OpenOrMkdir(None, trash.dir, n).dir]
  BY <1>2
<1> DEFINE d == OpenOrMkdir(None, trash.dir, n).dir
<1>4. trash \in [path : Seq(Names), dir : Handle, files : Maybe, info : Maybe]
      /\ (pc = "info" => trash.files # None)
  BY <1>1 DEF PlaceInv, AtTopdir, Making
<1>5. DiskOK' /\ SessionOK' /\ MadeOK' /\ NoSideTrash' /\ d \in Maybe
  <2>1. pc \in Topdir /\ pc' \notin Before /\ None \in Maybe /\ trash.dir \in Handle
    BY <1>1, <1>4 DEF Topdir, Making, Before, Maybe
  <2> QED
    BY <1>1, <1>3, <2>1, Makes
<1>6. AtTopdir' /\ AtMove'
  <2>1. CASE pc' = "copy"
    BY <2>1, NotHeld
  <2>2. CASE pc' # "copy"
    <3>1. pc \in Topdir /\ pc' \in Topdir /\ pc' \in {"info", "add"} /\ pc' \notin Found
          /\ pc' \notin {"move", "admin"}
      BY <1>1, <2>2 DEF Topdir, Found, Making
    <3>2. /\ (HasId(table, item.mnt) /\ Own.fs # HomeFs)'
          /\ (top \in Handle /\ top.mnt = item.mnt /\ attr[top.ino].dev = attr[item.ino].dev)'
      BY <1>1, <3>1, SameTop
    <3>3. Handle' = Handle /\ Maybe' = Maybe
      BY <1>1, Fixed
    <3>4. d # None /\ (trash' = [trash EXCEPT !.files = d] \/ trash' = [trash EXCEPT !.info = d])
          /\ (pc' = "info" => trash' = [trash EXCEPT !.files = d])
          /\ (pc' = "add" => trash' = [trash EXCEPT !.info = d])
      BY <1>3, <3>1 DEF IsDir
    <3> HIDE DEF d
    <3>5. /\ trash' \in [path : Seq(Names), dir : Handle, files : Maybe, info : Maybe]
          /\ trash'.files # None /\ (pc' = "add" => trash'.info # None)
      <4>1. CASE pc' = "info"
        BY <1>4, <1>5, <3>4, <4>1
      <4>2. CASE pc' = "add"
        BY <1>1, <1>4, <1>5, <3>4, <4>2
      <4> QED
        BY <3>1, <4>1, <4>2
    <3> QED
      BY <3>1, <3>2, <3>3, <3>5 DEF AtTopdir, AtMove
  <2> QED
    BY <2>1, <2>2
<1> QED
  BY <1>5, <1>6 DEF PlaceInv

(* A trash directory that is on the argument's mount is added to those of  *)
(* the session: it is not on the home trash's filesystem.                  *)
LEMMA AddKeeps == PlaceInv /\ Add => PlaceInv'
<1> SUFFICES ASSUME PlaceInv, Add PROVE PlaceInv'
  OBVIOUS
<1>1. /\ UNCHANGED <<world, ent, mounts, table, trash, made, moved, parent>> /\ pc = "add"
      /\ \/ pc' = "copy" /\ trashes' = trashes
         \/ OnOwn /\ trashes' = Append(trashes, trash) /\ from' = parent /\ pc' = "move"
  BY DEF Add, environment, operand, history, Goto
<1>2. CASE pc' = "copy"
  <2>1. DiskOK' /\ SessionOK' /\ MadeOK' /\ NoSideTrash'
    BY <1>1, <1>2, Stays DEF Before
  <2>2. AtTopdir' /\ AtMove'
    BY <1>2, NotHeld
  <2> QED
    BY <2>1, <2>2 DEF PlaceInv
<1>3. CASE pc' = "move"
  <2>1. trash \in TrashDir /\ trashes \in Seq(TrashDir) /\ trashes # <<>>
    BY <1>1 DEF PlaceInv, AtTopdir, SessionOK, Making, Maybe, TrashDir, Before
  <2>2. trashes' = Append(trashes, trash)
    BY <1>1, <1>3
  <2>3. /\ trashes' \in Seq(TrashDir) /\ trashes' # <<>> /\ Head(trashes') = Head(trashes)
        /\ Range(trashes') = Range(trashes) \cup {trash}
    <3>1. Len(trashes) \in Nat /\ Len(trashes) > 0 /\ DOMAIN trashes = 1..Len(trashes)
      BY <2>1
    <3>2. /\ trashes' \in Seq(TrashDir) /\ Len(trashes') = Len(trashes) + 1
          /\ DOMAIN trashes' = 1..(Len(trashes) + 1) /\ trashes'[Len(trashes) + 1] = trash
          /\ \A k \in 1..Len(trashes) : trashes'[k] = trashes[k]
      BY <2>1, <2>2
    <3>3. \A k \in 1..(Len(trashes) + 1) : k \in 1..Len(trashes) \/ k = Len(trashes) + 1
      BY <3>1
    <3>4. Range(trashes') = Range(trashes) \cup {trash}
      BY <3>1, <3>2, <3>3 DEF Range
    <3>5. trashes' # <<>> /\ Head(trashes') = trashes'[1] /\ Head(trashes) = trashes[1]
          /\ 1 \in 1..Len(trashes)
      BY <2>1, <3>1, <3>2
    <3> QED
      BY <3>2, <3>4, <3>5
  <2>4. \A x \in made : attr[x.ino].fs = HomeFs => x.ino \notin {trash.dir.ino, trash.files.ino, trash.info.ino}
    <3>1. \A w \in {trash.dir, trash.files, trash.info} : w \in Handle /\ w.mnt = item.mnt
      <4>1. Own.id = item.mnt
        BY <1>1, OwnIs DEF PlaceInv, AtTopdir, Topdir, Making
      <4> QED
        BY <1>1, <1>3, <2>1, <4>1 DEF OnOwn, TrashDir
    <3>2. pc \in Topdir
      BY <1>1 DEF Topdir, Making
    <3>3. \A w \in {trash.dir, trash.files, trash.info} : attr[w.ino].fs # HomeFs
      BY <3>1, <3>2, NotHome
    <3> QED
      BY <3>3
  <2>5. /\ attr' = attr /\ Known(world)' = Known(world) /\ TrashDir' = TrashDir
    BY <1>1, Fixed
  <2>6. HomeFs' = HomeFs
    BY <1>1, <2>3 DEF HomeFs, Home
  <2>7. NoSideTrash'
    <3>1. \A x \in made :
            /\ x.top.mnt = x.for.mnt /\ attr[x.top.ino].dev = attr[x.for.ino].dev
            /\ attr[x.top.ino].fs # HomeFs
            /\ attr[x.ino].fs = HomeFs =>
                 /\ x.mnt # x.top.mnt
                 /\ \A t \in Range(trashes) : x.ino \notin {t.dir.ino, t.files.ino, t.info.ino}
      BY DEF PlaceInv, NoSideTrash
    <3>2. \A x \in made : attr[x.ino].fs = HomeFs =>
            \A t \in Range(trashes') : x.ino \notin {t.dir.ino, t.files.ino, t.info.ino}
      BY <2>3, <2>4, <3>1
    <3>3. made' = made
      BY <1>1
    <3> QED
      BY <2>5, <2>6, <3>1, <3>2, <3>3 DEF NoSideTrash
  <2>8. DiskOK' /\ SessionOK' /\ MadeOK'
    BY <1>1, <1>3, <2>3, <2>5 DEF PlaceInv, DiskOK, EntOK, SessionOK, MadeOK, Before
  <2>9. AtTopdir'
    BY <1>3 DEF AtTopdir, Topdir, Found, Making
  <2>10. AtMove'
    <3>1. from' = parent /\ parent' = parent /\ trash' = trash /\ trash \in Range(trashes')
      BY <1>1, <1>3, <2>3
    <3> QED
      BY <3>1 DEF AtMove
  <2> QED
    BY <2>7, <2>8, <2>9, <2>10 DEF PlaceInv
<1> QED
  BY <1>1, <1>2, <1>3

(* A rename takes an entry away.                                           *)
LEMMA MoveKeeps == PlaceInv /\ Move => PlaceInv'
<1> SUFFICES ASSUME PlaceInv, Move PROVE PlaceInv'
  OBVIOUS
<1>1. /\ UNCHANGED <<world, mounts, table, trashes, made>> /\ pc = "move" /\ pc' \in {"copy", "operand"}
      /\ \/ ent' = ent
         \/ \E x : ent' = [e \in DOMAIN ent \ {x} |-> ent[e]]
      /\ \/ moved' = moved
         \/ \E r : moved' = Append(moved, r)
  BY DEF Move, NextOperand, environment, session, Goto
<1>2. attr' = attr /\ Known(world)' = Known(world) /\ TrashDir' = TrashDir
  BY <1>1, Fixed
<1>3. HomeFs' = HomeFs
  BY <1>1 DEF HomeFs, Home
<1>4. DiskOK'
  <2>1. EntOK(ent)'
    <3>1. EntOK(ent)
      BY DEF PlaceInv, DiskOK
    <3>2. \A e \in DOMAIN ent' : e \in DOMAIN ent /\ ent'[e] = ent[e]
      BY <1>1
    <3> QED
      BY <1>2, <3>1, <3>2 DEF EntOK
  <2> QED
    BY <1>1, <1>2, <2>1 DEF PlaceInv, DiskOK
<1>5. \E S : moved' \in Seq(S)
  <2>1. PICK S : moved \in Seq(S)
    BY DEF PlaceInv, SessionOK
  <2>2. CASE moved' = moved
    BY <2>1, <2>2
  <2>3. ASSUME NEW r, moved' = Append(moved, r) PROVE \E T : moved' \in Seq(T)
    <3>1. moved \in Seq(S \cup {r})
      BY <2>1
    <3>2. Append(moved, r) \in Seq(S \cup {r})
      BY <3>1
    <3> QED
      BY <2>3, <3>2
  <2> QED
    BY <1>1, <2>2, <2>3
<1>6. SessionOK'
  BY <1>1, <1>2, <1>5 DEF PlaceInv, SessionOK, Before
<1>7. MadeOK' /\ NoSideTrash'
  BY <1>1, <1>2, <1>3 DEF PlaceInv, MadeOK, NoSideTrash
<1>8. AtTopdir' /\ AtMove'
  BY <1>1, NotHeld
<1> QED
  BY <1>4, <1>6, <1>7, <1>8 DEF PlaceInv

-----------------------------------------------------------------------------
(* Others mount what is known, and put nothing in a directory of another   *)
(* filesystem.                                                             *)
LEMMA OthersKeep == PlaceInv /\ Others => PlaceInv'
<1> SUFFICES ASSUME PlaceInv, Others PROVE PlaceInv'
  OBVIOUS
<1>1. Edit /\ pc' = pc /\ UNCHANGED <<world, table, trashes, made, moved, item, parent, top, found, trash, from>>
  BY DEF Others, Mount, Unmount, Swap, Edit, session, operand, place, history
<1>2. /\ attr' = attr /\ Known(world)' = Known(world) /\ TrashDir' = TrashDir
      /\ Handle' = Handle /\ Maybe' = Maybe
  BY <1>1, Fixed
<1>3. HomeFs' = HomeFs /\ Own' = Own
  BY <1>1 DEF HomeFs, Home, Own
<1>4. mounts' \in Seq(Known(world)) /\ mounts' # <<>>
  <2>0. mounts \in Seq(Known(world)) /\ mounts # <<>> /\ world.spare \subseteq Known(world)
    BY DEF PlaceInv, DiskOK, Known
  <2>1. CASE mounts' = mounts
    BY <2>0, <2>1
  <2>2. ASSUME NEW m \in world.spare, mounts' = Append(mounts, m)
        PROVE  mounts' \in Seq(Known(world)) /\ mounts' # <<>>
    BY <2>0, <2>2
  <2>3. ASSUME NEW k \in 2..Len(mounts), mounts' = RemoveAt(mounts, k)
        PROVE  mounts' \in Seq(Known(world)) /\ mounts' # <<>>
    <3> DEFINE a == SubSeq(mounts, 1, k - 1)
               b == SubSeq(mounts, k + 1, Len(mounts))
    <3>1. Len(mounts) \in Nat /\ k \in Nat /\ k >= 2 /\ k <= Len(mounts)
      BY <2>0
    <3>2. a \in Seq(Known(world)) /\ Len(a) = k - 1
      BY <2>0, <3>1, SubSeqProperties
    <3>3. b \in Seq(Known(world))
      BY <2>0, <3>1, SubSeqProperties
    <3> HIDE DEF a, b
    <3>4. a \o b \in Seq(Known(world)) /\ Len(a \o b) = Len(a) + Len(b) /\ Len(b) \in Nat
      BY <3>2, <3>3, ConcatProperties
    <3>5. mounts' = a \o b
      BY <2>3 DEF RemoveAt, a, b
    <3>6. Len(mounts') > 0
      BY <3>1, <3>2, <3>4, <3>5
    <3> QED
      BY <3>4, <3>5, <3>6
  <2>4. \/ mounts' = mounts
        \/ \E m \in world.spare : mounts' = Append(mounts, m)
        \/ \E k \in 2..Len(mounts) : mounts' = RemoveAt(mounts, k)
    BY DEF Others, Mount, Unmount, Swap
  <2> QED
    BY <2>1, <2>2, <2>3, <2>4
<1>5. EntOK(ent')
  <2>0. EntOK(ent)
    BY DEF PlaceInv, DiskOK
  <2>1. CASE ent' = ent
    BY <2>0, <2>1
  <2>2. ASSUME NEW s \in world.swaps, Swap(s) PROVE EntOK(ent')
    <3> DEFINE rest == [e \in DOMAIN ent \ {<<s[1], s[2]>>} |-> ent[e]]
    <3>1. s[1] \in Ino /\ s[3] \in Ino \cup {None} /\ (s[3] # None => attr[s[3]].fs = attr[s[1]].fs)
      BY WorldsAssumption DEF PlaceInv, DiskOK, attr
    <3>2. EntOK(rest)
      BY <2>0 DEF EntOK
    <3>3. ent' = IF s[3] = None THEN rest ELSE Entry(rest, s[1], s[2], s[3])
      BY <2>2 DEF Swap
    <3> HIDE DEF rest
    <3> DEFINE d == Entry(rest, s[1], s[2], s[3])
               y == <<s[1], s[2]>>
    <3>4. y[1] = s[1]
      OBVIOUS
    <3>5. \A x \in DOMAIN d : \/ x = y /\ d[x] = s[3]
                              \/ x \in DOMAIN rest /\ d[x] = rest[x]
      BY DEF Entry
    <3> HIDE DEF d, y
    <3>6. s[3] # None => EntOK(d)
      BY <3>1, <3>2, <3>4, <3>5 DEF EntOK
    <3> QED
      BY <3>2, <3>3, <3>6 DEF d
  <2>3. ent' = ent \/ \E s \in world.swaps : Swap(s)
    BY DEF Others, Mount, Unmount
  <2> QED
    BY <2>1, <2>2, <2>3
<1>6. DiskOK'
  BY <1>1, <1>2, <1>4, <1>5 DEF PlaceInv, DiskOK, EntOK
<1>7. SessionOK'
  BY <1>1, <1>2 DEF PlaceInv, SessionOK
<1>8. MadeOK' /\ NoSideTrash'
  BY <1>1, <1>2, <1>3 DEF PlaceInv, MadeOK, NoSideTrash
<1>9. AtTopdir' /\ AtMove'
  BY <1>1, <1>2, <1>3 DEF PlaceInv, AtTopdir, AtMove, HasId
<1> QED
  BY <1>6, <1>7, <1>8, <1>9 DEF PlaceInv

-----------------------------------------------------------------------------
LEMMA PlaceNext == PlaceInv /\ [Next]_vars => PlaceInv'
<1> SUFFICES ASSUME PlaceInv, [Next]_vars PROVE PlaceInv'
  OBVIOUS
<1>1. CASE Next
  BY <1>1, StartKeeps, MakeHomeKeeps, OpenSessionKeeps, OperandKeeps, CheckKeeps, RouteKeeps,
     OpenTopKeeps, LookKeeps, MakeTrashKeeps, InsideKeeps, MakePartsKeeps, AddKeeps, MoveKeeps,
     OthersKeep DEF Next
<1>2. CASE UNCHANGED vars
  <2>1. /\ pc' = pc
        /\ UNCHANGED <<world, ent, mounts, table, trashes, made, moved, item, parent, top, found, trash, from>>
    BY <1>2 DEF vars, environment, session, operand, place, history
  <2>2. /\ attr' = attr /\ Known(world)' = Known(world) /\ TrashDir' = TrashDir
        /\ Handle' = Handle /\ Maybe' = Maybe
    BY <2>1, Fixed
  <2>3. HomeFs' = HomeFs /\ Own' = Own
    BY <2>1 DEF HomeFs, Home, Own
  <2>4. DiskOK' /\ SessionOK'
    BY <2>1, <2>2 DEF PlaceInv, DiskOK, EntOK, SessionOK
  <2>5. MadeOK' /\ NoSideTrash'
    BY <2>1, <2>2, <2>3 DEF PlaceInv, MadeOK, NoSideTrash
  <2>6. AtTopdir' /\ AtMove'
    BY <2>1, <2>2, <2>3 DEF PlaceInv, AtTopdir, AtMove, HasId
  <2> QED
    BY <2>4, <2>5, <2>6 DEF PlaceInv
<1> QED
  BY <1>1, <1>2

(* For any mount tables, any number of mounts, subvolumes and operands, and *)
(* whatever others mount, unmount or swap in a shared top directory: what a *)
(* put makes there is on the argument's mount and no part of a trash on the *)
(* home trash's filesystem (choose(), topdir_trash()).                      *)
THEOREM NoSideTrashHolds == Spec => []NoSideTrash
<1>1. PlaceInv => NoSideTrash
  BY DEF PlaceInv
<1> QED
  BY Initially, PlaceNext, <1>1, PTL DEF Spec

(* For the same: a rename takes the argument out of the directory the user  *)
(* named, which was opened before anything was looked up, into the files/   *)
(* of a trash directory of the session (route(), move_in()).                *)
THEOREM RightPlaceHolds == Spec => RightPlace
<1>1. PlaceInv /\ [Next]_vars =>
        [moved' # moved =>
           LET r == Last(moved') IN
           r.dir = parent.ino /\ \E t \in Range(trashes) : t.files.ino = r.to]_vars
  <2> SUFFICES ASSUME PlaceInv, Next, moved' # moved
               PROVE  LET r == Last(moved') IN
                      r.dir = parent.ino /\ \E t \in Range(trashes) : t.files.ino = r.to
    OBVIOUS
  <2>1. Move
    BY DEF Next, Start, MakeHome, OpenSession, OpenParent, Check, Route, NoRoute, OpenTop, Look,
           Pick, MakeAdmin, MakeUser, Inside, MakeFiles, MakeInfo, Add, Copy, Others, Mount, Unmount,
           Swap, Edit, history
  <2>2. pc = "move" /\ \E i : moved' = Append(moved, [ino |-> i, dir |-> from.ino, to |-> trash.files.ino])
    BY <2>1 DEF Move
  <2>3. PICK i : moved' = Append(moved, [ino |-> i, dir |-> from.ino, to |-> trash.files.ino])
    BY <2>2
  <2>4. Last(moved') = [ino |-> i, dir |-> from.ino, to |-> trash.files.ino]
    <3> DEFINE r == [ino |-> i, dir |-> from.ino, to |-> trash.files.ino]
    <3>1. PICK S : moved \in Seq(S)
      BY DEF PlaceInv, SessionOK
    <3> HIDE DEF r
    <3>2. Len(Append(moved, r)) = Len(moved) + 1 /\ Append(moved, r)[Len(moved) + 1] = r
      BY <3>1
    <3> QED
      BY <2>3, <3>2 DEF Last, r
  <2>5. from.ino = parent.ino /\ \E t \in Range(trashes) : t.files.ino = trash.files.ino
    BY <2>2 DEF PlaceInv, AtMove
  <2> QED
    BY <2>4, <2>5
<1> QED
  BY Initially, PlaceNext, <1>1, PTL DEF Spec, RightPlace

-----------------------------------------------------------------------------
(* As long as nobody else has changed anything (Quiet), the mount table is *)
(* the kernel's, and what it says of a path is so.  w is where path p      *)
(* leads, counted from the top of the filesystem of its mount.             *)
Reached(w, p) == w # None /\ \E m \in Range(mounts) :
  m.id = w.mnt /\ IsPrefix(m.point, p) /\ Way(ent, world.tops[m.fs], FsPath(m, p)) = w.ino
HomeFiles == Append(Home.path, "files")

HomeStays ==
  /\ Home.dir.mnt = Home.files.mnt /\ IsDir(Home.files)
  /\ Reached(Home.dir, Home.path) /\ Reached(Home.files, HomeFiles)

(* The argument holds no root of a mount, no mount point, and no home      *)
(* trash, by their paths in its filesystem.                                *)
Apart == \A o, m \in Range(mounts) : o.id = parent.mnt /\ m.fs = o.fs =>
  /\ ~IsPrefix(FsPath(o, Path), m.root)
  /\ \A n \in Range(mounts) : n.parent = m.id => ~IsPrefix(FsPath(o, Path), FsPath(m, n.point))
  /\ m.id = Home.files.mnt => ~IsPrefix(FsPath(o, Path), FsPath(m, HomeFiles))

(* A mount that shows both directories is among those still to be tried,   *)
(* by paths that lead to them.                                             *)
Untried == \A m \in Range(mounts) :
  ~m.ro /\ {parent.ino, Home.files.ino} \subseteq Visible(m) =>
    \E k \in 1..Len(cands) :
      /\ cands[k].mnt = m
      /\ Lookup(cands[k].a) = [mnt |-> m.id, ino |-> parent.ino]
      /\ Lookup(cands[k].b) = [mnt |-> m.id, ino |-> Home.files.ino]

Chosen == {"route", "top", "move"} \cup Topdir
Still ==
  /\ mounts = world.mounts /\ Agree(world, ent, mounts)
  /\ pc # "start" => table = mounts
  /\ trashes # <<>> => HomeStays
  /\ pc \in Chosen \cup {"stat"} => args # <<>> /\ IsDir(parent) /\ parent \in Handle
  /\ pc \in Chosen => Reached(parent, Front(Path)) /\ Apart
  /\ pc \in Topdir \cup {"top"} => parent.mnt = item.mnt
  /\ pc = "top" => item.ino = Child(parent.ino, Last(Path)) /\ item.ino \in Ino
  /\ pc \in Topdir => attr[parent.ino].dev = attr[item.ino].dev
  /\ pc = "route" => attr[parent.ino].dev = attr[Home.files.ino].dev /\ Untried
  /\ pc = "move" => /\ from.mnt = trash.files.mnt
                    /\ attr[from.ino].dev = attr[trash.files.ino].dev
StillInv ==
  /\ edits \in Nat /\ edits <= world.edits
  /\ args \in Seq(Seq(Names) \ {<<>>}) /\ (pc \notin Before \cup {"operand", "end"} => args # <<>>)
  /\ \E S : cands \in Seq(S)
  /\ Quiet => Still

-----------------------------------------------------------------------------
(* Where a path leads in a tree, and the paths of mounts.                  *)
Entries(e) == \A x \in DOMAIN e : {x[1], e[x]} \subseteq Ino
LEMMA WayRuns ==
  ASSUME NEW e, Entries(e), NEW i \in Ino, NEW S, NEW p \in Seq(S)
  PROVE  \E f : /\ f \in [0..Len(p) -> Ino \cup {None}] /\ f[0] = i
                /\ \A k \in 1..Len(p) : f[k] = ChildIn(e, f[k - 1], p[k])
                /\ Way(e, i, p) = f[Len(p)]
<1> DEFINE n == Len(p)
           V == Ino \cup {None}
           step == [x \in (1..n) \X V |-> ChildIn(e, x[2], p[x[1]])]
           F == CHOOSE f : f = [k \in 0..n |-> IF k = 0 THEN i ELSE ChildIn(e, f[k - 1], p[k])]
<1>1. n \in Nat /\ i \in V
  OBVIOUS
<1>2. Way(e, i, p) = F[n]
  BY DEF Way
<1>3. step \in [(1..n) \X V -> V]
  <2>1. \A x \in (1..n) \X V : ChildIn(e, x[2], p[x[1]]) \in V
    BY DEF ChildIn, Entries
  <2> QED
    BY <2>1
<1>4. \A k \in 1..n, x \in V : step[<<k, x>>] = ChildIn(e, x, p[k])
  OBVIOUS
<1> HIDE DEF n, step, V
<1>5. PICK f : Unfolds(f, n, V, i, step)
  BY <1>1, <1>3, Recursion
<1>6. f \in [0..n -> V] /\ f[0] = i /\ \A k \in 1..n : f[k] = step[<<k, f[k - 1]>>]
  BY <1>5 DEF Unfolds
<1>7. \A k \in 1..n : k - 1 \in 0..n /\ k \in 0..n /\ k # 0
  BY <1>1
<1>8. \A k \in 1..n : f[k] = ChildIn(e, f[k - 1], p[k])
  BY <1>4, <1>6, <1>7
<1>9. f = [k \in 0..n |-> IF k = 0 THEN i ELSE ChildIn(e, f[k - 1], p[k])]
  <2>1. \A k \in 0..n : k = 0 \/ k \in 1..n
    BY <1>1
  <2> QED
    BY <1>6, <1>8, <2>1
<1>10. F = [k \in 0..n |-> IF k = 0 THEN i ELSE ChildIn(e, F[k - 1], p[k])]
  BY <1>9
<1> HIDE DEF F
<1>11. F[0] = f[0] /\ \A k \in 1..n : F[k] = ChildIn(e, F[k - 1], p[k])
  BY <1>1, <1>6, <1>7, <1>10
<1>12. F[n] = f[n]
  BY <1>1, <1>8, <1>11, SameWalk
<1> QED
  BY <1>2, <1>6, <1>8, <1>12 DEF n, V

LEMMA WayIs ==
  ASSUME NEW e, Entries(e), NEW i \in Ino
  PROVE  /\ Way(e, i, <<>>) = i
         /\ \A S : \A p \in Seq(S) : Way(e, i, p) \in Ino \cup {None}
         /\ \A S : \A p \in Seq(S), n \in S : Way(e, i, Append(p, n)) = ChildIn(e, Way(e, i, p), n)
<1>1. Way(e, i, <<>>) = i
  <2>1. <<>> \in Seq({}) /\ Len(<<>>) = 0
    BY EmptySeq
  <2>2. ASSUME NEW p \in Seq({}), Len(p) = 0 PROVE Way(e, i, p) = i
    <3>1. PICK f : f[0] = i /\ Way(e, i, p) = f[Len(p)]
      BY WayRuns
    <3> QED
      BY <2>2, <3>1
  <2> QED
    BY <2>1, <2>2
<1>2. ASSUME NEW S, NEW p \in Seq(S) PROVE Way(e, i, p) \in Ino \cup {None}
  <2>1. PICK f : f \in [0..Len(p) -> Ino \cup {None}] /\ Way(e, i, p) = f[Len(p)]
    BY WayRuns
  <2>2. Len(p) \in 0..Len(p)
    OBVIOUS
  <2> QED
    BY <2>1, <2>2
<1>3. ASSUME NEW S, NEW p \in Seq(S), NEW n \in S
      PROVE  Way(e, i, Append(p, n)) = ChildIn(e, Way(e, i, p), n)
  <2> DEFINE q == Append(p, n)
  <2>1. q \in Seq(S) /\ Len(q) = Len(p) + 1 /\ Len(p) \in Nat
        /\ (\A k \in 1..Len(p) : q[k] = p[k]) /\ q[Len(p) + 1] = n
    BY AppendProperties, LenProperties
  <2> HIDE DEF q
  <2>2. PICK f : /\ f[0] = i /\ \A k \in 1..Len(p) : f[k] = ChildIn(e, f[k - 1], p[k])
                 /\ Way(e, i, p) = f[Len(p)]
    BY WayRuns
  <2>3. PICK g : /\ g[0] = i /\ \A k \in 1..Len(q) : g[k] = ChildIn(e, g[k - 1], q[k])
                 /\ Way(e, i, q) = g[Len(q)]
    BY <2>1, WayRuns
  <2>4. \A k \in 1..Len(p) : g[k] = ChildIn(e, g[k - 1], p[k])
    BY <2>1, <2>3
  <2>5. f[Len(p)] = g[Len(p)]
    <3>1. f[0] = g[0] /\ \A k \in 1..Len(p) : f[k - 1] = g[k - 1] => f[k] = g[k]
      BY <2>2, <2>3, <2>4
    <3> QED
      BY <2>1, <3>1, SameWalk
  <2>6. g[Len(p) + 1] = ChildIn(e, g[Len(p)], n)
    <3>1. Len(p) + 1 \in 1..Len(q) /\ (Len(p) + 1) - 1 = Len(p)
      BY <2>1
    <3>2. g[Len(p) + 1] = ChildIn(e, g[(Len(p) + 1) - 1], q[Len(p) + 1])
      BY <2>3, <3>1
    <3> QED
      BY <2>1, <3>1, <3>2
  <2> QED
    BY <2>1, <2>2, <2>3, <2>5, <2>6 DEF q
<1> QED
  BY <1>1, <1>2, <1>3

(* A prefix, and what is beyond it.                                        *)
LEMMA Splits ==
  ASSUME NEW S, NEW p \in Seq(S), NEW q \in Seq(S)
  PROVE  /\ IsPrefix(p, q) => Beyond(p, q) \in Seq(S) /\ q = p \o Beyond(p, q)
         /\ IsPrefix(p, p \o q) /\ Beyond(p, p \o q) = q /\ p \o q \in Seq(S)
<1>0. Len(p) \in Nat /\ Len(q) \in Nat /\ p \o q \in Seq(S)
      /\ Len(p \o q) = Len(p) + Len(q)
      /\ \A i \in 1 .. Len(p) + Len(q) : (p \o q)[i] = IF i <= Len(p) THEN p[i] ELSE q[i - Len(p)]
  BY ConcatProperties
<1>1. ASSUME IsPrefix(p, q) PROVE Beyond(p, q) \in Seq(S) /\ q = p \o Beyond(p, q)
  <2>1. Len(p) <= Len(q) /\ \A i \in 1..Len(p) : p[i] = q[i]
    BY <1>1, PrefixOf
  <2>2. \A i \in (Len(p) + 1)..Len(q) : q[i] \in S
    BY <1>0, ElementOfSeq
  <2> DEFINE b == Beyond(p, q)
  <2>3. /\ b \in Seq(S) /\ Len(b) = Len(q) - Len(p)
        /\ \A i \in 1..Len(q) - Len(p) : b[i] = q[i + Len(p)]
    <3>1. /\ b \in Seq(S)
          /\ Len(b) = IF Len(p) + 1 <= Len(q) THEN Len(q) - (Len(p) + 1) + 1 ELSE 0
          /\ \A i \in 1..Len(q) - (Len(p) + 1) + 1 : b[i] = q[(Len(p) + 1) + i - 1]
      BY <1>0, <2>2, SubSeqProperties DEF Beyond
    <3> HIDE DEF b
    <3> QED
      BY <1>0, <2>1, <3>1
  <2> HIDE DEF b
  <2>4. /\ p \o b \in Seq(S) /\ Len(p \o b) = Len(q)
        /\ \A i \in 1..Len(q) : (p \o b)[i] = q[i]
    <3>1. /\ p \o b \in Seq(S) /\ Len(p \o b) = Len(p) + Len(b)
          /\ \A i \in 1 .. Len(p) + Len(b) : (p \o b)[i] = IF i <= Len(p) THEN p[i] ELSE b[i - Len(p)]
      BY <2>3, ConcatProperties
    <3> QED
      BY <1>0, <2>1, <2>3, <3>1
  <2>5. q = p \o b
    BY <2>4, SeqEqual
  <2> QED
    BY <2>3, <2>5 DEF b
<1>2. IsPrefix(p, p \o q)
  <2>1. Len(p) <= Len(p \o q) /\ \A i \in 1..Len(p) : p[i] = (p \o q)[i]
    BY <1>0
  <2> QED
    BY <1>0, <2>1, PrefixOf
<1>3. Beyond(p, p \o q) = q
  <2> DEFINE c == p \o q
             b == Beyond(p, c)
  <2>1. \A i \in (Len(p) + 1)..Len(c) : c[i] \in S
    BY <1>0, ElementOfSeq
  <2>2. Len(c) = Len(p) + Len(q) /\ \A i \in 1..Len(q) : c[i + Len(p)] = q[i]
    <3>1. ASSUME NEW i \in 1..Len(q) PROVE c[i + Len(p)] = q[i]
      <4>1. i + Len(p) \in 1..Len(p) + Len(q) /\ ~(i + Len(p) <= Len(p)) /\ (i + Len(p)) - Len(p) = i
        BY <1>0
      <4>2. c[i + Len(p)] = q[(i + Len(p)) - Len(p)]
        BY <1>0, <4>1
      <4> QED
        BY <4>1, <4>2
    <3> QED
      BY <1>0, <3>1
  <2>3. /\ b \in Seq(S)
        /\ Len(b) = IF Len(p) + 1 <= Len(c) THEN Len(c) - (Len(p) + 1) + 1 ELSE 0
        /\ \A i \in 1..Len(c) - (Len(p) + 1) + 1 : b[i] = c[(Len(p) + 1) + i - 1]
    <3>1. Len(p) + 1 \in Int /\ Len(c) \in Int
      BY <1>0
    <3> HIDE DEF c
    <3> QED
      BY <2>1, <3>1, SubSeqProperties DEF Beyond
  <2> HIDE DEF b, c
  <2>4. Len(b) = Len(q)
    BY <1>0, <2>2, <2>3
  <2>6. ASSUME NEW i \in 1..Len(q) PROVE b[i] = q[i]
    <3>1. (Len(p) + 1) + i - 1 = i + Len(p) /\ i \in 1..Len(c) - (Len(p) + 1) + 1
      BY <1>0, <2>2
    <3>2. b[i] = c[(Len(p) + 1) + i - 1]
      BY <2>3, <3>1
    <3> QED
      BY <2>2, <3>1, <3>2
  <2>5. b = q
    BY <2>3, <2>4, <2>6, SeqEqual
  <2> QED
    BY <2>5 DEF b, c
<1> QED
  BY <1>0, <1>1, <1>2, <1>3

(* There is one way to what has one entry, as all directories on it have,  *)
(* from one top.                                                           *)
Single(e, I) ==
  /\ \A x \in DOMAIN e : x[1] \in I
  /\ \A x, y \in DOMAIN e : e[x] = e[y] /\ e[x] \in I => x = y
IsTop(e, i) == i \in Ino /\ \A x \in DOMAIN e : e[x] # i
LEMMA WayUnique ==
  ASSUME NEW e, Entries(e), NEW I, Single(e, I), NEW a, IsTop(e, a), NEW b, IsTop(e, b),
         NEW S, NEW p \in Seq(S), NEW q \in Seq(S),
         Way(e, a, p) = Way(e, b, q), Way(e, a, p) # None, Way(e, a, p) \in I
  PROVE  a = b /\ p = q
<1> DEFINE G == {r \in Seq(S) : \A s \in Seq(S) :
                   Way(e, a, r) = Way(e, b, s) /\ Way(e, a, r) # None /\ Way(e, a, r) \in I =>
                   a = b /\ r = s}
<1>0. a \in Ino /\ b \in Ino
  BY DEF IsTop
<1>1. <<>> \in G
  <2>1. ASSUME NEW s \in Seq(S), Way(e, a, <<>>) = Way(e, b, s) PROVE a = b /\ s = <<>>
    <3>1. Way(e, b, s) = a /\ a # None
      BY <1>0, <2>1, WayIs, NoneAssumption
    <3>2. CASE s = <<>>
      BY <1>0, <3>1, <3>2, WayIs
    <3>3. CASE s # <<>>
      <4>1. PICK t \in Seq(S), n \in S : s = Append(t, n)
        BY <3>3, SequenceEmptyOrAppend
      <4>2. ChildIn(e, Way(e, b, t), n) = a
        BY <1>0, <3>1, <4>1, WayIs
      <4> QED
        BY <3>1, <4>2 DEF ChildIn, IsTop
    <3> QED
      BY <3>2, <3>3
  <2> QED
    BY <2>1, EmptySeq
<1>2. ASSUME NEW r \in Seq(S), NEW n \in S, r \in G PROVE Append(r, n) \in G
  <2>1. Append(r, n) \in Seq(S)
    BY AppendProperties
  <2>2. Way(e, a, Append(r, n)) = ChildIn(e, Way(e, a, r), n)
    BY <1>0, WayIs
  <2>3. ASSUME NEW s \in Seq(S), Way(e, a, Append(r, n)) = Way(e, b, s), Way(e, a, Append(r, n)) # None,
               Way(e, a, Append(r, n)) \in I
        PROVE  a = b /\ Append(r, n) = s
    <3>1. <<Way(e, a, r), n>> \in DOMAIN e /\ Way(e, b, s) = e[<<Way(e, a, r), n>>]
      BY <2>2, <2>3 DEF ChildIn
    <3>2. s # <<>>
      BY <1>0, <3>1, WayIs DEF IsTop
    <3>3. PICK t \in Seq(S), m \in S : s = Append(t, m)
      BY <3>2, SequenceEmptyOrAppend
    <3>4. Way(e, b, s) = ChildIn(e, Way(e, b, t), m)
      BY <1>0, <3>3, WayIs
    <3>5. <<Way(e, b, t), m>> \in DOMAIN e /\ Way(e, b, s) = e[<<Way(e, b, t), m>>]
      BY <2>3, <3>4 DEF ChildIn
    <3>6. <<Way(e, a, r), n>> = <<Way(e, b, t), m>>
      BY <2>2, <2>3, <3>1, <3>5 DEF Single, ChildIn
    <3>7. Way(e, a, r) = Way(e, b, t) /\ n = m
      BY <3>6
    <3>8. Way(e, a, r) # None /\ Way(e, a, r) \in I
      BY <3>1, NoneAssumption DEF Entries, Single
    <3> QED
      BY <1>2, <3>3, <3>7, <3>8
  <2> QED
    BY <2>1, <2>3
<1> HIDE DEF G
<1>3. p \in G
  BY <1>1, <1>2, AlongSeq
<1> QED
  BY <1>3 DEF G

LEMMA PrefixSelf == ASSUME NEW S, NEW p \in Seq(S) PROVE IsPrefix(p, p)
BY PrefixOf

LEMMA PrefixLonger ==
  ASSUME NEW S, NEW r \in Seq(S), NEW m \in S, NEW p \in Seq(S), IsPrefix(p, r)
  PROVE  IsPrefix(p, Append(r, m))
<1> DEFINE c == Append(r, m)
<1>1. c \in Seq(S) /\ Len(c) = Len(r) + 1 /\ Len(r) \in Nat /\ Len(p) \in Nat
      /\ \A k \in 1..Len(r) : c[k] = r[k]
  BY AppendProperties, LenProperties
<1> HIDE DEF c
<1>2. Len(p) <= Len(r) /\ \A k \in 1..Len(p) : p[k] = r[k]
  BY PrefixOf
<1>3. Len(p) <= Len(c) /\ \A k \in 1..Len(p) : p[k] = c[k]
  BY <1>1, <1>2
<1>4. IsPrefix(p, c)
  BY <1>1, <1>3, PrefixOf
<1> QED
  BY <1>4 DEF c

LEMMA PrefixUp ==
  ASSUME NEW S, NEW r \in Seq(S), NEW m \in S, NEW p \in Seq(S), IsPrefix(Append(r, m), p)
  PROVE  IsPrefix(r, p)
<1> DEFINE c == Append(r, m)
<1>1. c \in Seq(S) /\ Len(r) + 1 = Len(c) /\ Len(r) \in Nat /\ \A k \in 1..Len(r) : c[k] = r[k]
  BY AppendProperties, LenProperties
<1>2. IsPrefix(c, p)
  OBVIOUS
<1> HIDE DEF c
<1>3. Len(c) <= Len(p) /\ \A k \in 1..Len(c) : c[k] = p[k]
  BY <1>1, <1>2, PrefixOf
<1>5. Len(p) \in Nat
  OBVIOUS
<1>4. Len(r) <= Len(p) /\ \A k \in 1..Len(r) : r[k] = p[k]
  BY <1>1, <1>3, <1>5
<1> QED
  BY <1>4, PrefixOf

(* Entries that are added, those X that are removed, and the ways that go  *)
(* on.                                                                     *)
Extends(f, e, X) == \A x \in DOMAIN e : x \in X \/ (x \in DOMAIN f /\ f[x] = e[x])
Untouched(e, X, i, p) ==
  \A r \in Seq(Names), n \in Names : <<Way(e, i, r), n>> \in X => ~IsPrefix(Append(r, n), p)
LEMMA WayKept ==
  ASSUME NEW e, Entries(e), NEW f, Entries(f), NEW i \in Ino, NEW p \in Seq(Names),
         Way(e, i, p) # None, NEW X, Extends(f, e, X), Untouched(e, X, i, p)
  PROVE  Way(f, i, p) = Way(e, i, p)
<1> DEFINE G == {q \in Seq(Names) : IsPrefix(q, p) /\ Way(e, i, q) # None => Way(f, i, q) = Way(e, i, q)}
<1>1. <<>> \in G
  BY WayIs, EmptySeq
<1>2. ASSUME NEW r \in Seq(Names), NEW m \in Names, r \in G PROVE Append(r, m) \in G
  <2>1. Append(r, m) \in Seq(Names)
    BY AppendProperties
  <2>2. Way(e, i, Append(r, m)) = ChildIn(e, Way(e, i, r), m)
        /\ Way(f, i, Append(r, m)) = ChildIn(f, Way(f, i, r), m)
    BY WayIs
  <2>3. ASSUME IsPrefix(Append(r, m), p), Way(e, i, Append(r, m)) # None
        PROVE  Way(f, i, Append(r, m)) = Way(e, i, Append(r, m))
    <3>1. <<Way(e, i, r), m>> \in DOMAIN e /\ Way(e, i, Append(r, m)) = e[<<Way(e, i, r), m>>]
      BY <2>2, <2>3 DEF ChildIn
    <3>2. IsPrefix(r, p)
      BY <2>3, PrefixUp
    <3>3. Way(f, i, r) = Way(e, i, r)
      BY <1>2, <3>1, <3>2, NoneAssumption DEF Entries
    <3>4. <<Way(e, i, r), m>> \notin X
      BY <2>3 DEF Untouched
    <3> QED
      BY <2>2, <3>1, <3>3, <3>4 DEF ChildIn, Extends
  <2> QED
    BY <2>1, <2>3
<1> HIDE DEF G
<1>3. p \in G
  BY <1>1, <1>2, AlongSeq
<1>4. IsPrefix(p, p)
  BY PrefixOf
<1> QED
  BY <1>3, <1>4 DEF G

(* A way that leads into a subvolume enters it somewhere.                  *)
LEMMA WayInto ==
  ASSUME NEW e, Entries(e), NEW i \in Ino, NEW S, NEW p \in Seq(S), Way(e, i, p) # None,
         NEW A, i \notin A, Way(e, i, p) \in A
  PROVE  \E r \in Seq(S), n \in S :
           /\ IsPrefix(Append(r, n), p) /\ <<Way(e, i, r), n>> \in DOMAIN e
           /\ Way(e, i, r) \notin A /\ e[<<Way(e, i, r), n>>] \in A
<1> DEFINE Enters(q) == \E r \in Seq(S), n \in S :
             /\ IsPrefix(Append(r, n), q) /\ <<Way(e, i, r), n>> \in DOMAIN e
             /\ Way(e, i, r) \notin A /\ e[<<Way(e, i, r), n>>] \in A
           G == {q \in Seq(S) : Way(e, i, q) # None /\ Way(e, i, q) \in A => Enters(q)}
<1>1. <<>> \in G
  BY WayIs, EmptySeq
<1>2. ASSUME NEW r \in Seq(S), NEW m \in S, r \in G PROVE Append(r, m) \in G
  <2>1. Append(r, m) \in Seq(S)
    BY AppendProperties
  <2>2. Way(e, i, Append(r, m)) = ChildIn(e, Way(e, i, r), m)
    BY WayIs
  <2>3. ASSUME Way(e, i, Append(r, m)) # None, Way(e, i, Append(r, m)) \in A
        PROVE  Enters(Append(r, m))
    <3>1. <<Way(e, i, r), m>> \in DOMAIN e /\ Way(e, i, Append(r, m)) = e[<<Way(e, i, r), m>>]
      BY <2>2, <2>3 DEF ChildIn
    <3>2. CASE Way(e, i, r) \notin A
      <4>1. IsPrefix(Append(r, m), Append(r, m))
        BY <2>1, PrefixSelf
      <4> QED
        BY <2>1, <2>3, <3>1, <3>2, <4>1
    <3>3. CASE Way(e, i, r) \in A
      <4>1. Enters(r)
        BY <1>2, <3>1, <3>3, NoneAssumption DEF Entries
      <4>2. PICK s \in Seq(S), n \in S :
              /\ IsPrefix(Append(s, n), r) /\ <<Way(e, i, s), n>> \in DOMAIN e
              /\ Way(e, i, s) \notin A /\ e[<<Way(e, i, s), n>>] \in A
        BY <4>1
      <4>3. IsPrefix(Append(s, n), Append(r, m))
        BY <4>2, PrefixLonger, AppendProperties
      <4> QED
        BY <4>2, <4>3
    <3> QED
      BY <3>2, <3>3
  <2> QED
    BY <2>1, <2>3
<1> HIDE DEF G
<1>3. p \in G
  BY <1>1, <1>2, AlongSeq
<1> QED
  BY <1>3 DEF G

(* A path as its mount has it, and what is appended to it.                 *)
LEMMA FsAppend ==
  ASSUME NEW S, NEW m, m.point \in Seq(S), m.root \in Seq(S), NEW p \in Seq(S), IsPrefix(m.point, p),
         NEW n \in S
  PROVE  /\ IsPrefix(m.point, Append(p, n)) /\ FsPath(m, Append(p, n)) = Append(FsPath(m, p), n)
         /\ FsPath(m, p) \in Seq(S)
<1> DEFINE b == Beyond(m.point, p)
           c == Append(b, n)
<1>1. b \in Seq(S) /\ p = m.point \o b
  BY Splits
<1>2. FsPath(m, p) = m.root \o b
  BY DEF FsPath
<1> HIDE DEF b
<1>3. m.root \o b \in Seq(S) /\ c \in Seq(S)
  BY <1>1, ConcatProperties, AppendProperties
<1>4. \A u \in Seq(S) : u \o c = Append(u \o b, n)
  BY <1>1, AppendOn
<1>5. Append(p, n) = m.point \o c /\ m.root \o c = Append(m.root \o b, n)
  BY <1>1, <1>4
<1> HIDE DEF c
<1>6. IsPrefix(m.point, m.point \o c) /\ Beyond(m.point, m.point \o c) = c
  BY <1>3, Splits
<1>7. FsPath(m, m.point \o c) = m.root \o c
  BY <1>6 DEF FsPath
<1> QED
  BY <1>2, <1>3, <1>5, <1>6, <1>7

(* And what else may be said of it.                                        *)
LEMMA FsPaths ==
  ASSUME NEW S, NEW m, m.point \in Seq(S), m.root \in Seq(S), NEW p \in Seq(S), IsPrefix(m.point, p)
  PROVE  /\ FsPath(m, p) \in Seq(S) /\ FsPath(m, p) = m.root \o Beyond(m.point, p)
         /\ \A q \in Seq(S) : IsPrefix(m.point, q) /\ FsPath(m, q) = FsPath(m, p) => q = p
         /\ IsPrefix(m.point, m.point) /\ FsPath(m, m.point) = m.root
<1> DEFINE b == Beyond(m.point, p)
<1>1. b \in Seq(S) /\ p = m.point \o b
  BY Splits
<1>2. FsPath(m, p) = m.root \o b
  BY DEF FsPath
<1>3. m.root \o b \in Seq(S)
  BY <1>1, ConcatProperties
<1> HIDE DEF b
<1>5. ASSUME NEW q \in Seq(S), IsPrefix(m.point, q), FsPath(m, q) = FsPath(m, p) PROVE q = p
  <2> DEFINE c == Beyond(m.point, q)
  <2>1. c \in Seq(S) /\ q = m.point \o c
    BY <1>5, Splits
  <2>2. m.root \o c = m.root \o b
    BY <1>2, <1>5 DEF FsPath
  <2> HIDE DEF c
  <2>3. Beyond(m.root, m.root \o c) = c /\ Beyond(m.root, m.root \o b) = b
    BY <1>1, <2>1, Splits
  <2> QED
    BY <1>1, <2>1, <2>2, <2>3
<1>6. IsPrefix(m.point, m.point) /\ FsPath(m, m.point) = m.root
  <2>1. <<>> \in Seq(S) /\ m.point \o <<>> = m.point /\ m.root \o <<>> = m.root
    BY EmptySeq, ConcatEmptySeq
  <2>2. IsPrefix(m.point, m.point \o <<>>) /\ Beyond(m.point, m.point \o <<>>) = <<>>
    BY <2>1, Splits
  <2> QED
    BY <2>1, <2>2 DEF FsPath
<1> QED
  BY <1>2, <1>3, <1>5, <1>6 DEF b

(* The mounts are those of the world, and agree with the tree.             *)
SettledAt(e) == DiskOK /\ EntOK(e) /\ mounts = world.mounts /\ Agree(world, e, mounts)
Settled == SettledAt(ent)
TopOf(m) == world.tops[m.fs]
Firm == {i \in Ino : attr[i].kind = "dir" \/ \E m \in Range(mounts) : m.at = i}

LEMMA SettledAtIs ==
  ASSUME NEW e, SettledAt(e)
  PROVE  /\ Entries(e) /\ Single(e, Firm)
         /\ \A m \in Range(mounts) :
              /\ m \in Known(world) /\ IsTop(e, TopOf(m)) /\ m.at \in Firm
              /\ m.point \in Seq(Names) /\ m.root \in Seq(Names)
              /\ Way(e, TopOf(m), m.root) = m.top
         /\ \A m, n \in Range(mounts) : m.id = n.id => m = n
         /\ \A m, n \in Range(mounts) : TopOf(m) = TopOf(n) => m.fs = n.fs
         /\ \A m, o \in Range(mounts) : o.id = m.parent =>
              IsPrefix(o.point, m.point) /\ Way(e, TopOf(o), FsPath(o, m.point)) = m.at
         /\ Head(mounts) \in Range(mounts) /\ Head(mounts).point = <<>>
<1>1. world \in Worlds /\ EntOK(e) /\ DiskOK /\ mounts = world.mounts /\ Agree(world, e, mounts)
  BY DEF SettledAt, DiskOK
<1>2. Entries(e)
  BY <1>1 DEF EntOK, Entries
<1>3. Single(e, Firm)
  <2>1. \A x \in DOMAIN e : x[1] \in Firm
    BY <1>1, <1>2 DEF Agree, OneWay, Entries, Firm, attr
  <2>2. ASSUME NEW x \in DOMAIN e, NEW y \in DOMAIN e, e[x] = e[y], e[x] \in Firm PROVE x = y
    BY <1>1, <2>2 DEF Agree, OneWay, Firm, attr
  <2> QED
    BY <2>1, <2>2 DEF Single
<1>4. \A m \in Range(mounts) : m \in Known(world)
  BY <1>1, WorldIs
<1>5. \A m \in Known(world) :
        /\ m.fs \in DOMAIN world.tops /\ world.tops[m.fs] \in Ino /\ attr[world.tops[m.fs]].fs = m.fs
        /\ m.point \in Seq(Names) /\ m.root \in Seq(Names) /\ m.at \in Ino
  BY <1>1, AgreeAssumption, WorldsAssumption DEF attr
<1>6. ASSUME NEW m \in Range(mounts)
      PROVE  /\ m \in Known(world) /\ IsTop(e, TopOf(m)) /\ m.at \in Firm
             /\ m.point \in Seq(Names) /\ m.root \in Seq(Names)
             /\ Way(e, TopOf(m), m.root) = m.top
  <2>1. m \in Known(world) /\ m.at \in Firm
    BY <1>4, <1>5 DEF Firm
  <2>2. IsTop(e, TopOf(m))
    BY <1>1, <1>5, <2>1 DEF IsTop, TopOf, Agree, OneWay
  <2>3. m.point \in Seq(Names) /\ m.root \in Seq(Names)
    BY <1>5, <2>1
  <2>4. Way(e, TopOf(m), m.root) = m.top
    BY <1>1 DEF Agree, OneWay, TopOf
  <2> QED
    BY <2>1, <2>2, <2>3, <2>4
<1>7. \A m, n \in Range(mounts) : m.id = n.id => m = n
  BY <1>1 DEF Agree
<1>8. \A m, n \in Range(mounts) : TopOf(m) = TopOf(n) => m.fs = n.fs
  BY <1>4, <1>5 DEF TopOf
<1>9. \A m, o \in Range(mounts) : o.id = m.parent =>
        IsPrefix(o.point, m.point) /\ Way(e, TopOf(o), FsPath(o, m.point)) = m.at
  BY <1>1 DEF Agree, OneWay, TopOf
<1>10. Head(mounts) \in Range(mounts) /\ Head(mounts).point = <<>>
  <2>1. mounts \in Seq(Known(world)) /\ mounts # <<>>
    BY <1>1 DEF DiskOK
  <2>2. Head(mounts) \in Range(mounts)
    BY <2>1, HeadAndTail
  <2> QED
    BY <1>1, <2>2, WorldsAssumption
<1> QED
  BY <1>2, <1>3, <1>6, <1>7, <1>8, <1>9, <1>10

LEMMA SettledIs ==
  ASSUME Settled
  PROVE  /\ Entries(ent) /\ Single(ent, Firm)
         /\ \A m \in Range(mounts) :
              /\ m \in Known(world) /\ IsTop(ent, TopOf(m)) /\ m.at \in Firm
              /\ m.point \in Seq(Names) /\ m.root \in Seq(Names)
              /\ Way(ent, TopOf(m), m.root) = m.top
         /\ \A m, n \in Range(mounts) : m.id = n.id => m = n
         /\ \A m, n \in Range(mounts) : TopOf(m) = TopOf(n) => m.fs = n.fs
         /\ \A m, o \in Range(mounts) : o.id = m.parent =>
              IsPrefix(o.point, m.point) /\ Way(ent, TopOf(o), FsPath(o, m.point)) = m.at
         /\ Head(mounts) \in Range(mounts) /\ Head(mounts).point = <<>>
BY SettledAtIs DEF Settled

LEMMA Wider ==
  ASSUME Settled, NEW S, Names \subseteq S, NEW m \in Range(mounts)
  PROVE  m.point \in Seq(S) /\ m.root \in Seq(S)
<1>1. m.point \in Seq(Names) /\ m.root \in Seq(Names)
  BY SettledIs
<1>2. \A p \in Seq(Names) : p \in Seq(S)
  OBVIOUS
<1> QED
  BY <1>1, <1>2

(* Where a walk from the root of the namespace leads, mountinfo says it    *)
(* leads: on a mount whose point is on the way, the rest of which leads    *)
(* there from the root of the mount.                                       *)
LEMMA CoverReached ==
  ASSUME Settled, NEW S, Names \subseteq S, NEW w \in Handle, NEW p \in Seq(S), Reached(w, p)
  PROVE  Reached(Cross(w), p)
<1>1. ASSUME NEW v \in Handle, Reached(v, p) PROVE Reached(Covered(v), p)
  <2>1. CASE Over(v) = {}
    BY <1>1, <2>1 DEF Covered
  <2>2. CASE Over(v) # {}
    <3> DEFINE m == CHOOSE m \in Over(v) : TRUE
    <3>1. m \in Range(mounts) /\ m.parent = v.mnt /\ m.at = v.ino
      BY <2>2 DEF Over
    <3>2. Covered(v) = [mnt |-> m.id, ino |-> m.top]
      BY <2>2 DEF Covered
    <3> HIDE DEF m
    <3>3. PICK o \in Range(mounts) :
            o.id = v.mnt /\ IsPrefix(o.point, p) /\ Way(ent, TopOf(o), FsPath(o, p)) = v.ino
      BY <1>1 DEF Reached, TopOf
    <3>4. IsPrefix(o.point, m.point) /\ Way(ent, TopOf(o), FsPath(o, m.point)) = m.at
      BY <3>1, <3>3, SettledIs
    <3>5. /\ o.point \in Seq(S) /\ o.root \in Seq(S) /\ m.point \in Seq(S) /\ m.root \in Seq(S)
          /\ IsTop(ent, TopOf(o)) /\ m.at \in Firm /\ Way(ent, TopOf(m), m.root) = m.top
          /\ Entries(ent) /\ Single(ent, Firm)
      BY <3>1, <3>3, SettledIs, Wider
    <3>6. FsPath(o, p) \in Seq(S) /\ FsPath(o, m.point) \in Seq(S)
      BY <3>3, <3>4, <3>5, FsPaths
    <3>7. m.at # None
      BY <3>5, NoneAssumption DEF Firm
    <3>8. FsPath(o, m.point) = FsPath(o, p)
      BY <3>1, <3>3, <3>4, <3>5, <3>6, <3>7, WayUnique
    <3>9. m.point = p
      BY <3>3, <3>4, <3>5, <3>8, FsPaths
    <3>10. IsPrefix(m.point, p) /\ FsPath(m, p) = m.root
      BY <3>5, <3>9, FsPaths, PrefixSelf
    <3>11. Covered(v) # None
      BY <1>1, CoveredOpen, WorldIs DEF Settled, SettledAt
    <3> QED
      BY <3>1, <3>2, <3>5, <3>10, <3>11 DEF Reached, TopOf
  <2> QED
    BY <2>1, <2>2
<1>2. Covered(w) \in Handle
  BY CoveredOpen DEF Settled, SettledAt
<1> QED
  BY <1>1, <1>2 DEF Cross

LEMMA Leads ==
  ASSUME Settled, NEW S, Names \subseteq S, NEW p \in Seq(S), Lookup(p) # None
  PROVE  Reached(Lookup(p), p)
<1> DEFINE G == {q \in Seq(S) : Lookup(q) # None => Reached(Lookup(q), q)}
<1>0. DiskOK
  BY DEF Settled, SettledAt
<1>1. <<>> \in G
  <2> DEFINE m == Head(mounts)
             v == [mnt |-> m.id, ino |-> m.top]
  <2>1. m \in Range(mounts) /\ m.point = <<>> /\ m.point \in Seq(S) /\ m.root \in Seq(S)
        /\ Way(ent, TopOf(m), m.root) = m.top /\ m \in Known(world)
    BY SettledIs, Wider
  <2>2. v \in Handle /\ v # None
    <3>1. m.id \in Nat /\ m.top \in Ino /\ attr[m.top].fs = m.fs
          /\ \A k \in Known(world) : k.id = m.id => k.fs = m.fs
      BY <1>0, <2>1, WorldIs
    <3> QED
      BY <3>1, NoneAssumption DEF Handle
  <2>3. <<>> \in Seq(S)
    BY EmptySeq
  <2> HIDE DEF m
  <2>4. IsPrefix(m.point, <<>>) /\ FsPath(m, <<>>) = m.root
    BY <2>1, <2>3, FsPaths, PrefixSelf
  <2>5. Reached(v, <<>>)
    BY <2>1, <2>2, <2>4 DEF Reached, TopOf
  <2>6. Reached(Cross(v), <<>>)
    BY <2>2, <2>3, <2>5, CoverReached
  <2> QED
    BY <1>0, <2>3, <2>6, LookIs DEF m
<1>2. ASSUME NEW r \in Seq(S), NEW n \in S, r \in G PROVE Append(r, n) \in G
  <2> DEFINE w == Lookup(r)
             i == Child(w.ino, n)
             v == [w EXCEPT !.ino = i]
  <2>1. Append(r, n) \in Seq(S)
    BY AppendProperties
  <2>2. Lookup(Append(r, n)) = Enter(w, n) /\ w \in Maybe
    BY <1>0, LookIs
  <2>3. ASSUME Lookup(Append(r, n)) # None PROVE Reached(Lookup(Append(r, n)), Append(r, n))
    <3>1. w # None /\ i # None /\ Enter(w, n) = Cross(v)
      BY <2>2, <2>3 DEF Enter
    <3>2. w \in Handle /\ Reached(w, r)
      BY <1>2, <2>2, <3>1 DEF Maybe
    <3>3. <<w.ino, n>> \in DOMAIN ent /\ i = ent[<<w.ino, n>>]
      BY <3>1 DEF Child, ChildIn
    <3>4. i \in Ino /\ attr[i].fs = attr[w.ino].fs
      BY <1>0, <3>3 DEF DiskOK, EntOK
    <3>5. PICK o \in Range(mounts) :
            o.id = w.mnt /\ IsPrefix(o.point, r) /\ Way(ent, TopOf(o), FsPath(o, r)) = w.ino
      BY <3>2 DEF Reached, TopOf
    <3>6. i = ChildIn(ent, w.ino, n)
      BY DEF Child
    <3> HIDE DEF w, i
    <3>7. v \in Handle /\ v.mnt = w.mnt /\ v.ino = i /\ v # None
      <4>1. v \in Handle
        BY <1>0, <3>2, <3>4, EntryOpen
      <4> QED
        BY <1>0, <3>2, <4>1, WorldIs DEF Handle
    <3> HIDE DEF v
    <3>8. /\ o.point \in Seq(S) /\ o.root \in Seq(S) /\ IsTop(ent, TopOf(o)) /\ Entries(ent)
      BY <3>5, SettledIs, Wider
    <3>9. /\ IsPrefix(o.point, Append(r, n)) /\ FsPath(o, Append(r, n)) = Append(FsPath(o, r), n)
          /\ FsPath(o, r) \in Seq(S)
      BY <3>5, <3>8, FsAppend
    <3>10. Way(ent, TopOf(o), Append(FsPath(o, r), n)) = ChildIn(ent, Way(ent, TopOf(o), FsPath(o, r)), n)
      BY <3>8, <3>9, WayIs DEF IsTop
    <3>11. Reached(v, Append(r, n))
      BY <3>5, <3>6, <3>7, <3>9, <3>10 DEF Reached, TopOf
    <3>12. Reached(Cross(v), Append(r, n))
      BY <2>1, <3>7, <3>11, CoverReached
    <3> QED
      BY <2>2, <3>1, <3>12
  <2> QED
    BY <2>1, <2>3
<1> HIDE DEF G
<1>3. p \in G
  BY <1>1, <1>2, AlongSeq
<1> QED
  BY <1>3 DEF G

(* What a mount shows is found by a path through it.                       *)
Steps == Names \cup {x[2] : x \in DOMAIN ent}
LEMMA Shown ==
  ASSUME Settled, NEW m \in Range(mounts), NEW i \in Visible(m)
  PROVE  \E q \in Seq(Steps) : Lookup(m.point \o q) = [mnt |-> m.id, ino |-> i]
<1> DEFINE V == SUBSET Ino
           a == IF Lookup(m.point) = [mnt |-> m.id, ino |-> m.top] THEN {m.top} ELSE {}
           More(c) == c \cup {ent[e] : e \in {x \in DOMAIN ent :
                        /\ x[1] \in c
                        /\ Enter([mnt |-> m.id, ino |-> x[1]], x[2]) = [mnt |-> m.id, ino |-> ent[x]]}}
           step == [x \in (1..Depth) \X V |-> More(x[2])]
           F == CHOOSE f : f = [k \in 0..Depth |-> IF k = 0 THEN a ELSE More(f[k - 1])]
           Q(j) == \E q \in Seq(Steps) : Lookup(m.point \o q) = [mnt |-> m.id, ino |-> j]
<1>1. Depth \in Nat /\ DiskOK /\ Entries(ent) /\ Names \subseteq Steps
  BY DepthAssumption, SettledIs DEF Settled, SettledAt, Steps
<1>2. m.point \in Seq(Steps)
  BY <1>1, Wider
<1>3. a \in V
  BY SettledIs, WorldIs DEF Settled, SettledAt
<1>4. Visible(m) = F[Depth]
  BY DEF Visible, Onward
<1>5. \A c \in V : More(c) \in V
  BY <1>1 DEF Entries
<1>6. ASSUME NEW c \in V, \A j \in c : Q(j), NEW j \in More(c) PROVE Q(j)
  <2>1. CASE j \in c
    BY <1>6, <2>1
  <2>2. CASE j \notin c
    <3>1. PICK x \in DOMAIN ent :
            /\ x[1] \in c /\ j = ent[x]
            /\ Enter([mnt |-> m.id, ino |-> x[1]], x[2]) = [mnt |-> m.id, ino |-> j]
      BY <1>6, <2>2
    <3>2. PICK q \in Seq(Steps) : Lookup(m.point \o q) = [mnt |-> m.id, ino |-> x[1]]
      BY <1>6, <3>1
    <3> DEFINE n == x[2]
    <3>3. n \in Steps
      BY DEF Steps
    <3>4. Enter([mnt |-> m.id, ino |-> x[1]], n) = [mnt |-> m.id, ino |-> j]
      BY <3>1
    <3> HIDE DEF n
    <3>5. m.point \o Append(q, n) = Append(m.point \o q, n) /\ Append(q, n) \in Seq(Steps)
          /\ m.point \o q \in Seq(Steps)
      BY <1>2, <3>3, AppendOn
    <3>6. Lookup(Append(m.point \o q, n)) = Enter(Lookup(m.point \o q), n)
      BY <1>1, <3>3, <3>5, LookIs
    <3> QED
      BY <3>2, <3>4, <3>5, <3>6
  <2> QED
    BY <2>1, <2>2
<1>7. \A j \in a : Q(j)
  <2>1. <<>> \in Seq(Steps) /\ m.point \o <<>> = m.point
    BY <1>2, EmptySeq, ConcatEmptySeq
  <2> QED
    BY <2>1
<1>8. step \in [(1..Depth) \X V -> V] /\ \A k \in 1..Depth, c \in V : step[<<k, c>>] = More(c)
  BY <1>5
<1> HIDE DEF V, a, step, More, Q
<1>9. PICK f : Unfolds(f, Depth, V, a, step)
  BY <1>1, <1>3, <1>8, Recursion
<1>10. f \in [0..Depth -> V] /\ f[0] = a /\ \A k \in 1..Depth : f[k] = step[<<k, f[k - 1]>>]
  BY <1>9 DEF Unfolds
<1>11. \A k \in 1..Depth : k - 1 \in 0..Depth /\ k \in 0..Depth /\ k # 0
  BY <1>1
<1>12. \A k \in 1..Depth : f[k] = More(f[k - 1])
  BY <1>8, <1>10, <1>11
<1>13. f = [k \in 0..Depth |-> IF k = 0 THEN a ELSE More(f[k - 1])]
  <2>1. \A k \in 0..Depth : k = 0 \/ k \in 1..Depth
    BY <1>1
  <2> QED
    BY <1>10, <1>12, <2>1
<1>14. F = [k \in 0..Depth |-> IF k = 0 THEN a ELSE More(F[k - 1])]
  BY <1>13
<1> HIDE DEF F
<1> DEFINE G == {k \in 0..Depth : F[k] \in V /\ \A j \in F[k] : Q(j)}
<1>15. 0 \in G
  BY <1>1, <1>3, <1>7, <1>14
<1>16. ASSUME NEW k \in 1..Depth, k - 1 \in G PROVE k \in G
  <2>1. F[k] = More(F[k - 1]) /\ k \in 0..Depth
    BY <1>11, <1>14
  <2>2. F[k - 1] \in V /\ \A j \in F[k - 1] : Q(j)
    BY <1>16
  <2>3. F[k] \in V
    BY <1>5, <2>1, <2>2 DEF V
  <2>4. \A j \in F[k] : Q(j)
    BY <1>6, <2>1, <2>2
  <2> QED
    BY <2>1, <2>3, <2>4
<1> HIDE DEF G
<1>17. \A k \in 0..Depth : k \in G
  BY <1>1, <1>15, <1>16, UpTo
<1>18. Q(i)
  BY <1>1, <1>4, <1>17 DEF G
<1> QED
  BY <1>18 DEF Q

(* What is kept of a sequence.                                             *)
LEMMA Kept ==
  ASSUME NEW S, NEW s \in Seq(S), NEW T
  PROVE  /\ Keep(s, T) \in Seq(S)
         /\ \A x \in Range(s) : x \in T => \E j \in 1..Len(Keep(s, T)) : Keep(s, T)[j] = x
<1> DEFINE N == Len(s)
           V == Seq(S)
           More(n, k) == IF s[n] \in T THEN Append(k, s[n]) ELSE k
           step == [x \in (1..N) \X V |-> More(x[1], x[2])]
           F == CHOOSE f : f = [n \in 0..N |-> IF n = 0 THEN <<>> ELSE More(n, f[n - 1])]
           Has(n) == \A i \in 1..n : s[i] \in T => \E j \in 1..Len(F[n]) : F[n][j] = s[i]
<1>1. N \in Nat /\ <<>> \in V /\ \A n \in 1..N : s[n] \in S
  BY EmptySeq, ElementOfSeq
<1>2. Keep(s, T) = F[N]
  BY DEF Keep
<1>3. \A n \in 1..N, k \in V : More(n, k) \in V
  BY <1>1, AppendProperties
<1>4. ASSUME NEW n \in 1..N, NEW k \in V
      PROVE  /\ s[n] \in T => \E j \in 1..Len(More(n, k)) : More(n, k)[j] = s[n]
             /\ \A j \in 1..Len(k) : j \in 1..Len(More(n, k)) /\ More(n, k)[j] = k[j]
  <2>1. s[n] \in S /\ Len(k) \in Nat
    BY <1>1, <1>4
  <2>2. CASE s[n] \in T
    <3> DEFINE a == Append(k, s[n])
    <3>1. Len(a) = Len(k) + 1 /\ a[Len(k) + 1] = s[n] /\ \A j \in 1..Len(k) : a[j] = k[j]
      BY <2>1, AppendProperties
    <3>2. More(n, k) = a
      BY <2>2
    <3> HIDE DEF a, More
    <3> QED
      BY <2>1, <3>1, <3>2
  <2>3. CASE s[n] \notin T
    BY <2>1, <2>3
  <2> QED
    BY <2>2, <2>3
<1>5. step \in [(1..N) \X V -> V] /\ \A n \in 1..N, k \in V : step[<<n, k>>] = More(n, k)
  BY <1>3
<1> HIDE DEF V, step, More
<1>6. PICK f : Unfolds(f, N, V, <<>>, step)
  BY <1>1, <1>5, Recursion
<1>7. f \in [0..N -> V] /\ f[0] = <<>> /\ \A n \in 1..N : f[n] = step[<<n, f[n - 1]>>]
  BY <1>6 DEF Unfolds
<1>8. \A n \in 1..N : n - 1 \in 0..N /\ n \in 0..N /\ n # 0
  BY <1>1
<1>9. \A n \in 1..N : f[n] = More(n, f[n - 1])
  BY <1>5, <1>7, <1>8
<1>10. f = [n \in 0..N |-> IF n = 0 THEN <<>> ELSE More(n, f[n - 1])]
  <2>1. \A n \in 0..N : n = 0 \/ n \in 1..N
    BY <1>1
  <2> QED
    BY <1>7, <1>9, <2>1
<1>11. F = [n \in 0..N |-> IF n = 0 THEN <<>> ELSE More(n, F[n - 1])]
  BY <1>10
<1> HIDE DEF F, N
<1> DEFINE G == {n \in 0..N : F[n] \in V /\ Has(n)}
<1>12. 0 \in G
  BY <1>1, <1>11
<1>13. ASSUME NEW n \in 1..N, n - 1 \in G PROVE n \in G
  <2>1. F[n] = More(n, F[n - 1]) /\ n \in 0..N /\ n - 1 \in Nat
    BY <1>1, <1>8, <1>11
  <2>2. F[n - 1] \in V /\ Has(n - 1)
    BY <1>13
  <2>3. F[n] \in V
    BY <1>3, <2>1, <2>2
  <2>4. ASSUME NEW i \in 1..n, s[i] \in T PROVE \E j \in 1..Len(F[n]) : F[n][j] = s[i]
    <3>1. CASE i = n
      BY <1>4, <2>1, <2>2, <2>4, <3>1
    <3>2. CASE i # n
      <4>1. i \in 1..(n - 1)
        BY <2>1, <3>2
      <4>2. PICK j \in 1..Len(F[n - 1]) : F[n - 1][j] = s[i]
        BY <2>2, <2>4, <4>1
      <4> QED
        BY <1>4, <2>1, <2>2, <4>2
    <3> QED
      BY <3>1, <3>2
  <2> QED
    BY <2>1, <2>3, <2>4
<1>14. \A n \in 0..N : n \in G
  <2> HIDE DEF G
  <2> QED
    BY <1>1, <1>12, <1>13, UpTo
<1>15. F[N] \in V /\ Has(N)
  BY <1>1, <1>14
<1>16. \A x \in Range(s) : \E i \in 1..N : x = s[i]
  BY DEF Range, N
<1> QED
  BY <1>2, <1>15, <1>16 DEF V

LEMMA CandidateFor ==
  ASSUME NEW S, NEW ms \in Seq(S), NEW fa \in S, NEW m \in Range(ms), m.id = fa.id => m = fa,
         NEW a, NEW fb, NEW b, Shows(fa, a, fb, b, m)
  PROVE  \E k \in 1..Len(Candidates(ms, fa, a, fb, b)) :
           Candidates(ms, fa, a, fb, b)[k] = [mnt |-> m, a |-> Through(fa, m, a), b |-> Through(fb, m, b)]
<1> DEFINE shown == {c \in {fa} \cup Range(ms) : Shows(fa, a, fb, b, c)}
           one == Keep(<<fa>>, shown)
           more == {c \in shown : c.id # fa.id}
           rest == Keep(ms, more)
           s == one \o rest
           C == [k \in DOMAIN s |-> [mnt |-> s[k], a |-> Through(fa, s[k], a), b |-> Through(fb, s[k], b)]]
<1>1. Candidates(ms, fa, a, fb, b) = C
  BY DEF Candidates
<1>2. m \in shown /\ (m # fa => m \in more)
  OBVIOUS
<1>3. <<fa>> \in Seq(S) /\ fa \in Range(<<fa>>)
  BY DEF Range
<1> HIDE DEF shown, more
<1>4. one \in Seq(S) /\ rest \in Seq(S)
  BY <1>3, Kept
<1>5. m = fa => \E j \in 1..Len(one) : one[j] = m
  <2> DEFINE l == <<fa>>
  <2>1. l \in Seq(S) /\ fa \in Range(l)
    BY <1>3
  <2> HIDE DEF l
  <2>2. \A x \in Range(l) : x \in shown => \E j \in 1..Len(Keep(l, shown)) : Keep(l, shown)[j] = x
    BY <2>1, Kept
  <2> QED
    BY <1>2, <2>1, <2>2 DEF l
<1>6. m # fa => \E j \in 1..Len(rest) : rest[j] = m
  BY <1>2, Kept
<1> HIDE DEF one, rest
<1>7. /\ Len(one) \in Nat /\ Len(rest) \in Nat /\ Len(s) = Len(one) + Len(rest) /\ s \in Seq(S)
      /\ \A j \in 1..Len(one) : s[j] = one[j]
      /\ \A j \in 1..Len(rest) : s[j + Len(one)] = rest[j]
  BY <1>4, ConcatProperties
<1> HIDE DEF s
<1>8. \E k \in 1..Len(s) : s[k] = m
  <2>1. CASE m = fa
    <3>1. PICK j \in 1..Len(one) : one[j] = m
      BY <1>5, <2>1
    <3>2. j \in 1..Len(s)
      BY <1>7
    <3> QED
      BY <1>7, <3>1, <3>2
  <2>2. CASE m # fa
    <3>1. PICK j \in 1..Len(rest) : rest[j] = m
      BY <1>6, <2>2
    <3>2. j + Len(one) \in 1..Len(s)
      BY <1>7
    <3> QED
      BY <1>7, <3>1, <3>2
  <2> QED
    BY <2>1, <2>2
<1>9. DOMAIN s = 1..Len(s) /\ Len(C) = Len(s)
  BY <1>7
<1> QED
  BY <1>1, <1>8, <1>9

(* A directory that a mount shows is shown by the path route_candidates()  *)
(* works out for it.                                                       *)
LEMMA ShownBy ==
  ASSUME Settled, NEW w \in Handle, IsDir(w), NEW o \in Range(mounts), o.id = w.mnt,
         NEW p \in Seq(Names), IsPrefix(o.point, p), Way(ent, TopOf(o), FsPath(o, p)) = w.ino,
         NEW m \in Range(mounts), w.ino \in Visible(m)
  PROVE  /\ m.fs = o.fs /\ Through(o, m, p) # None
         /\ Lookup(Through(o, m, p)) = [mnt |-> m.id, ino |-> w.ino]
<1> DEFINE v == [mnt |-> m.id, ino |-> w.ino]
           f == FsPath(o, p)
<1>1. PICK q \in Seq(Steps) : Lookup(m.point \o q) = v
  BY Shown
<1>2. Names \subseteq Steps /\ w.ino \in Ino /\ m.id \in Nat
  BY SettledIs, WorldIs DEF Handle, Settled, SettledAt, Steps
<1>3. v # None /\ w.ino # None
  BY <1>2, NoneAssumption
<1>4. m.point \in Seq(Steps) /\ m.root \in Seq(Steps) /\ o.point \in Seq(Steps) /\ o.root \in Seq(Steps)
      /\ p \in Seq(Steps)
  <2>1. \A u \in Seq(Names) : u \in Seq(Steps)
    BY <1>2
  <2> QED
    BY <1>2, <2>1, Wider
<1>5. m.point \o q \in Seq(Steps)
  BY <1>4, ConcatProperties
<1>6. Reached(v, m.point \o q)
  BY <1>1, <1>2, <1>3, <1>5, Leads
<1>7. PICK n \in Range(mounts) :
        /\ n.id = v.mnt /\ IsPrefix(n.point, m.point \o q)
        /\ Way(ent, TopOf(n), FsPath(n, m.point \o q)) = v.ino
  BY <1>6 DEF Reached, TopOf
<1>8. n = m
  BY <1>7, SettledIs
<1>9. FsPath(m, m.point \o q) = m.root \o q
  <2>1. Beyond(m.point, m.point \o q) = q /\ IsPrefix(m.point, m.point \o q)
    BY <1>4, Splits
  <2> QED
    BY <2>1 DEF FsPath
<1>10. Way(ent, TopOf(m), m.root \o q) = w.ino
  BY <1>7, <1>8, <1>9
<1>11. m.root \o q \in Seq(Steps) /\ f \in Seq(Names) /\ f \in Seq(Steps)
  <2>1. m.root \o q \in Seq(Steps)
    BY <1>4, ConcatProperties
  <2>2. o.point \in Seq(Names) /\ o.root \in Seq(Names)
    BY SettledIs
  <2> QED
    BY <1>4, <2>1, <2>2, FsPaths
<1>12. IsTop(ent, TopOf(m)) /\ IsTop(ent, TopOf(o)) /\ Entries(ent) /\ Single(ent, Firm)
  BY SettledIs
<1>13. w.ino \in Firm
  BY <1>2 DEF Firm, IsDir
<1>14. Way(ent, TopOf(o), f) = w.ino
  OBVIOUS
<1> HIDE DEF f
<1>15. TopOf(m) = TopOf(o) /\ m.root \o q = f
  <2>1. Way(ent, TopOf(m), m.root \o q) = Way(ent, TopOf(o), f)
        /\ Way(ent, TopOf(m), m.root \o q) # None /\ Way(ent, TopOf(m), m.root \o q) \in Firm
    BY <1>3, <1>10, <1>13, <1>14
  <2> DEFINE g == m.root \o q
             a == TopOf(m)
             b == TopOf(o)
  <2>2. /\ g \in Seq(Steps) /\ f \in Seq(Steps) /\ IsTop(ent, a) /\ IsTop(ent, b)
        /\ Entries(ent) /\ Single(ent, Firm)
        /\ Way(ent, a, g) = Way(ent, b, f) /\ Way(ent, a, g) # None /\ Way(ent, a, g) \in Firm
    BY <1>11, <1>12, <2>1
  <2> HIDE DEF g, a, b
  <2>3. a = b /\ g = f
    BY <2>2, WayUnique
  <2> QED
    BY <2>3 DEF a, b, g
<1>16. m.fs = o.fs
  BY <1>15, SettledIs
<1>17. IsPrefix(m.root, f) /\ Beyond(m.root, f) = q
  BY <1>4, <1>15, Splits
<1>18. m.root \in Seq(Names) /\ m.point \in Seq(Names)
  BY SettledIs
<1>19. q \in Seq(Names)
  BY <1>11, <1>17, <1>18, Splits
<1>20. m.point \o q \in Seq(Names)
  BY <1>18, <1>19, ConcatProperties
<1>21. m.root # None /\ f # None /\ m.point \o q # None
  BY <1>11, <1>18, <1>20, NoneAssumption
<1>22. Through(o, m, p) = m.point \o q
  BY <1>17, <1>21 DEF Through, Beneath, f
<1> QED
  BY <1>1, <1>16, <1>21, <1>22

LEMMA ByIdIs ==
  ASSUME Settled, NEW m \in Range(mounts)
  PROVE  HasId(mounts, m.id) /\ ById(mounts, m.id) = m
<1>1. \A n \in Range(mounts) : n.id = m.id => n = m
  BY SettledIs
<1> QED
  BY <1>1 DEF HasId, ById

LEMMA Tried ==
  ASSUME Settled, table = mounts, NEW v \in Handle, IsDir(v), NEW w \in Handle, IsDir(w),
         NEW p \in Seq(Names), NEW q \in Seq(Names), Reached(v, p), Reached(w, q),
         NEW m \in Range(mounts), {v.ino, w.ino} \subseteq Visible(m)
  PROVE  LET C == Candidates(table, ById(table, v.mnt), p, ById(table, w.mnt), q) IN
         \E k \in 1..Len(C) : /\ C[k].mnt = m
                              /\ Lookup(C[k].a) = [mnt |-> m.id, ino |-> v.ino]
                              /\ Lookup(C[k].b) = [mnt |-> m.id, ino |-> w.ino]
<1>1. PICK o \in Range(mounts) :
        o.id = v.mnt /\ IsPrefix(o.point, p) /\ Way(ent, TopOf(o), FsPath(o, p)) = v.ino
  BY DEF Reached, TopOf
<1>2. PICK n \in Range(mounts) :
        n.id = w.mnt /\ IsPrefix(n.point, q) /\ Way(ent, TopOf(n), FsPath(n, q)) = w.ino
  BY DEF Reached, TopOf
<1>3. ById(table, v.mnt) = o /\ ById(table, w.mnt) = n
  BY <1>1, <1>2, ByIdIs
<1>4. /\ m.fs = o.fs /\ Through(o, m, p) # None
      /\ Lookup(Through(o, m, p)) = [mnt |-> m.id, ino |-> v.ino]
  BY <1>1, ShownBy
<1>5. /\ m.fs = n.fs /\ Through(n, m, q) # None
      /\ Lookup(Through(n, m, q)) = [mnt |-> m.id, ino |-> w.ino]
  BY <1>2, ShownBy
<1>6. Shows(o, p, n, q, m)
  BY <1>4, <1>5 DEF Shows
<1>7. m.id = o.id => m = o
  BY <1>1, SettledIs
<1>8. mounts \in Seq(Known(world)) /\ o \in Known(world)
  BY <1>1, SettledIs DEF Settled, SettledAt, DiskOK
<1> DEFINE D == Candidates(mounts, o, p, n, q)
<1>9. PICK k \in 1..Len(D) : D[k] = [mnt |-> m, a |-> Through(o, m, p), b |-> Through(n, m, q)]
  BY <1>6, <1>7, <1>8, CandidateFor
<1>10. D = Candidates(table, ById(table, v.mnt), p, ById(table, w.mnt), q)
  BY <1>3
<1> HIDE DEF D
<1>11. D[k].mnt = m /\ D[k].a = Through(o, m, p) /\ D[k].b = Through(n, m, q)
  BY <1>9
<1> QED
  BY <1>4, <1>5, <1>9, <1>10, <1>11

LEMMA ReachedKept ==
  ASSUME NEW e, SettledAt(e), NEW f, EntOK(f), NEW X, Extends(f, e, X),
         NEW m \in Range(mounts), NEW p \in Seq(Names), IsPrefix(m.point, p),
         Way(e, TopOf(m), FsPath(m, p)) # None, Untouched(e, X, TopOf(m), FsPath(m, p))
  PROVE  Way(f, TopOf(m), FsPath(m, p)) = Way(e, TopOf(m), FsPath(m, p))
<1>1. /\ Entries(e) /\ IsTop(e, TopOf(m)) /\ m.point \in Seq(Names) /\ m.root \in Seq(Names)
  BY SettledAtIs
<1>2. FsPath(m, p) \in Seq(Names)
  BY <1>1, FsPaths
<1>3. Entries(f)
  BY DEF EntOK, Entries
<1>4. TopOf(m) \in Ino
  BY <1>1 DEF IsTop
<1> QED
  BY <1>1, <1>2, <1>3, <1>4, WayKept

LEMMA AgreeKept ==
  ASSUME NEW e, SettledAt(e), NEW f, EntOK(f), OneWay(world, f, mounts), NEW X, Extends(f, e, X),
         \A m \in Range(mounts) :
           /\ Untouched(e, X, TopOf(m), m.root)
           /\ \A n \in Range(mounts) : n.parent = m.id => Untouched(e, X, TopOf(m), FsPath(m, n.point))
  PROVE  SettledAt(f)
<1>1. DiskOK /\ mounts = world.mounts /\ Agree(world, e, mounts)
  BY DEF SettledAt
<1>2. ASSUME NEW m \in Range(mounts)
      PROVE  Way(f, world.tops[m.fs], m.root) = m.top
  <2>1. /\ m.point \in Seq(Names) /\ m.root \in Seq(Names) /\ Way(e, TopOf(m), m.root) = m.top
        /\ m \in Known(world)
    BY SettledAtIs
  <2>2. IsPrefix(m.point, m.point) /\ FsPath(m, m.point) = m.root
    BY <2>1, FsPaths, PrefixSelf
  <2>3. m.top # None
    BY <1>1, <2>1, WorldIs, NoneAssumption
  <2>4. Way(f, TopOf(m), FsPath(m, m.point)) = Way(e, TopOf(m), FsPath(m, m.point))
    BY <2>1, <2>2, <2>3, ReachedKept
  <2> QED
    BY <2>1, <2>2, <2>4 DEF TopOf
<1>3. ASSUME NEW m \in Range(mounts), NEW p \in Range(mounts), p.id = m.parent
      PROVE  IsPrefix(p.point, m.point) /\ Way(f, world.tops[p.fs], FsPath(p, m.point)) = m.at
  <2>1. IsPrefix(p.point, m.point) /\ Way(e, TopOf(p), FsPath(p, m.point)) = m.at
    BY <1>3, SettledAtIs
  <2>2. m.point \in Seq(Names) /\ m.at # None
    BY SettledAtIs, NoneAssumption DEF Firm
  <2>3. Untouched(e, X, TopOf(p), FsPath(p, m.point))
    BY <1>3
  <2>4. Way(f, TopOf(p), FsPath(p, m.point)) = Way(e, TopOf(p), FsPath(p, m.point))
    BY <2>1, <2>2, <2>3, ReachedKept
  <2> QED
    BY <2>1, <2>4 DEF TopOf
<1>4. Agree(world, f, mounts)
  BY <1>1, <1>2, <1>3 DEF Agree
<1> QED
  BY <1>1, <1>4 DEF SettledAt

(* Directories that are made leave all ways as they were.                  *)
LEMMA MadeSettled ==
  ASSUME NEW e, SettledAt(e), NEW w \in Handle, NEW n
  PROVE  SettledAt(Mkdir(e, w, n)) /\ Extends(Mkdir(e, w, n), e, {})
<1> DEFINE i == CHOOSE i \in Free(e, w.ino) : TRUE
           f == Entry(e, w.ino, n, i)
           x == <<w.ino, n>>
<1>0. DiskOK /\ EntOK(e) /\ Agree(world, e, mounts) /\ world \in Worlds
  BY DEF SettledAt, DiskOK
<1>1. CASE Mkdir(e, w, n) = e
  BY <1>1 DEF Extends
<1>2. CASE Mkdir(e, w, n) # e
  <2>1. Mkdir(e, w, n) = f /\ x \notin DOMAIN e /\ IsDir(w) /\ Free(e, w.ino) # {}
    BY <1>2 DEF Mkdir
  <2>2. i \in Free(e, w.ino)
    BY <2>1
  <2>3. DOMAIN f = DOMAIN e \cup {x} /\ f[x] = i /\ \A y \in DOMAIN e : f[y] = e[y]
    BY <2>1 DEF Entry
  <2>4. Mkdir(e, w, n) = f /\ x \notin DOMAIN e /\ attr[w.ino].kind = "dir"
    BY <2>1 DEF IsDir
  <2> HIDE DEF i, f
  <2>5. /\ i \in Ino /\ attr[i].fresh /\ attr[i].dev = attr[w.ino].dev /\ \A y \in DOMAIN e : e[y] # i
    <3>1. i \in Ino /\ attr[i].fresh /\ attr[i].dev = attr[w.ino].dev /\ i \notin Range(e)
      BY <2>2 DEF Free
    <3> QED
      BY <3>1 DEF Range
  <2>6. EntOK(f)
    BY <1>0, <2>4, MadeDir
  <2>7. Extends(f, e, {})
    BY <2>3 DEF Extends
  <2>8. OneWay(world, f, mounts)
    <3> HIDE DEF x
    <3>0. x[1] = w.ino
      BY DEF x
    <3>1. OneWay(world, e, mounts)
      BY <1>0 DEF Agree
    <3>2. \A y \in DOMAIN f : world.attr[y[1]].kind = "dir"
      BY <2>3, <2>4, <3>0, <3>1 DEF OneWay, attr
    <3>3. ASSUME NEW y \in DOMAIN f, NEW z \in DOMAIN f, y # z
          PROVE  /\ f[y] = f[z] => world.attr[f[y]].kind # "dir" /\ \A m \in Range(mounts) : m.at # f[y]
                 /\ world.attr[f[y]].dev = world.attr[f[z]].dev =>
                      \E v \in {y, z} : world.attr[v[1]].dev = world.attr[f[v]].dev
      <4>1. CASE y = x
        BY <2>3, <2>5, <3>0, <3>3, <4>1 DEF attr
      <4>2. CASE z = x
        BY <2>3, <2>5, <3>0, <3>3, <4>2 DEF attr
      <4>3. CASE y # x /\ z # x
        <5>1. y \in DOMAIN e /\ z \in DOMAIN e /\ f[y] = e[y] /\ f[z] = e[z]
          BY <2>3, <4>3
        <5> QED
          BY <3>1, <3>3, <5>1 DEF OneWay
      <4> QED
        BY <4>1, <4>2, <4>3
    <3>4. \A t \in DOMAIN world.tops : ~attr[world.tops[t]].fresh
      BY <1>0, AgreeAssumption DEF attr
    <3>5. \A t \in DOMAIN world.tops, y \in DOMAIN f :
            /\ f[y] # world.tops[t]
            /\ world.attr[f[y]].dev = world.attr[world.tops[t]].dev => world.attr[y[1]].dev = world.attr[f[y]].dev
      BY <2>3, <2>5, <3>0, <3>1, <3>4 DEF OneWay, attr
    <3> QED
      BY <3>2, <3>3, <3>5 DEF OneWay
  <2>9. \A j, p : Untouched(e, {}, j, p)
    BY DEF Untouched
  <2>10. SettledAt(f)
    BY <2>6, <2>7, <2>8, <2>9, AgreeKept
  <2> QED
    BY <2>1, <2>7, <2>10
<1> QED
  BY <1>1, <1>2

(* An entry of a directory is on the ways, from the tops, that go on from  *)
(* the way to the directory.                                               *)
LEMMA OnlyThere ==
  ASSUME Settled, NEW o \in Range(mounts), NEW p \in Seq(Names), IsPrefix(o.point, p), NEW n \in Names,
         NEW d \in Ino, Way(ent, TopOf(o), FsPath(o, p)) = d, attr[d].kind = "dir",
         NEW m \in Range(mounts), NEW r \in Seq(Names), Way(ent, TopOf(m), r) = d
  PROVE  m.fs = o.fs /\ r = FsPath(o, p)
<1> DEFINE a == TopOf(m)
           b == TopOf(o)
           q == FsPath(o, p)
<1>1. /\ IsTop(ent, a) /\ IsTop(ent, b) /\ Entries(ent) /\ Single(ent, Firm)
      /\ o.point \in Seq(Names) /\ o.root \in Seq(Names)
  BY SettledIs
<1>2. q \in Seq(Names)
  BY <1>1, FsPaths
<1>3. d # None /\ d \in Firm
  BY NoneAssumption DEF Firm
<1>4. Way(ent, a, r) = Way(ent, b, q) /\ Way(ent, a, r) # None /\ Way(ent, a, r) \in Firm
  BY <1>3
<1> HIDE DEF a, b, q
<1>5. a = b /\ r = q
  BY <1>1, <1>2, <1>4, WayUnique
<1>6. m.fs = o.fs
  BY <1>5, SettledIs DEF a, b
<1> QED
  BY <1>5, <1>6 DEF q

LEMMA NotOn ==
  ASSUME Settled, NEW o \in Range(mounts), NEW p \in Seq(Names), IsPrefix(o.point, p), NEW n \in Names,
         NEW d \in Ino, Way(ent, TopOf(o), FsPath(o, p)) = d, attr[d].kind = "dir",
         NEW m \in Range(mounts), NEW q \in Seq(Names),
         m.fs = o.fs => ~IsPrefix(Append(FsPath(o, p), n), q)
  PROVE  Untouched(ent, {<<d, n>>}, TopOf(m), q)
<1> SUFFICES ASSUME NEW r \in Seq(Names), NEW k \in Names, <<Way(ent, TopOf(m), r), k>> = <<d, n>>
             PROVE  ~IsPrefix(Append(r, k), q)
  BY DEF Untouched
<1>1. Way(ent, TopOf(m), r) = d /\ k = n
  OBVIOUS
<1>2. m.fs = o.fs /\ r = FsPath(o, p)
  BY <1>1, OnlyThere
<1> QED
  BY <1>1, <1>2

(* Moving away what holds no root of a mount and no mount point.           *)
LEMMA TakenSettled ==
  ASSUME Settled, NEW o \in Range(mounts), NEW p \in Seq(Names), IsPrefix(o.point, p), NEW n \in Names,
         NEW d \in Ino, Way(ent, TopOf(o), FsPath(o, p)) = d, attr[d].kind = "dir",
         \A m \in Range(mounts) : m.fs = o.fs =>
           /\ ~IsPrefix(Append(FsPath(o, p), n), m.root)
           /\ \A k \in Range(mounts) : k.parent = m.id =>
                ~IsPrefix(Append(FsPath(o, p), n), FsPath(m, k.point)),
         NEW f, f = [x \in DOMAIN ent \ {<<d, n>>} |-> ent[x]]
  PROVE  SettledAt(f) /\ Extends(f, ent, {<<d, n>>})
<1> DEFINE X == {<<d, n>>}
<1>1. Extends(f, ent, X)
  BY DEF Extends
<1>2. \A x \in DOMAIN f : x \in DOMAIN ent /\ f[x] = ent[x]
  OBVIOUS
<1>3. EntOK(f) /\ OneWay(world, f, mounts)
  <2>1. EntOK(ent) /\ OneWay(world, ent, mounts)
    BY DEF Settled, SettledAt, Agree
  <2>2. EntOK(f)
    BY <1>2, <2>1 DEF EntOK
  <2>3. OneWay(world, f, mounts)
    BY <1>2, <2>1 DEF OneWay
  <2> QED
    BY <2>2, <2>3
<1>4. ASSUME NEW m \in Range(mounts)
      PROVE  /\ Untouched(ent, X, TopOf(m), m.root)
             /\ \A k \in Range(mounts) : k.parent = m.id => Untouched(ent, X, TopOf(m), FsPath(m, k.point))
  <2>1. m.root \in Seq(Names) /\ m.point \in Seq(Names)
    BY SettledIs
  <2>2. Untouched(ent, X, TopOf(m), m.root)
    BY <2>1, NotOn
  <2>3. ASSUME NEW k \in Range(mounts), k.parent = m.id
        PROVE  Untouched(ent, X, TopOf(m), FsPath(m, k.point))
    <3>1. IsPrefix(m.point, k.point) /\ k.point \in Seq(Names)
      BY <2>3, SettledIs
    <3>2. FsPath(m, k.point) \in Seq(Names)
      BY <2>1, <3>1, FsPaths
    <3>3. m.fs = o.fs => ~IsPrefix(Append(FsPath(o, p), n), FsPath(m, k.point))
      BY <2>3
    <3> QED
      BY <3>2, <3>3, NotOn
  <2> QED
    BY <2>2, <2>3
<1>5. SettledAt(ent)
  BY DEF Settled
<1> HIDE DEF X
<1>6. SettledAt(f)
  BY <1>1, <1>3, <1>4, <1>5, AgreeKept
<1> QED
  BY <1>1, <1>6 DEF X

(* All ways into the subvolume whose top is an entry go through it.        *)
LEMMA IntoVolume ==
  ASSUME Settled, NEW o \in Range(mounts), NEW p \in Seq(Names), IsPrefix(o.point, p), NEW n \in Names,
         NEW d \in Ino, Way(ent, TopOf(o), FsPath(o, p)) = d, attr[d].kind = "dir",
         NEW i \in Ino, ChildIn(ent, d, n) = i, attr[i].dev # attr[d].dev,
         NEW m \in Range(mounts), m.fs = o.fs, NEW q \in Seq(Names),
         Way(ent, TopOf(m), q) # None, attr[Way(ent, TopOf(m), q)].dev = attr[i].dev
  PROVE  IsPrefix(Append(FsPath(o, p), n), q)
<1> DEFINE A == {j \in Ino : attr[j].dev = attr[i].dev}
           a == TopOf(m)
           x == <<d, n>>
<1>1. /\ IsTop(ent, a) /\ Entries(ent) /\ OneWay(world, ent, mounts) /\ m.fs \in DOMAIN world.tops
  BY SettledIs, AgreeAssumption DEF Settled, SettledAt, Agree, DiskOK
<1>2. x \in DOMAIN ent /\ ent[x] = i
  BY NoneAssumption DEF ChildIn
<1>3. a \notin A
  <2>1. attr[ent[x]].dev = attr[a].dev => attr[x[1]].dev = attr[ent[x]].dev
    BY <1>1, <1>2 DEF OneWay, TopOf, attr
  <2> QED
    BY <1>2, <2>1
<1>4. a \in Ino /\ Way(ent, a, q) \in A
  <2>1. a \in Ino
    BY <1>1 DEF IsTop
  <2>2. Way(ent, a, q) \in Ino \cup {None}
    BY <1>1, <2>1, WayIs
  <2> QED
    BY <2>1, <2>2
<1> HIDE DEF a
<1>5. Way(ent, a, q) # None
  BY DEF a
<1>6. PICK r \in Seq(Names), k \in Names :
        /\ IsPrefix(Append(r, k), q) /\ <<Way(ent, a, r), k>> \in DOMAIN ent
        /\ Way(ent, a, r) \notin A /\ ent[<<Way(ent, a, r), k>>] \in A
  <2> HIDE DEF A
  <2> QED
    BY <1>1, <1>3, <1>4, <1>5, WayInto
<1> DEFINE y == <<Way(ent, a, r), k>>
<1>7. y \in DOMAIN ent /\ y[1] \notin A /\ ent[y] \in A /\ y[1] \in Ino
  BY <1>1, <1>6 DEF Entries
<1>8. x[1] = d /\ attr[x[1]].dev # attr[ent[x]].dev /\ attr[y[1]].dev # attr[ent[y]].dev
      /\ attr[ent[x]].dev = attr[ent[y]].dev
  BY <1>2, <1>7
<1> HIDE DEF A, x, y
<1>9. x = y
  BY <1>1, <1>2, <1>7, <1>8 DEF OneWay, attr
<1>10. Way(ent, a, r) = d /\ k = n
  BY <1>9 DEF x, y
<1>11. r = FsPath(o, p)
  BY <1>10, OnlyThere DEF a
<1> QED
  BY <1>6, <1>10, <1>11

-----------------------------------------------------------------------------
(* What the steps leave as it was.                                         *)
LEMMA StillSettled == ASSUME DiskOK, Still PROVE Settled
BY DEF Still, Settled, SettledAt, DiskOK

LEMMA SettledNext ==
  ASSUME DiskOK', UNCHANGED <<world, mounts>>, SettledAt(ent')
  PROVE  Settled' /\ Agree(world, ent, mounts)'
<1>1. mounts = world.mounts /\ Agree(world, ent', mounts)
  BY DEF SettledAt
<1>2. DiskOK' /\ EntOK(ent)'
  BY DEF DiskOK
<1> QED
  BY <1>1, <1>2 DEF Settled, SettledAt

LEMMA ReachedOn ==
  ASSUME Settled, UNCHANGED <<world, mounts>>, EntOK(ent'), NEW X, Extends(ent', ent, X),
         NEW w \in Handle, NEW p \in Seq(Names), Reached(w, p),
         \A m \in Range(mounts) : m.id = w.mnt => Untouched(ent, X, TopOf(m), FsPath(m, p))
  PROVE  \E m \in Range(mounts') :
           m.id = w.mnt /\ IsPrefix(m.point, p) /\ Way(ent', world'.tops[m.fs], FsPath(m, p)) = w.ino
<1>1. PICK m \in Range(mounts) :
        m.id = w.mnt /\ IsPrefix(m.point, p) /\ Way(ent, TopOf(m), FsPath(m, p)) = w.ino
  BY DEF Reached, TopOf
<1>2. w.ino # None
  BY NoneAssumption DEF Handle
<1>3. SettledAt(ent)
  BY DEF Settled
<1>4. Way(ent', TopOf(m), FsPath(m, p)) = w.ino
  BY <1>1, <1>2, <1>3, ReachedKept
<1> QED
  BY <1>1, <1>4 DEF TopOf

LEMMA HomeIs ==
  ASSUME SessionOK, trashes # <<>>
  PROVE  /\ Home \in TrashDir /\ Home.dir \in Handle /\ Home.files \in Handle
         /\ Home.path \in Seq(Names) /\ HomeFiles \in Seq(Names)
<1>1. Home \in TrashDir
  BY DEF SessionOK, Home
<1>2. Home.dir \in Handle /\ Home.files \in Handle /\ Home.path \in Seq(Names)
  BY <1>1 DEF TrashDir
<1>3. HomeFiles \in Seq(Names)
  BY <1>2, NamesAssumption, AppendProperties DEF HomeFiles
<1> QED
  BY <1>1, <1>2, <1>3

(* The home trash, as long as no entry X on the ways to it is removed.     *)
LEMMA HomeOn ==
  ASSUME DiskOK, Still, SessionOK, trashes # <<>>, UNCHANGED <<world, mounts>>, Home' = Home,
         EntOK(ent'), NEW X, Extends(ent', ent, X),
         \A m \in Range(mounts) : m.id = Home.files.mnt => Untouched(ent, X, TopOf(m), FsPath(m, HomeFiles))
  PROVE  HomeStays'
<1>1. Settled /\ HomeStays
  BY StillSettled DEF Still
<1>2. Home.dir \in Handle /\ Home.files \in Handle /\ Home.path \in Seq(Names) /\ HomeFiles \in Seq(Names)
  BY HomeIs
<1>3. Home.dir.mnt = Home.files.mnt /\ IsDir(Home.files) /\ Reached(Home.dir, Home.path)
      /\ Reached(Home.files, HomeFiles)
  BY <1>1 DEF HomeStays
<1>4. ASSUME NEW m \in Range(mounts), m.id = Home.dir.mnt
      PROVE  Untouched(ent, X, TopOf(m), FsPath(m, Home.path))
  <2>1. PICK o \in Range(mounts) : o.id = Home.dir.mnt /\ IsPrefix(o.point, Home.path)
    BY <1>3 DEF Reached
  <2>2. o = m
    BY <1>4, <2>1, <1>1, SettledIs
  <2>3. m.point \in Seq(Names) /\ m.root \in Seq(Names)
    BY <1>1, SettledIs
  <2> DEFINE F == FsPath(m, Home.path)
             H == FsPath(m, HomeFiles)
  <2>4. "files" \in Names
    BY NamesAssumption
  <2>5. H = Append(F, "files") /\ F \in Seq(Names)
    BY <1>2, <2>1, <2>2, <2>3, <2>4, FsAppend DEF HomeFiles
  <2>6. Untouched(ent, X, TopOf(m), H)
    BY <1>3, <1>4
  <2> SUFFICES ASSUME NEW r \in Seq(Names), NEW n \in Names, <<Way(ent, TopOf(m), r), n>> \in X
               PROVE  ~IsPrefix(Append(r, n), F)
    BY DEF Untouched
  <2>7. Append(r, n) \in Seq(Names)
    BY AppendProperties
  <2>8. ~IsPrefix(Append(r, n), H)
    BY <2>6 DEF Untouched
  <2> HIDE DEF F, H
  <2> QED
    BY <2>4, <2>5, <2>7, <2>8, PrefixLonger
<1>5. /\ Home'.dir = Home.dir /\ Home'.files = Home.files /\ Home'.path = Home.path
      /\ HomeFiles' = HomeFiles
  BY DEF HomeFiles
<1>6. Reached(Home.dir, Home.path)'
  <2>1. \E m \in Range(mounts') : /\ m.id = Home.dir.mnt /\ IsPrefix(m.point, Home.path)
                                  /\ Way(ent', world'.tops[m.fs], FsPath(m, Home.path)) = Home.dir.ino
    BY <1>1, <1>2, <1>3, <1>4, ReachedOn
  <2>2. Home.dir # None
    BY <1>3 DEF Reached
  <2> QED
    BY <1>5, <2>1, <2>2 DEF Reached
<1>7. Reached(Home.files, HomeFiles)'
  <2>1. \E m \in Range(mounts') : /\ m.id = Home.files.mnt /\ IsPrefix(m.point, HomeFiles)
                                  /\ Way(ent', world'.tops[m.fs], FsPath(m, HomeFiles)) = Home.files.ino
    BY <1>1, <1>2, <1>3, ReachedOn
  <2>2. Home.files # None
    BY <1>3 DEF Reached
  <2> QED
    BY <1>5, <2>1, <2>2 DEF Reached
<1>8. IsDir(Home.files)'
  BY <1>3, <1>5 DEF IsDir, attr
<1> QED
  BY <1>3, <1>5, <1>6, <1>7, <1>8 DEF HomeStays

(* Directories made, if any, and the rest as it was.                       *)
Base == /\ mounts = world.mounts /\ Agree(world, ent, mounts)
        /\ table = mounts
        /\ trashes # <<>> => HomeStays
LEMMA BaseOn ==
  ASSUME DiskOK, Still, SessionOK, DiskOK', pc # "start", UNCHANGED <<world, mounts, table>>,
         trashes' # <<>> => trashes # <<>> /\ Home' = Home,
         SettledAt(ent'), Extends(ent', ent, {})
  PROVE  Base'
<1>1. Agree(world, ent, mounts)' /\ EntOK(ent') /\ mounts' = world'.mounts /\ table' = mounts'
  BY SettledNext DEF SettledAt, Still
<1>2. trashes' # <<>> => HomeStays'
  <2>1. \A i, p : Untouched(ent, {}, i, p)
    BY DEF Untouched
  <2> QED
    BY <1>1, <2>1, HomeOn
<1> QED
  BY <1>1, <1>2 DEF Base

Named == /\ args # <<>> /\ IsDir(parent) /\ parent \in Handle
         /\ Reached(parent, Front(Path)) /\ Apart
LEMMA NamedOn ==
  ASSUME DiskOK, Still, Named, SessionOK, trashes # <<>>, UNCHANGED <<world, mounts, args, parent>>,
         Home' = Home, args \in Seq(Seq(Names) \ {<<>>}), SettledAt(ent'), Extends(ent', ent, {})
  PROVE  Named'
<1>1. Settled /\ EntOK(ent')
  BY StillSettled DEF SettledAt
<1>2. Path \in Seq(Names) /\ Path # <<>> /\ Path' = Path
  BY DEF Named, Path
<1>3. Front(Path) \in Seq(Names)
  BY <1>2, FrontOf
<1>4. Reached(parent, Front(Path))'
  <2>1. \A i, p : Untouched(ent, {}, i, p)
    BY DEF Untouched
  <2>2. \E m \in Range(mounts') : /\ m.id = parent.mnt /\ IsPrefix(m.point, Front(Path))
                                  /\ Way(ent', world'.tops[m.fs], FsPath(m, Front(Path))) = parent.ino
    BY <1>1, <1>3, <2>1, ReachedOn DEF Named
  <2>3. parent # None
    BY DEF Named, IsDir
  <2> QED
    BY <1>2, <2>2, <2>3 DEF Reached
<1>5. Apart'
  <2>1. HomeFiles' = HomeFiles /\ Home'.files = Home.files
    BY DEF HomeFiles
  <2> QED
    BY <1>2, <2>1 DEF Apart, Named
<1>6. (args # <<>> /\ IsDir(parent) /\ parent \in Handle)'
  <2>1. Handle' = Handle
    BY Fixed
  <2> QED
    BY <2>1 DEF Named, IsDir, attr
<1> QED
  BY <1>4, <1>5, <1>6 DEF Named

-----------------------------------------------------------------------------
(* The steps, while nobody else does anything.                             *)
LEMMA Unmoved ==
  ASSUME Settled, ent' = ent
  PROVE  SettledAt(ent') /\ Extends(ent', ent, {})
BY DEF Settled, Extends

(* At rest, or in a top directory.                                         *)
LEMMA Rests == ASSUME Base', pc' \notin Chosen \cup {"stat"} PROVE Still'
BY DEF Base, Still, Chosen

LEMMA AtTopRests ==
  ASSUME Base', Named', pc' \in Topdir,
         parent'.mnt = item'.mnt, attr'[parent'.ino].dev = attr'[item'.ino].dev
  PROVE  Still'
<1>1. pc' \notin {"top", "route", "move"}
  BY DEF Topdir, Found, Making
<1> QED
  BY <1>1 DEF Base, Named, Still, Chosen

LEMMA Calm ==
  ASSUME PlaceInv, PlaceInv', StillInv, Still, pc # "start",
         UNCHANGED <<world, ent, mounts, table, trashes>>
  PROVE  /\ Base'
         /\ Named /\ trashes # <<>> /\ args' = args /\ parent' = parent => Named'
<1>1. DiskOK /\ SessionOK /\ DiskOK'
  BY DEF PlaceInv
<1>2. Settled
  BY <1>1, StillSettled
<1>3. SettledAt(ent') /\ Extends(ent', ent, {})
  BY <1>2, Unmoved
<1>4. Home' = Home
  BY DEF Home
<1>5. Base'
  BY <1>1, <1>3, <1>4, BaseOn
<1>6. args \in Seq(Seq(Names) \ {<<>>})
  BY DEF StillInv
<1>7. Named /\ trashes # <<>> /\ args' = args /\ parent' = parent => Named'
  BY <1>1, <1>3, <1>4, <1>6, NamedOn
<1> QED
  BY <1>5, <1>7

LEMMA StillStart ==
  ASSUME PlaceInv, PlaceInv', Still, Start
  PROVE  Still'
<1>1. UNCHANGED <<world, ent, mounts, trashes>> /\ table' = mounts /\ pc' = "home"
  BY DEF Start, environment, Goto
<1>2. HomeFiles' = HomeFiles /\ Home' = Home
  BY <1>1 DEF HomeFiles, Home
<1>3. trashes' # <<>> => HomeStays'
  BY <1>1, <1>2 DEF Still, HomeStays, Reached, IsDir, attr
<1>4. Base'
  BY <1>1, <1>3 DEF Still, Base
<1> QED
  BY <1>1, <1>4, Rests DEF Chosen, Topdir, Found, Making

LEMMA Onwards ==
  ASSUME NEW e, NEW f, NEW g, Extends(f, e, {}), Extends(g, f, {})
  PROVE  Extends(g, e, {})
BY DEF Extends

LEMMA StillMakeHome ==
  ASSUME PlaceInv, PlaceInv', StillInv, Still, MakeHome
  PROVE  Still'
<1> DEFINE h == Lookup(world.data)
           e == Mkdir(ent, h, "Trash")
           t == Cross([h EXCEPT !.ino = e[<<h.ino, "Trash">>]])
<1>1. /\ UNCHANGED <<world, mounts, table, trashes>> /\ pc = "home" /\ pc' \in {"session", "end"}
      /\ \/ /\ h # None /\ <<h.ino, "Trash">> \in DOMAIN e
            /\ ent' = Mkdir(Mkdir(e, t, "files"), t, "info")
         \/ ent' = ent
  BY DEF MakeHome, environment, session, history, Goto
<1>2. DiskOK /\ SessionOK /\ DiskOK' /\ Settled /\ EntOK(ent)
  BY StillSettled DEF PlaceInv, DiskOK
<1>3. h \in Maybe
  BY <1>2, WorldIs, LookedUp
<1> HIDE DEF h
<1>4. SettledAt(ent') /\ Extends(ent', ent, {})
  <2>1. CASE ent' = ent
    BY <1>2, <2>1, Unmoved
  <2>2. CASE /\ h # None /\ <<h.ino, "Trash">> \in DOMAIN e
             /\ ent' = Mkdir(Mkdir(e, t, "files"), t, "info")
    <3>1. h \in Handle
      BY <1>3, <2>2 DEF Maybe
    <3>2. EntOK(e)
      BY <1>2, <3>1, MadeDir
    <3>3. SettledAt(e) /\ Extends(e, ent, {})
      BY <1>2, <3>1, MadeSettled DEF Settled
    <3> DEFINE i == e[<<h.ino, "Trash">>]
    <3>4. i \in Ino /\ attr[i].fs = attr[h.ino].fs
      BY <2>2, <3>2 DEF EntOK
    <3> HIDE DEF e
    <3>5. t \in Handle
      <4> HIDE DEF i
      <4>1. Cross([h EXCEPT !.ino = i]) \in Handle
        BY <1>2, <3>1, <3>4, EntryOpen
      <4> QED
        BY <4>1 DEF i
    <3> HIDE DEF t
    <3> DEFINE f == Mkdir(e, t, "files")
               g == Mkdir(f, t, "info")
    <3>6. SettledAt(f) /\ Extends(f, e, {})
      BY <3>3, <3>5, MadeSettled
    <3> HIDE DEF f
    <3>7. SettledAt(g) /\ Extends(g, f, {})
      BY <3>5, <3>6, MadeSettled
    <3> HIDE DEF g
    <3>8. Extends(g, ent, {})
      BY <3>3, <3>6, <3>7, Onwards
    <3>9. ent' = g
      BY <2>2 DEF f, g
    <3> QED
      BY <3>7, <3>8, <3>9
  <2> QED
    BY <1>1, <2>1, <2>2
<1>5. Home' = Home
  BY <1>1 DEF Home
<1>6. Base'
  BY <1>1, <1>2, <1>4, <1>5, BaseOn
<1> QED
  BY <1>1, <1>6, Rests DEF Chosen, Topdir, Found, Making

LEMMA HomeOf ==
  ASSUME UNCHANGED <<world, ent, mounts>>, Home'.dir.mnt = Home'.files.mnt, IsDir(Home'.files),
         Reached(Home'.dir, Home'.path), Reached(Home'.files, HomeFiles')
  PROVE  HomeStays'
BY DEF HomeStays, Reached, IsDir, attr

(* The home trash is where its path leads, and its files/ below it.        *)
LEMMA StillOpenSession ==
  ASSUME PlaceInv, PlaceInv', StillInv, Still, OpenSession
  PROVE  Still'
<1> DEFINE p == Append(world.data, "Trash")
           h == Lookup(p)
           t == AsTrash(p, h)
<1>1. /\ UNCHANGED <<world, ent, mounts, table>> /\ pc = "session" /\ pc' \in {"operand", "end"}
      /\ \/ Usable(h) /\ trashes' = Discover(t)
         \/ trashes' = trashes
  BY DEF OpenSession, environment, history, Goto
<1>2. DiskOK /\ SessionOK /\ DiskOK' /\ Settled
  BY StillSettled DEF PlaceInv
<1>3. CASE trashes' = trashes
  <2>1. Base'
    BY <1>1, <1>3, Calm
  <2> QED
    BY <1>1, <2>1, Rests DEF Chosen, Topdir, Found, Making
<1>4. CASE Usable(h) /\ trashes' = Discover(t)
  <2>1. p \in Seq(Names) /\ "files" \in Names
    <3>1. world.data \in Seq(Names) /\ "Trash" \in Names /\ "files" \in Names
      BY <1>2, WorldIs, NamesAssumption
    <3> QED
      BY <3>1, AppendProperties
  <2> HIDE DEF p
  <2>2. t \in TrashDir
    BY <1>2, <1>4, <2>1, Opened
  <2>3. Discover(t) \in Some(t)
    <3> HIDE DEF t
    <3> QED
      BY <1>2, <2>2, Discovered DEF SessionOK
  <2>4. Home' = t
    BY <1>4, <2>3 DEF Some, Home
  <2>5. t.path = p /\ t.dir = h /\ t.files = Enter(h, "files")
    BY DEF AsTrash
  <2>6. IsDir(h) /\ IsDir(Enter(h, "files")) /\ Enter(h, "files").mnt = h.mnt
    BY <1>4 DEF Usable
  <2> HIDE DEF t
  <2>7. Reached(h, p)
    BY <1>2, <2>1, <2>6, Leads DEF IsDir
  <2> DEFINE q == Append(p, "files")
             k == Enter(h, "files")
  <2>8. Lookup(q) = k /\ q \in Seq(Names)
    BY <1>2, <2>1, LookIs, AppendProperties
  <2>9. HomeFiles' = q
    BY <2>4, <2>5 DEF HomeFiles
  <2> HIDE DEF h, q
  <2>10. Reached(k, q)
    BY <1>2, <2>6, <2>8, Leads DEF IsDir
  <2> HIDE DEF k
  <2>11. /\ Home'.dir.mnt = Home'.files.mnt /\ IsDir(Home'.files)
         /\ Reached(Home'.dir, Home'.path) /\ Reached(Home'.files, HomeFiles')
    BY <2>4, <2>5, <2>6, <2>7, <2>9, <2>10 DEF k
  <2>12. HomeStays'
    BY <1>1, <2>11, HomeOf
  <2>13. Base'
    BY <1>1, <2>12 DEF Still, Base
  <2> QED
    BY <1>1, <2>13, Rests DEF Chosen, Topdir, Found, Making
<1> QED
  BY <1>1, <1>3, <1>4

LEMMA StillOperand ==
  ASSUME PlaceInv, PlaceInv', StillInv, Still, OpenParent \/ NoRoute \/ Copy
  PROVE  Still'
<1>1. UNCHANGED <<world, ent, mounts, table, trashes>> /\ pc # "start"
  BY DEF OpenParent, NoRoute, Copy, environment, session
<1>2. Base'
  BY <1>1, Calm
<1>3. CASE pc' \in {"operand", "copy"}
  BY <1>2, <1>3, Rests DEF Chosen, Topdir, Found, Making
<1>4. CASE pc' \notin {"operand", "copy"}
  <2> DEFINE w == Lookup(Front(Path))
  <2>1. args # <<>> /\ args' = args /\ IsDir(w) /\ parent' = w /\ pc' = "stat"
    BY <1>4 DEF OpenParent, NoRoute, Copy, NextOperand, Goto
  <2>2. w \in Maybe
    <3>1. Path \in Seq(Names) /\ Path # <<>>
      BY <2>1 DEF StillInv, Path
    <3>2. Front(Path) \in Seq(Names)
      BY <3>1, FrontOf
    <3> QED
      BY <3>2, LookedUp DEF PlaceInv
  <2> HIDE DEF w
  <2>3. w \in Handle
    BY <2>1, <2>2 DEF Maybe, IsDir
  <2>4. IsDir(parent)' /\ Handle' = Handle
    BY <1>1, <2>1, Fixed DEF IsDir, attr
  <2>5. pc' \notin Chosen /\ pc' \notin Topdir /\ pc' \notin {"top", "route", "move"}
    BY <2>1 DEF Chosen, Topdir, Found, Making
  <2>6. (args # <<>> /\ IsDir(parent) /\ parent \in Handle)'
    BY <2>1, <2>3, <2>4
  <2> QED
    BY <1>2, <2>1, <2>5, <2>6 DEF Base, Still
<1> QED
  BY <1>3, <1>4

(* A step in a top directory that makes nothing, or what may be made.      *)
LEMMA IsNamed == ASSUME Still, pc \in Chosen PROVE Named
BY DEF Still, Named

LEMMA SettledMade ==
  ASSUME PlaceInv, Still, NEW was, NEW w \in Handle, NEW n, Does(OpenOrMkdir(was, w, n))
  PROVE  SettledAt(ent') /\ Extends(ent', ent, {})
<1>1. Settled
  BY StillSettled DEF PlaceInv
<1>2. ent' = ent \/ ent' = Mkdir(ent, w, n)
  BY DEF Does, OpenOrMkdir
<1> QED
  BY <1>1, <1>2, Unmoved, MadeSettled DEF Settled

LEMMA StillInTop ==
  ASSUME PlaceInv, PlaceInv', StillInv, Still, pc \in Topdir,
         UNCHANGED <<world, mounts, table, trashes>>, SettledAt(ent'), Extends(ent', ent, {}),
         pc' \in {"operand", "copy"} \/ (pc' \in Topdir /\ UNCHANGED <<args, parent, item>>)
  PROVE  Still'
<1>1. pc # "start" /\ pc \in Chosen /\ pc \notin Before \cup {"end"}
  BY DEF Topdir, Found, Making, Chosen, Before
<1>2. DiskOK /\ SessionOK /\ DiskOK' /\ trashes # <<>> /\ Home' = Home
  BY <1>1 DEF PlaceInv, SessionOK, Home
<1>3. Base'
  BY <1>1, <1>2, BaseOn
<1>4. CASE pc' \in {"operand", "copy"}
  BY <1>3, <1>4, Rests DEF Chosen, Topdir, Found, Making
<1>5. CASE pc' \in Topdir /\ UNCHANGED <<args, parent, item>>
  <2>1. args \in Seq(Seq(Names) \ {<<>>}) /\ Named
    BY <1>1, IsNamed DEF StillInv
  <2>2. Named'
    BY <1>2, <1>5, <2>1, NamedOn
  <2>3. parent'.mnt = item'.mnt /\ attr'[parent'.ino].dev = attr'[item'.ino].dev
    BY <1>5, Fixed DEF Still
  <2> QED
    BY <1>3, <1>5, <2>2, <2>3, AtTopRests
<1> QED
  BY <1>4, <1>5

LEMMA StillTopdir ==
  ASSUME PlaceInv, PlaceInv', StillInv, Still,
         Look \/ Pick \/ Inside \/ MakeAdmin \/ MakeUser \/ MakeFiles \/ MakeInfo
  PROVE  Still'
<1>1. /\ UNCHANGED <<world, mounts, table, trashes>> /\ pc \in Topdir
      /\ pc' \in {"operand", "copy"} \/ (pc' \in Topdir /\ UNCHANGED <<args, parent, item>>)
  BY DEF Look, Pick, Inside, MakeAdmin, MakeUser, MakeFiles, MakeInfo, NextOperand, Goto, environment,
         session, operand, place, Topdir, Found, Making
<1>2. SettledAt(ent') /\ Extends(ent', ent, {})
  <2>1. CASE Look \/ Pick \/ Inside
    <3>1. ent' = ent
      BY <2>1 DEF Look, Pick, Inside
    <3> QED
      BY <3>1, StillSettled, Unmoved DEF PlaceInv
  <2>2. CASE MakeAdmin
    <3>1. Does(OpenOrMkdir(found.uid, found.admin, Uid)) /\ pc = "admin"
      BY <2>2 DEF MakeAdmin
    <3>2. found.admin \in Handle
      BY <3>1 DEF PlaceInv, AtTopdir, Found, Maybe
    <3> QED
      BY <3>1, <3>2, SettledMade
  <2>3. CASE MakeUser
    <3>1. Does(OpenOrMkdir(found.user, top, User)) /\ pc = "user"
      BY <2>3 DEF MakeUser
    <3>2. top \in Handle
      BY <3>1 DEF PlaceInv, AtTopdir, Topdir, Found
    <3> QED
      BY <3>1, <3>2, SettledMade
  <2>4. CASE MakeFiles \/ MakeInfo
    <3>1. pc \in {"files", "info"} /\ \E n : Does(OpenOrMkdir(None, trash.dir, n))
      BY <2>4 DEF MakeFiles, MakeInfo
    <3>2. trash.dir \in Handle
      BY <3>1 DEF PlaceInv, AtTopdir, Making
    <3>3. PICK n : Does(OpenOrMkdir(None, trash.dir, n))
      BY <3>1
    <3> QED
      BY <3>2, <3>3, SettledMade
  <2> QED
    BY <2>1, <2>2, <2>3, <2>4
<1> QED
  BY <1>1, <1>2, StillInTop

LEMMA StillAdd ==
  ASSUME PlaceInv, PlaceInv', StillInv, Still, Add
  PROVE  Still'
<1>1. /\ UNCHANGED <<world, ent, mounts, table, args, parent, item, trash>> /\ pc = "add"
      /\ \/ pc' = "copy" /\ trashes' = trashes
         \/ OnOwn /\ trashes' = Append(trashes, trash) /\ from' = parent /\ pc' = "move"
  BY DEF Add, environment, operand, history, Goto
<1>2. pc # "start" /\ pc \in Chosen /\ pc \in Topdir /\ pc \notin Before \cup {"end"}
  BY <1>1 DEF Topdir, Found, Making, Chosen, Before
<1>3. CASE pc' = "copy"
  <2>1. Base'
    BY <1>1, <1>2, <1>3, Calm
  <2> QED
    BY <1>3, <2>1, Rests DEF Chosen, Topdir, Found, Making
<1>4. CASE pc' = "move"
  <2>1. /\ DiskOK /\ SessionOK /\ DiskOK' /\ trashes # <<>> /\ trashes \in Seq(TrashDir)
        /\ trashes' = Append(trashes, trash) /\ trash \in TrashDir
    BY <1>1, <1>2, <1>4 DEF PlaceInv, AtTopdir, SessionOK, Making, Maybe, TrashDir
  <2>2. Home' = Home
    BY <2>1 DEF Home
  <2>3. SettledAt(ent') /\ Extends(ent', ent, {})
    BY <1>1, <2>1, StillSettled, Unmoved
  <2>4. Base'
    BY <1>1, <1>2, <2>1, <2>2, <2>3, BaseOn
  <2>5. args \in Seq(Seq(Names) \ {<<>>}) /\ Named
    BY <1>2, IsNamed DEF StillInv
  <2>6. Named'
    BY <1>1, <2>1, <2>2, <2>3, <2>5, NamedOn
  <2>7. Own.id = item.mnt
    BY <1>2, <2>1, OwnIs DEF PlaceInv, AtTopdir
  <2>8. parent.mnt = item.mnt /\ attr[parent.ino].dev = attr[item.ino].dev
    BY <1>2 DEF Still
  <2>9. trash.files.mnt = Own.id /\ attr[trash.files.ino].dev = attr[item.ino].dev
    BY <1>1, <1>4 DEF OnOwn
  <2>10. from'.mnt = trash'.files.mnt /\ attr'[from'.ino].dev = attr'[trash'.files.ino].dev
    BY <1>1, <1>4, <2>7, <2>8, <2>9, Fixed
  <2>11. pc' \notin Topdir /\ pc' \notin {"top", "route"}
    BY <1>4 DEF Topdir, Found, Making
  <2> QED
    BY <1>4, <2>4, <2>6, <2>10, <2>11 DEF Base, Named, Still
<1> QED
  BY <1>1, <1>3, <1>4

(* The mount of the argument, and its paths there.                         *)
LEMMA NamedIs ==
  ASSUME Settled, Named, args \in Seq(Seq(Names) \ {<<>>})
  PROVE  \E o \in Range(mounts) :
           /\ o.id = parent.mnt /\ IsPrefix(o.point, Front(Path)) /\ IsPrefix(o.point, Path)
           /\ Way(ent, TopOf(o), FsPath(o, Front(Path))) = parent.ino
           /\ FsPath(o, Path) = Append(FsPath(o, Front(Path)), Last(Path))
           /\ Front(Path) \in Seq(Names) /\ Last(Path) \in Names
           /\ parent.ino \in Ino /\ attr[parent.ino].kind = "dir"
<1>1. args # <<>> /\ IsDir(parent) /\ parent \in Handle /\ Reached(parent, Front(Path))
  BY DEF Named
<1>2. Path \in Seq(Names) /\ Path # <<>>
  BY <1>1 DEF Path
<1>3. Front(Path) \in Seq(Names) /\ Last(Path) \in Names /\ Path = Append(Front(Path), Last(Path))
  BY <1>2, FrontOf
<1>4. PICK o \in Range(mounts) : /\ o.id = parent.mnt /\ IsPrefix(o.point, Front(Path))
                                 /\ Way(ent, TopOf(o), FsPath(o, Front(Path))) = parent.ino
  BY <1>1 DEF Reached, TopOf
<1>5. o.point \in Seq(Names) /\ o.root \in Seq(Names)
  BY SettledIs
<1> DEFINE P == Path
           F == Front(P)
           n == Last(P)
<1>6. F \in Seq(Names) /\ n \in Names /\ IsPrefix(o.point, F)
  BY <1>3, <1>4
<1>10. P = Append(F, n)
  BY <1>3
<1> HIDE DEF P, F, n
<1>7. /\ IsPrefix(o.point, Append(F, n)) /\ FsPath(o, Append(F, n)) = Append(FsPath(o, F), n)
      /\ FsPath(o, F) \in Seq(Names)
  BY <1>5, <1>6, FsAppend
<1>8. IsPrefix(o.point, P) /\ FsPath(o, P) = Append(FsPath(o, F), n)
  BY <1>7, <1>10
<1>9. parent.ino \in Ino /\ attr[parent.ino].kind = "dir"
  BY <1>1 DEF IsDir, Handle
<1> QED
  BY <1>3, <1>4, <1>8, <1>9 DEF P, F, n

(* The rename takes the argument, and nothing on the way to a mount or to  *)
(* the home trash.                                                         *)
LEMMA StillMove ==
  ASSUME PlaceInv, PlaceInv', StillInv, Still, Move
  PROVE  Still'
<1> DEFINE f == [e \in DOMAIN ent \ {<<from.ino, Last(Path)>>} |-> ent[e]]
<1>1. /\ UNCHANGED <<world, mounts, table, trashes>> /\ pc = "move" /\ pc' \in {"copy", "operand"}
      /\ ent' = ent \/ ent' = f
  BY DEF Move, NextOperand, environment, session, Goto
<1>2. pc # "start" /\ pc \in Chosen /\ pc \notin Before \cup {"end"}
  BY <1>1 DEF Chosen, Before
<1>3. /\ DiskOK /\ SessionOK /\ DiskOK' /\ trashes # <<>> /\ Settled /\ from.ino = parent.ino
      /\ Home' = Home
  BY <1>1, <1>2, StillSettled DEF PlaceInv, SessionOK, AtMove, Home
<1> HIDE DEF f
<1>4. CASE ent' = ent
  <2>1. Base'
    BY <1>1, <1>2, <1>4, Calm
  <2> QED
    BY <1>1, <2>1, Rests DEF Chosen, Topdir, Found, Making
<1>5. CASE ent' = f
  <2>1. args \in Seq(Seq(Names) \ {<<>>}) /\ Named
    BY <1>2, IsNamed DEF StillInv
  <2>2. PICK o \in Range(mounts) :
           /\ o.id = parent.mnt /\ IsPrefix(o.point, Front(Path)) /\ IsPrefix(o.point, Path)
           /\ Way(ent, TopOf(o), FsPath(o, Front(Path))) = parent.ino
           /\ FsPath(o, Path) = Append(FsPath(o, Front(Path)), Last(Path))
           /\ Front(Path) \in Seq(Names) /\ Last(Path) \in Names
           /\ parent.ino \in Ino /\ attr[parent.ino].kind = "dir"
    BY <1>3, <2>1, NamedIs
  <2> DEFINE p == Front(Path)
             n == Last(Path)
             d == parent.ino
             A == Append(FsPath(o, p), n)
             X == {<<d, n>>}
  <2>3. \A m \in Range(mounts) : m.fs = o.fs =>
          /\ ~IsPrefix(A, m.root)
          /\ \A k \in Range(mounts) : k.parent = m.id => ~IsPrefix(A, FsPath(m, k.point))
          /\ m.id = Home.files.mnt => ~IsPrefix(A, FsPath(m, HomeFiles))
    BY <2>1, <2>2 DEF Named, Apart
  <2>4. /\ p \in Seq(Names) /\ n \in Names /\ d \in Ino /\ attr[d].kind = "dir"
        /\ IsPrefix(o.point, p) /\ Way(ent, TopOf(o), FsPath(o, p)) = d
    BY <2>2
  <2>5. f = [x \in DOMAIN ent \ X |-> ent[x]]
    BY <1>3 DEF f
  <2> HIDE DEF p, n, d
  <2>6. SettledAt(f) /\ Extends(f, ent, X)
    BY <1>3, <2>3, <2>4, <2>5, TakenSettled
  <2>7. HomeFiles \in Seq(Names)
    BY <1>3, HomeIs
  <2>8. ASSUME NEW m \in Range(mounts), m.id = Home.files.mnt
        PROVE  Untouched(ent, X, TopOf(m), FsPath(m, HomeFiles))
    <3>1. HomeStays
      BY <1>3 DEF Still
    <3>2. PICK k \in Range(mounts) : k.id = Home.files.mnt /\ IsPrefix(k.point, HomeFiles)
      BY <3>1 DEF HomeStays, Reached
    <3>3. k = m /\ m.point \in Seq(Names) /\ m.root \in Seq(Names)
      BY <1>3, <2>8, <3>2, SettledIs
    <3> DEFINE q == FsPath(m, HomeFiles)
    <3>4. q \in Seq(Names)
      BY <2>7, <3>2, <3>3, FsPaths
    <3>5. m.fs = o.fs => ~IsPrefix(A, q)
      BY <2>3, <2>8
    <3> HIDE DEF q
    <3>6. Untouched(ent, X, TopOf(m), q)
      BY <1>3, <2>4, <3>4, <3>5, NotOn
    <3> QED
      BY <3>6 DEF q
  <2>9. EntOK(ent')
    BY <1>5, <2>6 DEF SettledAt
  <2> HIDE DEF X
  <2>10. HomeStays'
    BY <1>1, <1>3, <1>5, <2>6, <2>8, <2>9, HomeOn
  <2>11. Settled' /\ Agree(world, ent, mounts)'
    BY <1>1, <1>3, <1>5, <2>6, SettledNext
  <2>12. table' = mounts' /\ mounts' = world'.mounts
    BY <1>1, <1>2 DEF Still
  <2>13. Base'
    BY <2>10, <2>11, <2>12 DEF Base
  <2> QED
    BY <1>1, <2>13, Rests DEF Chosen, Topdir, Found, Making
<1> QED
  BY <1>1, <1>4, <1>5

(* What paths lead to depends on the tree and the mounts alone.            *)
LEMMA SameWays ==
  ASSUME UNCHANGED <<world, ent, mounts>>
  PROVE  (\A p : Lookup(p)' = Lookup(p)) /\ (\A m : Visible(m)' = Visible(m))
<1>1. ASSUME NEW w PROVE Cross(w)' = Cross(w)
  BY DEF Cross, Covered, Over
<1>2. ASSUME NEW w, NEW n PROVE Enter(w, n)' = Enter(w, n)
  BY <1>1 DEF Enter, Child
<1>3. \A p : Lookup(p)' = Lookup(p)
  BY <1>1, <1>2 DEF Lookup
<1>4. \A m : Visible(m)' = Visible(m)
  <2>1. ASSUME NEW m, NEW c PROVE Onward(m, c)' = Onward(m, c)
    BY <1>2 DEF Onward
  <2> QED
    BY <1>3, <2>1 DEF Visible
<1> QED
  BY <1>3, <1>4

(* route(): the first candidate is a way, or it shows not both.            *)
LEMMA StillRoute ==
  ASSUME PlaceInv, PlaceInv', StillInv, Still, Route
  PROVE  Still'
<1> DEFINE c == Head(cands)
           a == Lookup(c.a)
           b == Lookup(c.b)
           good == ~c.mnt.ro /\ Verified(a, c.mnt.id, parent) /\ Verified(b, c.mnt.id, Home.files)
<1>1. /\ UNCHANGED <<world, ent, mounts, table, trashes, args, parent, item>>
      /\ pc = "route" /\ cands # <<>>
      /\ \/ good /\ from' = a /\ trash' = [Home EXCEPT !.files = b] /\ pc' = "move"
         \/ ~good /\ cands' = Tail(cands) /\ pc' = pc
  BY DEF Route, environment, session, operand, Goto
<1>2. pc # "start" /\ pc \in Chosen /\ pc \notin Before \cup {"end"}
  BY <1>1 DEF Chosen, Before
<1>3. trashes # <<>> /\ Named /\ HomeStays /\ Home \in TrashDir
  BY <1>2, IsNamed, HomeIs DEF PlaceInv, SessionOK, Still
<1>4. Base' /\ Named'
  BY <1>1, <1>2, <1>3, Calm
<1>5. Home' = Home /\ attr' = attr
  BY <1>1, Fixed DEF Home
<1>6. attr[parent.ino].dev = attr[Home.files.ino].dev /\ Untried
  BY <1>1 DEF Still
<1>7. pc' \notin Topdir /\ pc' # "top"
  BY <1>1 DEF Topdir, Found, Making
<1> HIDE DEF a, b
<1>8. CASE good /\ from' = a /\ trash' = [Home EXCEPT !.files = b] /\ pc' = "move"
  <2>1. trash'.files = b
    BY <1>3, <1>8 DEF TrashDir
  <2>2. from'.mnt = trash'.files.mnt /\ attr'[from'.ino].dev = attr'[trash'.files.ino].dev
    BY <1>5, <1>6, <1>8, <2>1 DEF Verified
  <2> QED
    BY <1>4, <1>7, <1>8, <2>2 DEF Base, Named, Still
<1>9. CASE ~good /\ cands' = Tail(cands) /\ pc' = pc
  <2>1. ASSUME NEW m \in Range(mounts), ~m.ro, {parent.ino, Home.files.ino} \subseteq Visible(m)
        PROVE  \E k \in 1..Len(cands') :
                 /\ cands'[k].mnt = m
                 /\ Lookup(cands'[k].a) = [mnt |-> m.id, ino |-> parent.ino]
                 /\ Lookup(cands'[k].b) = [mnt |-> m.id, ino |-> Home.files.ino]
    <3>1. PICK k \in 1..Len(cands) : /\ cands[k].mnt = m
                                     /\ Lookup(cands[k].a) = [mnt |-> m.id, ino |-> parent.ino]
                                     /\ Lookup(cands[k].b) = [mnt |-> m.id, ino |-> Home.files.ino]
      BY <1>6, <2>1 DEF Untried
    <3>2. PICK S : cands \in Seq(S)
      BY DEF StillInv
    <3>3. k # 1
      <4> SUFFICES ASSUME k = 1 PROVE FALSE
        OBVIOUS
      <4>1. c = cands[k]
        BY <1>1, <3>2
      <4>2. c.mnt = m /\ a = [mnt |-> m.id, ino |-> parent.ino] /\ b = [mnt |-> m.id, ino |-> Home.files.ino]
        BY <3>1, <4>1 DEF a, b
      <4> HIDE DEF c
      <4>3. IsDir(parent) /\ IsDir(Home.files) /\ None \notin Handle /\ parent \in Handle /\ Home.files \in Handle
        BY <1>3, WorldIs DEF HomeStays, Named, TrashDir, PlaceInv
      <4>4. a # None /\ b # None
        <5>1. parent.ino \in Ino /\ Home.files.ino \in Ino /\ m.id \in Nat
          BY <4>3, WorldIs DEF Handle, PlaceInv
        <5> QED
          BY <4>2, <5>1, NoneAssumption
      <4>5. Verified(a, m.id, parent) /\ Verified(b, m.id, Home.files)
        BY <4>2, <4>3, <4>4 DEF Verified, IsDir
      <4> QED
        BY <1>9, <2>1, <4>2, <4>5
    <3>4. k - 1 \in 1..Len(Tail(cands)) /\ Tail(cands)[k - 1] = cands[k]
      BY <1>1, <3>1, <3>2, <3>3
    <3> QED
      BY <1>9, <3>1, <3>4
  <2>2. (\A p : Lookup(p)' = Lookup(p)) /\ (\A m : Visible(m)' = Visible(m))
    BY <1>1, SameWays
  <2>3. Untried'
    BY <1>1, <1>5, <2>1, <2>2 DEF Untried
  <2> QED
    BY <1>1, <1>4, <1>5, <1>6, <1>7, <1>9, <2>3 DEF Base, Named, Still
<1> QED
  BY <1>1, <1>8, <1>9

(* The argument is in the subvolume that its top directory is in: so is    *)
(* the directory it is in.                                                 *)
LEMMA StillOpenTop ==
  ASSUME PlaceInv, PlaceInv', StillInv, Still, OpenTop
  PROVE  Still'
<1> DEFINE w == Lookup(Own.point)
<1>1. /\ UNCHANGED <<world, ent, mounts, table, trashes, args, parent, item>> /\ pc = "top"
      /\ \/ pc' = "copy"
         \/ /\ w # None /\ w.mnt = Own.id /\ attr[w.ino].dev = attr[item.ino].dev /\ pc' = "look"
  BY DEF OpenTop, Unusable, environment, session, operand, Goto
<1>2. pc # "start" /\ pc \in Chosen /\ pc \in Topdir \cup {"top"} /\ pc \notin Before \cup {"end"}
  BY <1>1 DEF Chosen, Before
<1>3. trashes # <<>> /\ Named /\ Settled /\ table = mounts
  BY <1>2, IsNamed, StillSettled DEF PlaceInv, SessionOK, Still
<1>4. Base' /\ Named'
  BY <1>1, <1>2, <1>3, Calm
<1> HIDE DEF w
<1>5. CASE pc' = "copy"
  BY <1>4, <1>5, Rests DEF Chosen, Topdir, Found, Making
<1>6. CASE w # None /\ w.mnt = Own.id /\ attr[w.ino].dev = attr[item.ino].dev /\ pc' = "look"
  <2>1. parent.mnt = item.mnt /\ item.ino = Child(parent.ino, Last(Path)) /\ item.ino \in Ino
    BY <1>1, <1>2 DEF Still
  <2>2. PICK o \in Range(mounts) :
           /\ o.id = parent.mnt /\ IsPrefix(o.point, Front(Path)) /\ IsPrefix(o.point, Path)
           /\ Way(ent, TopOf(o), FsPath(o, Front(Path))) = parent.ino
           /\ FsPath(o, Path) = Append(FsPath(o, Front(Path)), Last(Path))
           /\ Front(Path) \in Seq(Names) /\ Last(Path) \in Names
           /\ parent.ino \in Ino /\ attr[parent.ino].kind = "dir"
    BY <1>3, NamedIs DEF StillInv
  <2>3. Own = o
    BY <1>3, <2>1, <2>2, ByIdIs DEF Own
  <2>4. o.point \in Seq(Names) /\ o.root \in Seq(Names)
    BY <1>3, SettledIs
  <2>5. PICK k \in Range(mounts) : k.id = w.mnt /\ Way(ent, TopOf(k), FsPath(k, o.point)) = w.ino
    BY <1>3, <1>6, <2>3, <2>4, Leads DEF Reached, TopOf, w
  <2>6. k = o /\ FsPath(o, o.point) = o.root
    <3>1. k = o
      <4>1. k.id = o.id
        BY <1>3, <1>6, <2>1, <2>2, <2>3, <2>5
      <4> QED
        BY <1>3, <4>1, SettledIs
    <3>2. IsPrefix(o.point, o.point)
      BY <2>4, PrefixSelf
    <3>3. FsPath(o, o.point) = o.root
      BY <2>4, <3>2, FsPaths
    <3> QED
      BY <3>1, <3>3
  <2>7. Way(ent, TopOf(o), o.root) = w.ino
    BY <2>5, <2>6
  <2> DEFINE p == Front(Path)
             n == Last(Path)
             d == parent.ino
             i == item.ino
             A == Append(FsPath(o, p), n)
  <2>8. ~IsPrefix(A, o.root)
    BY <1>3, <2>2 DEF Named, Apart
  <2>9. /\ p \in Seq(Names) /\ n \in Names /\ d \in Ino /\ attr[d].kind = "dir" /\ IsPrefix(o.point, p)
        /\ Way(ent, TopOf(o), FsPath(o, p)) = d /\ i \in Ino /\ ChildIn(ent, d, n) = i
    BY <2>1, <2>2 DEF Child
  <2>10. attr[w.ino].dev = attr[i].dev /\ w.ino # None
    <3>1. w \in Maybe
      BY <2>3, <2>4, LookedUp DEF w, PlaceInv
    <3> QED
      BY <1>6, <3>1, NoneAssumption DEF Maybe, Handle
  <2> HIDE DEF p, n, d, i
  <2>11. attr[i].dev = attr[d].dev
    BY <1>3, <2>4, <2>7, <2>8, <2>9, <2>10, IntoVolume
  <2>12. parent'.mnt = item'.mnt /\ attr'[parent'.ino].dev = attr'[item'.ino].dev
    BY <1>1, <2>1, <2>11, Fixed DEF d, i
  <2> QED
    BY <1>4, <1>6, <2>12, AtTopRests DEF Topdir
<1> QED
  BY <1>1, <1>5, <1>6

LEMMA PrefixAppend ==
  ASSUME NEW S, NEW x \in Seq(S), NEW r \in Seq(S), NEW n \in S, IsPrefix(x, Append(r, n))
  PROVE  IsPrefix(x, r) \/ x = Append(r, n)
<1> DEFINE a == Append(r, n)
           b == Beyond(x, a)
<1>1. a \in Seq(S)
  BY AppendProperties
<1>2. b \in Seq(S) /\ a = x \o b
  BY <1>1, Splits
<1> HIDE DEF b
<1>3. CASE b = <<>>
  BY <1>2, <1>3, ConcatEmptySeq
<1>4. CASE b # <<>>
  <2>1. PICK q \in Seq(S), k \in S : b = Append(q, k)
    BY <1>2, <1>4, SequenceEmptyOrAppend
  <2>2. a = Append(x \o q, k) /\ x \o q \in Seq(S)
    BY <1>2, <2>1, AppendOn
  <2>3. r = x \o q
    <3> DEFINE t == x \o q
    <3>1. t \in Seq(S) /\ Append(r, n) = Append(t, k)
      BY <2>2
    <3> HIDE DEF t
    <3>2. k \in S
      BY <2>1
    <3>3. r = t
      BY <3>1, <3>2, AppendInjective
    <3> QED
      BY <3>3 DEF t
  <2> QED
    BY <2>3, Splits
<1> QED
  BY <1>3, <1>4

LEMMA PrefixSame ==
  ASSUME NEW S, NEW r \in Seq(S), NEW b \in Seq(S), IsPrefix(r \o b, r)
  PROVE  b = <<>>
<1> DEFINE c == Beyond(r \o b, r)
<1>1. r \o b \in Seq(S) /\ Len(r \o b) = Len(r) + Len(b)
  BY ConcatProperties
<1>2. c \in Seq(S) /\ r = (r \o b) \o c
  BY <1>1, Splits
<1> HIDE DEF c
<1>3. Len(r) = Len(r) + Len(b) + Len(c)
  BY <1>1, <1>2, ConcatProperties
<1>4. Len(r) \in Nat /\ Len(b) \in Nat /\ Len(c) \in Nat
  BY <1>2
<1>5. Len(b) = 0
  BY <1>3, <1>4
<1> QED
  BY <1>5, EmptySeq

(* What mount_conflict() finds nothing of: the argument holds no root of a *)
(* mount and no mount point.                                               *)
LEMMA NoConflict ==
  ASSUME Settled, NEW o \in Range(mounts), NEW p \in Seq(Names), IsPrefix(o.point, p), NEW b,
         ~MountConflict(mounts, o, p, b), NEW m \in Range(mounts), m.fs = o.fs
  PROVE  /\ ~IsPrefix(FsPath(o, p), m.root)
         /\ \A n \in Range(mounts) : n.parent = m.id => ~IsPrefix(FsPath(o, p), FsPath(m, n.point))
<1> DEFINE q == FsPath(o, p)
<1>1. o.point \in Seq(Names) /\ o.root \in Seq(Names) /\ m.point \in Seq(Names) /\ m.root \in Seq(Names)
  BY SettledIs
<1>2. q \in Seq(Names) /\ q = o.root \o Beyond(o.point, p)
  BY <1>1, FsPaths
<1>3. q # None /\ m.root # None /\ \A r \in Seq(Names) : r # None
  BY <1>1, <1>2, NoneAssumption
<1> HIDE DEF q
<1>4. ~IsPrefix(q, m.root)
  <2>1. CASE m.id # o.id
    BY <1>3, <2>1 DEF MountConflict, Beneath, q
  <2>2. CASE m.id = o.id
    <3>1. m = o
      BY <2>2, SettledIs
    <3> SUFFICES ASSUME IsPrefix(q, o.root) PROVE FALSE
      BY <3>1
    <3> DEFINE e == Beyond(o.point, p)
    <3>2. e \in Seq(Names) /\ p = o.point \o e
      BY <1>1, Splits
    <3>3. q = o.root \o e
      BY <1>2
    <3> HIDE DEF e
    <3>4. e = <<>>
      BY <1>1, <3>2, <3>3, PrefixSame
    <3>5. p = o.point
      BY <1>1, <3>2, <3>4, ConcatEmptySeq
    <3> QED
      BY <3>5 DEF MountConflict
  <2> QED
    BY <2>1, <2>2
<1>5. ASSUME NEW n \in Range(mounts), n.parent = m.id PROVE ~IsPrefix(q, FsPath(m, n.point))
  <2>1. HasId(mounts, n.parent) /\ ById(mounts, n.parent) = m
    BY <1>5, ByIdIs
  <2>2. Under(mounts, n) = [fs |-> m.fs, at |-> FsPath(m, n.point)]
    BY <2>1 DEF Under
  <2>3. n.point \in Seq(Names) /\ IsPrefix(m.point, n.point)
    BY <1>5, SettledIs
  <2>4. FsPath(m, n.point) \in Seq(Names)
    BY <1>1, <2>3, FsPaths
  <2> DEFINE u == FsPath(m, n.point)
  <2>5. Under(mounts, n).fs = o.fs /\ Under(mounts, n).at = u /\ u # None
    BY <1>3, <2>2, <2>4
  <2> HIDE DEF u
  <2>6. ~Beneath(q, u)
    BY <2>5 DEF MountConflict, q
  <2> QED
    BY <1>3, <2>5, <2>6 DEF Beneath, u
<1> QED
  BY <1>4, <1>5 DEF q

(* put_one(): what is refused neither as a mount nor for a trash holds     *)
(* none of them.                                                           *)
Passes(st, own) ==
  /\ args # <<>> /\ IsDir(parent) /\ parent \in Handle /\ Lookup(Front(Path)) = parent
  /\ st = Enter(parent, Last(Path)) /\ st # None /\ HasId(table, st.mnt) /\ own = ById(table, st.mnt)
  /\ ~InsideTrash /\ ~ContainsTrash(own) /\ ~MountConflict(table, own, Path, st.mnt # parent.mnt)
Ready == /\ DiskOK /\ SessionOK /\ Settled /\ HomeStays /\ trashes # <<>> /\ table = mounts
         /\ args \in Seq(Seq(Names) \ {<<>>})

LEMMA PassesIs ==
  ASSUME Ready, NEW st, NEW own, Passes(st, own)
  PROVE  /\ st.mnt = parent.mnt /\ st \in Handle
         /\ own \in Range(mounts) /\ own.id = parent.mnt
         /\ own.point \in Seq(Names) /\ own.root \in Seq(Names)
         /\ Path \in Seq(Names) /\ Path # <<>> /\ Front(Path) \in Seq(Names) /\ Last(Path) \in Names
         /\ IsPrefix(own.point, Front(Path)) /\ IsPrefix(own.point, Path)
         /\ FsPath(own, Front(Path)) \in Seq(Names)
         /\ FsPath(own, Path) = Append(FsPath(own, Front(Path)), Last(Path))
         /\ Way(ent, TopOf(own), FsPath(own, Front(Path))) = parent.ino
         /\ Way(ent, TopOf(own), FsPath(own, Path)) = st.ino
         /\ ChildIn(ent, parent.ino, Last(Path)) = st.ino
         /\ Reached(parent, Front(Path))
<1> DEFINE p == Front(Path)
           n == Last(Path)
<1>1. Path \in Seq(Names) /\ Path # <<>>
  BY DEF Passes, Ready, Path
<1>2. p \in Seq(Names) /\ n \in Names /\ Path = Append(p, n)
  BY <1>1, FrontOf
<1>3. Lookup(p) = parent /\ st = Enter(parent, n) /\ st # None /\ parent # None /\ parent \in Handle
  BY DEF Passes, IsDir
<1> HIDE DEF p, n
<1>4. st \in Handle
  BY <1>3, Entered DEF Maybe, Ready
<1>5. st.mnt = parent.mnt
  BY DEF Passes, MountConflict
<1>6. PICK m \in Range(mounts) : m.id = st.mnt
  BY DEF Passes, HasId, Ready
<1>7. own = m
  BY <1>6, ByIdIs DEF Passes, Ready
<1>8. own.point \in Seq(Names) /\ own.root \in Seq(Names) /\ own \in Range(mounts) /\ own.id = st.mnt
  BY <1>6, <1>7, SettledIs DEF Ready
<1>9. Reached(parent, p)
  <2>1. Reached(Lookup(p), p)
    BY <1>2, <1>3, Leads DEF Ready
  <2> QED
    BY <1>3, <2>1
<1>10. Reached(st, Append(p, n))
  <2>1. Lookup(Append(p, n)) = st /\ Append(p, n) \in Seq(Names)
    BY <1>2, <1>3, LookIs, AppendProperties DEF Ready
  <2> DEFINE q == Append(p, n)
  <2>2. q \in Seq(Names) /\ Lookup(q) # None /\ Lookup(q) = st
    BY <1>3, <2>1
  <2> HIDE DEF q
  <2>3. Reached(Lookup(q), q)
    BY <2>2, Leads DEF Ready
  <2> QED
    BY <2>2, <2>3 DEF q
<1>11. IsPrefix(own.point, p) /\ Way(ent, TopOf(own), FsPath(own, p)) = parent.ino
  BY <1>5, <1>8, <1>9, SettledIs DEF Reached, TopOf, Ready
<1>12. Way(ent, TopOf(own), FsPath(own, Append(p, n))) = st.ino
  BY <1>8, <1>10, SettledIs DEF Reached, TopOf, Ready
<1>13. /\ IsPrefix(own.point, Append(p, n)) /\ FsPath(own, Append(p, n)) = Append(FsPath(own, p), n)
       /\ FsPath(own, p) \in Seq(Names)
  BY <1>2, <1>8, <1>11, FsAppend
<1>14. ChildIn(ent, parent.ino, n) = st.ino
  <2> DEFINE F == FsPath(own, p)
             i == TopOf(own)
  <2>1. F \in Seq(Names) /\ i \in Ino /\ Entries(ent) /\ n \in Names
        /\ Way(ent, i, F) = parent.ino /\ Way(ent, i, Append(F, n)) = st.ino
    BY <1>2, <1>8, <1>11, <1>12, <1>13, SettledIs DEF IsTop, Ready
  <2> HIDE DEF F, i
  <2> QED
    BY <2>1, WayIs
<1> QED
  BY <1>1, <1>2, <1>4, <1>5, <1>8, <1>9, <1>11, <1>12, <1>13, <1>14 DEF p, n

(* An argument that is no trash, in none and holds none is not on the way  *)
(* to the home trash's files/.                                             *)
LEMMA NotHomeFiles ==
  ASSUME Ready, NEW st, NEW own, Passes(st, own), NEW m \in Range(mounts), m.fs = own.fs, m.id = Home.files.mnt
  PROVE  ~IsPrefix(FsPath(own, Path), FsPath(m, HomeFiles))
<1> DEFINE F == FsPath(own, Front(Path))
           n == Last(Path)
           A == FsPath(own, Path)
           H == FsPath(m, Home.path)
<1>1. A = Append(F, n) /\ F \in Seq(Names) /\ n \in Names
  BY PassesIs
<1>2. Home.dir.mnt = m.id /\ Reached(Home.dir, Home.path) /\ Reached(Home.files, HomeFiles)
  BY DEF Ready, HomeStays
<1>3. Home.path \in Seq(Names) /\ Home \in Range(trashes)
  <2>1. trashes \in Seq(TrashDir) /\ trashes # <<>>
    BY DEF Ready, SessionOK
  <2>2. 1 \in DOMAIN trashes /\ Home = trashes[1]
    BY <2>1 DEF Home
  <2> QED
    BY <2>2, HomeIs DEF Range, Ready
<1>4. m.point \in Seq(Names) /\ m.root \in Seq(Names)
  BY SettledIs DEF Ready
<1>5. IsPrefix(m.point, Home.path) /\ Way(ent, TopOf(m), H) = Home.dir.ino
      /\ Way(ent, TopOf(m), FsPath(m, HomeFiles)) = Home.files.ino
  BY <1>2, SettledIs DEF Reached, TopOf, Ready
<1>6. FsPath(m, HomeFiles) = Append(H, "files") /\ H \in Seq(Names) /\ "files" \in Names
  <2>1. "files" \in Names
    BY NamesAssumption
  <2> QED
    BY <1>3, <1>4, <1>5, <2>1, FsAppend DEF HomeFiles
<1>7. TopOf(own) = TopOf(m)
  BY DEF TopOf
<1>8. Way(ent, TopOf(own), F) = parent.ino
  BY PassesIs
<1>9. A \in Seq(Names) /\ A # None /\ H # None
  <2> HIDE DEF F, n, A, H
  <2>1. A \in Seq(Names)
    BY <1>1, AppendProperties
  <2> QED
    BY <1>6, <2>1, NoneAssumption
<1>10. ~IsPrefix(A, H)
  <2>1. HasId(table, Home.dir.mnt) /\ ById(table, Home.dir.mnt) = m
    BY <1>2, ByIdIs DEF Ready
  <2>2. ~Beneath(A, H)
    BY <1>3, <2>1 DEF Passes, ContainsTrash
  <2> QED
    BY <1>9, <2>2 DEF Beneath
<1> HIDE DEF F, n, A, H
<1>11. A # Append(H, "files")
  <2> SUFFICES ASSUME A = Append(H, "files") PROVE FALSE
    OBVIOUS
  <2>1. F = H
    BY <1>1, <1>6, AppendInjective
  <2>2. parent.ino = Home.dir.ino
    BY <1>5, <1>7, <1>8, <2>1
  <2>3. Lookup(SubSeq(Path, 1, Len(Path) - 1)) = parent /\ parent # None
    BY DEF Passes, IsDir, Front
  <2>4. Len(Path) - 1 \in 0..Len(Path)
    <3>1. Path \in Seq(Names) /\ Path # <<>>
      BY PassesIs
    <3> QED
      BY <3>1
  <2>5. InsideTrash
    BY <1>3, <2>2, <2>3, <2>4 DEF InsideTrash
  <2> QED
    BY <2>5 DEF Passes
<1>12. ~IsPrefix(A, Append(H, "files"))
  <2> SUFFICES ASSUME IsPrefix(A, Append(H, "files")) PROVE FALSE
    OBVIOUS
  <2>1. A \in Seq(Names) /\ H \in Seq(Names) /\ "files" \in Names
    BY <1>6, <1>9
  <2>2. IsPrefix(A, H) \/ A = Append(H, "files")
    BY <2>1, PrefixAppend
  <2> QED
    BY <1>10, <1>11, <2>2
<1> QED
  BY <1>6, <1>12 DEF A

LEMMA PassesNamed ==
  ASSUME Ready, NEW st, NEW own, Passes(st, own)
  PROVE  Named
<1>1. args # <<>> /\ IsDir(parent) /\ parent \in Handle /\ Reached(parent, Front(Path))
      /\ own \in Range(mounts) /\ own.id = parent.mnt
  BY PassesIs DEF Passes
<1>2. ASSUME NEW o \in Range(mounts), NEW m \in Range(mounts), o.id = parent.mnt, m.fs = o.fs
      PROVE  /\ ~IsPrefix(FsPath(o, Path), m.root)
             /\ \A n \in Range(mounts) : n.parent = m.id => ~IsPrefix(FsPath(o, Path), FsPath(m, n.point))
             /\ m.id = Home.files.mnt => ~IsPrefix(FsPath(o, Path), FsPath(m, HomeFiles))
  <2>1. o = own
    BY <1>1, <1>2, SettledIs DEF Ready
  <2>2. Path \in Seq(Names) /\ IsPrefix(own.point, Path) /\ Settled
        /\ ~MountConflict(mounts, own, Path, st.mnt # parent.mnt)
    BY PassesIs DEF Passes, Ready
  <2> DEFINE p == Path
             b == st.mnt # parent.mnt
  <2>3. p \in Seq(Names) /\ IsPrefix(own.point, p) /\ ~MountConflict(mounts, own, p, b) /\ m.fs = own.fs
    BY <1>2, <2>1, <2>2
  <2> HIDE DEF p, b
  <2>4. /\ ~IsPrefix(FsPath(own, p), m.root)
        /\ \A n \in Range(mounts) : n.parent = m.id => ~IsPrefix(FsPath(own, p), FsPath(m, n.point))
    BY <1>1, <2>2, <2>3, NoConflict
  <2>5. m.id = Home.files.mnt => ~IsPrefix(FsPath(own, Path), FsPath(m, HomeFiles))
    BY <2>3, NotHomeFiles
  <2> QED
    BY <2>1, <2>4, <2>5 DEF p
<1>3. Apart
  BY <1>2 DEF Apart
<1> QED
  BY <1>1, <1>3 DEF Named

(* What is in the subvolume of the home trash is in a directory of it.     *)
LEMMA SameVolume ==
  ASSUME Ready, NEW st, NEW own, Passes(st, own), attr[st.ino].dev = attr[Home.files.ino].dev
  PROVE  attr[parent.ino].dev = attr[Home.files.ino].dev
<1>1. HomeStays /\ Settled /\ DiskOK
  BY DEF Ready
<1>2. PICK m \in Range(mounts) : /\ m.id = Home.files.mnt /\ IsPrefix(m.point, HomeFiles)
                                 /\ Way(ent, TopOf(m), FsPath(m, HomeFiles)) = Home.files.ino
  BY <1>1 DEF HomeStays, Reached, TopOf
<1>3. Home.files \in Handle /\ HomeFiles \in Seq(Names)
  BY HomeIs DEF Ready
<1>4. st \in Handle /\ own \in Range(mounts) /\ own.id = st.mnt /\ parent \in Handle /\ attr[parent.ino].kind = "dir"
  BY PassesIs DEF Passes, IsDir
<1>5. own \in Known(world) /\ m \in Known(world)
  BY <1>1, <1>2, <1>4, SettledIs
<1>6. own.fs = m.fs
  <2>1. attr[st.ino].fs = own.fs /\ attr[Home.files.ino].fs = m.fs
    BY <1>2, <1>3, <1>4, <1>5 DEF Handle
  <2>2. st.ino \in Ino /\ Home.files.ino \in Ino
    BY <1>3, <1>4 DEF Handle
  <2> QED
    BY <1>1, <2>1, <2>2, WorldIs
<1> DEFINE p == Front(Path)
           n == Last(Path)
           d == parent.ino
           i == st.ino
           q == FsPath(m, HomeFiles)
           A == Append(FsPath(own, p), n)
<1>7. /\ p \in Seq(Names) /\ n \in Names /\ d \in Ino /\ attr[d].kind = "dir" /\ IsPrefix(own.point, p)
      /\ Way(ent, TopOf(own), FsPath(own, p)) = d /\ i \in Ino /\ ChildIn(ent, d, n) = i
  BY <1>4, PassesIs DEF Handle
<1>8. q \in Seq(Names)
  <2>1. m.point \in Seq(Names) /\ m.root \in Seq(Names)
    BY <1>1, <1>2, SettledIs
  <2> QED
    BY <1>2, <1>3, <2>1, FsPaths
<1>9. Way(ent, TopOf(m), q) # None /\ attr[Way(ent, TopOf(m), q)].dev = attr[i].dev
  <2>1. Home.files.ino # None
    BY <1>3, NoneAssumption DEF Handle
  <2> QED
    BY <1>2, <2>1
<1>10. ~IsPrefix(A, q)
  BY <1>2, <1>6, NotHomeFiles, PassesIs
<1> HIDE DEF p, n, d, i, q
<1>11. attr[i].dev = attr[d].dev
  BY <1>1, <1>4, <1>6, <1>2, <1>7, <1>8, <1>9, <1>10, IntoVolume
<1> QED
  BY <1>11 DEF i, d

LEMMA StillCheck ==
  ASSUME PlaceInv, PlaceInv', StillInv, Still, Check
  PROVE  Still'
<1> DEFINE st == Enter(parent, Last(Path))
           own == ById(table, st.mnt)
<1>1. UNCHANGED <<world, ent, mounts, table, trashes>> /\ pc = "stat"
  BY DEF Check, environment, session
<1>2. pc # "start" /\ pc \notin Before \cup {"end"}
  BY <1>1 DEF Before
<1>3. Base'
  BY <1>1, <1>2, Calm
<1>4. \/ pc' = "operand"
      \/ /\ st # None /\ HasId(table, st.mnt) /\ Lookup(Front(Path)) = parent
         /\ ~InsideTrash /\ ~ContainsTrash(own) /\ ~MountConflict(table, own, Path, st.mnt # parent.mnt)
         /\ item' = st /\ pc' = Choose(st, own) /\ UNCHANGED <<args, parent>>
         /\ cands' = IF Choose(st, own) # "route" THEN <<>>
                     ELSE Candidates(table, ById(table, parent.mnt), Front(Path),
                                     ById(table, Home.files.mnt), Append(Home.path, "files"))
  BY DEF Check, NextOperand, Goto
<1>5. CASE pc' = "operand"
  BY <1>3, <1>5, Rests DEF Chosen, Topdir, Found, Making
<1>6. CASE pc' # "operand"
  <2>1. args # <<>> /\ IsDir(parent) /\ parent \in Handle
    BY <1>1 DEF Still
  <2>2. Passes(st, own)
    BY <1>4, <1>6, <2>1 DEF Passes
  <2>3. Ready
    <3>1. DiskOK /\ SessionOK /\ trashes # <<>>
      BY <1>2 DEF PlaceInv, SessionOK
    <3>2. HomeStays /\ table = mounts /\ args \in Seq(Seq(Names) \ {<<>>})
      BY <1>2, <3>1 DEF Still, StillInv
    <3> QED
      BY <3>1, <3>2, StillSettled DEF Ready
  <2>4. /\ item' = st /\ pc' = Choose(st, own) /\ UNCHANGED <<args, parent>>
        /\ pc' = "route" => cands' = Candidates(table, ById(table, parent.mnt), Front(Path),
                                                ById(table, Home.files.mnt), HomeFiles)
    BY <1>4, <1>6 DEF HomeFiles
  <2>5. /\ pc' \in {"route", "top", "copy"}
        /\ pc' = "route" => attr[st.ino].dev = attr[Home.files.ino].dev
    BY <2>4 DEF Choose
  <2> HIDE DEF st, own
  <2>6. Named
    BY <2>2, <2>3, PassesNamed
  <2>7. /\ st.mnt = parent.mnt /\ st.ino = Child(parent.ino, Last(Path)) /\ st.ino \in Ino
        /\ Front(Path) \in Seq(Names) /\ Reached(parent, Front(Path))
    BY <2>2, <2>3, PassesIs DEF Child, Handle
  <2>8. Named'
    BY <1>1, <1>2, <2>3, <2>4, <2>6, Calm DEF Ready
  <2>9. Home' = Home /\ attr' = attr
    BY <1>1, Fixed DEF Home
  <2>10. pc' \notin Topdir /\ pc' # "move"
    BY <2>5 DEF Topdir, Found, Making
  <2>11. CASE pc' = "copy"
    BY <1>3, <2>11, Rests DEF Chosen, Topdir, Found, Making
  <2>12. CASE pc' = "top"
    <3>1. parent'.mnt = item'.mnt /\ item'.ino \in Ino
      BY <2>4, <2>7
    <3>2. item'.ino = Child(parent.ino, Last(Path))'
      BY <1>1, <2>4, <2>7 DEF Child, Path
    <3> QED
      BY <1>3, <2>8, <2>10, <2>12, <3>1, <3>2 DEF Base, Named, Still
  <2>13. CASE pc' = "route"
    <3>1. attr[parent.ino].dev = attr[Home.files.ino].dev
      BY <2>2, <2>3, <2>5, <2>13, SameVolume
    <3> DEFINE C == Candidates(table, ById(table, parent.mnt), Front(Path), ById(table, Home.files.mnt), HomeFiles)
    <3>2. ASSUME NEW m \in Range(mounts), {parent.ino, Home.files.ino} \subseteq Visible(m)
          PROVE  \E k \in 1..Len(cands') : /\ cands'[k].mnt = m
                               /\ Lookup(cands'[k].a) = [mnt |-> m.id, ino |-> parent.ino]
                               /\ Lookup(cands'[k].b) = [mnt |-> m.id, ino |-> Home.files.ino]
      <4> DEFINE v == parent
                 w == Home.files
                 p == Front(Path)
                 q == HomeFiles
      <4>1. /\ Settled /\ table = mounts /\ v \in Handle /\ IsDir(v) /\ w \in Handle /\ IsDir(w)
            /\ p \in Seq(Names) /\ q \in Seq(Names) /\ Reached(v, p) /\ Reached(w, q)
            /\ {v.ino, w.ino} \subseteq Visible(m)
        BY <2>1, <2>3, <2>7, <3>2, HomeIs DEF Ready, HomeStays
      <4> HIDE DEF v, w, p, q
      <4>2. LET D == Candidates(table, ById(table, v.mnt), p, ById(table, w.mnt), q) IN
            \E k \in 1..Len(D) : /\ D[k].mnt = m
                                 /\ Lookup(D[k].a) = [mnt |-> m.id, ino |-> v.ino]
                                 /\ Lookup(D[k].b) = [mnt |-> m.id, ino |-> w.ino]
        BY <4>1, Tried
      <4>3. cands' = Candidates(table, ById(table, v.mnt), p, ById(table, w.mnt), q)
        BY <2>4, <2>13 DEF v, w, p, q
      <4> QED
        BY <4>2, <4>3 DEF v, w
    <3>3. (\A p : Lookup(p)' = Lookup(p)) /\ (\A m : Visible(m)' = Visible(m))
      BY <1>1, SameWays
    <3>4. Untried'
      BY <1>1, <2>4, <2>9, <3>2, <3>3 DEF Untried
    <3> QED
      BY <1>3, <2>4, <2>8, <2>9, <2>10, <2>13, <3>1, <3>4 DEF Base, Named, Still
  <2> QED
    BY <2>5, <2>11, <2>12, <2>13
<1> QED
  BY <1>5, <1>6

-----------------------------------------------------------------------------
LEMMA CandidatesSeq ==
  ASSUME NEW S, NEW ms \in Seq(S), NEW fa, NEW a, NEW fb, NEW b
  PROVE  \E T : Candidates(ms, fa, a, fb, b) \in Seq(T)
<1> DEFINE shown == {c \in {fa} \cup Range(ms) : Shows(fa, a, fb, b, c)}
           x == Keep(<<fa>>, shown)
           y == Keep(ms, {c \in shown : c.id # fa.id})
           s == x \o y
           C(k) == [mnt |-> s[k], a |-> Through(fa, s[k], a), b |-> Through(fb, s[k], b)]
           U == S \cup {fa}
<1>1. <<fa>> \in Seq(U) /\ ms \in Seq(U)
  OBVIOUS
<1> HIDE DEF U, shown
<1>2. x \in Seq(U) /\ y \in Seq(U)
  BY <1>1, Kept
<1> HIDE DEF x, y
<1>3. s \in Seq(U)
  BY <1>2, ConcatProperties
<1> HIDE DEF s
<1>4. Candidates(ms, fa, a, fb, b) = [k \in 1..Len(s) |-> C(k)]
  <2>1. DOMAIN s = 1..Len(s)
    BY <1>3
  <2> QED
    BY <2>1 DEF Candidates, shown, x, y, s
<1> HIDE DEF C
<1> DEFINE T == {C(k) : k \in 1..Len(s)}
<1>5. Len(s) \in Nat /\ \A k \in 1..Len(s) : C(k) \in T
  BY <1>3
<1> HIDE DEF T
<1>6. [k \in 1..Len(s) |-> C(k)] \in Seq(T)
  BY <1>5, IsASeq
<1> QED
  BY <1>4, <1>6

(* The rest of the arguments, and of what is to be tried.                  *)
LEMMA Goes ==
  ASSUME [Next]_vars
  PROVE  /\ world' = world
         /\ edits' = edits \/ (edits > 0 /\ edits' = edits - 1)
         /\ \/ args' = args /\ (pc' = pc \/ pc' \in {"home", "session", "operand", "end"}
                              \/ pc \notin Before \cup {"operand", "end"} \/ args # <<>>)
            \/ /\ args' = Tail(args) /\ pc' = "operand"
               /\ pc \notin Before \cup {"operand", "end"} \/ args # <<>>
         /\ \/ cands' = cands \/ cands' = <<>> \/ (cands # <<>> /\ cands' = Tail(cands))
            \/ \E fa, a, fb, b : cands' = Candidates(table, fa, a, fb, b)
<1>1. CASE Others
  BY <1>1 DEF Others, Mount, Unmount, Swap, Edit, place, operand
<1>2. CASE UNCHANGED vars
  BY <1>2 DEF vars, environment, place, operand
<1>3. CASE Start \/ MakeHome \/ OpenSession \/ OpenParent \/ NoRoute \/ Copy
  BY <1>3 DEF Start, MakeHome, OpenSession, OpenParent, NoRoute, Copy, NextOperand, Goto,
     environment, place, operand, Before
<1>4. CASE Check
  BY <1>4 DEF Check, NextOperand, Goto, environment, place, operand, Before
<1>5. CASE Route \/ OpenTop \/ Look \/ Pick \/ Inside
  BY <1>5 DEF Route, OpenTop, Unusable, Look, Pick, Inside, NextOperand, Goto,
     environment, place, operand, Before
<1>6. CASE MakeAdmin \/ MakeUser \/ MakeFiles \/ MakeInfo \/ Add \/ Move
  BY <1>6 DEF MakeAdmin, MakeUser, MakeFiles, MakeInfo, Add, Move, NextOperand, Goto,
     environment, place, operand, Before
<1> QED
  BY <1>1, <1>2, <1>3, <1>4, <1>5, <1>6 DEF Next

LEMMA Quieter ==
  ASSUME PlaceInv, StillInv, [Next]_vars
  PROVE  /\ edits' \in Nat /\ edits' <= world'.edits
         /\ args' \in Seq(Seq(Names) \ {<<>>}) /\ (pc' \notin Before \cup {"operand", "end"} => args' # <<>>)
         /\ \E S : cands' \in Seq(S)
         /\ Quiet' => Quiet /\ ~Others
<1>1. edits \in Nat /\ edits <= world.edits /\ world.edits \in Nat
  BY WorldsAssumption DEF StillInv, PlaceInv, DiskOK
<1>2. edits' \in Nat /\ edits' <= world'.edits /\ (Quiet' => Quiet /\ ~Others)
  <2>1. world' = world /\ ((edits > 0 /\ edits' = edits - 1) \/ edits' = edits)
    BY Goes
  <2>2. Others => edits' = edits - 1
    BY DEF Others, Mount, Unmount, Swap, Edit
  <2> QED
    BY <1>1, <2>1, <2>2 DEF Quiet
<1>3. args' \in Seq(Seq(Names) \ {<<>>}) /\ (pc' \notin Before \cup {"operand", "end"} => args' # <<>>)
  <2> DEFINE N == Seq(Names) \ {<<>>}
  <2>1. args \in Seq(N) /\ (pc \notin Before \cup {"operand", "end"} => args # <<>>)
    BY DEF StillInv
  <2>2. \/ args' = args /\ (pc' = pc \/ pc' \in {"home", "session", "operand", "end"} \/ args # <<>>)
        \/ args' = Tail(args) /\ pc' = "operand" /\ args # <<>>
    BY <2>1, Goes
  <2> HIDE DEF N
  <2>3. args # <<>> => Tail(args) \in Seq(N)
    BY <2>1, HeadTailProperties
  <2> QED
    BY <2>1, <2>2, <2>3 DEF N, Before
<1>4. \E S : cands' \in Seq(S)
  <2>1. PICK S : cands \in Seq(S)
    BY DEF StillInv
  <2>2. CASE cands' = cands \/ cands' = <<>> \/ (cands # <<>> /\ cands' = Tail(cands))
    <3>1. cands # <<>> => Tail(cands) \in Seq(S)
      BY <2>1, HeadTailProperties
    <3>2. <<>> \in Seq(S)
      BY EmptySeq
    <3>3. cands' \in Seq(S)
      BY <2>1, <2>2, <3>1, <3>2
    <3> QED
      BY <3>3
  <2>3. ASSUME NEW fa, NEW a, NEW fb, NEW b, cands' = Candidates(table, fa, a, fb, b)
        PROVE  \E T : cands' \in Seq(T)
    <3>1. table \in Seq(Known(world))
      BY DEF PlaceInv, SessionOK
    <3> QED
      BY <2>3, <3>1, CandidatesSeq
  <2> QED
    BY <2>2, <2>3, Goes
<1> QED
  BY <1>2, <1>3, <1>4

LEMMA StillInitially == Init => StillInv
<1> SUFFICES ASSUME Init PROVE StillInv
  OBVIOUS
<1>1. /\ world \in Worlds /\ ent = world.ent /\ mounts = world.mounts /\ edits = world.edits
      /\ pc = "start" /\ trashes = <<>> /\ args = world.args /\ cands = <<>>
  BY DEF Init
<1>2. Agree(world, ent, mounts) /\ edits \in Nat /\ args \in Seq(Seq(Names) \ {<<>>})
  BY <1>1, AgreeAssumption, WorldsAssumption
<1>3. cands \in Seq({})
  BY <1>1
<1>4. Still
  BY <1>1, <1>2 DEF Still, Chosen, Topdir, Found, Making
<1>5. edits <= world.edits
  BY <1>1, <1>2
<1> QED
  BY <1>1, <1>2, <1>3, <1>4, <1>5 DEF StillInv, Before

LEMMA StillNext == PlaceInv /\ StillInv /\ [Next]_vars => StillInv'
<1> SUFFICES ASSUME PlaceInv, StillInv, [Next]_vars PROVE StillInv'
  OBVIOUS
<1>1. PlaceInv'
  BY PlaceNext
<1>2. /\ edits' \in Nat /\ edits' <= world'.edits
      /\ args' \in Seq(Seq(Names) \ {<<>>}) /\ (pc' \notin Before \cup {"operand", "end"} => args' # <<>>)
      /\ \E S : cands' \in Seq(S)
      /\ Quiet' => Quiet /\ ~Others
  BY Quieter
<1>3. ASSUME Quiet' PROVE Still'
  <2>1. Still /\ ~Others
    BY <1>2, <1>3 DEF StillInv
  <2>2. CASE UNCHANGED vars
    <3>1. /\ UNCHANGED <<world, ent, mounts, table, trashes, pc, args, parent, item, trash, from, cands>>
      BY <2>2 DEF vars, environment, session, operand, place, history
    <3>2. /\ attr' = attr /\ Handle' = Handle /\ Home' = Home /\ HomeFiles' = HomeFiles /\ Path' = Path
          /\ Child(parent.ino, Last(Path))' = Child(parent.ino, Last(Path))
      BY <3>1, Fixed DEF Home, HomeFiles, Path, Child
    <3>3. (\A p : Lookup(p)' = Lookup(p)) /\ (\A m : Visible(m)' = Visible(m))
      BY <3>1, SameWays
    <3>4. Untried => Untried'
      BY <3>1, <3>2, <3>3 DEF Untried
    <3>5. HomeStays => HomeStays'
      BY <3>1, <3>2 DEF HomeStays, Reached, IsDir
    <3>6. Apart => Apart'
      BY <3>1, <3>2 DEF Apart
    <3>7. Reached(parent, Front(Path)) => Reached(parent, Front(Path))'
      BY <3>1, <3>2 DEF Reached
    <3>8. IsDir(parent) => IsDir(parent)'
      BY <3>1, <3>2 DEF IsDir
    <3> QED
      BY <2>1, <3>1, <3>2, <3>4, <3>5, <3>6, <3>7, <3>8 DEF Still
  <2> QED
    BY <1>1, <2>1, <2>2, StillStart, StillMakeHome, StillOpenSession, StillOperand, StillCheck, StillRoute,
       StillOpenTop, StillTopdir, StillAdd, StillMove DEF Next
<1> QED
  BY <1>2, <1>3 DEF StillInv

(* For any tree and any mounts that agree with it, and any operands: as    *)
(* long as others change nothing, a put that falls back on a copy has no   *)
(* writable mount that shows, uncovered, both the operand's directory and  *)
(* the home trash (route(), route_candidates()).                           *)
THEOREM RouteFoundHolds == Spec => []RouteFound
<1>1. PlaceInv /\ StillInv => RouteFound
  <2> SUFFICES ASSUME StillInv, pc = "route", cands = <<>>, Quiet,
                      NEW m \in Range(mounts), ~m.ro, {parent.ino, Home.files.ino} \subseteq Visible(m)
               PROVE  FALSE
    BY DEF RouteFound
  <2>1. Untried
    BY DEF StillInv, Still
  <2>2. PICK k \in 1..Len(cands) : cands[k].mnt = m
    BY <2>1 DEF Untried
  <2> QED
    BY <2>2
<1> QED
  BY Initially, PlaceNext, StillInitially, StillNext, <1>1, PTL DEF Spec

(* For the same: a rename that was decided on is not refused for crossing  *)
(* a mount or a subvolume, so no operand is copied for that (route(),      *)
(* topdir_trash()).                                                        *)
THEOREM NeverCrossesHolds == Spec => NeverCrosses
<1>1. PlaceInv /\ StillInv /\ [Next]_vars => [pc = "move" /\ pc' = "copy" => ~Quiet]_vars
  <2> SUFFICES ASSUME StillInv, Next, pc = "move", pc' = "copy", Quiet PROVE FALSE
    OBVIOUS
  <2>1. Move
    BY DEF Next, Start, MakeHome, OpenSession, OpenParent, Check, Route, NoRoute, OpenTop, Look,
           Pick, MakeAdmin, MakeUser, Inside, MakeFiles, MakeInfo, Add, Copy, Others, Mount, Unmount,
           Swap, Edit
  <2>2. from.mnt # trash.files.mnt \/ attr[from.ino].dev # attr[trash.files.ino].dev
    BY <2>1 DEF Move, NextOperand, Goto
  <2> QED
    BY <2>2 DEF StillInv, Still
<1> QED
  BY Initially, PlaceNext, StillInitially, StillNext, <1>1, PTL DEF Spec, NeverCrosses

=============================================================================
