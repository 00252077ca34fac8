------------------------------ MODULE Placement ------------------------------
(***************************************************************************)
(* Where `rip FILE...` puts each argument (put.rs, with discover() and     *)
(* route()): the mount table read once, the home trash and the trash       *)
(* directories found; then per argument the refusals, choose(), a mount to *)
(* rename through or a topdir trash, looked for or created.  Meanwhile     *)
(* others mount and unmount, and change the entries of a shared top        *)
(* directory.  The rename itself, with its reservation, is Put, a copy     *)
(* CopyPut; names in files/ are Reserve's.                                 *)
(***************************************************************************)
EXTENDS MountTable, FiniteSetsExt, TLC

CONSTANTS
  Ino,        \* inodes
  Names,      \* what paths are made of
  Worlds,     \* filesystems, mounts, arguments, and what others may do
  Depth       \* bound: how deep a tree is

(* .Trash, UID in it, and .Trash-UID in a top directory.                   *)
Admin == ".Trash"
Uid == "UID"
User == ".Trash-UID"
ASSUME NamesAssumption == {Admin, Uid, User, "Trash", "files", "info"} \subseteq Names

(* dev: st_dev, one per subvolume; sticky as .Trash must be; full: nothing *)
(* can be made in it or moved out of it; fresh: what a mkdir makes.        *)
Attr == [kind : {"dir", "file", "link"}, fs : Nat, dev : Nat, mine : BOOLEAN,
         sticky : BOOLEAN, full : BOOLEAN, fresh : BOOLEAN]

(* None is no path, no inode, and no inode seen through a mount.           *)
ASSUME NoneAssumption == None \notin Ino \cup [mnt : Nat, ino : Ino] \cup Seq(Names)

(* Entry n of directory d in e, and where a path leads from directory i.   *)
ChildIn(e, d, n) == IF <<d, n>> \in DOMAIN e THEN e[<<d, n>>] ELSE None
Way(e, i, p) ==
  LET w[k \in 0..Len(p)] == IF k = 0 THEN i ELSE ChildIn(e, w[k - 1], p[k]) IN w[Len(p)]

(* A world: a device is of one filesystem, and so are a directory and its  *)
(* entries; a mount id is never used again (what others mount is in spare).*)
Known(w) == Range(w.mounts) \cup w.spare
ASSUME WorldsAssumption == \A w \in Worlds :
  /\ w.attr \in [Ino -> Attr] /\ w.edits \in Nat /\ w.ask \in BOOLEAN
  /\ \A i, j \in Ino : w.attr[i].dev = w.attr[j].dev => w.attr[i].fs = w.attr[j].fs
  /\ \A e \in DOMAIN w.ent : {e[1], w.ent[e]} \subseteq Ino /\ w.attr[w.ent[e]].fs = w.attr[e[1]].fs
  /\ \A s \in w.swaps : s[1] \in Ino /\ s[3] \in Ino \cup {None}
                       /\ (s[3] # None => w.attr[s[3]].fs = w.attr[s[1]].fs)
  /\ \A m \in Known(w) : /\ m.id \in Nat /\ {m.point, m.root} \subseteq Seq(Names) /\ {m.at, m.top} \subseteq Ino
                         /\ w.attr[m.top].fs = m.fs
                         /\ \A n \in Known(w) : m.id = n.id => m.fs = n.fs
  /\ w.mounts \in Seq(Range(w.mounts)) \ {<<>>} /\ Head(w.mounts).point = <<>>
  /\ w.data \in Seq(Names) /\ w.args \in Seq(Seq(Names) \ {<<>>})

(* In tree e a directory, or what is mounted on, has one entry, and a      *)
(* subvolume one top.                                                      *)
OneWay(w, e, ms) ==
  /\ \A x \in DOMAIN e : w.attr[x[1]].kind = "dir"
  /\ \A x, y \in DOMAIN e : x # y =>
       /\ e[x] = e[y] => w.attr[e[x]].kind # "dir" /\ \A m \in Range(ms) : m.at # e[x]
       /\ w.attr[e[x]].dev = w.attr[e[y]].dev =>
            \E z \in {x, y} : w.attr[z[1]].dev = w.attr[e[z]].dev
  /\ \A f \in DOMAIN w.tops, x \in DOMAIN e :
       e[x] # w.tops[f] /\ (w.attr[e[x]].dev = w.attr[w.tops[f]].dev => w.attr[x[1]].dev = w.attr[e[x]].dev)

(* mountinfo is true of it: a mount has its root in its filesystem, and    *)
(* its point where its parent shows what it is mounted on.                 *)
Agree(w, e, ms) ==
  /\ OneWay(w, e, ms)
  /\ \A m, n \in Range(ms) : m.id = n.id => m = n
  /\ \A m \in Range(ms) :
       /\ Way(e, w.tops[m.fs], m.root) = m.top
       /\ m # Head(ms) => HasId(ms, m.parent)
       /\ \A p \in Range(ms) : p.id = m.parent =>
            IsPrefix(p.point, m.point) /\ Way(e, w.tops[p.fs], FsPath(p, m.point)) = m.at
ASSUME AgreeAssumption == \A w \in Worlds :
  /\ \A m \in Known(w) : m.fs \in DOMAIN w.tops
  /\ \A f \in DOMAIN w.tops : w.tops[f] \in Ino /\ w.attr[w.tops[f]].fs = f /\ ~w.attr[w.tops[f]].fresh
  /\ Agree(w, w.ent, w.mounts)
ASSUME DepthAssumption == Depth \in Nat

VARIABLES
  world,      \* what does not change
  ent,        \* entries: <<directory, name>> -> inode
  mounts,     \* the kernel's mounts, each with the inodes at its root and under it
  edits,      \* what others still may do
  pc,
  table,      \* Cx::mounts
  trashes,    \* Session::trashes, the home trash first
  args,       \* arguments, the current one first
  parent, item, \* pid and st of put_one(): an inode seen through a mount
  cands,      \* what route() has still to try
  top, found, \* topdir_trash(): the top directory, what is there
  trash,      \* the trash directory the argument goes to
  from,       \* the directory it is renamed from
  made,       \* directories made in top directories (history)
  moved       \* renames done (history)

environment == <<world, mounts, edits>>
session == <<table, trashes>>
operand == <<args, parent, item>>
place == <<cands, top, found, trash, from>>
history == <<made, moved>>
vars == <<environment, ent, pc, session, operand, place, history>>

-----------------------------------------------------------------------------
(* The kernel.                                                             *)
attr == world.attr
IsDir(w) == w # None /\ attr[w.ino].kind = "dir"
Child(d, n) == ChildIn(ent, d, n)

(* Bound: two mounts on one another.                                       *)
Over(w) == {m \in Range(mounts) : m.parent = w.mnt /\ m.at = w.ino}
Covered(w) == IF Over(w) = {} THEN w
              ELSE LET m == CHOOSE m \in Over(w) : TRUE IN [mnt |-> m.id, ino |-> m.top]
Cross(w) == Covered(Covered(w))

Enter(w, n) == IF w = None \/ Child(w.ino, n) = None THEN None
               ELSE Cross([w EXCEPT !.ino = Child(w.ino, n)])
Lookup(p) ==
  LET way[k \in 0..Len(p)] ==
        IF k = 0 THEN Cross([mnt |-> Head(mounts).id, ino |-> Head(mounts).top])
        ELSE Enter(way[k - 1], p[k]) IN
  way[Len(p)]
ReadOnly(w) == \E m \in Range(mounts) : m.id = w.mnt /\ m.ro

(* Entry n of directory d is i.                                            *)
Entry(e, d, n, i) == [x \in DOMAIN e \cup {<<d, n>>} |-> IF x = <<d, n>> THEN i ELSE e[x]]

(* The inodes of a tree.                                                   *)
Below(i) ==
  LET b[k \in 0..Depth] ==
        IF k = 0 THEN {i}
        ELSE LET c == b[k - 1] IN c \cup {ent[e] : e \in {x \in DOMAIN ent : x[1] \in c}} IN
  b[Depth]

(* An inode for a directory made in d: of its subvolume, in no directory   *)
(* and not open.                                                           *)
Free(e, d) == {i \in Ino : /\ attr[i].fresh /\ attr[i].dev = attr[d].dev
                           /\ i \notin Range(e) /\ \A x \in made : x.ino # i
                           /\ \A t \in Range(trashes) : i \notin {t.dir.ino, t.files.ino, t.info.ino}}

(* mkdirat() of name n in w, EEXIST ignored: the entries after it.         *)
Mkdir(e, w, n) ==
  IF \/ <<w.ino, n>> \in DOMAIN e \/ ~IsDir(w)
     \/ attr[w.ino].full \/ ReadOnly(w) \/ Free(e, w.ino) = {}
  THEN e
  ELSE Entry(e, w.ino, n, CHOOSE i \in Free(e, w.ino) : TRUE)

-----------------------------------------------------------------------------
Init ==
  /\ world \in Worlds
  /\ ent = world.ent /\ mounts = world.mounts /\ edits = world.edits
  /\ pc = "start" /\ table = <<>> /\ trashes = <<>>
  /\ args = world.args /\ parent = None /\ item = None
  /\ cands = <<>> /\ top = None /\ found = None /\ trash = None /\ from = None
  /\ made = {} /\ moved = <<>>

Goto(l) == pc' = l

(* Cx::new() reads mountinfo.                                              *)
Start ==
  /\ pc = "start" /\ table' = mounts /\ Goto("home")
  /\ UNCHANGED <<environment, ent, trashes, operand, place, history>>

(* ensure_home(), below a directory that exists.                           *)
MakeHome ==
  /\ pc = "home"
  /\ LET h == Lookup(world.data)
         e == Mkdir(ent, h, "Trash") IN
     \/ /\ h # None /\ <<h.ino, "Trash">> \in DOMAIN e
        /\ LET t == Cross([h EXCEPT !.ino = e[<<h.ino, "Trash">>]]) IN
           ent' = Mkdir(Mkdir(e, t, "files"), t, "info")
        /\ Goto("session")
     \/ /\ h = None \/ <<h.ino, "Trash">> \notin DOMAIN e
        /\ Goto("end") /\ UNCHANGED ent
  /\ UNCHANGED <<environment, session, operand, place, history>>

(* open_trash(), finish_open(): a directory of the user with a files/ and  *)
(* an info/ on its own mount.                                              *)
Usable(w) ==
  /\ IsDir(w) /\ attr[w.ino].mine
  /\ \A n \in {"files", "info"} : IsDir(Enter(w, n)) /\ Enter(w, n).mnt = w.mnt
AsTrash(p, w) == [path |-> p, dir |-> w, files |-> Enter(w, "files"), info |-> Enter(w, "info")]

(* push_new(): once each.                                                  *)
PushNew(ts, p) ==
  IF Usable(Lookup(p)) /\ \A t \in Range(ts) : t.dir.ino # Lookup(p).ino
  THEN Append(ts, AsTrash(p, Lookup(p))) ELSE ts

(* discover(): .Trash/UID, if .Trash is sticky, and .Trash-UID, at every   *)
(* mount point that is no autofs.                                          *)
AtTop(ts, m) ==
  LET a == Lookup(m.point \o <<Admin>>)
      sticky == IsDir(a) /\ attr[a.ino].sticky IN
  IF m.auto THEN ts
  ELSE PushNew(IF sticky THEN PushNew(ts, m.point \o <<Admin, Uid>>) ELSE ts, m.point \o <<User>>)
Discover(home) ==
  LET ts[k \in 0..Len(table)] == IF k = 0 THEN <<home>> ELSE AtTop(ts[k - 1], table[k]) IN
  ts[Len(table)]

(* Session::new(): without a home trash on a known mount it fails.         *)
OpenSession ==
  /\ pc = "session"
  /\ LET p == Append(world.data, "Trash")
         h == Lookup(p) IN
     \/ /\ Usable(h) /\ HasId(table, Enter(h, "files").mnt)
        /\ trashes' = Discover(AsTrash(p, h))
        /\ Goto("operand")
     \/ /\ ~Usable(h) \/ ~HasId(table, Enter(h, "files").mnt)
        /\ Goto("end") /\ UNCHANGED trashes
  /\ UNCHANGED <<environment, ent, table, operand, place, history>>

Home == Head(trashes)
HomeFs == ById(table, Home.files.mnt).fs
Path == Head(args)
Own == ById(table, item.mnt)

(* run(): on to the next argument, whatever became of this one.            *)
NextOperand ==
  /\ args' = Tail(args) /\ parent' = None /\ item' = None
  /\ cands' = <<>> /\ top' = None /\ found' = None /\ trash' = None /\ from' = None
  /\ pc' = "operand"

(* put_one(): the parent is opened.                                        *)
OpenParent ==
  /\ pc = "operand" /\ args # <<>>
  /\ LET w == Lookup(Front(Path)) IN
     \/ ~IsDir(w) /\ NextOperand
     \/ /\ IsDir(w) /\ parent' = w /\ Goto("stat")
        /\ UNCHANGED <<args, item, place>>
  /\ UNCHANGED <<environment, ent, session, history>>

(* inside_trash(): the argument or a directory on the way is a trash.      *)
InsideTrash ==
  \E t \in Range(trashes), k \in 0..Len(Path) :
    Lookup(SubSeq(Path, 1, k)) # None /\ Lookup(SubSeq(Path, 1, k)).ino = t.dir.ino

(* contains_trash(): also through another mount of the filesystem.         *)
ContainsTrash(own) == \E t \in Range(trashes) :
  \/ Beneath(Path, t.path)
  \/ /\ HasId(table, t.dir.mnt)
     /\ LET m == ById(table, t.dir.mnt) IN
        m.fs = own.fs /\ Beneath(FsPath(own, Path), FsPath(m, t.path))

(* Mutant: what is on another device goes to its top directory.            *)
ChooseDev(st, own) ==
  IF attr[st.ino].dev = attr[Home.files.ino].dev THEN "route" ELSE "top"

(* choose(): the rule that keeps other trashes off the home filesystem.    *)
Choose(st, own) ==
  IF attr[st.ino].dev = attr[Home.files.ino].dev THEN "route"
  ELSE IF own.fs = HomeFs THEN "copy" ELSE "top"

(* put_one(): lstat, the refusals, -i, choose().                           *)
Check ==
  /\ pc = "stat"
  /\ LET st == Enter(parent, Last(Path))
         known == st # None /\ HasId(table, st.mnt)
         own == ById(table, st.mnt)
         bad == \/ Lookup(Front(Path)) # parent
                \/ own.ro \/ InsideTrash \/ ContainsTrash(own)
                \/ MountConflict(table, own, Path, st.mnt # parent.mnt) IN
     \/ /\ known /\ ~bad
        /\ item' = st
        /\ Goto(Choose(st, own))
        /\ cands' = IF Choose(st, own) # "route" THEN <<>>
                    ELSE Candidates(table, ById(table, parent.mnt), Front(Path),
                                    ById(table, Home.files.mnt), Append(Home.path, "files"))
        /\ UNCHANGED <<args, parent, top, found, trash, from>>
     \/ ~known /\ NextOperand
     \/ known /\ bad /\ NextOperand
     \/ known /\ world.ask /\ NextOperand
  /\ UNCHANGED <<environment, ent, session, history>>

-----------------------------------------------------------------------------
(* route(): each candidate is opened and must be, through that mount, the  *)
(* very directories.                                                       *)

(* Mutant: the same directories through any mount will do.                 *)
VerifiedFile(w, m, want) == IsDir(w) /\ w.ino = want.ino
(* Mutant: what opens is taken for what the table says.                    *)
VerifiedNot(w, m, want) == IsDir(w)

Verified(w, m, want) == IsDir(w) /\ w.ino = want.ino /\ w.mnt = m

Route ==
  /\ pc = "route" /\ cands # <<>>
  /\ LET c == Head(cands)
         a == Lookup(c.a)
         b == Lookup(c.b)
         good == ~c.mnt.ro /\ Verified(a, c.mnt.id, parent) /\ Verified(b, c.mnt.id, Home.files) IN
     \/ /\ good /\ from' = a /\ trash' = [Home EXCEPT !.files = b]
        /\ Goto("move") /\ cands' = <<>>
     \/ /\ ~good /\ cands' = Tail(cands) /\ UNCHANGED <<pc, from, trash>>
  /\ UNCHANGED <<environment, ent, session, operand, top, found, history>>

NoRoute ==
  /\ pc = "route" /\ cands = <<>> /\ Goto("copy")
  /\ UNCHANGED <<environment, ent, session, operand, place, history>>

-----------------------------------------------------------------------------
(* topdir_trash().                                                         *)
Unusable == Goto("copy") /\ UNCHANGED <<top, found, trash, from>>

OpenTop ==
  /\ pc = "top"
  /\ LET w == Lookup(Own.point)
         good == w # None /\ w.mnt = Own.id /\ attr[w.ino].dev = attr[item.ino].dev IN
     \/ ~good /\ Unusable
     \/ good /\ top' = w /\ Goto("look") /\ UNCHANGED <<found, trash, from>>
  /\ UNCHANGED <<environment, ent, session, operand, cands, history>>

(* find_dir(): three entries, as they are at one moment each.              *)
Look ==
  /\ pc = "look"
  /\ LET a == Enter(top, Admin)
         sticky == IsDir(a) /\ attr[a.ino].sticky IN
     found' = [admin |-> IF sticky THEN a ELSE None,
               uid |-> IF sticky THEN Enter(a, Uid) ELSE None,
               user |-> Enter(top, User)]
  /\ Goto("pick")
  /\ UNCHANGED <<environment, ent, session, operand, cands, top, trash, from, history>>

(* choose_topdir(): what is there must be a directory of the user.         *)
Good(w) == w = None \/ (IsDir(w) /\ attr[w.ino].mine)

Pick ==
  /\ pc = "pick"
  /\ \/ found.admin # None /\ Good(found.uid) /\ Goto("admin")
     \/ (found.admin = None \/ ~Good(found.uid)) /\ Good(found.user) /\ Goto("user")
     \/ (found.admin = None \/ ~Good(found.uid)) /\ ~Good(found.user) /\ Goto("copy")
  /\ UNCHANGED <<environment, ent, session, operand, place, history>>

(* open_or_mkdir(), mkdir_and_open(): the directory `was` found before, or *)
(* one that is made, or has appeared, never through a symlink.             *)
OpenOrMkdir(was, w, n) ==
  LET e == IF was = None THEN Mkdir(ent, w, n) ELSE ent
      i == IF <<w.ino, n>> \in DOMAIN e THEN e[<<w.ino, n>>] ELSE None IN
  [ent |-> e,
   made |-> IF e = ent THEN made ELSE made \cup {[ino |-> i, mnt |-> w.mnt, top |-> top, for |-> item]},
   dir |-> IF was # None THEN was
           ELSE IF i = None THEN None ELSE Cross([w EXCEPT !.ino = i])]
Does(o) == ent' = o.ent /\ made' = o.made

As(p, w) == trash' = [path |-> p, dir |-> w, files |-> None, info |-> None]

(* .Trash/UID; if it cannot be made, .Trash-UID.                           *)
MakeAdmin ==
  /\ pc = "admin"
  /\ LET o == OpenOrMkdir(found.uid, found.admin, Uid) IN
     /\ Does(o)
     /\ \/ IsDir(o.dir) /\ As(Own.point \o <<Admin, Uid>>, o.dir) /\ Goto("inside")
        \/ /\ ~IsDir(o.dir) /\ UNCHANGED trash
           /\ Goto(IF Good(found.user) THEN "user" ELSE "copy")
  /\ UNCHANGED <<environment, session, operand, cands, top, found, from, moved>>

MakeUser ==
  /\ pc = "user"
  /\ LET o == OpenOrMkdir(found.user, top, User) IN
     /\ Does(o)
     /\ \/ IsDir(o.dir) /\ As(Own.point \o <<User>>, o.dir) /\ Goto("inside")
        \/ ~IsDir(o.dir) /\ UNCHANGED trash /\ Goto("copy")
  /\ UNCHANGED <<environment, session, operand, cands, top, found, from, moved>>

(* Mutant: what discovery found nothing wrong with is enough.              *)
InsideNot ==
  /\ pc = "inside" /\ Goto("files")
  /\ UNCHANGED <<environment, ent, session, operand, place, history>>

(* An argument in a trash that discovery passed over is refused.           *)
Inside ==
  /\ pc = "inside"
  /\ \/ Beneath(trash.path, Path) /\ NextOperand
     \/ /\ ~Beneath(trash.path, Path) /\ Goto("files")
        /\ UNCHANGED <<operand, place>>
  /\ UNCHANGED <<environment, ent, session, history>>

MakeFiles ==
  /\ pc = "files"
  /\ LET o == OpenOrMkdir(None, trash.dir, "files") IN
     /\ Does(o)
     /\ \/ IsDir(o.dir) /\ trash' = [trash EXCEPT !.files = o.dir] /\ Goto("info")
        \/ ~IsDir(o.dir) /\ UNCHANGED trash /\ Goto("copy")
  /\ UNCHANGED <<environment, session, operand, cands, top, found, from, moved>>

MakeInfo ==
  /\ pc = "info"
  /\ LET o == OpenOrMkdir(None, trash.dir, "info") IN
     /\ Does(o)
     /\ \/ IsDir(o.dir) /\ trash' = [trash EXCEPT !.info = o.dir] /\ Goto("add")
        \/ ~IsDir(o.dir) /\ UNCHANGED trash /\ Goto("copy")
  /\ UNCHANGED <<environment, session, operand, cands, top, found, from, moved>>

(* All of it on the mount of the argument, and in its subvolume.           *)
OnOwn == \A w \in {trash.dir, trash.files, trash.info} :
           w.mnt = Own.id /\ attr[w.ino].dev = attr[item.ino].dev

Add ==
  /\ pc = "add"
  /\ \/ ~OnOwn /\ Goto("copy") /\ UNCHANGED <<trashes, from>>
     \/ /\ OnOwn /\ trashes' = Append(trashes, trash)
        /\ from' = parent /\ Goto("move")
  /\ UNCHANGED <<environment, ent, table, operand, cands, top, found, trash, history>>

-----------------------------------------------------------------------------
(* move_in(): the rename goes by the name in the opened directory; what    *)
(* the kernel says to it.                                                  *)
Move ==
  /\ pc = "move"
  /\ LET i == Child(from.ino, Last(Path))
         crosses == \/ from.mnt # trash.files.mnt
                    \/ attr[from.ino].dev # attr[trash.files.ino].dev
         may == /\ i # None /\ ~ReadOnly(from)
                /\ ~attr[from.ino].full /\ ~attr[trash.files.ino].full
                /\ \A m \in Range(mounts) : m.at # i
                /\ trash.files.ino \notin Below(i) IN
     \/ /\ crosses /\ Goto("copy") /\ UNCHANGED <<ent, moved, operand, place>>
     \/ /\ ~crosses /\ may
        /\ ent' = [e \in DOMAIN ent \ {<<from.ino, Last(Path)>>} |-> ent[e]]
        /\ moved' = Append(moved, [ino |-> i, dir |-> from.ino, to |-> trash.files.ino])
        /\ NextOperand
     \/ /\ ~crosses /\ ~may /\ NextOperand /\ UNCHANGED <<ent, moved>>
  /\ UNCHANGED <<environment, session, made>>

(* copy_to_home(): CopyPut, or a refusal with fallback = "refuse".         *)
Copy ==
  /\ pc = "copy" /\ NextOperand
  /\ UNCHANGED <<environment, ent, session, history>>

-----------------------------------------------------------------------------
(* Others.                                                                 *)
Edit == edits > 0 /\ pc # "end" /\ edits' = edits - 1
        /\ UNCHANGED <<world, pc, session, operand, place, history>>

Mount(m) ==
  /\ Edit
  /\ m \notin Range(mounts) /\ Lookup(m.point) = [mnt |-> m.parent, ino |-> m.at]
  /\ mounts' = Append(mounts, m) /\ UNCHANGED ent

Unmount(m) ==
  /\ Edit
  /\ \A c \in Range(mounts) : c.parent # m.id
  /\ \E k \in 2..Len(mounts) : mounts[k] = m /\ mounts' = RemoveAt(mounts, k)
  /\ UNCHANGED ent

(* An entry s[2] of directory s[1] is made s[3], or removed.               *)
Swap(s) ==
  /\ Edit
  /\ Child(s[1], s[2]) # s[3] /\ s[3] \notin Range(ent)
  /\ LET rest == [e \in DOMAIN ent \ {<<s[1], s[2]>>} |-> ent[e]] IN
     ent' = IF s[3] = None THEN rest ELSE Entry(rest, s[1], s[2], s[3])
  /\ UNCHANGED mounts

Others ==
  \/ \E m \in world.spare : Mount(m) \/ Unmount(m)
  \/ \E s \in world.swaps : Swap(s)

Next ==
  \/ Start \/ MakeHome \/ OpenSession \/ OpenParent \/ Check \/ Route \/ NoRoute
  \/ OpenTop \/ Look \/ Pick \/ MakeAdmin \/ MakeUser \/ Inside
  \/ MakeFiles \/ MakeInfo \/ Add \/ Move \/ Copy \/ Others
Spec == Init /\ [][Next]_vars

-----------------------------------------------------------------------------
(* Nobody has mounted, unmounted or changed anything so far.               *)
Quiet == edits = world.edits

(* The rename takes the argument out of the very directory the user named  *)
(* into the files/ of a trash directory that was checked: never, through a *)
(* covered mount, another file of the same name (design.md, 6: "A rename   *)
(* through a wrong or covered mount").                                     *)
RightPlace == [][moved' # moved =>
  LET r == Last(moved') IN
  r.dir = parent.ino /\ \E t \in Range(trashes) : t.files.ino = r.to]_vars

(* The mount is of a directory inside trash d: none of the directories on  *)
(* the way to what is under it is the trash, by which the code knows one   *)
(* (inside_trash(); README, finding 10).                                   *)
RootedIn(own, d) == own.top \in Below(d) \ {d}

(* What goes to the trash, by a rename or a copy, holds no mount point, no *)
(* source of another mount and no trash directory of this session, by      *)
(* whichever of its aliases the argument or those are written; and it is   *)
(* no mount point, and, unless its mount is rooted inside that trash,      *)
(* nothing in a trash, itself.                                             *)
HoldsNothing == [][pc = "stat" /\ pc' \in {"route", "top", "copy"} /\ mounts = table =>
  LET own == ById(table, item'.mnt)
      tree == Below(item'.ino) IN
  /\ own.top # item'.ino
  /\ \A m \in Range(mounts) : m.at \notin tree /\ (m # own => m.top \notin tree)
  /\ \A t \in Range(trashes) :
       /\ t.dir.ino \notin tree
       /\ item'.ino \in Below(t.dir.ino) => RootedIn(own, t.dir.ino)]_vars

(* An argument is not moved into the trash it is in already, one that      *)
(* discovery passed over included (design.md, 6: "An operand inside a      *)
(* trash discovery skipped (missing `info/`) reused"), unless its mount is *)
(* rooted inside that trash.                                               *)
NotAgain == [][moved' # moved =>
  (Last(moved').ino \in Below(trash.dir.ino) => RootedIn(Own, trash.dir.ino))]_vars

(* Trash directories are only ever made in the top directory of an         *)
(* argument's mount, in its subvolume, on another filesystem than the home *)
(* trash's: whoever mounts and unmounts between the steps (design.md, 6:   *)
(* "`.Trash-$uid` created on the home trash's filesystem").  What is made  *)
(* on the home trash's filesystem where that is mounted on .Trash or       *)
(* .Trash-UID itself is excepted: it is made, and nothing is put there.    *)
NoSideTrash == \A x \in made :
  /\ x.top.mnt = x.for.mnt /\ attr[x.top.ino].dev = attr[x.for.ino].dev
  /\ attr[x.top.ino].fs # HomeFs
  /\ attr[x.ino].fs = HomeFs =>
       /\ x.mnt # x.top.mnt
       /\ \A t \in Range(trashes) : x.ino \notin {t.dir.ino, t.files.ino, t.info.ino}

(* A copy is for want of a way: if some writable mount shows both the      *)
(* argument's directory and the home trash, uncovered, it is found         *)
(* (design.md, 3.1: "renamed through whatever mount shows both paths").    *)
Onward(m, c) == c \cup {ent[e] : e \in {x \in DOMAIN ent :
  /\ x[1] \in c
  /\ Enter([mnt |-> m.id, ino |-> x[1]], x[2]) = [mnt |-> m.id, ino |-> ent[x]]}}
Visible(m) ==
  LET v[k \in 0..Depth] ==
        IF k = 0 THEN IF Lookup(m.point) = [mnt |-> m.id, ino |-> m.top] THEN {m.top} ELSE {}
        ELSE Onward(m, v[k - 1]) IN
  v[Depth]
RouteFound == pc = "route" /\ cands = <<>> /\ Quiet =>
  ~\E m \in Range(mounts) : ~m.ro /\ {parent.ino, Home.files.ino} \subseteq Visible(m)

(* The way that is found is one: unless others change it meanwhile, the    *)
(* rename does not cross a mount or a subvolume.                           *)
NeverCrosses == [][pc = "move" /\ pc' = "copy" => ~Quiet]_vars

=============================================================================
