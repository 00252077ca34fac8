----------------------------- MODULE RipPromise -----------------------------
(***************************************************************************)
(* Rip implements Vault (Promise): where nothing is restored, or one       *)
(* restore at a time renames back, every step of every process is a step   *)
(* of the vault or none.  A content at a user's is in one inode and where  *)
(* it belongs (Homed); by rename only, the .trashinfo of an entry says     *)
(* where that is, and the one that a restore goes by is still the entry's  *)
(* when it renames (Told).  A step is about one inode, which cannot be     *)
(* both at a user's and in the trash; hence about one content, which does  *)
(* not come to two places, nor leave them, at once.                        *)
(*                                                                         *)
(* From Told it also follows that nothing is left over (AtRest).           *)
(***************************************************************************)
EXTENDS RipKeeps

Lone == Restorers = {} \/ (Local = Dir /\ Alike)

Homed ==
  /\ \A o \in Obj : body[o] # None => body[o] \in born
  /\ \A o \in Obj, x \in Place : place[x] = o /\ body[o] # None => Origin[body[o]] = x[1]
  /\ \A x, y \in Place :
       place[x] # None /\ place[y] # None /\ body[place[x]] # None
         /\ body[place[x]] = body[place[y]] => x = y

(* The reservation is the process's own; a restore goes by the .trashinfo. *)
ToldAt(p) ==
  /\ pc[p] \in ReservingPC => info[me[p].name] = me[p].info /\ me[p].info.path = me[p].dir
  /\ p \in Restorers /\ pc[p] \in {"dest", "waitr", "recheck", "back"} =>
       me[p].info # None /\ me[p].info.path = me[p].dir
  /\ p \in Restorers /\ pc[p] = "back" =>
       files[me[p].name] # None /\ info[me[p].name] = me[p].info
Apart == \A o, u \in Obj : body[o] # None /\ body[o] = body[u] => o = u
Directed == \A o \in Obj, k \in Name :
  files[k] = o /\ body[o] # None => Origin[body[o]] = info[k].path
Told == Local = Dir => Apart /\ Directed /\ \A p \in Proc : ToldAt(p)

-----------------------------------------------------------------------------
(* Where a content is, by inode.                                           *)
AtPlace(o) == \E x \in Place : place[x] = o
InFiles(o) == InHand(o) \/ \E k \in Name : files[k] = o
Spots == SUBSET {"home", "trash"}

LEMMA WhereIs ==
  TypeOK /\ Homed =>
    /\ Where \in [Data -> Spots]
    /\ \A v \in Data :
         /\ "home" \in Where[v] <=> \E o \in Obj : body[o] = v /\ AtPlace(o)
         /\ "trash" \in Where[v] <=> \E o \in Obj : body[o] = v /\ InFiles(o)
<1> SUFFICES ASSUME TypeOK, Homed, NEW v \in Data
             PROVE  /\ Where[v] \in Spots /\ DOMAIN Where = Data
                    /\ "home" \in Where[v] <=> \E o \in Obj : body[o] = v /\ AtPlace(o)
                    /\ "trash" \in Where[v] <=> \E o \in Obj : body[o] = v /\ InFiles(o)
  BY DEF Where
<1>1. v # None /\ place \in [Place -> Maybe(Obj)]
  BY ConstantsAssumption DEF TypeOK, DiskOK
<1>2. ~Astray(v)
  BY <1>1 DEF Astray, Homed, Maybe
<1>3. AtHome(v) <=> \E o \in Obj : body[o] = v /\ AtPlace(o)
  BY <1>1, ConstantsAssumption DEF AtHome, AtPlace, Homed, Maybe
<1>4. InTrash(v) <=> \E o \in Obj : body[o] = v /\ InFiles(o)
  BY DEF InTrash, InFiles
<1> QED
  BY <1>2, <1>3, <1>4 DEF Where, Spots

(* A content that comes, goes or moves between the two.                    *)
LEMMA VaultStep ==
  ASSUME NEW v \in Data, Where \in [Data -> Spots], Where' \in [Data -> Spots],
         \A u \in Data \ {v} : Where'[u] = Where[u], UNCHANGED <<born, released>>,
         \/ Where'[v] = Where[v] \/ v \in released
         \/ Where[v] # {} /\ Where'[v] # {},
         ~(Where[v] = {} /\ Where'[v] = {"home", "trash"}),
         ~(Where'[v] = {} /\ Where[v] = {"home", "trash"})
  PROVE  [V!Next]_(V!vars)
<1>1. Where' = [Where EXCEPT ![v] = Where'[v]]
  OBVIOUS
<1>2. CASE Where'[v] = Where[v]
  BY <1>1, <1>2 DEF V!vars
<1>3. ASSUME NEW l \in {"home", "trash"}, Where'[v] = Where[v] \cup {l},
             Where[v] # {} \/ v \in released
      PROVE  V!Next
  BY <1>1, <1>3 DEF V!Next, V!Copy
<1>4. ASSUME NEW l \in {"home", "trash"}, Where'[v] = Where[v] \ {l},
             Where'[v] # {} \/ v \in released
      PROVE  V!Next
  BY <1>1, <1>4 DEF V!Next, V!Drop
<1>5. CASE Where[v] = {"home"} /\ Where'[v] = {"trash"}
  <2>1. V!Put(v)
    BY <1>1, <1>5 DEF V!Put
  <2> QED
    BY <2>1 DEF V!Next
<1>6. CASE Where[v] = {"trash"} /\ Where'[v] = {"home"}
  <2>1. V!Restore(v)
    BY <1>1, <1>6 DEF V!Restore
  <2> QED
    BY <2>1 DEF V!Next
<1>7. /\ Where[v] \in {{}, {"home"}, {"trash"}, {"home", "trash"}}
      /\ Where'[v] \in {{}, {"home"}, {"trash"}, {"home", "trash"}}
  BY DEF Spots
<1> QED
  BY <1>2, <1>3, <1>4, <1>5, <1>6, <1>7

Sound == TypeOK /\ OnePlace /\ NoLoss /\ Homed

LEMMA NotBoth ==
  TypeOK /\ OnePlace => \A o \in Obj : ~(AtPlace(o) /\ InFiles(o))
<1> SUFFICES ASSUME TypeOK, OnePlace, NEW o \in Obj PROVE ~(AtPlace(o) /\ InFiles(o))
  OBVIOUS
<1>1. o # None
  BY ConstantsAssumption
<1>2. \A p \in Proc : pc[p] \in {"verify", "putback"} => me[p].tomb \in Slot
  BY DEF TypeOK, ProcsOK, Ready, TombPC
<1> QED
  BY <1>1, <1>2 DEF AtPlace, InFiles, InHand, OnePlace

(* What Where says, of a sound state.                                      *)
Accounted ==
  /\ Where \in [Data -> Spots]
  /\ \A v \in Data :
       /\ "home" \in Where[v] <=> \E o \in Obj : body[o] = v /\ AtPlace(o)
       /\ "trash" \in Where[v] <=> \E o \in Obj : body[o] = v /\ InFiles(o)
  /\ \A o \in Obj : ~(AtPlace(o) /\ InFiles(o))
  /\ \A o \in Obj : body[o] # None => body[o] \in born
  /\ \A v \in born \ released : Where[v] # {}

LEMMA SoundAccounts == Sound => Accounted
<1> SUFFICES ASSUME Sound PROVE Accounted
  OBVIOUS
<1>1. \A v \in born \ released : v \in Data
  BY DEF Sound, TypeOK, DiskOK
<1>2. \A v \in born \ released : Where[v] # {}
  BY <1>1 DEF Sound, NoLoss, Where
<1> QED
  BY <1>2, WhereIs, NotBoth DEF Accounted, Sound, Homed

LEMMA AccountsAfter == ASSUME Sound' PROVE Accounted'
BY SoundAccounts, PTL

LEMMA SameMap ==
  ASSUME NEW f \in [Data -> Spots], NEW g \in [Data -> Spots], \A u \in Data : g[u] = f[u]
  PROVE  g = f
OBVIOUS

LEMMA SameSpots ==
  ASSUME NEW A \in Spots, NEW B \in Spots,
         "home" \in B <=> "home" \in A, "trash" \in B <=> "trash" \in A
  PROVE  B = A
<1>1. \A x \in {"home", "trash"} : x \in A <=> x \in B
  OBVIOUS
<1>2. A \subseteq {"home", "trash"} /\ B \subseteq {"home", "trash"}
  BY DEF Spots
<1>3. \A x : x \in A <=> x \in B
  BY <1>1, <1>2
<1> QED
  BY <1>3

(* The step is about one inode.                                            *)
LEMMA OneObject ==
  ASSUME Sound, Sound', UNCHANGED <<born, released>>, NEW o \in Obj,
         \/ body'[o] = body[o] \/ body[o] = None \/ body'[o] = None,
         \A q \in Obj \ {o} : /\ body'[q] = body[q]
                              /\ AtPlace(q)' <=> AtPlace(q)
                              /\ InFiles(q)' <=> InFiles(q)
  PROVE  [V!Next]_(V!vars)
<1>0. Accounted /\ Accounted' /\ None \notin Data
  BY SoundAccounts, AccountsAfter, ConstantsAssumption
<1>1. ASSUME NEW u \in Data, u # body[o], u # body'[o] PROVE Where'[u] = Where[u]
  <2>1. "home" \in Where'[u] <=> "home" \in Where[u]
    BY <1>0, <1>1 DEF Accounted
  <2>2. "trash" \in Where'[u] <=> "trash" \in Where[u]
    BY <1>0, <1>1 DEF Accounted
  <2>3. Where[u] \in Spots /\ Where'[u] \in Spots
    BY <1>0 DEF Accounted
  <2> QED
    BY <2>1, <2>2, <2>3, SameSpots
<1>2. CASE body[o] = None /\ body'[o] = None
  <2>1. \A u \in Data : Where'[u] = Where[u]
    BY <1>0, <1>1, <1>2
  <2>2. Where \in [Data -> Spots] /\ Where' \in [Data -> Spots]
    BY <1>0 DEF Accounted
  <2>3. Where' = Where
    BY <2>1, <2>2, SameMap
  <2> QED
    BY <2>3 DEF V!vars
<1>3. ASSUME NEW v \in Data, body[o] \in {v, None}, body'[o] \in {v, None}
      PROVE  [V!Next]_(V!vars)
  <2>1. \A u \in Data \ {v} : Where'[u] = Where[u]
    BY <1>0, <1>1, <1>3
  <2>2. v \in born \ released \/ v \in released \/ (Where[v] = {} /\ Where'[v] = {})
    BY <1>0 DEF Accounted, Spots
  <2>3. ~(Where[v] = {} /\ Where'[v] = {"home", "trash"})
    BY <1>0 DEF Accounted
  <2>4. ~(Where'[v] = {} /\ Where[v] = {"home", "trash"})
    BY <1>0 DEF Accounted
  <2>5. /\ Where \in [Data -> Spots] /\ Where' \in [Data -> Spots]
        /\ v \in born \ released => Where[v] # {} /\ Where'[v] # {}
    BY <1>0 DEF Accounted
  <2> QED
    BY <2>1, <2>2, <2>3, <2>4, <2>5, VaultStep
<1>4. body[o] \in Maybe(Data) /\ body'[o] \in Maybe(Data)
  BY DEF Sound, TypeOK, DiskOK
<1> QED
  BY <1>2, <1>3, <1>4 DEF Maybe

(* The step is about none.                                                 *)
LEMMA NoObject ==
  ASSUME Sound, Sound', UNCHANGED <<born, released>>,
         \A q \in Obj : /\ body'[q] = body[q]
                        /\ AtPlace(q)' <=> AtPlace(q)
                        /\ InFiles(q)' <=> InFiles(q)
  PROVE  [V!Next]_(V!vars)
<1>0. Accounted /\ Accounted'
  BY SoundAccounts, AccountsAfter
<1>1. ASSUME NEW u \in Data PROVE Where'[u] = Where[u]
  <2>1. "home" \in Where'[u] <=> "home" \in Where[u]
    BY <1>0 DEF Accounted
  <2>2. "trash" \in Where'[u] <=> "trash" \in Where[u]
    BY <1>0 DEF Accounted
  <2>3. Where[u] \in Spots /\ Where'[u] \in Spots
    BY <1>0 DEF Accounted
  <2> QED
    BY <2>1, <2>2, <2>3, SameSpots
<1>2. Where \in [Data -> Spots] /\ Where' \in [Data -> Spots]
  BY <1>0 DEF Accounted
<1>3. Where' = Where
  BY <1>1, <1>2, SameMap
<1> QED
  BY <1>3 DEF V!vars

-----------------------------------------------------------------------------
(* Homed is kept.  A content comes to a user's by a restore and by the     *)
(* user's own hand; all other steps take away, or copy out of sight.       *)
LEMMA HomedLess ==
  ASSUME TypeOK, Homed, born \subseteq born',
         \A x \in Place : place'[x] \in {place[x], None},
         \A o \in Obj : \/ body'[o] \in {body[o], None}
                        \/ body'[o] \in born' /\ \A x \in Place : place'[x] # o
  PROVE  Homed'
<1>1. \A x \in Place : place[x] \in Maybe(Obj)
  BY DEF TypeOK, DiskOK
<1>2. ASSUME NEW x \in Place, place'[x] # None, body'[place'[x]] # None
      PROVE  place[x] # None /\ place'[x] = place[x] /\ body'[place'[x]] = body[place[x]]
  BY <1>1, <1>2 DEF Maybe
<1>3. \A o \in Obj : body'[o] # None => body'[o] \in born'
  BY DEF Homed
<1>4. ASSUME NEW o \in Obj, NEW x \in Place, place'[x] = o, body'[o] # None
      PROVE  Origin[body'[o]] = x[1]
  BY <1>2, <1>4, ConstantsAssumption DEF Homed
<1>5. ASSUME NEW x \in Place, NEW y \in Place, place'[x] # None, place'[y] # None,
             body'[place'[x]] # None, body'[place'[x]] = body'[place'[y]]
      PROVE  x = y
  BY <1>2, <1>5, SMTT(30) DEF Homed
<1> QED
  BY <1>3, <1>4, <1>5 DEF Homed

(* A clean-up that fails may have deleted, and moves nothing.              *)
LEMMA SlipLess ==
  ASSUME TypeOK, NEW p \in Proc, Slip(p)
  PROVE  /\ UNCHANGED <<files, info, place, born, released>>
         /\ mishaps' = mishaps - 1
         /\ \A o \in Obj : body'[o] \in {body[o], None}
<1>1. CASE UNCHANGED body
  BY <1>1, SlipLeaves DEF Slips
<1>2. ASSUME NEW o, BreaksOff(o) PROVE \A q \in Obj : body'[q] \in {body[q], None}
  BY <1>2 DEF BreaksOff, Without
<1> QED
  BY <1>1, <1>2, SlipLeaves
  DEF Slips, Slip, ReleaseFails, BoxFails, DropOutFails, DeleteFails, Collect, DiscardFails,
      disk

(* The steps that leave the users' directories alone, or take from them.   *)
LEMMA TakesAway ==
  ASSUME TypeOK, Homely, Route, Safe, NEW p \in Proc, Alone(p),
         Step(p) \/ Slip(p) \/ Crash(p), ~(p \in Restorers /\ RenameBack(p))
  PROVE  /\ born' = born
         /\ \A x \in Place : place'[x] \in {place[x], None}
         /\ \/ \A o \in Obj : body'[o] \in {body[o], None}
            \/ CopyIn(p)
<1>0. /\ place \in [Place -> Maybe(Obj)] /\ body \in [Obj -> Maybe(Data)]
  BY DEF TypeOK, DiskOK
<1>1. CASE UNCHANGED <<place, body, born>>
  BY <1>1
<1>2. CASE MoveIn(p) \/ RemoveSource(p)
  <2>1. born' = born /\ place' \in {place, [place EXCEPT ![Arg(p)] = None]}
    BY <1>2 DEF MoveIn, RemoveSource, bounds
  <2>2. \A o \in Obj : body'[o] \in {body[o], None}
    BY <1>0, <1>2 DEF MoveIn, RemoveSource
  <2> QED
    BY <1>0, <2>1, <2>2
<1>3. CASE CopyIn(p)
  BY <1>3 DEF CopyIn, bounds
<1>4. CASE DropBox(p) \/ RemoveTomb(p) \/ Burn(p)
  <2>1. UNCHANGED <<place, born>>
    BY <1>4 DEF DropBox, RemoveTomb, Burn, bounds
  <2>2. \A o \in Obj : body'[o] \in {body[o], None}
    BY <1>4 DEF DropBox, RemoveTomb, Burn, Without
  <2> QED
    BY <2>1, <2>2
<1>5. ASSUME p \in Restorers PROVE ~CopyBack(p) /\ ~PublishBack(p) /\ ~DropOut(p) /\ ~SyncOut(p)
  BY <1>5 DEF Homely, Route, RouteAt, CopyPC, CopyBack, PublishBack, DropOut, SyncOut
<1>6. CASE Slip(p)
  BY <1>6, SlipLess
<1> QED
  BY <1>1, <1>2, <1>3, <1>4, <1>5, <1>6
  DEF Step, PutStep, ReserveStep, RestoreStep, DiscardStep, DeleteStep, Finish, FallbackStat,
      Crash, Slips, PutStart, PutLock, PutUnlock, Walk, CopyDeclined, CopyLock, MakeBox, Publish,
      Capture, SyncIn, ClaimStat, ClaimOpen, ClaimFails, Release, Tombstone, Verify, PutBack,
      CheckInfo, UnlinkInfo, ScanInfo, Choose, Declined, DeleteLock, CheckDoomed, Doom,
      DropInfo, CleanStaging, Collect, DeleteUnlock, Sweep, Done, ListItem, ReadInfo,
      CheckDest, RestoreLock, Recheck, disk, bounds

LEMMA HomedCopy ==
  ASSUME TypeOK, Homed, NEW p \in Proc, CopyIn(p)
  PROVE  Homed'
<1>0. /\ place \in [Place -> Maybe(Obj)] /\ body \in [Obj -> Maybe(Data)]
  BY DEF TypeOK, DiskOK
<1>1. UNCHANGED <<place, born>>
  BY DEF CopyIn, bounds
<1>2. CASE UNCHANGED body
  BY <1>1, <1>2, HomedLess
<1>3. ASSUME NEW c \in NewObjs, place[Arg(p)] # None,
             body' = [body EXCEPT ![c] = body[place[Arg(p)]]]
      PROVE  Homed'
  <2>1. c \in Obj /\ \A x \in Place : place[x] # c
    BY NewObjFree DEF InTree
  <2>2. me[p].dir \in Dir
    BY Here DEF TypeOK, CopyIn, Ready, DirPC, PutPC
  <2>3. place[Arg(p)] \in Obj
    BY <1>0, <1>3, <2>2, ArgInPlace DEF Maybe
  <2>4. body'[c] \in {body[c], None} \cup born
    BY <1>0, <1>3, <2>1, <2>3 DEF Homed, Maybe
  <2>5. \A o \in Obj : \/ body'[o] \in {body[o], None}
                       \/ body'[o] \in born' /\ \A x \in Place : place'[x] # o
    BY <1>0, <1>1, <1>3, <2>1, <2>4
  <2> QED
    BY <1>1, <2>5, HomedLess
<1> QED
  BY <1>2, <1>3 DEF CopyIn

LEMMA HomedBack ==
  ASSUME TypeOK, OnePlace, Homed, Told, Local = Dir, NEW p \in Restorers, RenameBack(p)
  PROVE  Homed'
<1>0. /\ place \in [Place -> Maybe(Obj)] /\ body \in [Obj -> Maybe(Data)]
      /\ files \in [Name -> Maybe(Obj)] /\ p \in Proc
  BY DEF TypeOK, DiskOK, Proc
<1>1. UNCHANGED <<born, body>>
  BY DEF RenameBack, bounds
<1>2. CASE UNCHANGED place
  BY <1>1, <1>2, HomedLess
<1>3. CASE place' = [place EXCEPT ![Dest(p)] = files[me[p].name]]
  <2>1. me[p].name \in Name /\ Dest(p) \in Place /\ pc[p] = "back"
    BY <1>0, Here DEF TypeOK, RenameBack, Ready, NamePC, DirPC, Locals, Dest, Place
  <2>2. PICK o \in Obj : files[me[p].name] = o
    BY <1>0, <2>1 DEF Told, ToldAt, Maybe
  <2>3. body[o] # None => Origin[body[o]] = me[p].dir
    BY <1>0, <2>1, <2>2 DEF Told, ToldAt, Directed
  <2>4. o # None /\ \A x \in Place : place[x] # o
    BY <2>1, <2>2, ConstantsAssumption DEF OnePlace
  <2>5. ASSUME NEW x \in Place PROVE place'[x] = (IF x = Dest(p) THEN o ELSE place[x])
    BY <1>0, <1>3, <2>1, <2>2
  <2>6. ASSUME NEW u \in Obj, NEW x \in Place, place'[x] = u, body[u] # None
        PROVE  Origin[body[u]] = x[1]
    BY <2>3, <2>5, <2>6 DEF Dest, Homed
  <2>7. ASSUME NEW x \in Place, NEW y \in Place, place'[x] # None, place'[y] # None,
               body[place'[x]] # None, body[place'[x]] = body[place'[y]]
        PROVE  x = y
    <3>1. \A z \in Place : place'[z] # None => place'[z] \in Obj
      BY <1>0, <2>5 DEF Maybe
    <3>2. place'[x] = place'[y]
      BY <2>7, <3>1 DEF Told, Apart
    <3>3. CASE place'[x] = o
      BY <2>4, <2>5, <3>2, <3>3
    <3>4. CASE place'[x] # o
      <4>1. place[x] = place'[x] /\ place[y] = place'[y]
        BY <2>5, <3>2, <3>4
      <4> QED
        BY <2>7, <3>2, <4>1 DEF OnePlace
    <3> QED
      BY <3>3, <3>4
  <2> QED
    BY <1>1, <2>6, <2>7 DEF Homed
<1> QED
  BY <1>2, <1>3 DEF RenameBack

(* A user writes v at x: over what was there, or into it.                  *)
SavedAt(x, o, v) ==
  /\ v \notin born /\ Origin[v] = x[1] /\ born' = born \cup {v}
  /\ released' = released \cup
       (IF place[x] = None THEN {} ELSE {body[place[x]]} \ {None})
  /\ \A y \in Place : place'[y] = IF y = x THEN o ELSE place[y]
  /\ \A q \in Obj : body'[q] = IF q = o THEN v ELSE IF q = place[x] THEN None ELSE body[q]
  /\ place[x] = o \/ (~AtPlace(o) /\ ~InFiles(o) /\ body[o] = None)
  /\ UNCHANGED <<files, info, stage, pc, me>>

LEMMA OthersSave ==
  ASSUME TypeOK, OnePlace, Route, Stray = {}, Others
  PROVE  \E x \in Place, o \in Obj, v \in Data : SavedAt(x, o, v)
<1>0. /\ place \in [Place -> Maybe(Obj)] /\ body \in [Obj -> Maybe(Data)]
      /\ \A d \in Dir : <<d, 0>> \in Place
  BY ConstantsAssumption DEF TypeOK, DiskOK, Place, Name
<1>1. ASSUME NEW d \in Dir, Save(d)
      PROVE  \E x \in Place, o \in Obj, v \in Data : SavedAt(x, o, v)
  <2>1. PICK o \in NewObjs, v \in NewData(d) :
          /\ place' = [place EXCEPT ![<<d, 0>>] = o]
          /\ body' = [q \in Obj |-> IF q = o THEN v
                                    ELSE IF q = place[<<d, 0>>] THEN None ELSE body[q]]
          /\ born' = born \cup {v}
          /\ released' = IF place[<<d, 0>>] = None THEN released
                         ELSE released \cup ({body[place[<<d, 0>>]]} \ {None})
    BY <1>1 DEF Save
  <2>2. v \in Data \ born /\ Origin[v] = d
    BY DEF NewData
  <2>3. o \in Obj /\ body[o] = None /\ ~InTree(o)
    BY NewObjFree
  <2>4. ~AtPlace(o) /\ ~InFiles(o)
    <3>1. \A q \in Proc : pc[q] \in {"verify", "putback"} => me[q].tomb \in Slot
      BY Here DEF TypeOK, Ready, TombPC
    <3> QED
      BY <2>3, <3>1 DEF InTree, AtPlace, InFiles, InHand
  <2>5. SavedAt(<<d, 0>>, o, v)
    BY <1>0, <1>1, <2>1, <2>2, <2>3, <2>4 DEF SavedAt, Save
  <2> QED
    BY <1>0, <2>2, <2>3, <2>5
<1>2. ASSUME NEW d \in Dir, EditInPlace(d)
      PROVE  \E x \in Place, o \in Obj, v \in Data : SavedAt(x, o, v)
  <2>1. PICK o \in Obj : place[<<d, 0>>] = o /\ o # None
    BY <1>0, <1>2 DEF EditInPlace, Maybe
  <2>2. PICK v \in NewData(d) : body' = [body EXCEPT ![o] = v] /\ born' = born \cup {v}
    BY <1>2, <2>1 DEF EditInPlace
  <2>3. v \in Data \ born /\ Origin[v] = d
    BY DEF NewData
  <2>4. released' = released \cup ({body[o]} \ {None})
    BY <1>2, <2>1 DEF EditInPlace
  <2>5. \A q \in Obj : body'[q] = IF q = o THEN v ELSE body[q]
    BY <1>0, <2>2
  <2>6. SavedAt(<<d, 0>>, o, v)
    BY <1>2, <2>1, <2>2, <2>3, <2>4, <2>5 DEF SavedAt, EditInPlace
  <2> QED
    BY <1>0, <2>3, <2>6
<1>3. ASSUME NEW k \in Name PROVE ~StrayDrop(k)
  BY DEF StrayDrop
<1> QED
  BY <1>1, <1>2, <1>3 DEF Others

LEMMA HomedSave ==
  ASSUME TypeOK, OnePlace, Homed, NEW x \in Place, NEW o \in Obj, NEW v \in Data,
         SavedAt(x, o, v)
  PROVE  Homed'
<1>0. \A y \in Place : place[y] \in Maybe(Obj)
  BY DEF TypeOK, DiskOK
<1>1. o # None /\ \A y \in Place \ {x} : place[y] # o
  BY ConstantsAssumption DEF SavedAt, AtPlace, OnePlace
<1>2. \A q \in Obj : body[q] # v
  BY ConstantsAssumption DEF SavedAt, Homed
<1>3. \A q \in Obj : body'[q] # None => body'[q] \in born'
  BY DEF SavedAt, Homed
<1>4. ASSUME NEW q \in Obj, NEW y \in Place, place'[y] = q, body'[q] # None
      PROVE  Origin[body'[q]] = y[1]
  BY <1>1, <1>4 DEF SavedAt, Homed
<1>5. ASSUME NEW y \in Place, NEW z \in Place, place'[y] # None, place'[z] # None,
             body'[place'[y]] # None, body'[place'[y]] = body'[place'[z]]
      PROVE  y = z
  <2>1. ASSUME NEW w \in Place \ {x}, place'[w] # None
        PROVE  /\ place[w] = place'[w] /\ place[w] \in Obj
               /\ body'[place'[w]] \in {None, body[place[w]]} /\ body'[place'[w]] # v
    BY <1>0, <1>1, <1>2, <2>1, ConstantsAssumption DEF SavedAt, Maybe
  <2>2. place'[x] = o /\ body'[o] = v
    BY DEF SavedAt
  <2>3. CASE y = x \/ z = x
    BY <1>5, <2>1, <2>2, <2>3
  <2>4. CASE y # x /\ z # x
    BY <1>5, <2>1, <2>4 DEF Homed
  <2> QED
    BY <2>3, <2>4
<1> QED
  BY <1>3, <1>4, <1>5 DEF Homed

LEMMA HomedNext ==
  ASSUME TypeOK, KeepInv, Homed, Told, Lone, Stray = {}, [Next]_vars
  PROVE  Homed'
<1>0. Homely /\ Route /\ OnePlace /\ Safe
  BY DEF KeepInv, Safe, Lone, Homely
<1>1. ASSUME NEW p \in Proc, Step(p) \/ Slip(p) \/ Crash(p) PROVE Homed'
  <2>1. Alone(p)
    BY <1>1, StepRegion DEF TypeOK
  <2>2. CASE p \in Restorers /\ RenameBack(p)
    BY <1>0, <2>2, HomedBack DEF Lone
  <2>3. CASE CopyIn(p)
    BY <2>3, HomedCopy
  <2>4. CASE ~(p \in Restorers /\ RenameBack(p)) /\ ~CopyIn(p)
    BY <1>0, <1>1, <2>1, <2>4, TakesAway, HomedLess
  <2> QED
    BY <2>2, <2>3, <2>4
<1>2. CASE Others
  BY <1>0, <1>2, OthersSave, HomedSave
<1>3. CASE UNCHANGED vars
  BY <1>3, HomedLess DEF vars
<1> QED
  BY <1>1, <1>2, <1>3 DEF Next
-----------------------------------------------------------------------------
(* Told is kept: the .trashinfo of an entry changes only in the hands of   *)
(* the one who holds its name, and nothing has that name then; an entry    *)
(* leaves files/ by the one restore or in an exclusive section.            *)
LEMMA ApartLess ==
  ASSUME Apart, \A o \in Obj : body'[o] \in {body[o], None}
  PROVE  Apart'
BY DEF Apart

LEMMA ApartSave ==
  ASSUME Apart, Homed, NEW x \in Place, NEW o \in Obj, NEW v \in Data, SavedAt(x, o, v)
  PROVE  Apart'
<1>1. \A q \in Obj : body[q] # v
  BY ConstantsAssumption DEF SavedAt, Homed
<1> QED
  BY <1>1, ConstantsAssumption DEF SavedAt, Apart

LEMMA DirectedStep ==
  ASSUME TypeOK, Directed,
         \A k \in Name : files'[k] # None => files'[k] = files[k] /\ info'[k] = info[k],
         \A k \in Name : files[k] # None => body'[files[k]] \in {body[files[k]], None}
  PROVE  Directed'
<1> SUFFICES ASSUME NEW o \in Obj, NEW k \in Name, files'[k] = o, body'[o] # None
             PROVE  Origin[body'[o]] = info'[k].path
  BY DEF Directed
<1>1. o # None
  BY ConstantsAssumption
<1>2. files[k] = o /\ info'[k] = info[k] /\ body'[o] = body[o]
  BY <1>1
<1> QED
  BY <1>2 DEF Directed

Tells(p) ==
  /\ \A k \in Name : info[k] # None => info'[k] = info[k] \/ Holding(p, k)
  /\ \A k \in Name : files[k] # None =>
       files'[k] # None \/ \A q \in Restorers \ {p} : pc[q] # "back"

LEMMA ToldOthers ==
  ASSUME TypeOK, Names, NEW p \in Proc, Alone(p), Tells(p), NEW q \in Proc \ {p}, ToldAt(q)
  PROVE  ToldAt(q)'
<1>0. pc'[q] = pc[q] /\ me'[q] = me[q]
  BY DEF Alone
<1>1. ASSUME pc[q] \in ReservingPC PROVE info'[me[q].name] = me[q].info
  <2>1. me[q].name \in Name /\ me[q].info \in Info
    BY <1>1, Here DEF TypeOK, Ready, NamePC
  <2>2. Holding(q, me[q].name) /\ info[me[q].name] = me[q].info
    BY <1>1 DEF Holding, HoldPC, ToldAt
  <2>3. info[me[q].name] # None
    BY <2>1, <2>2, ConstantsAssumption
  <2> QED
    BY <2>1, <2>2, <2>3 DEF Tells, Names, Single
<1>2. ASSUME q \in Restorers, pc[q] = "back"
      PROVE  files'[me[q].name] # None /\ info'[me[q].name] = me[q].info
  <2>1. me[q].name \in Name
    BY <1>2, Here DEF TypeOK, Ready, NamePC
  <2>2. /\ files[me[q].name] # None /\ info[me[q].name] = me[q].info
        /\ info[me[q].name] # None
    BY <1>2, <2>1 DEF ToldAt, Names, Named
  <2>3. ~Holding(p, me[q].name)
    BY <2>1, <2>2 DEF Names, Held
  <2> QED
    BY <1>2, <2>1, <2>2, <2>3 DEF Tells
<1> QED
  BY <1>0, <1>1, <1>2 DEF ToldAt

(* The steps that change files/ or info/, by rename only.                  *)
LEMMA ChangesNames ==
  ASSUME Local = Dir, Homely, Route, NEW p \in Proc, Step(p) \/ Slip(p) \/ Crash(p)
  PROVE  \/ UNCHANGED <<files, info>>
         \/ MoveIn(p) \/ ClaimOpen(p) \/ Release(p)
         \/ p \in Restorers /\ RenameBack(p)
         \/ UnlinkInfo(p) \/ Doom(p) \/ DropInfo(p)
<1>1. ~Publish(p) /\ ~Tombstone(p) /\ ~PutBack(p)
  BY DEF Route, RouteAt, CopyPC, Publish, Tombstone, PutBack
<1>2. CASE PutStep(p) \/ ReserveStep(p)
  BY <1>1, <1>2
  DEF PutStep, ReserveStep, PutStart, PutLock, PutUnlock, Walk, CopyDeclined, CopyLock,
      MakeBox, CopyIn, Capture, SyncIn, RemoveSource, DropBox, ClaimStat, ClaimFails, disk
<1>3. CASE p \in Restorers /\ RestoreStep(p)
  BY <1>1, <1>3
  DEF RestoreStep, ListItem, ReadInfo, CheckDest, RestoreLock, Recheck, CopyBack,
      PublishBack, DropOut, SyncOut, disk
<1>4. CASE DiscardStep(p) \/ Finish(p) \/ FallbackStat(p) \/ Crash(p)
  BY <1>1, <1>4
  DEF DiscardStep, Finish, FallbackStat, Crash, Verify, RemoveTomb, CheckInfo, disk
<1>5. CASE DeleteStep(p)
  BY <1>5
  DEF DeleteStep, ScanInfo, Choose, Declined, DeleteLock, CheckDoomed, CleanStaging,
      Collect, DeleteUnlock, Sweep, Burn, Done, disk
<1> QED
  BY <1>2, <1>3, <1>4, <1>5, SlipLeaves DEF Step

LEMMA DirectedNext ==
  ASSUME TypeOK, Exclusion, Names, Homely, Route, Safe, Homed, Told, Local = Dir,
         NEW p \in Proc, Alone(p), Step(p) \/ Slip(p) \/ Crash(p), p \in Restorers => Alike
  PROVE  Directed' /\ Apart' /\ Tells(p)
<1>0. /\ files \in [Name -> Maybe(Obj)] /\ info \in [Name -> Maybe(Info)]
      /\ place \in [Place -> Maybe(Obj)] /\ body \in [Obj -> Maybe(Data)]
      /\ Directed /\ Apart
  BY DEF TypeOK, DiskOK, Told
<1>1. \A o \in Obj : body'[o] \in {body[o], None}
  <2>1. CASE p \in Restorers /\ RenameBack(p)
    BY <2>1 DEF RenameBack
  <2>2. ~CopyIn(p)
    BY DEF Route, RouteAt, CopyPC, CopyIn
  <2> QED
    BY <2>1, <2>2, TakesAway
<1>2. Apart'
  BY <1>0, <1>1, ApartLess
<1>3. \A k \in Name : files[k] # None => body'[files[k]] \in {body[files[k]], None}
  BY <1>0, <1>1 DEF Maybe
<1>4. CASE UNCHANGED <<files, info>>
  BY <1>0, <1>2, <1>3, <1>4, DirectedStep DEF Tells
<1>5. ASSUME NEW k \in Name, Holding(p, k), UNCHANGED files,
             info' = [info EXCEPT ![k] = None]
      PROVE  Directed' /\ Tells(p)
  <2>1. \A l \in Name : info'[l] = info[l] \/ l = k
    BY <1>0, <1>5
  <2>2. files[k] = None
    BY <1>5 DEF Names, Held
  <2> QED
    BY <1>0, <1>3, <1>5, <2>1, <2>2, DirectedStep DEF Tells
<1>6. CASE Release(p) \/ UnlinkInfo(p) \/ DropInfo(p)
  <2>1. me[p].name \in Name /\ Holding(p, me[p].name) /\ UNCHANGED files
        /\ info' = [info EXCEPT ![me[p].name] = None]
    BY <1>6, Here
    DEF TypeOK, Ready, NamePC, ReservingPC, TakenPC, Holding, HoldPC, Release, LetsGo, UnlinkInfo,
        DropInfo
  <2> QED
    BY <1>2, <1>5, <2>1
<1>7. CASE ClaimOpen(p)
  <2>1. me[p].name \in Name /\ UNCHANGED files
    BY <1>7, Here DEF TypeOK, Ready, NamePC, ClaimOpen
  <2>2. CASE UNCHANGED info
    BY <1>4, <2>1, <2>2, <1>2
  <2>3. ASSUME NEW new, info[me[p].name] = None, info' = [info EXCEPT ![me[p].name] = new]
        PROVE  Directed' /\ Tells(p)
    <3>1. files[me[p].name] = None
      BY <2>1, <2>3 DEF Names, Named
    <3>2. \A l \in Name : info'[l] = info[l] \/ l = me[p].name
      BY <1>0, <2>3
    <3> QED
      BY <1>0, <1>3, <2>1, <2>3, <3>1, <3>2, DirectedStep DEF Tells
  <2> QED
    BY <1>2, <1>7, <2>2, <2>3 DEF ClaimOpen
<1>8. CASE Doom(p) \/ (p \in Restorers /\ RenameBack(p))
  <2>1. me[p].name \in Name /\ UNCHANGED info /\ p \in Proc
    BY <1>8, Here DEF TypeOK, Ready, NamePC, Doom, RenameBack
  <2>2. CASE UNCHANGED files
    BY <1>2, <1>4, <2>1, <2>2
  <2>3. CASE files' = [files EXCEPT ![me[p].name] = None]
    <3>1. \A k \in Name : files'[k] \in {files[k], None}
      BY <1>0, <2>3
    <3>2. Directed'
      BY <1>0, <1>3, <2>1, <3>1, DirectedStep
    <3>3. ASSUME NEW q \in Restorers \ {p}, pc[q] = "back" PROVE FALSE
      <4>1. CASE Doom(p)
        BY <3>3, <4>1 DEF Doom, Exclusion, ExclusivePC, SharedPC, Proc
      <4>2. CASE p \in Restorers
        BY <3>3, <4>2 DEF Alike
      <4> QED
        BY <1>8, <4>1, <4>2
    <3> QED
      BY <1>2, <2>1, <3>2, <3>3 DEF Tells
  <2> QED
    BY <1>8, <2>2, <2>3 DEF Doom, RenameBack
<1>9. CASE MoveIn(p)
  <2>1. me[p].name \in Name /\ UNCHANGED info /\ me[p].dir \in Dir /\ Arg(p) \in Place
        /\ pc[p] \in ReservingPC /\ Holding(p, me[p].name)
    BY <1>9, Here, ArgInPlace
    DEF TypeOK, Ready, NamePC, DirPC, PutPC, ReservingPC, MoveIn, Holding, HoldPC
  <2>2. CASE UNCHANGED files
    BY <1>2, <1>4, <2>1, <2>2
  <2>3. CASE files' = [files EXCEPT ![me[p].name] = place[Arg(p)]] /\ place[Arg(p)] # None
    <3>1. files[me[p].name] = None
      BY <2>1 DEF Names, Held
    <3>2. \A k \in Name : files'[k] = IF k = me[p].name THEN place[Arg(p)] ELSE files[k]
      BY <1>0, <2>3
    <3>3. UNCHANGED body
      BY <1>9 DEF MoveIn
    <3>4. info[me[p].name].path = Arg(p)[1]
      BY <2>1 DEF Told, ToldAt, Arg
    <3>5. Directed'
      BY <1>0, <2>1, <3>2, <3>3, <3>4 DEF Directed, Homed
    <3> QED
      BY <1>2, <2>1, <2>3, <3>1, <3>2, <3>5 DEF Tells
  <2> QED
    BY <1>9, <2>2, <2>3 DEF MoveIn
<1> QED
  BY <1>2, <1>4, <1>6, <1>7, <1>8, <1>9, ChangesNames

(* What the process itself goes by.                                        *)
LEMMA ToldSelf ==
  ASSUME TypeOK, Homely, Route, Local = Dir, NEW p \in Proc, Alone(p),
         Step(p) \/ Slip(p) \/ Crash(p), ToldAt(p)
  PROVE  ToldAt(p)'
<1>0. /\ pc \in [Proc -> PC] /\ me \in [Proc -> Locals] /\ me[p] \in Locals
      /\ info \in [Name -> Maybe(Info)]
  BY DEF TypeOK, ProcsOK, DiskOK
<1>1. CASE /\ pc'[p] \notin ReservingPC
           /\ p \in Restorers => pc'[p] \notin {"dest", "waitr", "recheck", "back"}
  BY <1>1 DEF ToldAt
<1>2. CASE ClaimOpen(p)
  <2>1. me[p].name \in Name
    BY <1>2, Here DEF TypeOK, Ready, NamePC, ClaimOpen
  <2>2. CASE pc' = [pc EXCEPT ![p] = "claim"]
    BY <1>0, <1>1, <2>2 DEF ReservingPC
  <2>3. ASSUME NEW new, new.path = me[p].dir, info' = [info EXCEPT ![me[p].name] = new],
               me' = [me EXCEPT ![p].info = new], pc' = [pc EXCEPT ![p] = "publish"]
        PROVE  ToldAt(p)'
    <3>1. me'[p].info = new /\ me'[p].name = me[p].name /\ me'[p].dir = me[p].dir
      BY <1>0, <2>3 DEF Locals
    <3>2. info'[me[p].name] = new /\ pc'[p] = "publish"
      BY <1>0, <2>1, <2>3
    <3> QED
      BY <2>3, <3>1, <3>2 DEF ToldAt
  <2> QED
    BY <1>2, <2>2, <2>3 DEF ClaimOpen, Goto
<1>3. CASE MoveIn(p)
  <2>1. /\ me'[p].info = me[p].info /\ me'[p].name = me[p].name /\ me'[p].dir = me[p].dir
        /\ info' = info
    BY <1>0, <1>3 DEF MoveIn, Locals
  <2>2. pc[p] = "publish" /\ pc'[p] \in {"unlock", "advance", "exdev", "release"}
    BY <1>0, <1>3 DEF MoveIn, Goto
  <2> QED
    BY <2>1, <2>2 DEF ToldAt, ReservingPC
<1>4. CASE FallbackStat(p)
  <2>1. /\ me'[p].info = me[p].info /\ me'[p].name = me[p].name /\ me'[p].dir = me[p].dir
        /\ UNCHANGED <<info, files, pc>>
    BY <1>0, <1>4 DEF FallbackStat, Locals, disk
  <2> QED
    BY <2>1 DEF ToldAt
<1>5. CASE ReadInfo(p)
  <2>1. CASE Return(p)
    BY <1>0, <1>1, <2>1 DEF Return, Goto, ReservingPC
  <2>2. ASSUME NEW i, i # None, me' = [me EXCEPT ![p].info = i, ![p].dir = i.path],
               pc' = [pc EXCEPT ![p] = "dest"]
        PROVE  ToldAt(p)'
    <3>1. me'[p].info = i /\ me'[p].dir = i.path /\ pc'[p] = "dest"
      BY <1>0, <2>2 DEF Locals
    <3> QED
      BY <2>2, <3>1 DEF ToldAt, ReservingPC
  <2> QED
    BY <1>5, <2>1, <2>2 DEF ReadInfo, Goto
<1>6. CASE CheckDest(p) \/ RestoreLock(p)
  <2>1. CASE Return(p)
    BY <1>0, <1>1, <2>1 DEF Return, Goto, ReservingPC
  <2>2. CASE UNCHANGED me /\ pc'[p] \in {"waitr", "recheck", "recheck2"}
    BY <1>6, <2>2 DEF ToldAt, ReservingPC, CheckDest, RestoreLock
  <2> QED
    BY <1>0, <1>6, <2>1, <2>2 DEF CheckDest, RestoreLock, Goto
<1>7. CASE Recheck(p)
  BY <1>0, <1>1, <1>7 DEF Recheck, Goto, ToldAt, ReservingPC, StillSame, disk
<1>8. CASE p \in Restorers /\ RenameBack(p)
  <2>1. CASE pc'[p] \in {"checkinfo", "unlock"}
    BY <1>1, <2>1 DEF ReservingPC
  <2>2. CASE /\ UNCHANGED <<files, info, pc>> /\ me' = [me EXCEPT ![p].to = @ + 1]
    <3>1. me'[p].info = me[p].info /\ me'[p].name = me[p].name /\ me'[p].dir = me[p].dir
      BY <1>0, <2>2 DEF Locals
    <3> QED
      BY <2>2, <3>1 DEF ToldAt
  <2>3. me[p].dir \in Local
    BY <1>8, Here DEF RenameBack, TypeOK, Ready, DirPC
  <2> QED
    BY <1>0, <1>8, <2>1, <2>2, <2>3 DEF RenameBack, NextDest, Goto
<1>9. ASSUME NEW k \in Name, ListItem(p, k) PROVE ToldAt(p)'
  BY <1>0, <1>1, <1>9 DEF ListItem, Goto, ReservingPC
<1>10. ~Publish(p) /\ ~CopyBack(p) /\ ~PublishBack(p) /\ ~DropOut(p) /\ ~SyncOut(p)
  BY DEF Route, RouteAt, CopyPC, Publish, CopyBack, PublishBack, DropOut, SyncOut
<1>11. CASE ReserveStep(p) /\ ~ClaimOpen(p)
  <2>1. pc'[p] \in {"claim", "open", "unlock", "dropbox", "unlockcp"}
    BY <1>0, <1>11 DEF ReserveStep, ClaimStat, ClaimFails, Release, LetsGo, Goto
  <2> QED
    BY <1>1, <2>1 DEF ReservingPC
<1>12. CASE PutStep(p) /\ ~MoveIn(p)
  <2>1. pc'[p] \notin ReservingPC \cup {"dest", "waitr", "recheck", "back"}
    BY <1>0, <1>10, <1>12
    DEF PutStep, PutStart, PutLock, PutUnlock, Walk, CopyDeclined, CopyLock, MakeBox, CopyIn,
        Capture, SyncIn, RemoveSource, DropBox, Goto, Return, ReservingPC
  <2> QED
    BY <1>1, <2>1
<1>13. CASE DiscardStep(p) \/ Finish(p) \/ DeleteStep(p) \/ Crash(p)
  <2>1. pc'[p] \notin ReservingPC \cup {"dest", "waitr", "recheck", "back"}
    BY <1>0, <1>13
    DEF DiscardStep, Finish, DeleteStep, Crash, Tombstone, Verify, PutBack, CheckInfo,
        UnlinkInfo, RemoveTomb, ScanInfo, Choose, Declined, DeleteLock, CheckDoomed, Doom,
        DropInfo, CleanStaging, Collect, DeleteUnlock, Sweep, Burn, Done, AfterInfo, Goto,
        Return, ReservingPC
  <2> QED
    BY <1>1, <2>1
<1>14. CASE Slip(p)
  <2>1. pc'[p] \notin ReservingPC \cup {"dest", "waitr", "recheck", "back"}
    BY <1>14, SlipMoves DEF TypeOK, SlipTo, ReservingPC
  <2> QED
    BY <1>1, <2>1
<1> QED
  BY <1>2, <1>3, <1>4, <1>5, <1>6, <1>7, <1>8, <1>9, <1>10, <1>11, <1>12, <1>13, <1>14
  DEF Step, RestoreStep

LEMMA ToldNext ==
  ASSUME TypeOK, Exclusion, Names, KeepInv, Homed, Told, Lone, Stray = {}, [Next]_vars
  PROVE  Told'
<1> SUFFICES ASSUME Local = Dir PROVE Apart' /\ Directed' /\ \A q \in Proc : ToldAt(q)'
  BY DEF Told
<1>0. Homely /\ Route /\ OnePlace /\ Safe /\ Apart /\ Directed /\ \A q \in Proc : ToldAt(q)
  BY DEF KeepInv, Safe, Lone, Homely, Told
<1>1. ASSUME NEW p \in Proc, Step(p) \/ Slip(p) \/ Crash(p)
      PROVE  Apart' /\ Directed' /\ \A q \in Proc : ToldAt(q)'
  <2>1. Alone(p)
    BY <1>1, StepRegion DEF TypeOK
  <2>2. Directed' /\ Apart' /\ Tells(p)
    BY <1>0, <1>1, <2>1, DirectedNext DEF Lone
  <2>3. ToldAt(p)'
    BY <1>0, <1>1, <2>1, ToldSelf
  <2> QED
    BY <1>0, <2>1, <2>2, <2>3, ToldOthers
<1>2. ASSUME NEW x \in Place, NEW o \in Obj, NEW v \in Data, SavedAt(x, o, v)
      PROVE  Apart' /\ Directed' /\ \A q \in Proc : ToldAt(q)'
  <2>1. Apart'
    BY <1>0, <1>2, ApartSave
  <2>2. Directed'
    <3>1. UNCHANGED <<files, info>> /\ files \in [Name -> Maybe(Obj)]
      BY <1>2 DEF SavedAt, TypeOK, DiskOK
    <3>2. \A k \in Name : files[k] # None => files[k] # o
      BY <1>0, <1>2 DEF SavedAt, InFiles, OnePlace
    <3>3. \A k \in Name : files[k] # None => body'[files[k]] \in {body[files[k]], None}
      BY <1>2, <3>1, <3>2 DEF SavedAt, Maybe
    <3> QED
      BY <1>0, <3>1, <3>3, DirectedStep
  <2>3. \A q \in Proc : ToldAt(q)'
    BY <1>0, <1>2 DEF SavedAt, ToldAt
  <2> QED
    BY <2>1, <2>2, <2>3
<1>3. CASE Others
  BY <1>0, <1>2, <1>3, OthersSave
<1>4. CASE UNCHANGED vars
  BY <1>0, <1>4 DEF vars, Apart, Directed, ToldAt
<1> QED
  BY <1>1, <1>3, <1>4 DEF Next

-----------------------------------------------------------------------------
(* Every step of a process but Doom is about one inode at most, and no     *)
(* content is born or given up in it.                                      *)
About(o) ==
  /\ UNCHANGED <<born, released>>
  /\ \A q \in Obj : /\ body'[q] = body[q] \/ (q = o /\ None \in {body[q], body'[q]})
                    /\ q # o => /\ AtPlace(q)' <=> AtPlace(q)
                                /\ InFiles(q)' <=> InFiles(q)

LEMMA AboutOne ==
  ASSUME Sound, Sound', NEW o, About(o)
  PROVE  [V!Next]_(V!vars)
<1>1. CASE o \in Obj
  BY <1>1, OneObject DEF About
<1>2. CASE o \notin Obj
  BY <1>2, NoObject DEF About
<1> QED
  BY <1>1, <1>2

(* What p has in its hands, to be checked.                                 *)
Checked(p) == IF pc[p] = "verify" THEN stage[me[p].tomb].obj ELSE None

LEMMA OthersHands ==
  ASSUME Route, Route', NEW p \in Proc, Alone(p), pc'[p] # "verify",
         \A q \in Proc \ {p} :
           pc[q] = "verify" => stage'[me[q].tomb].obj = stage[me[q].tomb].obj,
         NEW o, o # Checked(p)
  PROVE  InHand(o)' <=> InHand(o)
<1>1. \A q \in Proc : pc[q] # "putback" /\ pc'[q] # "putback"
  BY DEF Route, RouteAt
<1>2. InHand(o) <=> \E q \in Proc \ {p} : pc[q] = "verify" /\ stage[me[q].tomb].obj = o
  BY <1>1 DEF InHand, Checked
<1>3. InHand(o)' <=> \E q \in Proc \ {p} : pc[q] = "verify" /\ stage'[me[q].tomb].obj = o
  BY <1>1 DEF InHand, Alone
<1> QED
  BY <1>2, <1>3

LEMMA StillAbout ==
  ASSUME Route, Route', NEW p \in Proc, Alone(p), pc'[p] # "verify",
         UNCHANGED <<files, stage, place, body, born, released>>
  PROVE  About(Checked(p))
<1>1. \A o \in Obj : o # Checked(p) => (InHand(o)' <=> InHand(o))
  BY OthersHands
<1> QED
  BY <1>1 DEF About, AtPlace, InFiles

LEMMA CalmAbout ==
  ASSUME Route, Route', NEW p \in Proc, Alone(p), Calm(p),
         pc[p] # "verify", pc'[p] # "verify", NEW o,
         \A q \in Obj : body'[q] = body[q] \/ (q = o /\ body'[q] = None)
  PROVE  About(o)
<1>1. \A q \in Obj : InHand(q)' <=> InHand(q)
  BY OthersHands, ConstantsAssumption DEF Calm, Stay, Checked
<1> QED
  BY <1>1 DEF About, Calm, AtPlace, InFiles

LEMMA TombstoneAbout ==
  ASSUME TypeOK, Route, Route', NEW p \in Proc, Alone(p), Tombstone(p)
  PROVE  About(None)
<1>0. /\ pc \in [Proc -> PC] /\ me \in [Proc -> Locals] /\ me[p] \in Locals
      /\ stage \in [Slot -> StageEntry] /\ files \in [Name -> Maybe(Obj)]
      /\ me[p].name \in Name /\ pc[p] = "tomb"
  BY Here DEF TypeOK, ProcsOK, DiskOK, Tombstone, Ready, NamePC
<1>1. UNCHANGED <<place, body, born, released>>
  BY DEF Tombstone, bounds
<1>2. CASE UNCHANGED <<files, stage>> /\ Goto(p, "unlock")
  <2>1. pc'[p] # "verify" /\ Checked(p) = None
    BY <1>0, <1>2 DEF Goto, Checked
  <2> QED
    BY <1>1, <1>2, <2>1, StillAbout
<1>3. ASSUME FreeSlots # {}, files[me[p].name] # None,
             stage' = [stage EXCEPT ![NewSlot] = [kind |-> "del", obj |-> files[me[p].name]]],
             files' = [files EXCEPT ![me[p].name] = None],
             me' = [me EXCEPT ![p].tomb = NewSlot], Goto(p, "verify")
      PROVE  About(None)
  <2>1. PICK s \in FreeSlots : s = NewSlot
    BY <1>3 DEF NewSlot
  <2>2. PICK u \in Obj : u = files[me[p].name]
    BY <1>0, <1>3 DEF Maybe
  <2>3. /\ s \in Slot /\ stage'[s].obj = u /\ \A t \in Slot \ {s} : stage'[t] = stage[t]
        /\ me'[p].tomb = s /\ pc'[p] = "verify"
    BY <1>0, <1>3, <2>1, <2>2 DEF FreeSlots, Goto, Locals
  <2>4. \A k \in Name : files'[k] = IF k = me[p].name THEN None ELSE files[k]
    BY <1>0, <1>3
  <2>5. \A q \in Proc \ {p} : pc[q] = "verify" => me[q].tomb \in Slot \ {s}
    <3>1. \A q \in Proc : me[q].tomb # s
      BY DEF FreeSlots, Used
    <3>2. \A q \in Proc : pc[q] = "verify" => me[q].tomb \in Slot
      BY Here DEF TypeOK, Ready, TombPC
    <3> QED
      BY <3>1, <3>2
  <2>6. \A q \in Proc : pc[q] # "putback" /\ pc'[q] # "putback"
    BY DEF Route, RouteAt
  <2>7. ASSUME NEW o \in Obj PROVE InHand(o)' <=> InHand(o) \/ o = u
    <3>1. InHand(o) <=> \E q \in Proc \ {p} : pc[q] = "verify" /\ stage[me[q].tomb].obj = o
      BY <1>0, <2>6 DEF InHand
    <3>2. InHand(o)' <=> \/ stage'[me'[p].tomb].obj = o
                         \/ \E q \in Proc \ {p} : pc[q] = "verify" /\ stage'[me[q].tomb].obj = o
      BY <2>3, <2>6 DEF InHand, Alone
    <3> QED
      BY <2>3, <2>5, <3>1, <3>2
  <2>8. ASSUME NEW o \in Obj PROVE InFiles(o)' <=> InFiles(o)
    <3>1. (\E k \in Name : files[k] = o) <=> (\E k \in Name : files'[k] = o) \/ o = u
      BY <1>0, <2>2, <2>4, ConstantsAssumption
    <3> QED
      BY <2>7, <3>1 DEF InFiles
  <2> QED
    BY <1>1, <2>8 DEF About, AtPlace
<1> QED
  BY <1>2, <1>3 DEF Tombstone

LEMMA MoveInAbout ==
  ASSUME TypeOK, Names, Route, Route', NEW p \in Proc, Alone(p), MoveIn(p)
  PROVE  \E o \in Maybe(Obj) : About(o)
<1>0. /\ pc \in [Proc -> PC] /\ pc[p] = "publish" /\ me[p].name \in Name
      /\ files \in [Name -> Maybe(Obj)] /\ place \in [Place -> Maybe(Obj)]
      /\ Holding(p, me[p].name) /\ Arg(p) \in Place
  BY Here, ArgInPlace
  DEF TypeOK, ProcsOK, DiskOK, MoveIn, Ready, NamePC, DirPC, PutPC, ReservingPC, Holding,
      HoldPC
<1>1. UNCHANGED <<stage, body, born, released>> /\ pc'[p] # "verify" /\ Checked(p) = None
  BY <1>0 DEF MoveIn, Goto, bounds, Checked
<1>2. CASE UNCHANGED <<files, place>>
  <2>1. About(None)
    BY <1>1, <1>2, StillAbout
  <2> QED
    BY <2>1 DEF Maybe
<1>3. CASE /\ place[Arg(p)] # None
           /\ files' = [files EXCEPT ![me[p].name] = place[Arg(p)]]
           /\ place' = [place EXCEPT ![Arg(p)] = None]
  <2>1. PICK o \in Obj : o = place[Arg(p)]
    BY <1>0, <1>3 DEF Maybe
  <2>2. files[me[p].name] = None
    BY <1>0 DEF Names, Held
  <2>3. /\ \A k \in Name : files'[k] = IF k = me[p].name THEN o ELSE files[k]
        /\ \A x \in Place : place'[x] = IF x = Arg(p) THEN None ELSE place[x]
    BY <1>0, <1>3, <2>1
  <2>4. ASSUME NEW q \in Obj, q # o
        PROVE  (AtPlace(q)' <=> AtPlace(q)) /\ (InFiles(q)' <=> InFiles(q))
    <3>1. q # None
      BY ConstantsAssumption
    <3>2. InHand(q)' <=> InHand(q)
      BY <1>1, <3>1, OthersHands
    <3>3. AtPlace(q)' <=> AtPlace(q)
      BY <1>0, <2>1, <2>3, <2>4, <3>1 DEF AtPlace
    <3>4. (\E k \in Name : files'[k] = q) <=> \E k \in Name : files[k] = q
      BY <1>0, <2>2, <2>3, <2>4, <3>1
    <3> QED
      BY <3>2, <3>3, <3>4 DEF InFiles
  <2>5. About(o)
    BY <1>1, <2>4 DEF About
  <2> QED
    BY <2>5 DEF Maybe
<1> QED
  BY <1>2, <1>3 DEF MoveIn

LEMMA PublishAbout ==
  ASSUME TypeOK, Names, Slots, Route, Route', NEW p \in Proc, Alone(p), Publish(p)
  PROVE  \E o \in Maybe(Obj) : About(o)
<1>0. /\ pc \in [Proc -> PC] /\ me[p] \in Locals /\ pc[p] = "publish" /\ me[p].name \in Name
      /\ files \in [Name -> Maybe(Obj)] /\ stage \in [Slot -> StageEntry]
      /\ Holding(p, me[p].name) /\ me[p].slot \in Slot
  BY Here DEF TypeOK, ProcsOK, DiskOK, Publish, Ready, NamePC, ReservingPC, Holding, HoldPC,
     Locals, Maybe
<1>1. /\ UNCHANGED <<place, body, born, released>> /\ pc'[p] # "verify" /\ Checked(p) = None
  BY <1>0 DEF Publish, Goto, bounds, Checked
<1>2. CASE UNCHANGED <<files, stage>>
  <2>1. About(None)
    BY <1>1, <1>2, StillAbout
  <2> QED
    BY <2>1 DEF Maybe
<1>3. CASE /\ stage[me[p].slot].obj # None
           /\ files' = [files EXCEPT ![me[p].name] = stage[me[p].slot].obj]
           /\ stage' = [stage EXCEPT ![me[p].slot].obj = None]
  <2>1. PICK o \in Obj : o = stage[me[p].slot].obj
    BY <1>0, <1>3 DEF Maybe, StageEntry
  <2>2. files[me[p].name] = None
    BY <1>0 DEF Names, Held
  <2>3. /\ \A k \in Name : files'[k] = IF k = me[p].name THEN o ELSE files[k]
        /\ \A s \in Slot : s # me[p].slot => stage'[s] = stage[s]
    BY <1>0, <1>3, <2>1
  <2>4. \A q \in Proc : pc[q] = "verify" => me[q].tomb \in Slot /\ me[q].tomb # me[p].slot
    <3>1. \A q \in Proc : pc[q] = "verify" => me[q].tomb \in Slot
      BY Here DEF TypeOK, Ready, TombPC
    <3>2. \A q \in Proc : me[q].tomb # me[p].slot
      BY <1>0, ConstantsAssumption DEF Slots, TombsOf
    <3> QED
      BY <3>1, <3>2
  <2>5. ASSUME NEW q \in Obj, q # o PROVE InFiles(q)' <=> InFiles(q)
    <3>1. q # None
      BY ConstantsAssumption
    <3>2. InHand(q)' <=> InHand(q)
      BY <1>1, <2>3, <2>4, <3>1, OthersHands
    <3>3. (\E k \in Name : files'[k] = q) <=> \E k \in Name : files[k] = q
      BY <1>0, <2>2, <2>3, <2>5, <3>1
    <3> QED
      BY <3>2, <3>3 DEF InFiles
  <2>6. About(o)
    BY <1>1, <2>5 DEF About, AtPlace
  <2> QED
    BY <2>6 DEF Maybe
<1> QED
  BY <1>2, <1>3 DEF Publish

LEMMA CopyInAbout ==
  ASSUME TypeOK, Slots, Route, Route', NEW p \in Proc, Alone(p), CopyIn(p)
  PROVE  \E o \in Maybe(Obj) : About(o)
<1>0. /\ pc \in [Proc -> PC] /\ pc[p] = "cp" /\ me[p].slot \in Slot
      /\ body \in [Obj -> Maybe(Data)] /\ stage \in [Slot -> StageEntry]
  BY Here DEF TypeOK, ProcsOK, DiskOK, CopyIn, Ready, BoxPC
<1>1. /\ UNCHANGED <<files, place, born, released>> /\ pc'[p] # "verify"
      /\ Checked(p) = None
  BY <1>0 DEF CopyIn, Goto, bounds, Checked
<1>2. CASE UNCHANGED <<body, stage>>
  <2>1. About(None)
    BY <1>1, <1>2, StillAbout
  <2> QED
    BY <2>1 DEF Maybe
<1>3. ASSUME NEW c \in NewObjs, body' = [body EXCEPT ![c] = body[place[Arg(p)]]],
             stage' = [stage EXCEPT ![me[p].slot].obj = c]
      PROVE  \E o \in Maybe(Obj) : About(o)
  <2>1. c \in Obj /\ body[c] = None
    BY NewObjFree
  <2>2. \A q \in Obj : body'[q] = body[q] \/ q = c
    BY <1>0, <1>3
  <2>3. \A q \in Proc : pc[q] = "verify" => me[q].tomb \in Slot /\ me[q].tomb # me[p].slot
    <3>1. \A q \in Proc : pc[q] = "verify" => me[q].tomb \in Slot
      BY Here DEF TypeOK, Ready, TombPC
    <3>2. \A q \in Proc : me[q].tomb # me[p].slot
      BY <1>0, ConstantsAssumption DEF Slots, TombsOf
    <3> QED
      BY <3>1, <3>2
  <2>4. \A s \in Slot : s # me[p].slot => stage'[s] = stage[s]
    BY <1>0, <1>3
  <2>5. \A q \in Obj : InHand(q)' <=> InHand(q)
    BY <1>1, <2>3, <2>4, OthersHands, ConstantsAssumption
  <2>6. About(c)
    BY <1>1, <2>1, <2>2, <2>5 DEF About, AtPlace, InFiles
  <2> QED
    BY <2>1, <2>6 DEF Maybe
<1> QED
  BY <1>2, <1>3 DEF CopyIn

LEMMA RemoveSourceAbout ==
  ASSUME TypeOK, Route, Route', NEW p \in Proc, Alone(p), RemoveSource(p)
  PROVE  \E o \in Maybe(Obj) : About(o)
<1>0. /\ pc \in [Proc -> PC] /\ pc[p] = "source" /\ Arg(p) \in Place
      /\ place \in [Place -> Maybe(Obj)] /\ body \in [Obj -> Maybe(Data)]
  BY Here, ArgInPlace DEF TypeOK, ProcsOK, DiskOK, RemoveSource, Ready, DirPC, PutPC
<1>1. /\ UNCHANGED <<files, stage, born, released>> /\ pc'[p] # "verify"
      /\ Checked(p) = None
  BY <1>0 DEF RemoveSource, Goto, bounds, Checked
<1>2. CASE UNCHANGED <<body, place>>
  <2>1. About(None)
    BY <1>1, <1>2, StillAbout
  <2> QED
    BY <2>1 DEF Maybe
<1>3. CASE /\ place[Arg(p)] # None
           /\ place' = [place EXCEPT ![Arg(p)] = None]
           /\ body' = [body EXCEPT ![place[Arg(p)]] = None]
  <2>1. PICK o \in Obj : o = place[Arg(p)]
    BY <1>0, <1>3 DEF Maybe
  <2>2. /\ \A x \in Place : place'[x] = IF x = Arg(p) THEN None ELSE place[x]
        /\ \A q \in Obj : body'[q] = IF q = o THEN None ELSE body[q]
    BY <1>0, <1>3, <2>1
  <2>3. \A q \in Obj : InHand(q)' <=> InHand(q)
    BY <1>1, OthersHands, ConstantsAssumption
  <2>4. \A q \in Obj : q # o => (AtPlace(q)' <=> AtPlace(q))
    BY <1>0, <2>1, <2>2, ConstantsAssumption DEF AtPlace
  <2>5. About(o)
    BY <1>1, <2>2, <2>3, <2>4 DEF About, InFiles
  <2> QED
    BY <2>5 DEF Maybe
<1> QED
  BY <1>2, <1>3 DEF RemoveSource, Unchanged

LEMMA RenameBackAbout ==
  ASSUME TypeOK, Clear, Route, Route', NEW p \in Restorers, Alone(p), RenameBack(p)
  PROVE  \E o \in Maybe(Obj) : About(o)
<1>0. /\ p \in Proc /\ pc \in [Proc -> PC] /\ pc[p] = "back" /\ me[p].name \in Name
      /\ files \in [Name -> Maybe(Obj)] /\ place \in [Place -> Maybe(Obj)]
      /\ Dest(p) \in Place
  BY Here DEF Proc, TypeOK, ProcsOK, DiskOK, RenameBack, Ready, NamePC, DirPC, Locals, Dest,
     Place
<1>1. UNCHANGED <<stage, body, born, released>> /\ pc'[p] # "verify" /\ Checked(p) = None
  BY <1>0 DEF RenameBack, NextDest, Goto, bounds, Checked
<1>2. CASE UNCHANGED <<files, place>>
  <2>1. About(None)
    BY <1>0, <1>1, <1>2, StillAbout
  <2> QED
    BY <2>1 DEF Maybe
<1>3. CASE /\ files[me[p].name] # None /\ Vacant(p, place[Dest(p)])
           /\ place' = [place EXCEPT ![Dest(p)] = files[me[p].name]]
           /\ files' = [files EXCEPT ![me[p].name] = None]
  <2>1. PICK o \in Obj : o = files[me[p].name]
    BY <1>0, <1>3 DEF Maybe
  <2>2. place[Dest(p)] = None
    BY <1>0, <1>3, VacantDest
  <2>3. /\ \A k \in Name : files'[k] = IF k = me[p].name THEN None ELSE files[k]
        /\ \A x \in Place : place'[x] = IF x = Dest(p) THEN o ELSE place[x]
    BY <1>0, <1>3, <2>1
  <2>4. ASSUME NEW q \in Obj, q # o
        PROVE  (AtPlace(q)' <=> AtPlace(q)) /\ (InFiles(q)' <=> InFiles(q))
    <3>1. q # None
      BY ConstantsAssumption
    <3>2. InHand(q)' <=> InHand(q)
      BY <1>0, <1>1, <3>1, OthersHands
    <3>3. AtPlace(q)' <=> AtPlace(q)
      BY <1>0, <2>2, <2>3, <2>4, <3>1 DEF AtPlace
    <3>4. (\E k \in Name : files'[k] = q) <=> \E k \in Name : files[k] = q
      BY <1>0, <2>1, <2>3, <2>4, <3>1
    <3> QED
      BY <3>2, <3>3, <3>4 DEF InFiles
  <2>5. About(o)
    BY <1>1, <2>4 DEF About
  <2> QED
    BY <2>5 DEF Maybe
<1> QED
  BY <1>2, <1>3 DEF RenameBack

LEMMA ThrowAbout ==
  ASSUME TypeOK, Safe, Route, Route', NEW p \in Proc, Alone(p),
         \/ DropBox(p) \/ (BoxFails(p) /\ pc[p] = "dropbox")
         \/ RemoveTomb(p) \/ (DiscardFails(p) /\ pc[p] = "rm")
         \/ Burn(p) \/ (DeleteFails(p) /\ pc[p] = "burn")
  PROVE  \E o \in Maybe(Obj) : About(o)
<1>0. /\ pc \in [Proc -> PC] /\ stage \in [Slot -> StageEntry] /\ me[p] \in Locals
      /\ body \in [Obj -> Maybe(Data)]
  BY DEF TypeOK, ProcsOK, DiskOK
<1>1. PICK u \in Maybe(Obj) : BreaksOff(u)
  <2>1. CASE Burn(p) \/ (DeleteFails(p) /\ pc[p] = "burn")
    <3>1. me[p].victim \in Maybe(Obj)
      BY <1>0 DEF Locals
    <3> QED
      BY <2>1, <3>1 DEF Burn, DeleteFails, Collect, BreaksOff
  <2>2. CASE DropBox(p) \/ (BoxFails(p) /\ pc[p] = "dropbox")
    <3>1. stage[me[p].slot].obj \in Maybe(Obj)
      BY <1>0, <2>2, Here DEF TypeOK, DropBox, Ready, BoxPC, StageEntry
    <3> QED
      BY <2>2, <3>1 DEF DropBox, BoxFails, BreaksOff
  <2>3. CASE RemoveTomb(p) \/ (DiscardFails(p) /\ pc[p] = "rm")
    <3>1. stage[me[p].tomb].obj \in Maybe(Obj)
      BY <1>0, <2>3, Here DEF TypeOK, RemoveTomb, Ready, TombPC, StageEntry
    <3> QED
      BY <2>3, <3>1 DEF RemoveTomb, DiscardFails, BreaksOff
  <2> QED
    BY <2>1, <2>2, <2>3
<1>2. PICK o \in Maybe(Obj) : body' = [q \in Obj |-> IF q = o THEN None ELSE body[q]]
  <2>1. CASE body' = body
    <3>1. None \in Maybe(Obj) /\ None \notin Obj
      BY ConstantsAssumption DEF Maybe
    <3>2. body' = [q \in Obj |-> IF q = None THEN None ELSE body[q]]
      BY <1>0, <2>1, <3>1
    <3> QED
      BY <3>1, <3>2
  <2> QED
    BY <1>1, <2>1 DEF BreaksOff, Without
<1>3. Calm(p)
  <2>1. CASE DropBox(p) \/ (BoxFails(p) /\ pc[p] = "dropbox")
    BY <2>1, DropBoxCalm
  <2>2. CASE RemoveTomb(p) \/ (DiscardFails(p) /\ pc[p] = "rm")
    BY <2>2, RemoveTombCalm
  <2>3. CASE Burn(p) \/ (DeleteFails(p) /\ pc[p] = "burn")
    BY <2>3, BurnCalm
  <2> QED
    BY <2>1, <2>2, <2>3
<1>4. pc[p] # "verify" /\ pc'[p] # "verify"
  BY <1>0 DEF DropBox, RemoveTomb, Burn, BoxFails, DiscardFails, DeleteFails, Collect, Goto
<1>5. About(o)
  BY <1>2, <1>3, <1>4, CalmAbout
<1> QED
  BY <1>5

LEMMA BoxAbout ==
  ASSUME TypeOK, Exclusion, Safe, Route, Route', NEW p \in Proc, Alone(p),
         \/ MakeBox(p) \/ (BoxFails(p) /\ pc[p] = "mkbox")
         \/ SyncIn(p) \/ (BoxFails(p) /\ pc[p] = "sync")
         \/ (\E S : Collect(p, S)) /\ UNCHANGED <<born, released>>
  PROVE  About(None)
<1>0. pc \in [Proc -> PC]
  BY DEF TypeOK, ProcsOK
<1>1. Calm(p)
  <2>1. CASE MakeBox(p) \/ (BoxFails(p) /\ pc[p] = "mkbox")
    BY <2>1, MakeBoxCalm
  <2>2. CASE SyncIn(p) \/ (BoxFails(p) /\ pc[p] = "sync")
    BY <2>2, SyncInCalm
  <2>3. CASE (\E S : Collect(p, S)) /\ UNCHANGED <<born, released>>
    BY <2>3, CollectCalm
  <2> QED
    BY <2>1, <2>2, <2>3
<1>2. pc[p] # "verify" /\ pc'[p] # "verify" /\ UNCHANGED body
  BY <1>0 DEF MakeBox, SyncIn, BoxFails, Collect, Goto
<1> QED
  BY <1>1, <1>2, CalmAbout

(* The steps that move something, or change what is staged.                *)
LEMMA Movers ==
  ASSUME TypeOK, Homely, Route, NEW p \in Proc, Step(p) \/ Crash(p)
  PROVE  \/ UNCHANGED <<files, stage, place, body, born, released>> /\ pc'[p] # "verify"
         \/ MakeBox(p) \/ SyncIn(p) \/ CleanStaging(p)
         \/ DropBox(p) \/ RemoveTomb(p) \/ Burn(p)
         \/ Tombstone(p) \/ MoveIn(p) \/ Publish(p) \/ CopyIn(p) \/ RemoveSource(p)
         \/ p \in Restorers /\ RenameBack(p)
         \/ Doom(p)
<1>0. pc \in [Proc -> PC]
  BY DEF TypeOK, ProcsOK
<1>1. CASE PutStep(p)
  BY <1>0, <1>1
  DEF PutStep, PutStart, PutLock, PutUnlock, Walk, CopyDeclined, CopyLock, Capture, disk,
      bounds, Goto, Return
<1>2. CASE ReserveStep(p)
  BY <1>0, <1>2
  DEF ReserveStep, ClaimStat, ClaimOpen, ClaimFails, Release, LetsGo, disk, bounds, Goto
<1>3. CASE p \in Restorers /\ RestoreStep(p)
  <2>1. ~CopyBack(p) /\ ~PublishBack(p) /\ ~DropOut(p) /\ ~SyncOut(p)
    BY <1>3 DEF Homely, Route, RouteAt, CopyPC, CopyBack, PublishBack, DropOut, SyncOut
  <2> QED
    BY <1>0, <1>3, <2>1
    DEF RestoreStep, ListItem, ReadInfo, CheckDest, RestoreLock, Recheck, disk, bounds, Goto,
        Return
<1>4. CASE DiscardStep(p)
  <2>1. ~PutBack(p)
    BY DEF Route, RouteAt, PutBack
  <2> QED
    BY <1>0, <1>4, <2>1
    DEF DiscardStep, Verify, CheckInfo, UnlinkInfo, AfterInfo, disk, bounds, Goto
<1>5. CASE Finish(p) \/ FallbackStat(p) \/ Crash(p)
  BY <1>0, <1>5, SMTT(30) DEF Finish, FallbackStat, Crash, Slips, disk, bounds, Goto, Return
<1>6. CASE DeleteStep(p)
  BY <1>0, <1>6
  DEF DeleteStep, ScanInfo, Choose, Declined, DeleteLock, CheckDoomed, DropInfo,
      DeleteUnlock, Sweep, Done, disk, bounds, Goto, Return
<1> QED
  BY <1>1, <1>2, <1>3, <1>4, <1>5, <1>6 DEF Step

LEMMA SlipAbout ==
  ASSUME TypeOK, Exclusion, Homely, Route, Route', Safe, NEW p \in Proc, Alone(p), Slip(p)
  PROVE  \E o \in Maybe(Obj) : About(o)
<1>0. /\ UNCHANGED <<files, info, place, born, released>> /\ pc'[p] # "verify"
      /\ None \in Maybe(Obj) /\ Slots
  BY SlipLess, SlipMoves DEF TypeOK, SlipTo, Maybe, Safe
<1>1. CASE UNCHANGED <<stage, body>>
  <2>1. Checked(p) \in Maybe(Obj)
    BY Here DEF TypeOK, DiskOK, Checked, Ready, TombPC, StageEntry, Maybe
  <2> QED
    BY <1>0, <1>1, <2>1, StillAbout
<1>2. CASE BoxFails(p)
  <2>1. CASE pc[p] \in {"mkbox", "sync"}
    BY <1>0, <1>2, <2>1, BoxAbout
  <2>2. CASE pc[p] = "dropbox"
    BY <1>2, <2>2, ThrowAbout
  <2> QED
    BY <1>2, <2>1, <2>2 DEF BoxFails
<1>3. CASE DiscardFails(p)
  <2>1. CASE pc[p] = "rm"
    BY <1>3, <2>1, ThrowAbout
  <2> QED
    BY <1>1, <1>3, <2>1 DEF DiscardFails
<1>4. CASE DeleteFails(p)
  <2>1. CASE \E S : Collect(p, S)
    BY <1>0, <2>1, BoxAbout
  <2>2. CASE pc[p] = "burn"
    BY <1>4, <2>2, ThrowAbout
  <2> QED
    BY <1>1, <1>4, <2>1, <2>2 DEF DeleteFails, disk
<1> QED
  BY <1>1, <1>2, <1>3, <1>4 DEF Slip, ReleaseFails, DropOutFails, disk

LEMMA StepAbout ==
  ASSUME TypeOK, Exclusion, Names, Clear, Homely, Safe, Route, Route', NEW p \in Proc,
         Alone(p), Step(p) \/ Slip(p) \/ Crash(p), ~Doom(p)
  PROVE  \E o \in Maybe(Obj) : About(o)
<1>0. Slots /\ \A o \in Obj : o \in Maybe(Obj)
  BY DEF Safe, Maybe
<1>1. CASE UNCHANGED <<files, stage, place, body, born, released>> /\ pc'[p] # "verify"
  <2>1. Checked(p) \in Maybe(Obj)
    BY Here DEF TypeOK, DiskOK, Checked, Ready, TombPC, StageEntry, Maybe
  <2> QED
    BY <1>1, <2>1, StillAbout
<1>2. CASE MakeBox(p) \/ SyncIn(p) \/ CleanStaging(p) \/ Tombstone(p)
  <2>1. CleanStaging(p) => (\E S : Collect(p, S)) /\ UNCHANGED <<born, released>>
    BY DEF CleanStaging, bounds
  <2>2. CASE MakeBox(p) \/ SyncIn(p) \/ CleanStaging(p)
    BY <2>1, <2>2, BoxAbout DEF Maybe
  <2> QED
    BY <1>2, <2>2, TombstoneAbout DEF Maybe
<1>3. CASE \/ DropBox(p) \/ RemoveTomb(p) \/ Burn(p)
           \/ MoveIn(p) \/ Publish(p) \/ CopyIn(p) \/ RemoveSource(p)
           \/ p \in Restorers /\ RenameBack(p)
  BY <1>0, <1>3, ThrowAbout, MoveInAbout, PublishAbout, CopyInAbout, RemoveSourceAbout,
     RenameBackAbout
<1> QED
  BY <1>1, <1>2, <1>3, Movers, SlipAbout

-----------------------------------------------------------------------------
(* The one step that gives up a content is V's Delete of it: what was      *)
(* tombstoned is what the person was shown (Doomed).                       *)
LEMMA DoomVault ==
  ASSUME TypeOK, Sound, Sound', Safe, Route, Route', NEW p \in Proc, Alone(p), Doom(p)
  PROVE  [V!Next]_(V!vars)
<1>0. /\ pc \in [Proc -> PC] /\ pc[p] = "doom" /\ me[p].name \in Name
      /\ files \in [Name -> Maybe(Obj)] /\ stage \in [Slot -> StageEntry]
      /\ body \in [Obj -> Maybe(Data)]
  BY Here DEF TypeOK, ProcsOK, DiskOK, Doom, Ready, NamePC
<1>1. UNCHANGED <<place, body, born>> /\ pc'[p] # "verify" /\ Checked(p) = None
  BY <1>0 DEF Doom, Goto, Checked
<1>2. CASE UNCHANGED <<files, stage, released>>
  BY <1>1, <1>2, StillAbout, AboutOne
<1>3. ASSUME FreeSlots # {}, files[me[p].name] # None,
             stage' = [stage EXCEPT ![NewSlot] = [kind |-> "del", obj |-> files[me[p].name]]],
             files' = [files EXCEPT ![me[p].name] = None],
             released' = released \cup ({me[p].cur.data} \ {None})
      PROVE  [V!Next]_(V!vars)
  <2>1. PICK s \in FreeSlots : s = NewSlot
    BY <1>3 DEF NewSlot
  <2>2. PICK o \in Obj : o = files[me[p].name]
    BY <1>0, <1>3 DEF Maybe
  <2>3. body[o] = me[p].cur.data
    BY <1>0, <1>3, <2>2 DEF Safe, Doomed, DoomedAt
  <2>4. \A t \in Slot \ {s} : stage'[t] = stage[t]
    BY <1>0, <1>3, <2>1
  <2>5. \A q \in Proc : pc[q] = "verify" => me[q].tomb \in Slot \ {s}
    <3>1. \A q \in Proc : me[q].tomb # s
      BY DEF FreeSlots, Used
    <3>2. \A q \in Proc : pc[q] = "verify" => me[q].tomb \in Slot
      BY Here DEF TypeOK, Ready, TombPC
    <3> QED
      BY <3>1, <3>2
  <2>6. \A q \in Obj : InHand(q)' <=> InHand(q)
    BY <1>1, <2>4, <2>5, OthersHands, ConstantsAssumption
  <2>7. \A k \in Name : files'[k] = IF k = me[p].name THEN None ELSE files[k]
    BY <1>0, <1>3
  <2>8. \A q \in Obj : q # o => (InFiles(q)' <=> InFiles(q))
    BY <1>0, <2>2, <2>6, <2>7, ConstantsAssumption DEF InFiles
  <2>9. \A q \in Obj : AtPlace(q)' <=> AtPlace(q)
    BY <1>1 DEF AtPlace
  <2>10. InFiles(o)
    BY <1>0, <2>2 DEF InFiles
  <2>11. CASE body[o] = None
    <3>1. About(o)
      BY <1>1, <1>3, <2>3, <2>8, <2>9, <2>11 DEF About
    <3> QED
      BY <3>1, AboutOne
  <2>12. ASSUME NEW w \in Data, w = body[o] PROVE V!Delete(w)
    <3>0. Accounted /\ Accounted' /\ None \notin Data
      BY SoundAccounts, AccountsAfter, ConstantsAssumption
    <3>1. released' = released \cup {w}
      BY <1>3, <2>3, <2>12, <3>0
    <3>2. ASSUME NEW u \in Data, u # w PROVE Where'[u] = Where[u]
      <4>1. "home" \in Where'[u] <=> "home" \in Where[u]
        BY <1>1, <2>9, <3>0 DEF Accounted
      <4>2. "trash" \in Where'[u] <=> "trash" \in Where[u]
        BY <1>1, <2>8, <2>12, <3>0, <3>2 DEF Accounted
      <4>3. Where[u] \in Spots /\ Where'[u] \in Spots
        BY <3>0 DEF Accounted
      <4> QED
        BY <4>1, <4>2, <4>3, SameSpots
    <3>3. "home" \in Where'[w] <=> "home" \in Where[w]
      BY <1>1, <2>9, <3>0 DEF Accounted
    <3>4. "trash" \in Where[w]
      BY <2>10, <2>12, <3>0 DEF Accounted
    <3>5. /\ Where \in [Data -> Spots] /\ Where' \in [Data -> Spots]
          /\ Where[w] \in Spots /\ Where'[w] \in Spots
      BY <3>0 DEF Accounted
    <3>6. CASE "trash" \in Where'[w]
      <4>1. Where'[w] = Where[w]
        BY <3>3, <3>4, <3>5, <3>6, SameSpots
      <4>2. \A u \in Data : Where'[u] = Where[u]
        BY <3>2, <4>1
      <4>3. Where' = Where
        BY <3>5, <4>2, SameMap
      <4> QED
        BY <1>1, <3>1, <4>3 DEF V!Delete
    <3>7. CASE "trash" \notin Where'[w]
      <4>1. Where[w] \ {"trash"} \in Spots
        BY <3>5 DEF Spots
      <4>2. Where'[w] = Where[w] \ {"trash"}
        BY <3>3, <3>5, <3>7, <4>1, SameSpots
      <4>3. \A u \in Data : Where'[u] = [Where EXCEPT ![w] = @ \ {"trash"}][u]
        BY <3>2, <3>5, <4>2
      <4>4. [Where EXCEPT ![w] = @ \ {"trash"}] \in [Data -> Spots]
        BY <3>5, <4>1
      <4>5. Where' = [Where EXCEPT ![w] = @ \ {"trash"}]
        BY <3>5, <4>3, <4>4, SameMap
      <4> QED
        BY <1>1, <3>1, <4>5 DEF V!Delete
    <3> QED
      BY <3>6, <3>7
  <2> QED
    BY <1>0, <2>11, <2>12 DEF Maybe, V!Next
<1> QED
  BY <1>2, <1>3 DEF Doom

(* A user's hand is V's Save, over the content that was there if any.      *)
LEMMA SaveVault ==
  ASSUME TypeOK, Sound, Sound', NEW x \in Place, NEW o \in Obj, NEW v \in Data,
         SavedAt(x, o, v)
  PROVE  V!Next
<1>0. /\ Accounted /\ Accounted' /\ None \notin Data \cup Obj
      /\ \A y \in Place : place[y] \in Maybe(Obj)
      /\ \A q \in Obj : body[q] \in Maybe(Data)
  BY SoundAccounts, AccountsAfter, ConstantsAssumption DEF TypeOK, DiskOK
<1>1. \A q \in Obj : InFiles(q)' <=> InFiles(q)
  BY DEF SavedAt, InFiles, InHand
<1>2. \A q \in Obj : body[q] # v
  BY <1>0 DEF SavedAt, Accounted
<1>3. body'[o] = v /\ \A q \in Obj : body'[q] = v => q = o
  BY <1>0, <1>2 DEF SavedAt
<1>4. AtPlace(o)' /\ place'[x] = o
  BY DEF SavedAt, AtPlace
<1>5. Where'[v] = {"home"}
  <2>1. "home" \in Where'[v]
    BY <1>0, <1>3, <1>4 DEF Accounted
  <2>2. "trash" \notin Where'[v]
    BY <1>0, <1>3, <1>4 DEF Accounted
  <2>3. Where'[v] \in Spots
    BY <1>0 DEF Accounted
  <2> QED
    BY <2>1, <2>2, <2>3 DEF Spots
<1> DEFINE w == IF place[x] = None THEN None ELSE body[place[x]]
<1>6. w \in Maybe(Data) /\ released' = released \cup ({w} \ {None}) /\ w # v
  BY <1>0, <1>2 DEF SavedAt, Maybe
<1>7. ASSUME NEW q \in Obj, NEW u \in Data, u # v
      PROVE  body'[q] = u <=> q # o /\ q # place[x] /\ body[q] = u
  BY <1>0, <1>7 DEF SavedAt
<1>8. ASSUME NEW q \in Obj, q # o, q # place[x] PROVE AtPlace(q)' <=> AtPlace(q)
  BY <1>8 DEF SavedAt, AtPlace
<1>9. ASSUME NEW u \in Data, u # v, u # w PROVE Where'[u] = Where[u]
  <2>1. ASSUME NEW q \in Obj, body[q] = u PROVE q # o /\ q # place[x]
    BY <1>0, <1>9, <2>1 DEF SavedAt
  <2>2. "home" \in Where'[u] <=> "home" \in Where[u]
    BY <1>0, <1>7, <1>8, <1>9, <2>1 DEF Accounted
  <2>3. "trash" \in Where'[u] <=> "trash" \in Where[u]
    BY <1>0, <1>1, <1>7, <1>9, <2>1 DEF Accounted
  <2>4. Where[u] \in Spots /\ Where'[u] \in Spots
    BY <1>0 DEF Accounted
  <2> QED
    BY <2>2, <2>3, <2>4, SameSpots
<1>10. ASSUME w \in Data PROVE Where'[w] = Where[w] \ {"home"}
  <2>1. place[x] \in Obj /\ body[place[x]] = w /\ w # v /\ AtPlace(place[x])
    BY <1>0, <1>6, <1>10 DEF Maybe, AtPlace
  <2>2. "home" \notin Where'[w]
    <3> SUFFICES ASSUME NEW q \in Obj, body'[q] = w, AtPlace(q)' PROVE FALSE
      BY <1>0, <1>10 DEF Accounted
    <3>1. q # o /\ q # place[x] /\ body[q] = w /\ AtPlace(q)
      BY <1>7, <1>8, <1>10, <2>1
    <3>2. PICK y \in Place : place[y] = q
      BY <3>1 DEF AtPlace
    <3> QED
      BY <1>0, <1>10, <2>1, <3>1, <3>2 DEF Sound, Homed
  <2>3. "trash" \in Where'[w] <=> "trash" \in Where[w]
    <3>1. ~InFiles(place[x])
      BY <1>0, <2>1 DEF Accounted
    <3>2. ASSUME NEW q \in Obj, body[q] = w, InFiles(q) PROVE q # place[x] /\ q # o
      BY <1>0, <1>10, <2>1, <3>1, <3>2 DEF SavedAt
    <3> QED
      BY <1>0, <1>1, <1>7, <1>10, <2>1, <3>2 DEF Accounted
  <2>4. Where[w] \in Spots /\ Where'[w] \in Spots /\ Where[w] \ {"home"} \in Spots
    BY <1>0, <1>10 DEF Accounted, Spots
  <2> QED
    BY <2>2, <2>3, <2>4, SameSpots
<1>11. Where \in [Data -> Spots] /\ Where' \in [Data -> Spots]
  BY <1>0 DEF Accounted
<1>12. v \notin born /\ born' = born \cup {v}
  BY DEF SavedAt
<1> HIDE DEF w
<1>13. ASSUME NEW W, W = {w} \ {None} PROVE V!Save(v, W)
  <2>1. \A u \in Data : Where'[u] = (IF u = v THEN {"home"}
                                     ELSE IF u \in W THEN Where[u] \ {"home"} ELSE Where[u])
    BY <1>0, <1>5, <1>6, <1>9, <1>10, <1>13
  <2>2. Where' = [u \in Data |-> IF u = v THEN {"home"}
                                 ELSE IF u \in W THEN Where[u] \ {"home"} ELSE Where[u]]
    BY <1>11, <2>1
  <2> QED
    BY <1>6, <1>12, <1>13, <2>2 DEF V!Save
<1>14. CASE w = None
  <2>1. {w} \ {None} = {}
    BY <1>14
  <2> QED
    BY <1>13, <2>1 DEF V!Next
<1>15. CASE w \in Data
  <2>1. {w} \ {None} = {w}
    BY <1>0, <1>15
  <2> QED
    BY <1>13, <1>15, <2>1 DEF V!Next
<1> QED
  BY <1>6, <1>14, <1>15 DEF Maybe

-----------------------------------------------------------------------------
(* The state Rip starts in, and every step it takes, are V's.              *)
LEMMA VaultNext ==
  ASSUME TypeOK, Exclusion, Names, Clear, KeepInv, KeepInv', Sound, Sound', Homely,
         Stray = {}, [Next]_vars
  PROVE  [V!Next]_(V!vars)
<1>0. Route /\ Route' /\ Safe /\ OnePlace
  BY DEF KeepInv, Safe
<1>1. ASSUME NEW p \in Proc, Step(p) \/ Slip(p) \/ Crash(p) PROVE [V!Next]_(V!vars)
  <2>1. Alone(p)
    BY <1>1, StepRegion DEF TypeOK
  <2>2. CASE Doom(p)
    BY <1>0, <2>1, <2>2, DoomVault
  <2>3. CASE ~Doom(p)
    BY <1>0, <1>1, <2>1, <2>3, StepAbout, AboutOne
  <2> QED
    BY <2>2, <2>3
<1>2. CASE Others
  BY <1>0, <1>2, OthersSave, SaveVault
<1>3. CASE UNCHANGED vars
  <2>1. About(None)
    BY <1>3 DEF vars, About, AtPlace, InFiles, InHand
  <2> QED
    BY <2>1, AboutOne
<1> QED
  BY <1>1, <1>2, <1>3 DEF Next

LEMMA PromiseInit ==
  ASSUME Init, Stray = {}
  PROVE  Homed /\ Told /\ V!Init
<1>0. TypeOK
  BY InitTyped
<1>1. PICK s \in Starts : /\ files = s.files /\ info = s.info
                          /\ place = s.place /\ body = s.body
  BY DEF Init
<1>2. /\ born = {v \in Data : \E o \in Obj : body[o] = v} /\ released = {}
      /\ \A p \in Proc : pc[p] = "idle"
  BY DEF Init
<1>3. \A o \in Obj : body[o] \in Maybe(Data)
  BY <1>0 DEF TypeOK, DiskOK
<1>4. Apart
  BY <1>1, StartsAssumption DEF Apart
<1>5. Homed
  <2>1. \A o \in Obj : body[o] # None => body[o] \in born
    BY <1>2, <1>3 DEF Maybe
  <2>2. \A o \in Obj, x \in Place : place[x] = o /\ body[o] # None => Origin[body[o]] = x[1]
    BY <1>1, StartsAssumption
  <2>3. \A x, y \in Place :
          place[x] # None /\ place[y] # None /\ body[place[x]] # None
            /\ body[place[x]] = body[place[y]] => x = y
    <3>1. \A x \in Place : place[x] \in Maybe(Obj)
      BY <1>0 DEF TypeOK, DiskOK
    <3>2. \A x, y \in Place : place[x] # None /\ place[x] = place[y] => x = y
      BY <1>1, StartsAssumption
    <3> QED
      BY <1>4, <3>1, <3>2 DEF Apart, Maybe
  <2> QED
    BY <2>1, <2>2, <2>3 DEF Homed
<1>6. Told
  <2>1. ASSUME NEW o \in Obj, NEW k \in Name, files[k] = o, body[o] # None
        PROVE  Origin[body[o]] = info[k].path
    <3>1. info[k] # None
      BY <1>1, <2>1, StartsAssumption
    <3> QED
      BY <1>1, <2>1, <3>1, StartsAssumption
  <2>2. \A p \in Proc : ToldAt(p)
    BY <1>2 DEF ToldAt, ReservingPC
  <2> QED
    BY <1>4, <2>1, <2>2 DEF Told, Directed
<1>7. V!Init
  <2>1. /\ Where \in [Data -> Spots]
        /\ \A v \in Data :
             /\ "home" \in Where[v] <=> \E o \in Obj : body[o] = v /\ AtPlace(o)
             /\ "trash" \in Where[v] <=> \E o \in Obj : body[o] = v /\ InFiles(o)
    BY <1>0, <1>5, WhereIs
  <2>2. ASSUME NEW v \in Data PROVE v \in born <=> Where[v] # {}
    <3>1. v # None
      BY ConstantsAssumption
    <3>2. ASSUME NEW o \in Obj, body[o] = v PROVE AtPlace(o) \/ InFiles(o)
      BY <1>1, <3>1, <3>2, StartsAssumption DEF AtPlace, InFiles
    <3>3. Where[v] # {} <=> "home" \in Where[v] \/ "trash" \in Where[v]
      BY <2>1 DEF Spots
    <3> QED
      BY <1>2, <2>1, <3>2, <3>3
  <2>3. born = {v \in Data : Where[v] # {}}
    BY <1>2, <2>2
  <2> QED
    BY <1>2, <2>1, <2>3 DEF V!Init, Spots
<1> QED
  BY <1>5, <1>6, <1>7

(* On every run: what the theorems of this module are about.               *)
LEMMA ToldAlways ==
  ASSUME HasFlock, Stray = {}, Renames, Lone
  PROVE  Spec => [](Homed /\ Told)
<1>0. Homely
  BY DEF Lone, Homely
<1>1. Init => Homed /\ Told
  BY PromiseInit
<1>2. TypeOK /\ KeepInv /\ Homed /\ Told /\ [Next]_vars => Homed'
  BY HomedNext
<1>3. TypeOK /\ Exclusion /\ Names /\ KeepInv /\ Homed /\ Told /\ [Next]_vars => Told'
  BY ToldNext
<1>4. Spec => [](KeepInv /\ TypeOK /\ Exclusion /\ Names /\ Clear)
  BY <1>0, KeepAlways
<1> QED
  BY <1>1, <1>2, <1>3, <1>4, PTL DEF Spec

(* Rip implements Vault, as long as nothing is restored or one restore at  *)
(* a time renames back: however commands interleave, wherever they are     *)
(* killed, and whoever saves or edits meanwhile, a content comes back to   *)
(* where it was or not at all, is in one of the two places until its user  *)
(* gives it up, and goes from both only by the step that gives it up or    *)
(* after it.                                                               *)
THEOREM PromiseHolds ==
  ASSUME HasFlock, Stray = {}, Renames, Lone
  PROVE  Spec => Promise
<1>0. Homely
  BY DEF Lone, Homely
<1>1. Init => Homed /\ Told /\ V!Init
  BY PromiseInit
<1>2. TypeOK /\ KeepInv /\ Homed /\ Told /\ [Next]_vars => Homed'
  BY HomedNext
<1>3. TypeOK /\ Exclusion /\ Names /\ KeepInv /\ Homed /\ Told /\ [Next]_vars => Told'
  BY ToldNext
<1>4. TypeOK /\ KeepInv /\ Homed => Sound
  BY KeptNoLoss DEF KeepInv, Sound
<1>5. (TypeOK /\ Exclusion /\ Names /\ Clear /\ KeepInv /\ KeepInv' /\ Sound /\ Sound')
      /\ [Next]_vars => [V!Next]_(V!vars)
  BY <1>0, VaultNext
<1>6. Spec => [](KeepInv /\ TypeOK /\ Exclusion /\ Names /\ Clear)
  BY <1>0, KeepAlways
<1> QED
  BY <1>1, <1>2, <1>3, <1>4, <1>5, <1>6, PTL DEF Spec, Promise, V!Spec

-----------------------------------------------------------------------------
(* At rest nothing is left over (AtRest): while nobody is killed and no    *)
(* clean-up call fails, what is in .rip-staging is a live process's, and a .trashinfo without its entry *)
(* was there at the start or is held.  A process that is to unlink one by  *)
(* its identity still finds that (Settled); a tombstone that is opened to  *)
(* be deleted keeps what was in it (Burning).                              *)
BoxHeldPC == BoxedPC \cup {"cp", "release", "capture", "sync", "dropbox"}
TombHeldPC == TakenPC \cup {"rm", "burn"}
DoomedPC == ExclusivePC \cup {"sweep", "burn"}
SettlePC == {"sync", "source", "tomb"} \cup TakenPC

Owns(p, s) ==
  \/ pc[p] \in BoxHeldPC /\ me[p].slot = s
  \/ pc[p] \in TombHeldPC /\ me[p].tomb = s
  \/ pc[p] \in DoomedPC /\ s \in me[p].tombs
Staged == \A s \in Slot : stage[s] # NoEntry => \E p \in Proc : Owns(p, s)
Infos == \A k \in Name : info[k] # None /\ files[k] = None =>
  (\E s \in Starts : s.info[k] = info[k]) \/ \E p \in Proc : Holding(p, k)

BurningAt(p) == pc[p] = "burn" =>
  me[p].tomb \in Slot /\ stage[me[p].tomb].obj \in {me[p].victim, None}
SettledAt(p) == pc[p] \in SettlePC => info[me[p].name] = me[p].info
Tidy == \A p \in Proc : BurningAt(p) /\ SettledAt(p)
RestInv ==
  /\ Tidy /\ mishaps <= MaxMishaps
  /\ mishaps = MaxMishaps => Staged /\ Infos

(* What a step of p may do to what others go by.                           *)
Aside(p) ==
  /\ \A s \in Slot : \/ stage'[s].obj \in {stage[s].obj, None}
                     \/ s \in FreeSlots \/ s = me[p].slot
  /\ \A k \in Name : info'[k] = info[k] \/ Holding(p, k) \/ info[k] = None

LEMMA TidyStep ==
  ASSUME TypeOK, Names, Slots, Copies, Tidy, NEW p \in Proc, Alone(p), Aside(p),
         BurningAt(p)' /\ SettledAt(p)'
  PROVE  Tidy'
<1> SUFFICES ASSUME NEW q \in Proc \ {p} PROVE BurningAt(q)' /\ SettledAt(q)'
  BY DEF Tidy
<1>0. pc'[q] = pc[q] /\ me'[q] = me[q] /\ BurningAt(q) /\ SettledAt(q)
  BY DEF Alone, Tidy
<1>1. ASSUME pc[q] = "burn"
      PROVE  me[q].tomb \in Slot /\ stage'[me[q].tomb].obj \in {me[q].victim, None}
  <2>1. me[q].tomb \in Slot /\ stage[me[q].tomb].obj \in {me[q].victim, None}
    BY <1>0, <1>1 DEF BurningAt
  <2>2. me[q].tomb \notin FreeSlots
    BY DEF FreeSlots, Used
  <2>3. me[q].tomb # me[p].slot
    BY <2>1, ConstantsAssumption DEF Slots, TombsOf
  <2> QED
    BY <2>1, <2>2, <2>3 DEF Aside
<1>2. ASSUME pc[q] \in SettlePC PROVE info'[me[q].name] = info[me[q].name]
  <2>1. me[q].name \in Name
    BY <1>2 DEF TypeOK, ProcsOK, Ready, NamePC, SettlePC
  <2>2. CASE Holding(q, me[q].name)
    BY <2>1, <2>2 DEF Names, Held, Single, Aside
  <2>3. CASE Pending(q, me[q].name)
    BY <2>1, <2>3 DEF Names, Named, Held, Aside, Copies, CopyAt
  <2> QED
    BY <1>2, <2>2, <2>3 DEF Holding, HoldPC, Pending, PendPC, SettlePC
<1> QED
  BY <1>0, <1>1, <1>2 DEF BurningAt, SettledAt

(* What p leaves behind is its own, or was another's.                      *)
Leaves(p) ==
  /\ \A s \in Slot : stage'[s] # NoEntry =>
       Owns(p, s)' \/ (stage[s] # NoEntry /\ ~Owns(p, s))
  /\ \A k \in Name : info'[k] # None /\ files'[k] = None =>
       Holding(p, k)' \/ (info'[k] = info[k] /\ files[k] = None /\ ~Holding(p, k))

LEMMA LeavesStep ==
  ASSUME Staged, Infos, NEW p \in Proc, Alone(p), Leaves(p)
  PROVE  Staged' /\ Infos'
<1>1. \A q \in Proc \ {p} : /\ \A s \in Slot : Owns(q, s)' <=> Owns(q, s)
                            /\ \A k \in Name : Holding(q, k)' <=> Holding(q, k)
  BY DEF Alone, Owns, Holding
<1>2. Staged'
  BY <1>1 DEF Staged, Leaves
<1>3. Infos'
  BY <1>1 DEF Infos, Leaves
<1> QED
  BY <1>2, <1>3

Resting(p) ==
  /\ Aside(p) /\ BurningAt(p)' /\ SettledAt(p)'
  /\ mishaps' = mishaps => Leaves(p)

(* A step of a process that owns nothing and takes nothing.                *)
LEMMA NothingOwned ==
  ASSUME NEW p \in Proc, UNCHANGED <<files, info, stage>>,
         \A s \in Slot : ~Owns(p, s), pc[p] \notin HoldPC,
         pc'[p] \notin SettlePC \cup {"burn"}
  PROVE  Resting(p)
BY DEF Resting, Aside, Leaves, Holding, BurningAt, SettledAt

(* A step that goes on with what the process owns.                         *)
LEMMA StillOwned ==
  ASSUME NEW p \in Proc, UNCHANGED <<files, info, stage>>,
         \A s \in Slot : Owns(p, s) => Owns(p, s)',
         \A k \in Name : Holding(p, k) => Holding(p, k)',
         BurningAt(p)', SettledAt(p)'
  PROVE  Resting(p)
BY DEF Resting, Aside, Leaves

-----------------------------------------------------------------------------
(* A put leaves no box and no .trashinfo that nobody answers for.          *)
LEMMA PutRests ==
  ASSUME TypeOK, Names, Route, OnePlace, Slots, Copies, Tidy, NEW p \in Proc,
         PutStep(p) \/ ReserveStep(p)
  PROVE  Resting(p)
<1> USE DEF Goto
<1>0. /\ pc \in [Proc -> PC] /\ me \in [Proc -> Locals] /\ me[p] \in Locals
      /\ files \in [Name -> Maybe(Obj)] /\ info \in [Name -> Maybe(Info)]
      /\ stage \in [Slot -> StageEntry] /\ CopyAt(p) /\ SettledAt(p)
      /\ None \notin Slot
  BY ConstantsAssumption DEF TypeOK, ProcsOK, DiskOK, Copies, Tidy
<1>1. CASE \/ \E d \in Dir : PutStart(p, d)
           \/ PutLock(p) \/ PutUnlock(p) \/ Walk(p) \/ CopyDeclined(p) \/ CopyLock(p)
  <2>1. UNCHANGED <<files, info, stage>>
    BY <1>1 DEF PutStart, PutLock, PutUnlock, Walk, CopyDeclined, CopyLock, disk
  <2>2. pc[p] \in {"idle", "wait", "unlockcp", "walk", "waitcp"}
        /\ pc'[p] \in {"wait", "walk", "claim", "waitcp", "idle", "mkbox"}
    BY <1>0, <1>1 DEF PutStart, PutLock, PutUnlock, Walk, CopyDeclined, CopyLock, Return
  <2> QED
    BY <2>1, <2>2, NothingOwned
    DEF Owns, BoxHeldPC, BoxedPC, TombHeldPC, DoomedPC, ExclusivePC, SettlePC, TakenPC,
        HoldPC, ReservingPC
<1>2. CASE RemoveSource(p)
  <2>1. UNCHANGED <<files, info, stage, me>> /\ pc[p] = "source" /\ pc'[p] \in {"unlock", "tomb"}
    BY <1>0, <1>2 DEF RemoveSource
  <2>2. SettledAt(p)' /\ BurningAt(p)'
    BY <1>0, <2>1 DEF SettledAt, SettlePC, TakenPC, BurningAt
  <2> QED
    BY <2>1, <2>2, StillOwned
    DEF Owns, BoxHeldPC, BoxedPC, TombHeldPC, DoomedPC, ExclusivePC, TakenPC, Holding,
        HoldPC, ReservingPC
<1>3. CASE MakeBox(p)
  <2>0. CASE UNCHANGED <<files, info, stage, me>> /\ pc[p] = "mkbox" /\ pc'[p] = "unlock"
    BY <2>0, NothingOwned
    DEF Owns, BoxHeldPC, BoxedPC, TombHeldPC, DoomedPC, ExclusivePC, SettlePC, TakenPC,
        HoldPC, ReservingPC
  <2> SUFFICES ASSUME NewBox, me' = [me EXCEPT ![p].slot = NewSlot], pc'[p] = "cp"
               PROVE  Resting(p)
    BY <1>0, <1>3, <2>0 DEF MakeBox
  <2>1. NewSlot \in FreeSlots /\ NewSlot \in Slot
    BY <1>3 DEF NewBox, NewSlot, FreeSlots
  <2>2. PICK t \in Slot : t = NewSlot
    BY <2>1
  <2>3. /\ stage' = [stage EXCEPT ![t] = [kind |-> "put", obj |-> None]]
        /\ me'[p].slot = t /\ pc'[p] = "cp" /\ pc[p] = "mkbox" /\ UNCHANGED <<files, info>>
    BY <1>0, <1>3, <2>2 DEF MakeBox, NewBox, Locals
  <2>4. \A s \in Slot : s # t => stage'[s] = stage[s]
    BY <1>0, <2>3
  <2>5. Leaves(p)
    BY <2>3, <2>4
    DEF Leaves, Owns, BoxHeldPC, BoxedPC, TombHeldPC, DoomedPC, ExclusivePC, TakenPC,
        Holding, HoldPC, ReservingPC
  <2>6. Aside(p)
    BY <2>1, <2>2, <2>3, <2>4 DEF Aside
  <2> QED
    BY <2>3, <2>5, <2>6 DEF Resting, BurningAt, SettledAt, SettlePC, TakenPC
<1>4. CASE CopyIn(p)
  <2>1. UNCHANGED <<files, info>> /\ pc[p] = "cp" /\ pc'[p] \in {"claim", "dropbox"}
        /\ me'[p].slot = me[p].slot /\ me[p].slot \in Slot
    BY <1>0, <1>4, Here DEF CopyIn, Locals, TypeOK, Ready, BoxPC
  <2>2. \A s \in Slot : stage'[s] # stage[s] => s = me[p].slot
    BY <1>0, <1>4 DEF CopyIn
  <2>3. Leaves(p)
    BY <2>1, <2>2
    DEF Leaves, Owns, BoxHeldPC, BoxedPC, TombHeldPC, DoomedPC, ExclusivePC, TakenPC,
        Holding, HoldPC, ReservingPC
  <2>4. Aside(p)
    BY <2>1, <2>2 DEF Aside
  <2> QED
    BY <2>1, <2>3, <2>4 DEF Resting, BurningAt, SettledAt, SettlePC, TakenPC
<1>5. CASE MoveIn(p)
  <2>1. /\ UNCHANGED <<info, stage>> /\ pc[p] = "publish" /\ me'[p].name = me[p].name
        /\ me'[p].slot = None /\ me[p].slot = None /\ me[p].name \in Name
        /\ \/ files' = files /\ pc'[p] \in {"advance", "exdev", "release"}
           \/ files' = [files EXCEPT ![me[p].name] = place[Arg(p)]]
              /\ place[Arg(p)] # None /\ pc'[p] = "unlock"
    BY <1>0, <1>5, Here DEF MoveIn, Locals, TypeOK, Ready, NamePC, ReservingPC
  <2>2. \A k \in Name : files'[k] # files[k] => k = me[p].name /\ files'[k] # None
    BY <1>0, <2>1
  <2>3. Leaves(p)
    BY <1>0, <2>1, <2>2
    DEF Leaves, Owns, BoxHeldPC, BoxedPC, TombHeldPC, DoomedPC, ExclusivePC, TakenPC,
        Holding, HoldPC, ReservingPC
  <2> QED
    BY <2>1, <2>3 DEF Resting, Aside, BurningAt, SettledAt, SettlePC, TakenPC
<1>6. CASE Publish(p)
  <2>1. /\ UNCHANGED info /\ pc[p] = "publish" /\ me'[p].name = me[p].name
        /\ me'[p].slot = me[p].slot /\ me[p].slot \in Slot /\ me[p].name \in Name
        /\ \/ UNCHANGED <<files, stage>> /\ pc'[p] \in {"advance", "release"}
           \/ /\ files' = [files EXCEPT ![me[p].name] = stage[me[p].slot].obj]
              /\ stage[me[p].slot].obj # None /\ pc'[p] = "capture"
              /\ stage' = [stage EXCEPT ![me[p].slot].obj = None]
    BY <1>0, <1>6, Here DEF Publish, Locals, Maybe, TypeOK, Ready, NamePC, ReservingPC
  <2>2. \A k \in Name : files'[k] # files[k] => k = me[p].name /\ files'[k] # None
    BY <1>0, <2>1
  <2>3. \A s \in Slot : stage'[s] # stage[s] => s = me[p].slot
    BY <1>0, <2>1
  <2>4. Leaves(p)
    BY <1>0, <2>1, <2>2, <2>3, SMTT(30)
    DEF Leaves, Owns, BoxHeldPC, BoxedPC, TombHeldPC, DoomedPC, ExclusivePC, TakenPC,
        Holding, HoldPC, ReservingPC
  <2> QED
    BY <2>1, <2>3, <2>4 DEF Resting, Aside, BurningAt, SettledAt, SettlePC, TakenPC
<1>7. CASE Capture(p)
  <2>1. me[p].name \in Name /\ files[me[p].name] # None /\ info[me[p].name] # None
    BY <1>0, <1>7, Here
    DEF Capture, TypeOK, Ready, NamePC, CopyAt, Pending, PendPC, Names, Named
  <2>2. /\ UNCHANGED <<files, info, stage>> /\ pc[p] = "capture" /\ pc'[p] = "sync"
        /\ me' = [me EXCEPT ![p].entry = files[me[p].name], ![p].info = info[me[p].name]]
    BY <1>0, <1>7, <2>1 DEF Capture, disk
  <2>3. me'[p].name = me[p].name /\ me'[p].info = info[me[p].name] /\ me'[p].slot = me[p].slot
    BY <1>0, <2>2 DEF Locals
  <2> QED
    BY <2>2, <2>3, StillOwned
    DEF Owns, BoxHeldPC, BoxedPC, TombHeldPC, DoomedPC, ExclusivePC, TakenPC, Holding,
        HoldPC, ReservingPC, BurningAt, SettledAt
<1>8. CASE SyncIn(p)
  <2>1. /\ UNCHANGED <<files, info>> /\ pc[p] = "sync" /\ pc'[p] \in {"source", "unlock"}
        /\ stage' = [stage EXCEPT ![me[p].slot] = NoEntry]
        /\ me'[p].name = me[p].name /\ me'[p].info = me[p].info
    BY <1>0, <1>8 DEF SyncIn, Locals
  <2>2. \A s \in Slot : stage'[s] = IF s = me[p].slot THEN NoEntry ELSE stage[s]
    BY <1>0, <2>1
  <2>3. Leaves(p)
    BY <2>1, <2>2
    DEF Leaves, Owns, BoxHeldPC, BoxedPC, TombHeldPC, DoomedPC, ExclusivePC, TakenPC,
        Holding, HoldPC, ReservingPC
  <2> QED
    BY <1>0, <2>1, <2>2, <2>3
    DEF Resting, Aside, BurningAt, SettledAt, SettlePC, TakenPC, NoEntry
<1>9. CASE DropBox(p)
  <2>1. /\ UNCHANGED <<files, info>> /\ pc[p] = "dropbox" /\ pc'[p] = "unlock"
        /\ stage' = [stage EXCEPT ![me[p].slot] = NoEntry]
    BY <1>0, <1>9 DEF DropBox
  <2>2. \A s \in Slot : stage'[s] = IF s = me[p].slot THEN NoEntry ELSE stage[s]
    BY <1>0, <2>1
  <2>3. Leaves(p)
    BY <2>1, <2>2
    DEF Leaves, Owns, BoxHeldPC, BoxedPC, TombHeldPC, DoomedPC, ExclusivePC, TakenPC,
        Holding, HoldPC, ReservingPC
  <2> QED
    BY <2>1, <2>2, <2>3 DEF Resting, Aside, BurningAt, SettledAt, SettlePC, TakenPC, NoEntry
<1>10. CASE ClaimStat(p) \/ ClaimFails(p)
  <2>1. /\ UNCHANGED <<files, info, stage>> /\ pc[p] \in {"claim", "open"}
        /\ me'[p].slot = me[p].slot
        /\ pc'[p] \in {"claim", "open", "dropbox"} \/ (pc'[p] = "unlock" /\ me[p].slot = None)
    BY <1>0, <1>10 DEF ClaimStat, ClaimFails, Locals, disk
  <2> QED
    BY <1>0, <2>1, StillOwned
    DEF Owns, BoxHeldPC, BoxedPC, TombHeldPC, DoomedPC, ExclusivePC, TakenPC, Holding,
        HoldPC, ReservingPC, BurningAt, SettledAt, SettlePC
<1>11. CASE ClaimOpen(p)
  <2>1. UNCHANGED <<files, stage>> /\ pc[p] = "open" /\ me[p].name \in Name
    BY <1>11, Here DEF ClaimOpen, TypeOK, Ready, NamePC
  <2>2. CASE /\ UNCHANGED info /\ pc' = [pc EXCEPT ![p] = "claim"]
             /\ me' = [me EXCEPT ![p].name = @ + 1]
    <3>1. me'[p].slot = me[p].slot /\ pc'[p] = "claim"
      BY <1>0, <2>2 DEF Locals
    <3> QED
      BY <2>1, <2>2, <3>1, StillOwned
      DEF Owns, BoxHeldPC, BoxedPC, TombHeldPC, DoomedPC, ExclusivePC, TakenPC, Holding,
          HoldPC, ReservingPC, BurningAt, SettledAt, SettlePC
  <2>3. ASSUME NEW i, info[me[p].name] = None, info' = [info EXCEPT ![me[p].name] = i],
               me' = [me EXCEPT ![p].info = i], pc' = [pc EXCEPT ![p] = "publish"]
        PROVE  Resting(p)
    <3>1. me'[p].slot = me[p].slot /\ me'[p].name = me[p].name /\ pc'[p] = "publish"
      BY <1>0, <2>3 DEF Locals
    <3>2. \A k \in Name : info'[k] # info[k] =>
            k = me[p].name /\ info[k] = None /\ Holding(p, k)'
      BY <1>0, <2>3, <3>1 DEF Holding, HoldPC, ReservingPC
    <3>3. Leaves(p)
      BY <1>0, <2>1, <3>1, <3>2
      DEF Leaves, Owns, BoxHeldPC, BoxedPC, TombHeldPC, DoomedPC, ExclusivePC, TakenPC,
          Holding, HoldPC, ReservingPC
    <3> QED
      BY <2>1, <3>1, <3>2, <3>3 DEF Resting, Aside, BurningAt, SettledAt, SettlePC, TakenPC
  <2> QED
    BY <1>11, <2>2, <2>3 DEF ClaimOpen
<1>12. CASE Release(p)
  <2>1. /\ UNCHANGED <<files, stage>> /\ me[p].name \in Name
        /\ me'[p].slot = me[p].slot /\ Holding(p, me[p].name)
        /\ info' = [info EXCEPT ![me[p].name] = None]
        /\ \/ pc[p] \in {"advance", "release"} /\ pc'[p] \in {"claim", "dropbox"}
           \/ pc[p] = "release" /\ pc'[p] = "unlock" /\ me[p].slot = None
           \/ pc[p] = "exdev" /\ pc'[p] = "unlockcp"
    BY <1>0, <1>12, Here
    DEF Release, LetsGo, Locals, TypeOK, Ready, NamePC, ReservingPC, Holding, HoldPC
  <2>2. \A k \in Name : info'[k] = IF k = me[p].name THEN None ELSE info[k]
    BY <1>0, <2>1
  <2>3. Leaves(p)
    BY <1>0, <2>1, <2>2
    DEF Leaves, Owns, BoxHeldPC, BoxedPC, TombHeldPC, DoomedPC, ExclusivePC, TakenPC,
        Holding, HoldPC, ReservingPC
  <2> QED
    BY <2>1, <2>2, <2>3 DEF Resting, Aside, BurningAt, SettledAt, SettlePC, TakenPC
<1> QED
  BY <1>1, <1>2, <1>3, <1>4, <1>5, <1>6, <1>7, <1>8, <1>9, <1>10, <1>11, <1>12
  DEF PutStep, ReserveStep

(* Only a kill or a failed clean-up is a mishap.                           *)
LEMMA StepBounds ==
  ASSUME NEW p \in Proc, Step(p) \/ Slip(p) \/ Crash(p)
  PROVE  mishaps' = mishaps \/ mishaps' = mishaps - 1
<1>1. CASE Crash(p)
  BY <1>1, SMTT(30) DEF Crash, Slips
<1>2. CASE PutStep(p) \/ ReserveStep(p)
  BY <1>2
  DEF PutStep, ReserveStep, PutStart, PutLock, MoveIn, PutUnlock, Walk, CopyDeclined,
      CopyLock, MakeBox, CopyIn, Publish, Capture, SyncIn, RemoveSource, DropBox, ClaimStat,
      ClaimOpen, ClaimFails, Release, bounds
<1>3. CASE RestoreStep(p) \/ DiscardStep(p) \/ Finish(p) \/ FallbackStat(p)
  BY <1>3
  DEF RestoreStep, ListItem, ReadInfo, CheckDest, RestoreLock, Recheck, RenameBack, CopyBack,
      PublishBack, DropOut, SyncOut, DiscardStep, Tombstone, Verify, PutBack, CheckInfo,
      UnlinkInfo, RemoveTomb, Finish, FallbackStat, bounds
<1>4. CASE DeleteStep(p)
  BY <1>4
  DEF DeleteStep, ScanInfo, Choose, Declined, DeleteLock, CheckDoomed, Doom, DropInfo,
      CleanStaging, DeleteUnlock, Sweep, Burn, Done, bounds
<1> QED
  BY <1>1, <1>2, <1>3, <1>4, SlipLeaves DEF Step, Slips

(* Nor does a restore; it unlinks the .trashinfo of what it renamed back.  *)
LEMMA RestoreRests ==
  ASSUME TypeOK, Names, Route, Told, Local = Dir, NEW p \in Restorers, RestoreStep(p)
  PROVE  Resting(p)
<1> USE DEF Goto
<1>0. /\ pc \in [Proc -> PC] /\ me \in [Proc -> Locals] /\ me[p] \in Locals /\ p \in Proc
      /\ files \in [Name -> Maybe(Obj)] /\ RouteAt(pc[p], me[p]) /\ ToldAt(p)
  BY DEF TypeOK, ProcsOK, DiskOK, Proc, Route, Told
<1>1. CASE \/ \E k \in Name : ListItem(p, k)
           \/ ReadInfo(p) \/ CheckDest(p) \/ RestoreLock(p) \/ Recheck(p)
  <2>1. UNCHANGED <<files, info, stage>>
    BY <1>1 DEF ListItem, ReadInfo, CheckDest, RestoreLock, Recheck, disk
  <2>2. pc[p] \in {"idle", "read", "dest", "waitr", "recheck", "recheck2"}
        /\ pc'[p] \in {"read", "dest", "idle", "waitr", "recheck", "recheck2", "unlock",
                       "back", "cpback"}
    BY <1>0, <1>1 DEF ListItem, ReadInfo, CheckDest, RestoreLock, Recheck, Return
  <2> QED
    BY <1>0, <2>1, <2>2, NothingOwned
    DEF Owns, BoxHeldPC, BoxedPC, TombHeldPC, DoomedPC, ExclusivePC, SettlePC, TakenPC,
        HoldPC, ReservingPC
<1>2. CASE RenameBack(p)
  <2>1. /\ pc[p] = "back" /\ me[p].name \in Name /\ me[p].dir \in Local
        /\ UNCHANGED <<info, stage>>
    BY <1>0, <1>2, Here DEF RenameBack, TypeOK, Ready, NamePC, DirPC
  <2>2. CASE UNCHANGED files /\ pc'[p] \in {"back", "unlock"}
    BY <1>0, <2>1, <2>2, NothingOwned
    DEF Owns, BoxHeldPC, BoxedPC, TombHeldPC, DoomedPC, ExclusivePC, SettlePC, TakenPC,
        HoldPC, ReservingPC
  <2>3. CASE /\ files' = [files EXCEPT ![me[p].name] = None]
             /\ me' = [me EXCEPT ![p].clear = FALSE] /\ pc' = [pc EXCEPT ![p] = "checkinfo"]
    <3>1. me'[p].name = me[p].name /\ me'[p].info = me[p].info /\ pc'[p] = "checkinfo"
      BY <1>0, <2>3 DEF Locals
    <3>2. SettledAt(p)' /\ BurningAt(p)'
      BY <1>0, <2>1, <3>1 DEF ToldAt, SettledAt, BurningAt
    <3>3. \A k \in Name : files'[k] # files[k] => Holding(p, k)'
      BY <1>0, <2>3, <3>1 DEF Holding, HoldPC, TakenPC
    <3>4. Leaves(p)
      BY <1>0, <2>1, <3>3
      DEF Leaves, Owns, BoxHeldPC, BoxedPC, TombHeldPC, DoomedPC, ExclusivePC, TakenPC,
          Holding, HoldPC, ReservingPC
    <3> QED
      BY <2>1, <3>2, <3>4 DEF Resting, Aside
  <2> QED
    BY <1>0, <1>2, <2>1, <2>2, <2>3 DEF RenameBack, NextDest
<1>3. ~CopyBack(p) /\ ~PublishBack(p) /\ ~DropOut(p) /\ ~SyncOut(p)
  BY <1>0 DEF RouteAt, CopyPC, CopyBack, PublishBack, DropOut, SyncOut
<1> QED
  BY <1>1, <1>2, <1>3 DEF RestoreStep

(* Nor does a discard, which drops the tombstone last or puts it back.     *)
LEMMA DiscardRests ==
  ASSUME TypeOK, Names, Route, Tidy, NEW p \in Proc,
         DiscardStep(p) \/ Finish(p) \/ FallbackStat(p) \/ Crash(p)
  PROVE  Resting(p)
<1> USE DEF Goto
<1>0. /\ pc \in [Proc -> PC] /\ me \in [Proc -> Locals] /\ me[p] \in Locals
      /\ files \in [Name -> Maybe(Obj)] /\ info \in [Name -> Maybe(Info)]
      /\ stage \in [Slot -> StageEntry] /\ SettledAt(p) /\ BurningAt(p) /\ None \notin Slot
  BY ConstantsAssumption DEF TypeOK, ProcsOK, DiskOK, Tidy
<1>1. CASE Tombstone(p)
  <2>1. pc[p] = "tomb" /\ me[p].name \in Name /\ UNCHANGED info
    BY <1>1, Here DEF Tombstone, TypeOK, Ready, NamePC
  <2>2. CASE UNCHANGED <<files, stage>> /\ pc'[p] = "unlock"
    BY <2>1, <2>2, NothingOwned
    DEF Owns, BoxHeldPC, BoxedPC, TombHeldPC, DoomedPC, ExclusivePC, SettlePC, TakenPC,
        HoldPC, ReservingPC
  <2>3. ASSUME NEW t \in FreeSlots, t \in Slot,
               stage' = [stage EXCEPT ![t] = [kind |-> "del", obj |-> files[me[p].name]]],
               files' = [files EXCEPT ![me[p].name] = None],
               me' = [me EXCEPT ![p].tomb = t], pc' = [pc EXCEPT ![p] = "verify"]
        PROVE  Resting(p)
    <3>1. /\ me'[p].name = me[p].name /\ me'[p].info = me[p].info /\ me'[p].tomb = t
          /\ pc'[p] = "verify"
      BY <1>0, <2>3 DEF Locals
    <3>2. SettledAt(p)' /\ BurningAt(p)'
      BY <1>0, <2>1, <3>1 DEF SettledAt, SettlePC, BurningAt
    <3>3. \A k \in Name : files'[k] # files[k] => Holding(p, k)'
      BY <1>0, <2>3, <3>1 DEF Holding, HoldPC, TakenPC
    <3>4. \A s \in Slot : stage'[s] # stage[s] => s = t
      BY <1>0, <2>3
    <3>5. Leaves(p)
      BY <1>0, <2>1, <3>1, <3>3, <3>4
      DEF Leaves, Owns, BoxHeldPC, BoxedPC, TombHeldPC, DoomedPC, ExclusivePC, TakenPC,
          Holding, HoldPC, ReservingPC
    <3>6. Aside(p)
      BY <2>1, <2>3, <3>4 DEF Aside
    <3> QED
      BY <3>2, <3>5, <3>6 DEF Resting
  <2>4. FreeSlots # {} => NewSlot \in FreeSlots /\ NewSlot \in Slot
    BY DEF NewSlot, FreeSlots
  <2> QED
    BY <1>0, <1>1, <2>2, <2>3, <2>4 DEF Tombstone
<1>2. CASE Verify(p)
  <2>1. /\ UNCHANGED <<files, info, stage, me>> /\ pc[p] = "verify"
        /\ pc'[p] \in {"checkinfo", "putback"}
    BY <1>0, <1>2 DEF Verify, disk
  <2> QED
    BY <1>0, <2>1, StillOwned
    DEF Owns, BoxHeldPC, BoxedPC, TombHeldPC, DoomedPC, ExclusivePC, TakenPC, Holding,
        HoldPC, ReservingPC, SettledAt, SettlePC, BurningAt
<1>3. ~PutBack(p)
  BY DEF Route, RouteAt, PutBack
<1>4. CASE CheckInfo(p)
  <2>1. pc[p] = "checkinfo" /\ me[p].name \in Name /\ UNCHANGED <<files, info, stage, me>>
    BY <1>4, Here DEF CheckInfo, TypeOK, Ready, NamePC, TakenPC, disk
  <2>2. InfoMatches(me[p].name, me[p].info)
    BY <1>0, <2>1
    DEF SettledAt, SettlePC, TakenPC, InfoMatches, Names, Held, Holding, HoldPC
  <2>3. pc'[p] = "unlink"
    BY <1>0, <1>4, <2>2 DEF CheckInfo
  <2> QED
    BY <1>0, <2>1, <2>3, StillOwned
    DEF Owns, BoxHeldPC, BoxedPC, TombHeldPC, DoomedPC, ExclusivePC, TakenPC, Holding,
        HoldPC, ReservingPC, SettledAt, SettlePC, BurningAt
<1>5. CASE UnlinkInfo(p)
  <2>1. /\ pc[p] = "unlink" /\ me[p].name \in Name /\ UNCHANGED <<files, stage, me>>
        /\ pc'[p] = "rm" \/ (pc'[p] = "unlock" /\ me[p].tomb = None)
        /\ info' = [info EXCEPT ![me[p].name] = None]
    BY <1>0, <1>5, Here DEF UnlinkInfo, AfterInfo, TypeOK, Ready, NamePC, TakenPC
  <2>2. \A k \in Name : info'[k] = IF k = me[p].name THEN None ELSE info[k]
    BY <1>0, <2>1
  <2>3. Leaves(p)
    BY <1>0, <2>1, <2>2
    DEF Leaves, Owns, BoxHeldPC, BoxedPC, TombHeldPC, DoomedPC, ExclusivePC, TakenPC,
        Holding, HoldPC, ReservingPC
  <2>4. Holding(p, me[p].name)
    BY <2>1 DEF Holding, HoldPC, TakenPC
  <2> QED
    BY <2>1, <2>2, <2>3, <2>4 DEF Resting, Aside, BurningAt, SettledAt, SettlePC, TakenPC
<1>6. CASE RemoveTomb(p)
  <2>1. /\ UNCHANGED <<files, info>> /\ pc[p] = "rm" /\ pc'[p] = "unlock"
        /\ stage' = [stage EXCEPT ![me[p].tomb] = NoEntry]
    BY <1>0, <1>6 DEF RemoveTomb
  <2>2. \A s \in Slot : stage'[s] = IF s = me[p].tomb THEN NoEntry ELSE stage[s]
    BY <1>0, <2>1
  <2>3. Leaves(p)
    BY <2>1, <2>2
    DEF Leaves, Owns, BoxHeldPC, BoxedPC, TombHeldPC, DoomedPC, ExclusivePC, TakenPC,
        Holding, HoldPC, ReservingPC
  <2> QED
    BY <2>1, <2>2, <2>3 DEF Resting, Aside, BurningAt, SettledAt, SettlePC, TakenPC, NoEntry
<1>7. CASE Finish(p)
  <2>1. UNCHANGED <<files, info, stage>> /\ pc[p] = "unlock" /\ pc'[p] = "idle"
    BY <1>0, <1>7 DEF Finish, Return, disk
  <2> QED
    BY <2>1, NothingOwned
    DEF Owns, BoxHeldPC, BoxedPC, TombHeldPC, DoomedPC, ExclusivePC, SettlePC, TakenPC,
        HoldPC, ReservingPC
<1>8. CASE FallbackStat(p)
  <2>1. /\ UNCHANGED <<files, info, stage, pc>> /\ me'[p].slot = me[p].slot
        /\ me'[p].tomb = me[p].tomb /\ me'[p].tombs = me[p].tombs
        /\ me'[p].name = me[p].name /\ me'[p].info = me[p].info
        /\ me'[p].victim = me[p].victim
    BY <1>0, <1>8 DEF FallbackStat, Locals, disk
  <2> QED
    BY <1>0, <2>1, StillOwned DEF Owns, Holding, SettledAt, BurningAt
<1>9. CASE Crash(p)
  <2>1. UNCHANGED <<files, info, stage>> /\ pc'[p] = "idle" /\ mishaps' # mishaps
    BY <1>0, <1>9 DEF Crash, Slips, Return, disk, TypeOK, DiskOK
  <2> QED
    BY <2>1 DEF Resting, Aside, BurningAt, SettledAt, SettlePC, TakenPC
<1> QED
  BY <1>1, <1>2, <1>3, <1>4, <1>5, <1>6, <1>7, <1>8, <1>9 DEF DiscardStep

(* Nor does an empty, which deletes every tombstone it made or found.      *)
LEMMA DeleteRests ==
  ASSUME TypeOK, Names, Doomed, Tidy, NEW p \in Proc, DeleteStep(p)
  PROVE  Resting(p)
<1> USE DEF Goto
<1>0. /\ pc \in [Proc -> PC] /\ me \in [Proc -> Locals] /\ me[p] \in Locals
      /\ files \in [Name -> Maybe(Obj)] /\ info \in [Name -> Maybe(Info)]
      /\ stage \in [Slot -> StageEntry] /\ BurningAt(p) /\ DoomedAt(p) /\ None \notin Slot
  BY ConstantsAssumption DEF TypeOK, ProcsOK, DiskOK, Tidy, Doomed
<1>1. CASE ScanInfo(p) \/ Choose(p) \/ Declined(p) \/ DeleteLock(p) \/ Done(p)
  <2>1. UNCHANGED <<files, info, stage>>
    BY <1>1 DEF ScanInfo, Choose, Declined, DeleteLock, Done, disk
  <2>2. pc[p] \in {"idle", "listed", "waitx"} \/ (pc[p] = "sweep" /\ me[p].tombs = {})
    BY <1>1 DEF ScanInfo, Choose, Declined, DeleteLock, Done
  <2>3. pc'[p] \in {"idle", "listed", "waitx", "next"}
    BY <1>0, <1>1 DEF ScanInfo, Choose, Declined, DeleteLock, Done, Return
  <2> QED
    BY <2>1, <2>2, <2>3, NothingOwned
    DEF Owns, BoxHeldPC, BoxedPC, TombHeldPC, DoomedPC, ExclusivePC, SettlePC, TakenPC,
        HoldPC, ReservingPC
<1>2. CASE CheckDoomed(p)
  <2>1. /\ UNCHANGED <<files, info, stage>> /\ pc[p] = "next"
        /\ pc'[p] \in {"next", "drop", "doom"} /\ me'[p].tombs = me[p].tombs
    BY <1>0, <1>2 DEF CheckDoomed, Locals, disk
  <2> QED
    BY <2>1, StillOwned
    DEF Owns, BoxHeldPC, BoxedPC, TombHeldPC, DoomedPC, ExclusivePC, TakenPC, Holding,
        HoldPC, ReservingPC, SettledAt, SettlePC, BurningAt
<1>3. CASE Doom(p)
  <2>1. pc[p] = "doom" /\ me[p].name \in Name /\ UNCHANGED info /\ me[p].cur.kind = "item"
    BY <1>0, <1>3, Here DEF Doom, TypeOK, Ready, NamePC, DoomedAt
  <2>2. CASE UNCHANGED <<files, stage, me>> /\ pc'[p] = "next"
    BY <2>1, <2>2, StillOwned
    DEF Owns, BoxHeldPC, BoxedPC, TombHeldPC, DoomedPC, ExclusivePC, TakenPC, Holding,
        HoldPC, ReservingPC, SettledAt, SettlePC, BurningAt
  <2>3. ASSUME NEW t \in FreeSlots, t \in Slot,
               stage' = [stage EXCEPT ![t] = [kind |-> "del", obj |-> files[me[p].name]]],
               files' = [files EXCEPT ![me[p].name] = None],
               me' = [me EXCEPT ![p].tombs = @ \cup {t}], pc' = [pc EXCEPT ![p] = "drop"]
        PROVE  Resting(p)
    <3>1. me'[p].name = me[p].name /\ me'[p].tombs = me[p].tombs \cup {t} /\ pc'[p] = "drop"
      BY <1>0, <2>3 DEF Locals
    <3>2. \A k \in Name : files'[k] # files[k] => Holding(p, k)'
      BY <1>0, <2>3, <3>1 DEF Holding, HoldPC
    <3>3. \A s \in Slot : stage'[s] # stage[s] => s = t
      BY <1>0, <2>3
    <3>4. Leaves(p)
      BY <1>0, <2>1, <3>1, <3>2, <3>3
      DEF Leaves, Owns, BoxHeldPC, BoxedPC, TombHeldPC, DoomedPC, ExclusivePC, TakenPC,
          Holding, HoldPC, ReservingPC
    <3>5. Aside(p)
      BY <2>1, <2>3, <3>3 DEF Aside
    <3> QED
      BY <3>1, <3>4, <3>5 DEF Resting, BurningAt, SettledAt, SettlePC, TakenPC
  <2>4. FreeSlots # {} => NewSlot \in FreeSlots /\ NewSlot \in Slot
    BY DEF NewSlot, FreeSlots
  <2> QED
    BY <1>0, <1>3, <2>1, <2>2, <2>3, <2>4 DEF Doom
<1>4. CASE DropInfo(p)
  <2>1. /\ pc[p] = "drop" /\ me[p].name \in Name /\ UNCHANGED <<files, stage, me>>
        /\ pc'[p] = "next" /\ info' = [info EXCEPT ![me[p].name] = None]
    BY <1>0, <1>4, Here DEF DropInfo, TypeOK, Ready, NamePC
  <2>2. \A k \in Name : info'[k] = IF k = me[p].name THEN None ELSE info[k]
    BY <1>0, <2>1
  <2>3. Leaves(p)
    BY <1>0, <2>1, <2>2
    DEF Leaves, Owns, BoxHeldPC, BoxedPC, TombHeldPC, DoomedPC, ExclusivePC, TakenPC,
        Holding, HoldPC, ReservingPC
  <2>4. Holding(p, me[p].name)
    BY <2>1 DEF Holding, HoldPC
  <2> QED
    BY <2>1, <2>2, <2>3, <2>4 DEF Resting, Aside, BurningAt, SettledAt, SettlePC, TakenPC
<1>5. CASE CleanStaging(p)
  <2>1. PICK T \in SUBSET Slot :
          /\ stage' = [s \in Slot |-> IF s \in T THEN [stage[s] EXCEPT !.kind = "del"]
                                      ELSE stage[s]]
          /\ me' = [me EXCEPT ![p].tombs = @ \cup T, ![p].cur = None]
    BY <1>5 DEF CleanStaging, Collect, Garbage
  <2>2. /\ UNCHANGED <<files, info>> /\ pc[p] = "next" /\ pc'[p] = "unlockx"
        /\ me'[p].tombs = me[p].tombs \cup T
    BY <1>0, <1>5, <2>1 DEF CleanStaging, Collect, Locals
  <2>3. \A s \in Slot : stage'[s].obj = stage[s].obj /\ (s \notin T => stage'[s] = stage[s])
    BY <1>0, <2>1 DEF StageEntry
  <2>4. Leaves(p)
    BY <2>2, <2>3
    DEF Leaves, Owns, BoxHeldPC, BoxedPC, TombHeldPC, DoomedPC, ExclusivePC, TakenPC,
        Holding, HoldPC, ReservingPC
  <2> QED
    BY <2>2, <2>3, <2>4 DEF Resting, Aside, BurningAt, SettledAt, SettlePC, TakenPC
<1>6. CASE DeleteUnlock(p)
  <2>1. UNCHANGED <<files, info, stage, me>> /\ pc[p] = "unlockx" /\ pc'[p] = "sweep"
    BY <1>0, <1>6 DEF DeleteUnlock, disk
  <2> QED
    BY <2>1, StillOwned
    DEF Owns, BoxHeldPC, BoxedPC, TombHeldPC, DoomedPC, ExclusivePC, TakenPC, Holding,
        HoldPC, ReservingPC, SettledAt, SettlePC, BurningAt
<1>7. CASE Sweep(p)
  <2>1. PICK t \in me[p].tombs :
          me' = [me EXCEPT ![p].tomb = t, ![p].victim = stage[t].obj, ![p].tombs = @ \ {t}]
    BY <1>7 DEF Sweep
  <2>2. UNCHANGED <<files, info, stage>> /\ pc[p] = "sweep" /\ pc'[p] = "burn"
    BY <1>0, <1>7 DEF Sweep, disk
  <2>3. t \in Slot
    BY <1>0 DEF Locals
  <2> DEFINE v == stage[t].obj
  <2>4. me' = [me EXCEPT ![p].tomb = t, ![p].victim = v, ![p].tombs = @ \ {t}]
    BY <2>1
  <2> HIDE DEF v
  <2>5. me'[p].tomb = t /\ me'[p].victim = v /\ me'[p].tombs = me[p].tombs \ {t}
    BY <1>0, <2>4 DEF Locals
  <2>6. BurningAt(p)'
    BY <2>2, <2>3, <2>5 DEF BurningAt, v
  <2> QED
    BY <2>2, <2>5, <2>6, StillOwned, SMTT(30)
    DEF Owns, BoxHeldPC, BoxedPC, TombHeldPC, DoomedPC, ExclusivePC, TakenPC, Holding,
        HoldPC, ReservingPC, SettledAt, SettlePC
<1>8. CASE Burn(p)
  <2>1. /\ UNCHANGED <<files, info>> /\ pc[p] = "burn" /\ pc'[p] = "sweep"
        /\ me'[p].tombs = me[p].tombs
        /\ stage' = [stage EXCEPT ![me[p].tomb] = NoEntry]
    BY <1>0, <1>8 DEF Burn, Locals, BurningAt
  <2>2. \A s \in Slot : stage'[s] = IF s = me[p].tomb THEN NoEntry ELSE stage[s]
    BY <1>0, <2>1
  <2>3. Leaves(p)
    BY <2>1, <2>2
    DEF Leaves, Owns, BoxHeldPC, BoxedPC, TombHeldPC, DoomedPC, ExclusivePC, TakenPC,
        Holding, HoldPC, ReservingPC
  <2> QED
    BY <2>1, <2>2, <2>3 DEF Resting, Aside, BurningAt, SettledAt, SettlePC, TakenPC, NoEntry
<1> QED
  BY <1>1, <1>2, <1>3, <1>4, <1>5, <1>6, <1>7, <1>8 DEF DeleteStep

-----------------------------------------------------------------------------
(* A clean-up that fails disturbs nobody, and is a mishap.                 *)
LEMMA SlipRests ==
  ASSUME TypeOK, Tidy, NEW p \in Proc, Slip(p)
  PROVE  Resting(p)
<1> USE DEF Goto
<1>0. /\ pc \in [Proc -> PC] /\ me \in [Proc -> Locals] /\ me[p] \in Locals
      /\ stage \in [Slot -> StageEntry] /\ SettledAt(p) /\ mishaps' # mishaps
      /\ UNCHANGED <<files, info>>
  BY SlipLeaves DEF Slips, TypeOK, ProcsOK, DiskOK, Tidy
<1>1. \A s \in Slot : stage'[s].obj = stage[s].obj \/ s \in FreeSlots
  <2>1. CASE NewBox
    <3>1. NewSlot \in FreeSlots
      BY <2>1 DEF NewBox, NewSlot
    <3> QED
      BY <1>0, <2>1, <3>1 DEF NewBox
  <2>2. CASE \E S : Collect(p, S)
    BY <1>0, <2>2 DEF Collect, StageEntry
  <2>3. CASE UNCHANGED stage
    BY <2>3
  <2> QED
    BY <2>1, <2>2, <2>3
    DEF Slip, ReleaseFails, BoxFails, DropOutFails, DeleteFails, DiscardFails, disk
<1>2. BurningAt(p)'
  BY SlipMoves DEF TypeOK, SlipTo, BurningAt
<1>3. SettledAt(p)'
  <2>1. CASE pc[p] = "sync"
    <3>1. me' = [me EXCEPT ![p].slot = None]
      BY <2>1 DEF Slip, ReleaseFails, LetsGo, BoxFails, DropOutFails, DeleteFails, Collect,
         DiscardFails
    <3> QED
      BY <1>0, <2>1, <3>1 DEF SettledAt, SettlePC, Locals
  <2>2. CASE pc[p] # "sync"
    BY <2>2, SlipMoves DEF TypeOK, SlipTo, SettledAt, SettlePC, TakenPC
  <2> QED
    BY <2>1, <2>2
<1> QED
  BY <1>0, <1>1, <1>2, <1>3 DEF Resting, Aside

(* Every step keeps the invariant: the others' by Aside, p's by Leaves.    *)
LEMMA RestNext ==
  ASSUME TypeOK, Names, KeepInv, Told, Lone, Stray = {}, RestInv, [Next]_vars
  PROVE  RestInv'
<1>0. /\ Route /\ OnePlace /\ Slots /\ Copies /\ Doomed /\ Tidy
      /\ mishaps \in Nat /\ MaxMishaps \in Nat /\ mishaps <= MaxMishaps
      /\ mishaps = MaxMishaps => Staged /\ Infos
  BY ConstantsAssumption DEF KeepInv, RestInv, TypeOK, DiskOK
<1>1. ASSUME NEW p \in Proc, Step(p) \/ Slip(p) \/ Crash(p) PROVE RestInv'
  <2>1. Alone(p)
    BY <1>1, StepRegion DEF TypeOK
  <2>2. Resting(p)
    BY <1>0, <1>1, PutRests, RestoreRests, DiscardRests, DeleteRests, SlipRests DEF Step, Lone
  <2>3. Tidy'
    BY <1>0, <2>1, <2>2, TidyStep DEF Resting
  <2>4. mishaps' = mishaps \/ mishaps' = mishaps - 1
    BY <1>1, StepBounds
  <2>5. mishaps' <= MaxMishaps /\ (mishaps' = MaxMishaps => mishaps' = mishaps)
    BY <1>0, <2>4
  <2>6. mishaps' = MaxMishaps => Staged' /\ Infos'
    BY <1>0, <2>1, <2>2, <2>5, LeavesStep DEF Resting
  <2> QED
    BY <2>3, <2>5, <2>6 DEF RestInv
<1>2. CASE UNCHANGED vars \/ Others
  <2>1. UNCHANGED <<files, info, stage, pc, me, mishaps>>
    BY <1>2 DEF vars, disk, bounds, Others, Save, EditInPlace, StrayDrop
  <2> QED
    BY <2>1
    DEF RestInv, Tidy, BurningAt, SettledAt, Staged, Infos, Owns, Holding
<1> QED
  BY <1>1, <1>2 DEF Next

(* It holds at the start.                                                  *)
LEMMA RestInit == Init => RestInv
<1> SUFFICES ASSUME Init PROVE RestInv
  OBVIOUS
<1>1. Tidy /\ Staged
  BY DEF Init, Tidy, Staged, BurningAt, SettledAt, SettlePC, TakenPC
<1>2. Infos
  BY DEF Init, Infos
<1>3. mishaps <= MaxMishaps
  BY ConstantsAssumption DEF Init
<1> QED
  BY <1>1, <1>2, <1>3 DEF RestInv

(* When every command has come to its end, none was killed, and no call    *)
(* that cleans up failed, no copy box, no tombstone and no .trashinfo      *)
(* without its entry is left, whatever else failed on the way and whoever  *)
(* else reserved, restored or emptied: where nothing is restored, or one   *)
(* restore at a time renames back.                                         *)
THEOREM AtRestHolds ==
  ASSUME HasFlock, Stray = {}, Renames, Lone
  PROVE  Spec => []AtRest
<1>0. Homely
  BY DEF Lone, Homely
<1>1. Init => RestInv
  BY RestInit
<1>2. TypeOK /\ Names /\ KeepInv /\ Told /\ RestInv /\ [Next]_vars => RestInv'
  BY RestNext
<1>3. RestInv => AtRest
  BY DEF RestInv, AtRest, Staged, Infos, Owns, Holding, BoxHeldPC, BoxedPC, TombHeldPC,
         DoomedPC, ExclusivePC, TakenPC, HoldPC, ReservingPC
<1>4. Spec => [](KeepInv /\ TypeOK /\ Exclusion /\ Names /\ Clear)
  BY <1>0, KeepAlways
<1>5. Spec => []Told
  BY ToldAlways
<1> QED
  BY <1>1, <1>2, <1>3, <1>4, <1>5, PTL DEF Spec
=============================================================================
