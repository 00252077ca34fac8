----------------------------- MODULE MountTable -----------------------------
(***************************************************************************)
(* mounts.rs: what rip works out of /proc/self/mountinfo about paths,      *)
(* without a system call: which path of which filesystem a path is, where  *)
(* else it can be seen, and why it must not be trashed.                    *)
(***************************************************************************)
EXTENDS Naturals, SequencesExt

CONSTANT None

(* A mount is a record: its id and its parent's, the filesystem, its root  *)
(* there and its point in the namespace (sequences of names), and whether  *)
(* it is read-only.  A table is a sequence of them, their ids distinct.    *)
HasId(ms, id) == \E m \in Range(ms) : m.id = id
ById(ms, id) == CHOOSE m \in Range(ms) : m.id = id

Beyond(p, q) == SubSeq(q, Len(p) + 1, Len(q))       \* strip_prefix
Beneath(p, q) == p # None /\ q # None /\ IsPrefix(p, q)  \* starts_with

(* inside(): path p under mount m, in m's filesystem.                      *)
FsPath(m, p) == IF IsPrefix(m.point, p) THEN m.root \o Beyond(m.point, p) ELSE None

(* through(): path p under mount own as mount via shows it, if it does.    *)
Through(own, via, p) ==
  LET q == FsPath(own, p) IN
  IF Beneath(via.root, q) THEN via.point \o Beyond(via.root, q) ELSE None

(* parse(), `under`: where in its parent's filesystem a mount point lies.  *)
Under(ms, m) ==
  IF HasId(ms, m.parent)
  THEN [fs |-> ById(ms, m.parent).fs, at |-> FsPath(ById(ms, m.parent), m.point)]
  ELSE [fs |-> None, at |-> None]

Shows(fa, a, fb, b, c) ==
  c.fs = fa.fs /\ fa.fs = fb.fs /\ None \notin {Through(fa, c, a), Through(fb, c, b)}

(* Mutant: only the mount that the path itself goes through.               *)
CandidatesOwn(ms, fa, a, fb, b) ==
  IF Shows(fa, a, fb, b, fa)
  THEN <<[mnt |-> fa, a |-> a, b |-> Through(fb, fa, b)]>> ELSE <<>>

(* Those of s that are in T.                                               *)
Keep(s, T) ==
  LET k[n \in 0..Len(s)] ==
        IF n = 0 THEN <<>> ELSE IF s[n] \in T THEN Append(k[n - 1], s[n]) ELSE k[n - 1] IN
  k[Len(s)]

(* route_candidates(): the mounts that may show both a, in mount fa, and b,*)
(* in mount fb, with the translated paths; fa itself first.                *)
Candidates(ms, fa, a, fb, b) ==
  LET shown == {c \in {fa} \cup Range(ms) : Shows(fa, a, fb, b, c)}
      s == Keep(<<fa>>, shown) \o Keep(ms, {c \in shown : c.id # fa.id}) IN
  [k \in DOMAIN s |-> [mnt |-> s[k], a |-> Through(fa, s[k], a), b |-> Through(fb, s[k], b)]]

(* Mutant: mount points are compared as the path is written.               *)
MountConflictPlain(ms, own, p, isRoot) ==
  \/ isRoot \/ p = own.point
  \/ \E m \in Range(ms) : m.id # own.id /\ Beneath(p, m.point)

(* mount_conflict(): path p of mount own is a mount point, is or holds the *)
(* source of another mount, or holds a mount point, through any alias.     *)
MountConflict(ms, own, p, isRoot) ==
  \/ isRoot \/ p = own.point
  \/ \E m \in Range(ms) :
       \/ m.fs = own.fs /\ m.id # own.id /\ Beneath(FsPath(own, p), m.root)
       \/ Under(ms, m).fs = own.fs /\ Beneath(FsPath(own, p), Under(ms, m).at)

=============================================================================
