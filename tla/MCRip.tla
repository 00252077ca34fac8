-------------------------------- MODULE MCRip --------------------------------
(***************************************************************************)
(* Values for the constants of Rip.  Directory "near" has a rename route   *)
(* to the trash, "far" has none.  Inodes and contents are numbered; each   *)
(* content belongs to the directory it starts in or is written in.         *)
(***************************************************************************)
EXTENDS RipProps, TLC

MCOrigin == [v \in Data |-> IF v % 2 = 1 THEN "near" ELSE "far"]
Only(f, S, x) == [y \in S |-> IF y \in DOMAIN f THEN f[y] ELSE x]

Absent == [y \in {} |-> None]
Start(fs, is, ps, bs) ==
  [files |-> Only(fs, Name, None), info |-> Only(is, Name, None),
   place |-> Only(ps, Place, None), body |-> Only(bs, Obj, None)]
Inf(i, d) == [id |-> i, path |-> d]
At(d, o) == [x \in {<<d, 0>>} |-> o]

(* A file in each directory, an empty trash.                               *)
BothHome == Start(Absent, Absent,
                  [x \in {<<"near", 0>>, <<"far", 0>>} |->
                     IF x[1] = "near" THEN 1 ELSE 2], <<1, 2>>)
(* The near file is in the trash, the far one is not; and the reverse.     *)
NearTrashed == Start([k \in {0} |-> 1], [k \in {0} |-> Inf(1, "near")],
                     At("far", 2), <<1, 2>>)
FarTrashed == Start([k \in {0} |-> 2], [k \in {0} |-> Inf(1, "far")],
                    At("near", 1), <<1, 2>>)

MCStartsHome == {BothHome}
MCStartsTrashed == {NearTrashed, FarTrashed}
MCStartsFar == {FarTrashed}
MCSymmetry == Permutations(Putters)
MCSymmetryEmpties == Permutations(Emptiers)
=============================================================================
