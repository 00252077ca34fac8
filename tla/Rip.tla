--------------------------------- MODULE Rip ---------------------------------
(***************************************************************************)
(* Any number of `rip` processes on one trash directory, users saving      *)
(* files meanwhile, processes killed anywhere, clean-up that fails.        *)
(***************************************************************************)
EXTENDS Put, Discard, Restore, DeleteBatch

Init ==
  /\ \E s \in Starts : /\ files = s.files /\ info = s.info
                       /\ place = s.place /\ body = s.body
  /\ stage = [s \in Slot |-> NoEntry]
  /\ lock = [p \in Proc |-> "none"]
  /\ pc = [p \in Proc |-> "idle"]
  /\ me = [p \in Proc |-> Blank]
  /\ runs = [p \in Proc |-> MaxRuns]
  /\ mishaps = MaxMishaps /\ edits = MaxEdits
  /\ born = {v \in Data : \E o \in Obj : body[o] = v}
  /\ released = {}

Step(p) ==
  \/ p \in Putters /\ PutStep(p)
  \/ p \in Restorers /\ RestoreStep(p)
  \/ p \in Deleters /\ DeleteStep(p)
  \/ p \in Putters /\ ReserveStep(p)
  \/ p \in Putters \cup Restorers /\ (DiscardStep(p) \/ Finish(p) \/ FallbackStat(p))

(* A clean-up call of p fails.                                             *)
Slip(p) ==
  \/ p \in Putters /\ (ReleaseFails(p) \/ BoxFails(p))
  \/ p \in Restorers /\ DropOutFails(p)
  \/ p \in Deleters /\ DeleteFails(p)
  \/ p \in Putters \cup Restorers /\ DiscardFails(p)

(* kill -9, or the power: no destructor runs, the kernel drops the flock.  *)
Crash(p) ==
  /\ pc[p] # "idle"
  /\ Slips
  /\ Unlock(p)
  /\ Return(p)
  /\ UNCHANGED disk

-----------------------------------------------------------------------------
(* Other programs.                                                         *)
NewData(d) == {v \in Data \ born : Origin[v] = d}

(* A program saves a file under the argument's name, by a rename over what *)
(* is there: a new inode, and the old one is gone.                         *)
Save(d) ==
  /\ edits > 0 /\ edits' = edits - 1
  /\ LET x == <<d, 0>>
         old == place[x] IN
     \E o \in NewObjs, v \in NewData(d) :
       /\ place' = [place EXCEPT ![x] = o]
       /\ body' = [q \in Obj |-> IF q = o THEN v ELSE IF q = old THEN None ELSE body[q]]
       /\ born' = born \cup {v}
       /\ released' = IF old = None THEN released ELSE released \cup ({body[old]} \ {None})
  /\ UNCHANGED <<files, info, stage, lock, pc, me, runs, mishaps>>

(* It writes into the file that is there.                                  *)
EditInPlace(d) ==
  /\ edits > 0 /\ edits' = edits - 1
  /\ LET o == place[<<d, 0>>] IN
     /\ o # None
     /\ \E v \in NewData(d) : /\ body' = [body EXCEPT ![o] = v]
                              /\ born' = born \cup {v}
     /\ released' = released \cup ({body[o]} \ {None})
  /\ UNCHANGED <<files, info, stage, place, lock, pc, me, runs, mishaps>>

(* Someone moves a file into files/ by hand, without a .trashinfo.         *)
StrayDrop(k) ==
  /\ edits > 0 /\ edits' = edits - 1
  /\ files[k] = None
  /\ \E o \in {x \in Stray : body[x] = None /\ ~InTree(x)}, v \in Data \ born :
       /\ files' = [files EXCEPT ![k] = o]
       /\ body' = [body EXCEPT ![o] = v]
       /\ born' = born \cup {v}
  /\ UNCHANGED <<info, stage, place, lock, pc, me, runs, mishaps, released>>

Others == \/ \E d \in Dir : Save(d) \/ EditInPlace(d)
          \/ \E k \in Name : StrayDrop(k)

Next == (\E p \in Proc : Step(p) \/ Slip(p) \/ Crash(p)) \/ Others

Spec == Init /\ [][Next]_vars

(* A command that runs goes on running: a system call returns, a prompt is *)
(* answered, a lock that stays free is granted.  Nobody has to start one.  *)
Continue(p) == pc[p] # "idle" /\ Step(p)
FairSpec == Spec /\ \A p \in Proc : WF_vars(Continue(p))

=============================================================================
