-------------------------------- MODULE Vault --------------------------------
(***************************************************************************)
(* What rip promises about a user's content: it is where the user keeps it *)
(* ("home"), or in the trash, or in both; it moves between them in one     *)
(* step, or is first in both; it never turns up in somebody else's         *)
(* directory; and it is in neither only after the user agreed to lose it.  *)
(***************************************************************************)
CONSTANT Data
VARIABLES born, where, released

vars == <<born, where, released>>

Init ==
  /\ where \in [Data -> SUBSET {"home", "trash"}]
  /\ born = {v \in Data : where[v] # {}}
  /\ released = {}

Put(v) ==
  /\ "home" \in where[v]
  /\ where' = [where EXCEPT ![v] = (@ \ {"home"}) \cup {"trash"}]
  /\ UNCHANGED <<born, released>>

Restore(v) ==
  /\ "trash" \in where[v]
  /\ where' = [where EXCEPT ![v] = (@ \ {"trash"}) \cup {"home"}]
  /\ UNCHANGED <<born, released>>

Copy(v, l) ==
  /\ where[v] # {} \/ v \in released
  /\ where' = [where EXCEPT ![v] = @ \cup {l}]
  /\ UNCHANGED <<born, released>>

(* One of two copies goes, or one of a content its user gave up.           *)
Drop(v, l) ==
  /\ where[v] \ {l} # {} \/ v \in released
  /\ where' = [where EXCEPT ![v] = @ \ {l}]
  /\ UNCHANGED <<born, released>>

(* The user confirms the deletion of the trashed content.                  *)
Delete(v) ==
  /\ released' = released \cup {v}
  /\ where' \in {where, [where EXCEPT ![v] = @ \ {"trash"}]}
  /\ UNCHANGED born

(* The user writes new content, perhaps over something.                    *)
Save(new, old) ==
  /\ new \notin born
  /\ born' = born \cup {new}
  /\ where' = [v \in Data |-> IF v = new THEN {"home"}
                              ELSE IF v \in old THEN where[v] \ {"home"}
                              ELSE where[v]]
  /\ released' = released \cup old

(* Another program puts an entry of its own into the trash.                *)
Arrive(new) ==
  /\ new \notin born
  /\ born' = born \cup {new}
  /\ where' = [where EXCEPT ![new] = {"trash"}]
  /\ UNCHANGED released

Next == \E v \in Data :
  \/ \E l \in {"home", "trash"} : Copy(v, l) \/ Drop(v, l)
  \/ Put(v) \/ Restore(v) \/ Delete(v) \/ Arrive(v)
  \/ Save(v, {}) \/ \E w \in Data : Save(v, {w})

Spec == Init /\ [][Next]_vars

=============================================================================
