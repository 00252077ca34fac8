----------------------------- MODULE EmptySelect -----------------------------
(***************************************************************************)
(* What `rip empty` deletes (empty.rs): the candidates of every trash      *)
(* directory sorted newest first, --older-than and --max-size              *)
(* (select_for_empty()), the question, one delete_batch() call per trash   *)
(* directory.  What a call then does to its directory is DeleteBatch.      *)
(***************************************************************************)
EXTENDS Integers, FiniteSetsExt, SequencesExt

CONSTANTS
  Trash,     \* bound: trash directories, 1..Trash in the order of load_all()
  Loads,     \* what load_all() may return
  Cutoffs,   \* dates for --older-than, None without it
  Maxima,    \* sizes for --max-size, None without it
  U64,       \* bound: the greatest u64
  None

(* An entry of files/: its key is (trash index, files/ name); names are    *)
(* numbered in their byte order.  `bytes` is what a walk of it would say.  *)
(* `date` counts in the unit of a ctime, an orphan's date: one of whole    *)
(* seconds, as rip writes them, is a multiple of many.                     *)
Entries == [key : (1..Trash) \X Nat, date : Nat, kind : {"item", "orphan"}, bytes : 0..U64]

ASSUME EmptyAssumption ==
  /\ Trash \in Nat /\ U64 \in Nat
  /\ None \notin Int
  /\ Cutoffs \subseteq Nat \cup {None} /\ Maxima \subseteq (0..U64) \cup {None}
  /\ \A l \in Loads :
       /\ l.entries \in Seq(Entries) /\ l.dangling \subseteq (1..Trash) \X Nat
       /\ \A i, j \in DOMAIN l.entries : i # j => l.entries[i].key # l.entries[j].key

VARIABLES
  load, cutoff, max,     \* the entries in the order they were found, the filters
  c,                     \* the candidates: sorted, and sized as far as needed
  i, start, batch, total, \* the loop over batches
  doomed,                \* the indices into c that go
  handed,                \* trash directory -> what its delete_batch() was given
  pc
vars == <<load, cutoff, max, c, i, start, batch, total, doomed, handed, pc>>

Add(a, b) == Min({a + b, U64})     \* saturating_add

Before(a, b) == a[1] < b[1] \/ (a[1] = b[1] /\ a[2] < b[2])
Newer(a, b) == a.date > b.date \/ (a.date = b.date /\ Before(a.key, b.key))

Init ==
  /\ load \in Loads /\ cutoff \in Cutoffs /\ max \in Maxima
  /\ c = <<>> /\ i = 1 /\ start = 1 /\ batch = 0 /\ total = 0 /\ doomed = {}
  /\ handed = [t \in 1..Trash |-> None]
  /\ pc = "sort"

Cand(n) == LET e == load.entries[n] IN
  [key |-> e.key, date |-> e.date, entry |-> n,
   batchable |-> e.kind = "item", size |-> None]

(* Sorted newest first; without a filter everything goes, with --older-than*)
(* what is older than the cutoff.                                          *)
Sort ==
  /\ pc = "sort"
  /\ LET S == {Cand(n) : n \in DOMAIN load.entries}
         s == CHOOSE q \in SetToSeqs(S) :
                \A j, k \in DOMAIN q : j < k => Newer(q[j], q[k]) IN
     /\ c' = s
     /\ doomed' = {k \in DOMAIN s : \/ cutoff = None /\ max = None
                                    \/ cutoff # None /\ s[k].date < cutoff}
     /\ pc' = IF max = None \/ s = <<>> THEN "group" ELSE "size"
  /\ UNCHANGED <<load, cutoff, max, i, start, batch, total, handed>>

Joins(k) == /\ k <= Len(c) /\ c[start].batchable /\ c[k].batchable
            /\ c[k].date = c[start].date

(* One candidate of the batch is walked for its size.                      *)
SizeNext ==
  /\ pc = "size"
  /\ LET s == load.entries[c[i].entry].bytes IN
     /\ c' = [c EXCEPT ![i].size = s]
     /\ batch' = Add(batch, s)
  /\ i' = i + 1
  /\ pc' = IF Joins(i + 1) THEN "size" ELSE "weigh"
  /\ UNCHANGED <<load, cutoff, max, start, total, doomed, handed>>

(* Mutant: the walk goes on to the end once the limit is passed.           *)
WeighOn ==
  /\ pc = "weigh"
  /\ total' = Add(total, batch)
  /\ IF total' > max /\ start = 1
     THEN pc' = "error" /\ UNCHANGED <<i, start, batch, doomed>>
     ELSE /\ doomed' = IF total' > max THEN doomed \cup start..Len(c) ELSE doomed
          /\ start' = i /\ batch' = 0 /\ pc' = IF i <= Len(c) THEN "size" ELSE "group"
          /\ UNCHANGED i
  /\ UNCHANGED <<load, cutoff, max, c, handed>>

(* The batch is weighed whole.  The first one over the limit goes with all *)
(* that are older; the newest one over the limit is an error.              *)
Weigh ==
  /\ pc = "weigh"
  /\ total' = Add(total, batch)
  /\ \/ /\ total' <= max
        /\ start' = i /\ batch' = 0
        /\ pc' = IF i <= Len(c) THEN "size" ELSE "group"
        /\ UNCHANGED doomed
     \/ /\ total' > max /\ start > 1
        /\ doomed' = doomed \cup start..Len(c)
        /\ pc' = "group"
        /\ UNCHANGED <<start, batch>>
     \/ /\ total' > max /\ start = 1
        /\ pc' = "error"
        /\ UNCHANGED <<start, batch, doomed>>
  /\ UNCHANGED <<load, cutoff, max, c, i, handed>>

(* Mutant: an index into the sorted candidates is used on the entries.     *)
ByTrashUnsorted(t) ==
  LET q[n \in 0..Len(c)] ==
        LET k == Len(c) + 1 - n IN
        IF n = 0 THEN <<>>
        ELSE IF k \in doomed /\ load.entries[k].key[1] = t
             THEN Append(q[n - 1], load.entries[k].key) ELSE q[n - 1]
  IN q[Len(c)]

(* The doomed entries of one trash directory, oldest first: q[n] is what   *)
(* has been pushed when the last n candidates are done.                    *)
ByTrash(t) ==
  LET q[n \in 0..Len(c)] ==
        LET k == Len(c) + 1 - n IN
        IF n = 0 THEN <<>>
        ELSE IF k \in doomed /\ load.entries[c[k].entry].key[1] = t
             THEN Append(q[n - 1], load.entries[c[k].entry].key) ELSE q[n - 1]
  IN q[Len(c)]

(* The person says no, or there is no terminal to ask on.                  *)
Declined ==
  /\ pc = "group" /\ doomed # {}
  /\ pc' = "declined"
  /\ UNCHANGED <<load, cutoff, max, c, i, start, batch, total, doomed, handed>>

(* Yes, -y, or nothing to ask: every trash directory gets its call, with   *)
(* its dangling infos, which are never candidates.                         *)
Delete ==
  /\ pc = "group"
  /\ handed' = [t \in 1..Trash |->
                  [entries |-> ByTrash(t),
                   dangling |-> {k \in load.dangling : k[1] = t}]]
  /\ pc' = "done"
  /\ UNCHANGED <<load, cutoff, max, c, i, start, batch, total, doomed>>

Next == Sort \/ SizeNext \/ Weigh \/ Declined \/ Delete
Spec == Init /\ [][Next]_vars

-----------------------------------------------------------------------------
(* The reference, on the entries as they are and in no order: a batch is   *)
(* the items of one date between which no orphan sorts; an entry goes if   *)
(* the batches as new as its own or newer together exceed the limit.       *)
All == Range(load.entries)
SameBatch(a, b) ==
  \/ a = b
  \/ /\ a.kind = "item" /\ b.kind = "item" /\ a.date = b.date
     /\ ~\E o \in All : /\ o.kind = "orphan"
                        /\ \/ Newer(a, o) /\ Newer(o, b)
                           \/ Newer(b, o) /\ Newer(o, a)
NoOlder(a) == {b \in All : Newer(b, a) \/ SameBatch(a, b)}
Weight(S) ==
  LET w[n \in 0..Len(load.entries)] ==
        IF n = 0 THEN 0
        ELSE w[n - 1] + (IF load.entries[n] \in S THEN load.entries[n].bytes ELSE 0)
  IN w[Len(load.entries)]
TooMuch(a) == max # None /\ Add(Weight(NoOlder(a)), 0) > max
Old(a) == cutoff # None /\ a.date < cutoff
Goes(a) == (cutoff = None /\ max = None) \/ Old(a) \/ TooMuch(a)
Newest(a) == \A b \in All : ~Newer(b, a)
Refused == \E a \in All : Newest(a) /\ TooMuch(a)

(* `empty` hands over, to the trash directory each belongs to and oldest   *)
(* first, exactly the entries the filters name, and all dangling infos; it *)
(* hands over nothing when the newest batch alone is too large, or nobody  *)
(* agreed (empty.rs `select_for_empty` and `run`).                         *)
HandsOver ==
  /\ pc \in {"group", "declined", "done"} => ~Refused
  /\ pc = "error" => Refused
  /\ pc # "done" => \A t \in 1..Trash : handed[t] = None
  /\ pc = "done" => \A t \in 1..Trash :
       LET q == handed[t].entries
           date == [k \in {e.key : e \in All} |-> (CHOOSE e \in All : e.key = k).date] IN
       /\ Range(q) = {e.key : e \in {x \in All : x.key[1] = t /\ Goes(x)}}
       /\ \A j, k \in DOMAIN q : j < k => q[j] # q[k] /\ date[q[j]] <= date[q[k]]
       /\ handed[t].dangling = {k \in load.dangling : k[1] = t}

(* No entry is walked past the batch that passes the limit, and none       *)
(* without a limit: an old trash is not measured before the question is    *)
(* asked (empty.rs, comments at `run` and in the batch loop).              *)
Lazily == \A k \in DOMAIN c : c[k].size # None =>
  LET a == load.entries[c[k].entry] IN
  /\ max # None
  /\ \A b \in All : TooMuch(b) /\ Newer(b, a) => SameBatch(a, b)

=============================================================================
