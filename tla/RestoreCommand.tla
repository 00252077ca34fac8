--------------------------- MODULE RestoreCommand ---------------------------
(***************************************************************************)
(* `rip restore`, `rip undo` and `rip purge` from the command line to the  *)
(* batch they hand over: which command it is, what load_one() makes of the *)
(* entries of every trash directory, undo's newest date, and select().  A  *)
(* restore and an undo go on as RestoreBatch, a purge as DeleteBatch in    *)
(* each directory.                                                         *)
(***************************************************************************)
EXTENDS RestoreBatch, CommandLine

CONSTANTS
  Where,     \* trash directory -> its scope, and its base: $topdir
  Starts     \* <<case, tree>>: a command line with what the trash directories
             \* hold, and what exists outside of them

Trash == DOMAIN Where
Up == 0      \* the component ".."

(* What Path= holds: an absolute path or a relative one.                   *)
PathField(w, path) ==
  IF w.scope = "topdir" /\ IsPrefix(w.base, path)
  THEN [abs |-> FALSE, to |-> SubSeq(path, Len(w.base) + 1, Len(path))]
  ELSE [abs |-> TRUE, to |-> path]

(* An entry is a name in files/ or info/ of a trash directory.  `odd`: the *)
(* name of the .trashinfo stands for no name in files/ ("", ".", "..").    *)
(* holds: what comes back with it, at which path.  put: the invocation     *)
(* that made it, of a file at `path`, or 0, another program.  date: local  *)
(* time, without its zone.                                                 *)
Entry == [trash : Trash, name : Nat, info : {"valid", "malformed", "odd", "none"},
          file : {"there", "gone", "error"}, path : Path, field : [abs : BOOLEAN, to : Seq(Nat)],
          holds : [Path -> Node], put : Nat, date : Nat]

Arg == [at : {"files", "path"}, trash : Nat, name : Nat, path : Path \cup {<<>>},
        deep : BOOLEAN]

(* What Path= says, taken from the file system's base if it is relative.   *)
FieldPath(e) == IF e.field.abs THEN e.field.to ELSE Where[e.trash].base \o e.field.to

(* A mount point exists.  What rip put into the trash of a file system was *)
(* below its mount point, and had no ".." in its path.  An invocation has  *)
(* one date; a later one may have an earlier date, for local time goes     *)
(* back at the end of daylight saving, or with a time zone's change.       *)
ASSUME StartsAssumption ==
  /\ Starts \subseteq {s[1] : s \in Starts} \X Trees
  /\ \A t \in Trash : Where[t] \in [scope : {"home", "topdir"}, base : Seq(Nat)]
  /\ \A s \in Starts, t \in Trash, p \in Path :
       Where[t].scope = "topdir" /\ IsPrefix(p, Where[t].base) => s[2][p] = "dir"
  /\ \A k \in {s[1] : s \in Starts} :
       /\ k.line \in Seq(Word) /\ k.args \in Seq(Arg) /\ {k.tty, k.all} \subseteq BOOLEAN
       /\ k.disk \subseteq Entry /\ IsFiniteSet(k.disk)
       /\ \A e \in k.disk :
            /\ e.info = "odd" => e.file = "gone"
            /\ ~Contains(e.field.to, Up) => FieldPath(e) \in Path \cup {<<>>}
            /\ \A p \in Path : e.holds[p] # "none" => IsPrefix(FieldPath(e), p)
            /\ \A p, q \in Path : e.holds[p] # "dir" /\ IsStrictPrefix(p, q)
                 /\ IsPrefix(FieldPath(e), p) => e.holds[q] = "none"
            /\ FieldPath(e) \in Path => e.holds[FieldPath(e)] # "none"
            /\ e.put > 0 =>
                 /\ e.field = PathField(Where[e.trash], e.path) /\ ~Contains(e.path, Up)
                 /\ Where[e.trash].scope = "topdir" =>
                      IsStrictPrefix(Where[e.trash].base, e.path)
       /\ \A e, f \in k.disk :
            /\ e # f => <<e.trash, e.name>> # <<f.trash, f.name>>
            /\ 0 < e.put /\ e.put = f.put => e.date = f.date

VARIABLES
  case,      \* line, args, all; disk; tty: stdin is a terminal; cwd: the picker's scope
  verb,      \* the command
  args,      \* the PATH arguments still to be resolved
  targets,   \* what select() has so far
  doomed     \* of a purge: trash directory -> what its delete_batch() is given
vars == <<batchVars, case, verb, args, targets, doomed>>

(* Mutant: a path is taken wherever it leads.                              *)
OriginalAnywhere(e) == FieldPath(e)

(* original(): the path of Path=.                                          *)
Original(e) ==
  LET w == Where[e.trash] IN
  IF \/ Contains(e.field.to, Up)
     \/ w.scope = "topdir" /\ ~IsStrictPrefix(w.base, FieldPath(e))
  THEN <<>> ELSE FieldPath(e)

(* load_one(), load_info_entry(): files/NAME is there, and its info can be *)
(* read, or cannot.  The rest is dangling, or not listed.                  *)
Readable(e) == e.info = "valid" /\ Original(e) # <<>>

Items == {[e EXCEPT !.path = Original(e)] :
            e \in {d \in case.disk : d.file = "there" /\ Readable(d)}}
Orphans == {e \in case.disk : e.file = "there" /\ e.info # "odd" /\ ~Readable(e)}

Init ==
  /\ \E s \in Starts : case = s[1] /\ before = s[2]
  /\ RestoreBatchInit
  /\ args = case.args /\ verb = "none"
  /\ targets = <<>> /\ doomed = [t \in Trash |-> {}]
  /\ pc = "argv"

Refuse ==
  /\ pc' = "refused"
  /\ UNCHANGED <<rename, before, node, queue, status, blocked, depth, made,
                 case, verb, args, targets, doomed>>

(* The command ends before a change, or restore_batch() begins with s.     *)
Begins(s) ==
  /\ queue' = s
  /\ status' = [x \in Range(s) |-> "trashed"]
  /\ pc' = "sort"
  /\ UNCHANGED <<rename, before, node, blocked, depth, made>>

(* The line is parsed, and the configuration read.  --rename is an option  *)
(* of restore only, and --all of list, and of restore and purge without a  *)
(* PATH.                                                                   *)
Dispatch ==
  /\ pc = "argv"
  /\ LET v == Command(case.line)
         picks == v \in {"restore", "purge"}
         usage == /\ rename => v = "restore"
                  /\ case.all => (picks \/ v = "list") /\ case.args = <<>>
                  /\ v = "undo" => case.args = <<>>
     IN \/ Refuse
        \/ /\ v # "none" /\ usage
           /\ verb' = v
           /\ pc' = IF v = "undo" \/ picks THEN "select" ELSE "another"
           /\ UNCHANGED <<rename, before, node, queue, status, blocked, depth, made,
                          case, args, targets, doomed>>

Dates(S) == {e.date : e \in S}

(* Mutant: the newest date of the directory that was loaded last.          *)
UndoLastDirectory ==
  /\ pc = "select" /\ verb = "undo"
  /\ \/ Items = {} /\ Refuse
     \/ /\ Items # {}
        /\ LET t == Max({e.trash : e \in Items})
               newest == Max(Dates({e \in Items : e.trash = t})) IN
           Begins(SetToSeq({e \in Items : e.date = newest}))
        /\ UNCHANGED <<case, verb, args, targets, doomed>>

(* undo(): every item with the newest DeletionDate.                        *)
Undo ==
  /\ pc = "select" /\ verb = "undo"
  /\ \/ Items = {} /\ Refuse
     \/ /\ Items # {}
        /\ Begins(SetToSeq({e \in Items : e.date = Max(Dates(Items))}))
        /\ UNCHANGED <<case, verb, args, targets, doomed>>

-----------------------------------------------------------------------------
(* select().  An argument is a path in the files/ of a trash directory,    *)
(* `deep` if it goes on below an entry of it, or any other path.           *)

(* by_trash_path(), of a path that is not deep.                            *)
Named(a) == {e \in Items \cup (IF verb = "purge" THEN Orphans ELSE {}) :
               a.at = "files" /\ e.trash = a.trash /\ e.name = a.name}
Matches(a) == {e \in Items : a.at = "path" /\ e.path = a.path}
Wanted(a) == IF a.deep THEN {} ELSE Named(a) \cup Matches(a)

Picks(pool, rest) ==
  \/ ~case.tty /\ Refuse             \* no terminal
  \/ Refuse                          \* no fzf, or it fails
  \/ /\ case.tty
     /\ \E S \in SUBSET pool : targets' = targets \o SetToSeq(S)
     /\ args' = rest
     /\ pc' = IF rest = <<>> THEN "targets" ELSE "select"
     /\ UNCHANGED <<rename, before, node, queue, status, blocked, depth, made,
                    case, verb, doomed>>

Takes(s) ==
  /\ targets' = targets \o s /\ args' = Tail(args)
  /\ pc' = IF Len(args) = 1 THEN "targets" ELSE "select"
  /\ UNCHANGED <<rename, before, node, queue, status, blocked, depth, made,
                 case, verb, doomed>>

(* Mutant: an argument that names nothing is passed over.                  *)
SelectPathOver ==
  /\ pc = "select" /\ verb # "undo" /\ args # <<>>
  /\ \/ Cardinality(Wanted(Head(args))) < 2 /\ Takes(SetToSeq(Wanted(Head(args))))
     \/ Cardinality(Wanted(Head(args))) > 1 /\ Picks(Wanted(Head(args)), Tail(args))

(* One argument.  Nothing, an orphan that is to be restored, or a part of  *)
(* an item is an error, and with it the whole command; of several items    *)
(* with one original path the user picks.                                  *)
SelectPath ==
  /\ pc = "select" /\ verb # "undo" /\ args # <<>>
  /\ LET found == Wanted(Head(args)) IN
     \/ found = {} /\ Refuse
     \/ Cardinality(found) = 1 /\ Takes(SetToSeq(found))
     \/ Cardinality(found) > 1 /\ Picks(found, Tail(args))

(* No argument: the picker over what was trashed under the directory.      *)
SelectPool ==
  /\ pc = "select" /\ verb # "undo" /\ args = <<>>
  /\ LET pool == {e \in Items : case.all \/ IsPrefix(case.cwd, e.path)} IN
     \/ pool = {} /\ Refuse
     \/ pool # {} /\ Picks(pool, <<>>)

(* Mutant: what was named twice is there twice.                            *)
DedupNot(s) == s

(* dedup(): the first of each.                                             *)
Dedup(s) ==
  LET firsts[n \in 0..Len(s)] ==
        IF n = 0 THEN <<>>
        ELSE IF Contains(firsts[n - 1], s[n]) THEN firsts[n - 1]
        ELSE Append(firsts[n - 1], s[n])
  IN firsts[Len(s)]

Restore ==
  /\ pc = "targets" /\ verb = "restore"
  /\ Begins(Dedup(targets))
  /\ UNCHANGED <<case, verb, args, targets, doomed>>

(* purge(): confirmed or not.                                              *)
Purge ==
  /\ pc = "targets" /\ verb = "purge"
  /\ \/ Refuse
     \/ /\ doomed' = [t \in Trash |-> {e \in Range(Dedup(targets)) : e.trash = t}]
        /\ pc' = "purge"
        /\ UNCHANGED <<rename, before, node, queue, status, blocked, depth, made,
                       case, verb, args, targets>>

Next ==
  \/ Dispatch \/ Undo \/ SelectPath \/ SelectPool \/ Restore \/ Purge
  \/ RestoreBatchNext /\ UNCHANGED <<case, verb, args, targets, doomed>>
Spec == Init /\ [][Next]_vars

-----------------------------------------------------------------------------
(* The command that runs is the one the line begins with, and a line that  *)
(* begins with no subcommand trashes files (CommandLine!Leads).            *)
FirstWordDecides == verb # "none" =>
  \A v \in Verbs : verb = v <=> Leads(v, case.line)

Chosen == Batch \cup UNION {doomed[t] : t \in Trash}

(* An undo takes an invocation whole, in whichever directories its items   *)
(* are, or nothing of it; each item goes to the path it was trashed from.  *)
(* If no later one has an earlier date, it takes the last, and an earlier  *)
(* one only if that was started in the same second (README, "restore every *)
(* item from the most recent rip invocation").                             *)
Onward == \A e, f \in case.disk : 0 < e.put /\ e.put <= f.put => e.date <= f.date
UndoesLast == verb = "undo" =>
  \A x \in Batch : x.put > 0 =>
    \A y \in case.disk :
      /\ y.put = x.put \/ (Onward /\ y.put >= x.put)
      /\ y.file = "there" /\ y.info = "valid"
      => y \in Batch /\ y.date = x.date

(* README.md:71 without a condition.  Local time may have gone back        *)
(* between two invocations, and then the code takes the earlier one.       *)
MostRecent == verb = "undo" =>
  \A x \in Batch, y \in Items : 0 < x.put /\ x.put < y.put => y \in Batch

(* Whatever the .trashinfo files of a filesystem say, restoring from its   *)
(* topdir trash changes nothing outside of it (design.md, 4).              *)
StaysBeneath == \A base \in {Where[t].base : t \in Trash} :
  /\ Batch # {}
  /\ \A x \in Batch : Where[x.trash] = [scope |-> "topdir", base |-> base]
  => \A p \in Path : node[p] # before[p] => IsStrictPrefix(base, p)

(* All or nothing: a restore or a purge touches something only if each of  *)
(* its arguments names something it may touch, one thing or, at a          *)
(* terminal, several; and then it touches nothing that no argument names,  *)
(* and what is named alone.                                                *)
AsNamed == Chosen # {} /\ verb # "undo" /\ case.args # <<>> =>
  /\ Chosen \subseteq UNION {Wanted(a) : a \in Range(case.args)}
  /\ \A a \in Range(case.args) :
       LET w == Wanted(a) IN
       /\ w # {} /\ (Cardinality(w) > 1 => case.tty)
       /\ Cardinality(w) = 1 => w \subseteq Chosen

(* However often an item is named, by its path or where it lies: once it   *)
(* is back it is not tried, and reported as a failure, again.              *)
OnceBack == [][Placed("restored") \subseteq Placed("restored")']_vars

=============================================================================
