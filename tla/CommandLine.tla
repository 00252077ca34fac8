----------------------------- MODULE CommandLine -----------------------------
(***************************************************************************)
(* Which command a command line is: first_word()'s scan ahead, and what    *)
(* clap then makes of the line, with or without                            *)
(* args_conflicts_with_subcommands.  A line is a sequence of words; the    *)
(* words after a subcommand's name are that command's own.                 *)
(***************************************************************************)
EXTENDS Naturals, SequencesExt, FiniteSetsExt

Verbs == {"undo", "list", "restore", "empty", "purge"}
TakesValue == {"--config", "--completions"}
Dashed == TakesValue \cup {"--config=", "-h", "-f", "--other", "--"}
Word == Verbs \cup Dashed \cup {"name"}   \* -f: an rm-style flag; name: any file

-----------------------------------------------------------------------------
(* Mutant: the value of an option is a word like any other.                *)
SkippedNone(line) == {}

(* Where first_word() passes over the value of --config or --completions.  *)
Skipped(line) ==
  LET skipped[n \in 0..Len(line)] ==      \* of the first n words
        IF n = 0 THEN {}
        ELSE IF /\ n > 1 /\ line[n - 1] \in TakesValue
                /\ n - 1 \notin skipped[n - 1]
        THEN skipped[n - 1] \cup {n} ELSE skipped[n - 1]
  IN skipped[Len(line)]

FirstWord(line) ==
  LET plain == {i \in 1..Len(line) \ Skipped(line) : line[i] \notin Dashed \ {"--"}}
      first == Min(plain)
      flag(j) == line[j] \in {"-f", "--other"} /\ j \notin Skipped(line)
  IN IF plain = {} THEN "None"
     ELSE IF line[first] \notin Verbs THEN "File"
     ELSE IF \E j \in 1..(first - 1) : flag(j) THEN "AfterFlags"
     ELSE "Subcommand"

-----------------------------------------------------------------------------
(* clap's parser.  state: "free", a subcommand's name is looked for;       *)
(* "files", in a list of files it is not; "value", an option's value comes *)
(* next; "rest", after `--`; "command", found; "ends", usage error or help.*)

Keep(s, state) == [s EXCEPT !.state = state, !.seen = TRUE]
OwnFile(s, state) == [Keep(s, state) EXCEPT !.files = TRUE]
IsCommand(s, w, conflicts) ==
  /\ w \in Verbs /\ s.state = "free"
  /\ ~(conflicts /\ s.seen)

Read(s, w, conflicts) ==
  IF s.state \in {"ends", "command"} THEN s
  ELSE IF s.state = "rest" THEN OwnFile(s, "rest")
  ELSE IF s.state = "value" THEN Keep(s, IF w \in Dashed THEN "ends" ELSE "free")
  ELSE IF IsCommand(s, w, conflicts) THEN [s EXCEPT !.state = "command", !.verb = w]
  ELSE CASE w = "--" -> [s EXCEPT !.state = "rest"]
         [] w \in {"-h", "--other", "--completions"} -> Keep(s, "ends")
         [] w \in {"--config", "--config="} ->
              IF s.config THEN Keep(s, "ends")
              ELSE [Keep(s, IF w = "--config" THEN "value" ELSE "free") EXCEPT !.config = TRUE]
         [] w = "-f" -> [Keep(s, "free") EXCEPT !.force = TRUE]
         [] OTHER -> OwnFile(s, "files")

Fresh == [state |-> "free", verb |-> "put", seen |-> FALSE, config |-> FALSE,
          force |-> FALSE, files |-> FALSE]

Clap(line, conflicts) ==
  LET after[n \in 0..Len(line)] ==
        IF n = 0 THEN Fresh ELSE Read(after[n - 1], line[n], conflicts)
  IN after[Len(line)]

(* Mutant: clap is left to tell files from subcommands by itself.          *)
ConflictsNever(line) == FALSE

Conflicts(line) == FirstWord(line) = "File"

(* parse() and the first lines of dispatch(): the command that is run, or  *)
(* "none".  -f without a file does nothing, as in rm.                      *)
Command(line) ==
  LET s == Clap(line, Conflicts(line)) IN
  IF \/ FirstWord(line) = "AfterFlags" \/ s.state \in {"ends", "value"}
     \/ s.verb = "put" /\ ~s.files
  THEN "none" ELSE s.verb

-----------------------------------------------------------------------------
(* A subcommand is recognised only as the first word, after an optional    *)
(* --config PATH, and there it always is (after_help of `rip`): otherwise  *)
(* a file to be trashed would empty the trash, or a command would trash a  *)
(* file.                                                                   *)
Leads(v, line) ==
  \E pre \in {<<>>, <<"--config=">>} \cup {<<"--config", w>> : w \in Word \ Dashed} :
    IsPrefix(pre \o <<v>>, line)
=============================================================================
