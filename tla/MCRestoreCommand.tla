-------------------------- MODULE MCRestoreCommand --------------------------
(***************************************************************************)
(* Five items: a directory and a file of one path, a directory in it, a    *)
(* file in that, and a file beside it, of whose name the first directory   *)
(* holds another; five that cannot be restored; in two trash directories,  *)
(* made by up to three invocations.  In a third, of *)
(* a filesystem mounted on <<3>>, what another program has put there.      *)
(***************************************************************************)
EXTENDS RestoreCommand

MCPath == {<<1>>, <<1, 1>>, <<1, 1, 1>>, <<1, 2>>, <<3>>, <<3, 1>>}
MCTrees == {t \in [MCPath -> Node] :
  /\ t[<<3>>] = "dir" /\ t[<<3, 1>>] = "none"
  /\ \A p \in MCPath : t[p] # "none" =>
       \A d \in 1..(Len(p) - 1) : t[SubSeq(p, 1, d)] = "dir"}
Bare == [p \in MCPath |-> IF p = <<3>> THEN "dir" ELSE "none"]
MCWhere == <<[scope |-> "home", base |-> <<1>>], [scope |-> "topdir", base |-> <<>>],
             [scope |-> "topdir", base |-> <<3>>]>>

(* What an item at p holds: itself, and what is at the paths in D.         *)
Holds(p, k, D) == [q \in MCPath |-> IF q = p THEN k
                                    ELSE IF q \in D THEN "file" ELSE "none"]
It(t, n, p, k, D) == [trash |-> t, name |-> n, info |-> "valid", file |-> "there",
                      path |-> p, field |-> PathField(MCWhere[t], p),
                      holds |-> Holds(p, k, D), put |-> 1, date |-> 1]
Listing == {It(1, 1, <<1, 2>>, "file", {}), It(1, 2, <<1, 1, 1>>, "file", {}),
            It(2, 1, <<1, 1>>, "dir", {}), It(2, 2, <<1>>, "dir", {<<1, 2>>}),
            It(1, 3, <<1>>, "file", {})}
Others == {[It(1, 4, <<1>>, "dir", {}) EXCEPT !.info = "malformed"],
           [It(2, 4, <<1, 2>>, "file", {}) EXCEPT !.info = "none"],
           [It(2, 5, <<1, 1>>, "file", {}) EXCEPT !.file = "gone"],
           [It(2, 6, <<1, 2>>, "file", {}) EXCEPT !.file = "error"],
           [It(1, 7, <<1, 2>>, "file", {}) EXCEPT !.info = "odd", !.file = "gone"]}

By(e, p, d) == [e EXCEPT !.put = p, !.date = d]

(* Every batch, from invocations of these dates: the last may be dated     *)
(* with the one before it, or earlier; what is unreadable is newer.        *)
Case(l, a, d) == [line |-> l, args |-> a, disk |-> d,
                  tty |-> FALSE, cwd |-> <<1, 1>>, all |-> FALSE]
Undoes ==
  {Case(<<"undo">>, <<>>,
        {By(e, 4, 3) : e \in Others} \cup
        {LET p == IF e \notin S THEN 1 ELSE IF e.trash = 1 THEN 2 ELSE 3
         IN By(e, p, d[p]) : e \in Listing}) :
     S \in SUBSET Listing, d \in {<<1, 1, 2>>, <<1, 2, 2>>, <<2, 1, 2>>, <<2, 2, 1>>}}

File(t, n) == [at |-> "files", trash |-> t, name |-> n, path |-> <<>>, deep |-> FALSE]
Orig(p) == [at |-> "path", trash |-> 0, name |-> 0, path |-> p, deep |-> FALSE]
Args == {File(1, 1), File(1, 2), File(2, 1), File(2, 4), File(2, 9),
         [File(2, 2) EXCEPT !.deep = TRUE], Orig(<<1>>), Orig(<<1, 1>>), Orig(<<1, 2>>)}
Lines == UNION {[1..n -> Args] : n \in 0..2} \cup
         {<<Orig(<<1>>), Orig(<<1, 1, 1>>), File(2, 2)>>,
          <<Orig(<<1, 1, 1>>), File(1, 3), Orig(<<1, 1>>)>>}
Selects == {[Case(<<v>>, l, Listing \cup Others) EXCEPT !.tty = t, !.all = a] :
              v \in {"restore", "purge"}, t, a \in BOOLEAN, l \in Lines}

(* Another program's paths, in the trash on <<3>> and in the home trash.   *)
Foreign(t, n, abs, to) ==
  LET e == [It(t, n, <<3, 1>>, "file", {}) EXCEPT !.field = [abs |-> abs, to |-> to], !.put = 0]
      p == IF abs THEN to ELSE MCWhere[t].base \o to
  IN [e EXCEPT !.holds = Holds(p, "file", {})]
Strangers == {Foreign(3, 2, TRUE, <<1, 2>>), Foreign(3, 3, FALSE, <<Up, 1>>),
              Foreign(3, 4, TRUE, <<3>>), Foreign(3, 5, TRUE, <<3, 1>>),
              Foreign(1, 1, TRUE, <<1, Up, 3>>), Foreign(1, 2, FALSE, <<2>>)}
Abroad == {Case(<<"undo">>, <<>>, S \cup {It(3, 1, <<3, 1>>, "dir", {})}) :
             S \in SUBSET Strangers} \cup
          {Case(<<"restore">>, <<File(3, n)>>, Strangers) : n \in 2..5}

(* Lines of up to four words.                                              *)
Typed == {Case(l, <<>>, {It(3, 1, <<3, 1>>, "dir", {})}) :
            l \in UNION {[1..n -> {"--", "--config", "--config=", "-f", "name", "undo", "purge"}] :
                            n \in 0..4} \cup
                  ({"-h", "--other", "--completions"} \X {"name", "undo"} \X {"-f", "undo"})}
MCUndoes == Undoes \X {Bare}
MCStarts == ((Undoes \cup Selects) \X MCTrees) \cup ((Abroad \cup Typed) \X {Bare})
=============================================================================
