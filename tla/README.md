# rip: a verification project

`rip` moves files to the freedesktop.org trash, restores them, and empties the
trash. Any number of `rip` processes, other trash programs and users work on
the same directories at the same time, without a daemon and without a journal:
what keeps content from getting lost is the order of system calls, one `flock`,
`O_EXCL`, `RENAME_NOREPLACE` and comparisons of inode identities. This
directory models that protocol in TLA+, model-checks it with TLC on small
instances, and proves with TLAPS, for any number of processes, names and
contents, that it loses and overwrites nothing, what restore, undo and purge
do with a command line, and where a put goes.

Paths such as `put.rs:801` are under `src/src/`, `design.md` is
`src/docs/design.md`.

## 1. Inventory

| Component | Source | State | Operations | Model |
|---|---|---|---|---|
| Trash directory | `trash.rs`, `sys.rs` | `files/`, `info/`, `.rip-staging`, the flock | reserve, publish, tombstone, lock, identities | `TrashDisk`, `Reserve` |
| put | `put.rs` | operands, reservation, copy box, manifest | `put_one`, `move_in`, `copy_to_home`, rollback | `Placement`, `Put`, `CopyPut` |
| Placement | `put.rs`, `trash.rs` | `Session`: the trash directories found so far | `choose`, `topdir_trash`, `open_home`, `discover`, refusals | `Placement` |
| Mount routing | `mounts.rs`, `sys.rs` | mountinfo as read once | `route_candidates`, `route`, `mount_conflict` | `MountTable`, `Placement` |
| Recursive copy, manifest, delete | `put.rs`, `sys.rs` | `Manifest` (`pre`, `copy`), `Removal` | `walk`, `cp`, `verify_copy`, `remove_tree` | `CopyPut` |
| discard_verified | `trash.rs` | a tombstone | tombstone, verify, put back, unlink info, remove | `Discard` |
| restore, one item | `restore.rs` | item as listed, destination, `.rip-restore` box | list, check, rename back, copy back | `Restore` |
| restore/undo, a batch | `restore.rs` | blocked paths, created parents | `restore_batch`, `ensure_parent`, `ParentGuard` | `RestoreBatch` |
| Selection for undo, restore, purge | `restore.rs` | targets so far | `undo_batch`, `select`, `by_trash_path`, `pick`, `dedup` | `RestoreCommand` (fzf: any subset) |
| delete_batch | `trash.rs`, `empty.rs`, `purge` | doomed entries, tombstones | scan, recheck, tombstone, clean, remove | `DeleteBatch` |
| empty's selection | `empty.rs` | sorted candidates, totals | `select_for_empty`, hand-over by trash | `EmptySelect` |
| Promise about content | `design.md` 2, 5 | where each content is | put, restore, copy, drop, delete | `Vault` (abstract) |
| Loading | `trash.rs` | - | `load_one`, `load_info_entry`, `discover` | steps of `DeleteBatch` and `Restore`; unreadable entries in `RestoreCommand`; `discover` in `Placement` |
| `.trashinfo`, candidate names | `info.rs` | - | `path_field`, `original`; `parse`, `encode`, `candidate` | the first two in `RestoreCommand`; the others are functions on bytes, not modelled |
| Command line | `main.rs` | - | `first_word`, `parse`, `dispatch` | `CommandLine`, `RestoreCommand` |
| Sizes, ages, configuration file | `main.rs` | - | `parse_size`, `parse_age`, `load_config` | not modelled: one value in, one value or an error out |
| `list`, escaping, reports | `restore.rs`, `main.rs` | none | | not modelled: output only |
| Completions, packaging, CI | | none | | no behaviour |

**Interaction.** All processes share one directory tree. `put`, `restore` and
every discard run under `LOCK_SH`, so they interleave with each other call by
call; `empty` and `purge` run their renames and unlinks under `LOCK_EX`. Both
list the trash, and ask the person, *before* they lock; both delete their
tombstones' trees *after* they unlock. A process that is killed leaves its
files and loses its lock. No message or callback exists other than the
file system. Before any of that, one process decides on its own what it is to
do: which command, which entries, which trash directory. It does so from state
read once (the mount table, a listing) while the others go on; programs that
are not `rip` mount, rename and write at any time.

**Hard behaviours.** (1) State read before a lock and used under it: rechecked
by identity. (2) Two calls that ought to be one: lstat and `O_EXCL` open;
`files/` and `info/` scans; lstat and rename on a file system without
`renameat2`; identity and rename everywhere (Linux has no rename-if-inode).
(3) An entry tombstoned before anyone knows whether it is the right one.
(4) A kill between any two calls. (5) One of several calls failing: EXDEV after
the reservation, `cp`, `syncfs`, removal of the source. (6) Two locks in one
command (after EXDEV), commands waiting for each other. (7) Saturating sums,
ties and boundaries in `empty`'s selection. (8) Batches in which a parent does
not come back. (9) A tree that changes while it is walked, copied, compared and
removed. (10) One filesystem at several mount points, and mounts that come and
go between mountinfo and the call. (11) Two parsers for one command line.
`PROJECT.json` lists every hazard with its line and the
properties that cover it.

**What makes each component correct.**
Trash directory: a name is in one process's hands at a time (`OneHolder`), an
entry always has its `.trashinfo` (`InfoOrder`), locks exclude (`Exclusion`).
put, restore: nothing is overwritten (`NoOverwrite`), content is never lost
(`NoLoss`, `Promise`), nothing is left over (`AtRest`), and a put's rollback
discards its own entry (`RollbackOwn`, which the code does not keep).
delete_batch: only what was confirmed is deleted (`Promise`), the garbage of a
killed command is collected (`Swept`). All: every command ends (`Terminates`).
Selection: exactly the entries the filters name (`HandsOver`), measured no
further than needed (`Lazily`). Batch: no directory is fabricated in the place
of an item (`NoFabrication`), a batch does not get in its own way
(`NoSelfConflict`), created parents are rolled back (`RollsBack`), nothing that
is back is tried again (`OnceBack`). Selection for undo, restore and purge: all of
the last invocation, to where it was (`UndoesLast`), all arguments or none
(`AsNamed`), a removable disk's entries stay on it (`StaysBeneath`).
Command line: a subcommand is one only as the first word (`FirstWordDecides`).
Recursive copy: no source file goes unless the trash has its content
(`RemovedKept`), a removal that cannot succeed is not begun (`AllOrNothing`),
what stayed is reported by name (`Reported`). Placement and routing: the rename moves the directory
entry that was checked (`RightPlace`), over a way that exists (`NeverCrosses`)
and is found if it exists (`RouteFound`); no mount, trash or part of a trash
goes into a trash (`HoldsNothing`, `NotAgain`), and no trash is made where the home trash
will do (`NoSideTrash`).

## 2. The modules

```
  Vault            abstract: where a content may be
    ^ refined by (RipProps!Promise)
  Rip              processes, crashes, other programs: Init, Next, Spec
   |-- Put ---- Reserve --+
   |-- Restore -----------+-- TrashDisk   shared state, locks, rename_noreplace
   |-- Discard -----------+
   `-- DeleteBatch -------+
  RipProps  (properties)   MCRip (values)
  RipSafety <- RipKeeps <- RipPromise      (theorems, each on the last)

  CopyPut, MCCopyPut                one argument's tree, in place of Put's one content
  CopyPutProofs                     (theorems)
  Placement ---- MountTable         the operands of one put, before Put or CopyPut
  MCPlacement
  PlacementProofs                   (theorems, with DataLemmas)
  RestoreCommand -+- CommandLine    from the words to the batch, then the batch
  MCRestoreCommand `- RestoreBatch
  RestoreCommandProofs              (theorems, the batch's too)    DataLemmas (shared facts)
  EmptySelect, MCEmptySelect        the selection of `empty`, before DeleteBatch
  EmptySelectProofs                 (theorems, with DataLemmas)
```

Three modules are one `put` at three scales. `Placement` decides for each
operand between a rename into a trash directory and a copy to the home trash.
`Put` is what follows, call by call among other `rip` processes, with a tree as
one content. `CopyPut` is the tree of a copy, entry by entry among other
programs, with the trash directory as one place. Likewise `RestoreCommand`
leads to `Restore` (whose outcomes are those of `RestoreBatch`'s items) and
`EmptySelect` to `DeleteBatch`.

### State of `Rip`

| Variable | In the program |
|---|---|
| `files`, `info` | `files/NAME` -> inode; `info/NAME.trashinfo` -> identity and path |
| `stage` | `.rip-staging`: copy boxes (`put`) and tombstones (`del`) with what is in them |
| `place` | the users' directories: the base name and its `--rename` variants |
| `body` | inode -> content |
| `lock` | each process's flock on the trash directory |
| `pc`, `me` | the call a process makes next; its locals (`Item`, `Reserved`, `StagingBox`, `Manifest`, ...) |
| `runs`, `mishaps`, `edits` | what is left of the bounds |
| `born`, `released` | history: contents that existed, contents their user overwrote or agreed to delete |

One action is one system call another process can observe, or a run of calls on
what the process owns. `pc` names the call that comes next: a `put` by rename
goes `wait claim open publish unlock`, with `advance` on EEXIST, `release` on an
error and `exdev unlockcp` on EXDEV; a `put` by copy goes `walk waitcp mkbox cp
claim open publish capture sync source unlock`, with `dropbox` where
`StagingBox::drop` runs and `tomb verify checkinfo unlink rm` (`Discard`) for
its rollback; a restore goes `read dest waitr` and then `recheck back
checkinfo unlink` or `recheck2 cpback out syncout` and `Discard`; `empty` and
`purge` go `listed waitx next doom drop unlockx sweep burn`. The end of scope of
a guard (`Reserved`, `StagingBox`, the lock) is always a step of its own.

A call that can fail has a disjunct for it, with what the code does about it. A
clean-up call is one whose failure the code passes over: it releases a reservation or unlinks an info (`let _ =
unlinkat`), drops or finishes a box, puts a tombstone back or removes it. Its
failure is a step of its own (`Slip`), after which the process goes on and what
was to go stays; a `remove_tree` that breaks off leaves the tree whole or without its content.
So is a box that was made and cannot be opened, which nothing guards yet
(`sys.rs:972`). `Crash` stops a process at any `pc`:
no destructor runs and the kernel drops its flock. Both count as mishaps
(`MaxMishaps`), for the theorems any number of them. `Others` are users and
other programs: `Save` (a new file by rename), `EditInPlace`, `StrayDrop` (an
entry without a `.trashinfo` appears in `files/`). `PutStart` to `Done` are
translated one for one from the functions `PROJECT.json` maps.

### Abstractions, and what they leave out

- A content is one value per argument; a directory tree is one content
  (`CopyPut` has the tree). A
  directory `d` is either in `Local` (renames to the trash work) or not (EXDEV,
  or no route known from the start). There is one trash directory: a `put` that
  the code sends from a topdir trash to the home trash after EXDEV takes the
  lock of the same directory twice.
- All arguments have the same base name, so that every process competes for the
  same candidates; `MaxName` bounds them (100000 in the code), and running out
  of them is a behaviour (`ClaimFails`).
- Staging names are made of the pid and a counter; a slot is such a name, and
  identifies the directory behind it. `fresh_tombstone` for a box only changes
  its kind. `.rip-staging` is assumed to exist (`open_staging_if_exists` and
  its early return are left out).
- The identity of a `.trashinfo` (inode and bytes) is never made twice while
  someone remembers it. Therefore `still_same`, which reads two files in two
  calls, is one step. Inode numbers *are* reused with `InodeReuse`.
- Creating a `.trashinfo` and writing its text is one step; one that could not
  be written is unlinked, as if it had not been made.
- Two rechecks in a row are one. Capturing the published entry (`lstat` and
  reread of the info) is one.
- `verify_copy` compares nothing: it records what landed in the box. What makes
  a copy complete is `RemoveSource`'s comparison of walk, copy and source, as in
  `Manifest::unchanged`. The lstat and the unlink of one source file are one
  step: the window between them is accepted in `design.md` 7.
- The `.rip-restore` box is the copy in it; nobody else looks there. An empty
  one that stays beside the destination (made and not opened, or not removed after the publication) is
  therefore not in the model; `AtRest` is about the trash directory.
- `empty` handles doomed entries in any order. Malformed `.trashinfo` files and
  `entry_conflict` (mounts inside the trash) are not modelled.

`EmptySelect` gives entries numbered names, small sizes and dates in the unit of a
ctime, so that an orphan, whose date is a ctime with its nanoseconds, is of an item's second to the
nanosecond or between two of them; `u64` saturates at `U64`. Declining the question hands nothing over. `RestoreBatch`
has components as numbers, and its items bring back what they hold; what happens to one item between its lock and its
publication is a choice of outcome (`GiveUp`, `Publish`), since `Restore` has
the detail. `Sort` leaves items with equally many components in any order:
`sort_by_key` is a permutation into an order of lengths (`Bijection`).

### `CopyPut`

State: the directory entries (`ent`) and the size and mtime of each file
(`ver`); the put's `stack` of open directories, `Manifest` (`pre` from the
walk, `snap` from `verify_copy`), what `cp` has copied (`copy`: the stamp it
kept and the bytes it read, which need not agree), where the copy is (`trash`,
`durable`), and `Removal` (`gone`, `kept`). Phases: `top walk cp publish sync
rmtop rm end`. Each entry is one step of the walk, of `cp` (two for a file:
the stat, the bytes) and of `remove_tree`; `Others` rename, write, create, unlink and
mount in between. `Kill` includes a power failure: what was not synced may be
gone.

- A write changes size or mtime. Two different files of equal size and mtime,
  and a write that restores them, defeat `Manifest` by design and are not
  modelled, so the stamp of a copy holds the inode it was copied from.
- The lstat and the unlink of one source file are one step; `design.md` 7
  accepts the window. A directory is opened in the step of its lstat; that it
  changed in between is the disjunct that reports an error.
- `cp` is another program, modelled by what the code relies on. Special files
  are like links. Names are finite, depth is bounded by `Path`.
- A prompt declined, no lock, no box, no name left: one refusal before, one
  failure (`CopyFails`) after the box exists.

### `MountTable`, `Placement`

`MountTable` is pure: a table is a sequence of mounts with id, parent,
filesystem, root and point. `Placement` has a kernel (`Lookup` crosses mounts;
`ent`, `mounts`) and one `put` with its operands. Its steps follow `run` and
`put_one`: `start home session`, then per operand `operand stat` and `route
move` or `top look pick ... move` or `copy`. `Others` mount, unmount and swap
entries of a shared top directory, between any two steps, as long as `edits`
lasts.

- A subvolume is a `dev` of its own within a filesystem `fs`. An inode's `mine`,
  `sticky` and `full` stand for ownership, the sticky bit and a directory that
  cannot be written.
- Operands are absolute paths, as `split_arg` and `lexical_normalize` leave
  them. The prompts of `-i` are a choice (`ask`); that of `-I`, once before the
  loop, is left out.
- At most two mounts lie on one another. Mount ids are not reused, and
  `mount --move` is not modelled. `PathBuf::ancestors` with symbolic links in
  the middle of a path is not either: links occur as the last component, where
  the code looks for them.
- `open_home` finds its parent directories; only `Trash` and below are made.
- A new directory gets an inode that is in no directory and not open in the
  session; where there is none (ENOSPC) nothing is made. An entry is of its
  directory's filesystem, whatever others swap.
- At the start mountinfo is true (`Agree`): a mount's root leads to what it
  shows, counted from the top of its filesystem, and its point to what it is
  mounted on. A directory, and what is mounted on, has one name (`OneWay`);
  other files may have several.
- Renaming ends an operand (`Move`): reservation and rename are `Put`'s.

### `CommandLine`, `RestoreCommand`

`CommandLine` has `first_word` as the code has it, and clap's rules for root
options, positional files, `--` and subcommand names as an external parser.
`RestoreCommand` starts from a line and a disk, and goes `argv select targets`
and then `sort next parent` (`RestoreBatch`), `purge`, or `refused`.

- An entry of a trash directory has what `load_one` tells apart: the state of
  its info, of its file, the `Path=` field and, as history, the path and
  invocation it came from. The listing is one step: what races it is in
  `Restore` and `DeleteBatch`.
- An invocation has one date. Those of two invocations may be equal, and the later
  one's may be the smaller: dates are local time without a zone.
- PATH arguments are given as `resolve` leaves them: in a `files/` directory, deeper,
  or elsewhere. The order in which a set of items is listed is arbitrary but fixed.
- `list`, `empty` and a put end the model of the line (`another`).
- A failing configuration or working directory is one refusal.

## 3. Runs

Every configuration has `CHECK_DEADLOCK FALSE`: each command runs `MaxRuns`
times, or the one command ends, and then the system stops. Sizes are distinct
states, times with two workers.

| Run (`.cfg`) | Instance | Checks | Shows |
|---|---|---|---|
| `MCPutEmpty` | 2 puts, 1 empty, 1 mishap, inode reuse | `Exclusion` `InfoOrder` `OneHolder` `AtRest` `Promise` | no interleaving of rename- and copy-puts with an empty loses or leaks anything (773k, 130 s) |
| `MCTwoRestores` | 2 restores, 1 put, 1 save or edit | `OneHolder` `NoLoss` | a put-back into a name somebody wants; a destination that appears (989k, 50 s) |
| `MCNoRename2` | 2 puts, 1 restore, neither renameat2 nor flock | `NoOverwrite` | `Reserved` alone keeps two puts apart (161k, 10 s) |
| `MCTwoEmpties` | 2 empties, 1 put, 1 stray, save or edit, inode reuse | `TypeOK` `AtRest` `Promise` | two empties that listed the same, and share tombstones; an orphan under a name a put wants (240k, 70 s) |
| `MCLive` | put, restore `--rename`, empty, 1 mishap | `AtRest` `Promise` `Terminates` `Swept` | no deadlock on the lock, no endless claim; stale listings never reach a new entry; garbage is collected (178k, 170 s) |
| `MCEmptySelect` | every trash of up to 4 entries in 2 directories | `HandsOver` `Lazily` | selection equals its reference (301k, 40 s) |
| `MCRestoreCommand` | every line of up to 4 words; 5 items and 5 unreadable entries in 3 directories; up to 3 arguments; every tree of 4 paths; dates that go back | `FirstWordDecides` `UndoesLast` `AsNamed` `StaysBeneath` `OnceBack` `NoFabrication` `NoSelfConflict` `RollsBack` | a command line does what it says, all of it, and only that (275k, 50 s) |
| `MCCopyPut` | trees of up to 4 entries with 2 calls of others; or with every flaw at one or two entries and nobody about | `RemovedKept` `AllOrNothing` `Reported` | the copy before the removal, and a report that is true, whoever interferes (673k, 110 s) |
| `MCPlacement` | 2 filesystems, 3 subvolumes, 17 mount tables, 19 operand lists; every state of a shared top directory; 1 call of others | `NoSideTrash` `RouteFound` `RightPlace` `HoldsNothing` `NotAgain` `NeverCrosses` | aliases of a filesystem, and mounts that change after the table was read (56k, 20 s) |
| `MCRollback` | 2 puts, 1 restore | `RollbackOwn` | **violated**, finding 1 |
| `MCPutBackCrash` | 2 restores, put, empty, 1 kill | `Survives` | **violated**, finding 2 |
| `MCMostRecent` | undo, as in `MCRestoreCommand` | `MostRecent` | **violated**, finding 3 |

**Bounds.** Two names (`MaxName = 1`): one contended and one to advance to;
with three processes a third is never contended by more than one, except in
what `OneHolder`'s theorem covers for all. One run per process: two runs of
one kind are two processes, and no state survives a process. Two or three
staging slots: one per process that can hold one at once; where fewer are free
the call fails, which is a behaviour of the code too. Inodes and contents: one
per file at the start plus one per copy or save. One mishap, a kill or a failed clean-up call: recovery in `rip`
keeps no state, so a second one starts from a disk the first one could have
left. Three `.trashinfo` identities cover one at the start and one per put that
can be alive at once. With four entries in `EmptySelect` there are a batch of
two, an orphan between, and one more; sums reach `U64`; an orphan's date is between those of items, or one of them. In `RestoreCommand` there
are a parent, a child with a child, a sibling, and a second item for one path; a directory that held a file at another
item's path; a batch over two directories; invocations in order, in one second, and dated backwards; one entry for each way of being unreadable; and
lines long enough for `--config PATH`, an option and a word after it. In
`CopyPut` a tree has a file beside a directory with a file, a hard link across
directories, or is one file; two calls of others are enough to replace an entry
after it was seen and to write before or after `cp` reads, and the theorem
covers any number. In `Placement` a trash directory is reachable through two
mounts of one filesystem, a mount covers or is covered, a bind mount shows a
part, a mount lies on `Trash`, the `files/` of a trash is the root of another mount, and one call of others falls between any two steps; operand lists of two
have the second inside what the first made a trash.

**Symmetry** is used in runs with two putters only, on safety properties (and
on `Promise`, which has no liveness).

**Fairness** (`FairSpec`): for each process, weak fairness of the steps of a
command that has started. A system call returns, a person answers the prompt,
and a lock that stays free is granted. Declining, and an error of `flock` itself, end a command before
it waits (nothing is done in between), so that no process gets out of a wait but by the lock. It is not strong fairness of the lock:
`Terminates` therefore also says that in these runs no process starves, which
holds because the number of commands is bounded; the code has no other
protection against an endless stream of `LOCK_SH` holders delaying an `empty`.
Nothing obliges anyone to start a command, and no mishap is obliged to happen: `Swept` begins when an `empty` has
its lock and no mishap is left.

`CopyPut`, `Placement` and `RestoreCommand` state no fairness and no liveness:
each is one process that takes finitely many steps, whose loops run over lists
that only shrink.

`Promise` is refinement: `Where` maps a state to the set of places a content is
in (`home`, `trash`, `astray`), and every step of `Rip` must be a step of
`Vault`, which has no `astray`, no loss without consent and no move to both
places at once other than by copying. A content tombstoned by a process that
has not yet looked at it counts as in the trash *while that process lives*.

`InfoOrder`, `NoLoss` and the like are checked only where their assumptions
hold: `NoOverwrite` needs no lock, and is checked where there is no `renameat2`, since with it every
rename is guarded by the kernel; `InfoOrder` needs that nobody puts strays
under a name that is being reserved, and `NoLoss` that no rollback meets a
stray (finding 8). `HoldsNothing` speaks of the mounts in the table as long as
that is current, `RouteFound` and `NeverCrosses` of what nobody has changed
meanwhile; `RightPlace` and `NoSideTrash` have no such condition. `HoldsNothing` and `NotAgain` except an operand
whose mount is rooted inside the very trash (`RootedIn`, finding 10).

## 4. Theorems

`tlapm` checks all of them to the last leaf, for every value of the constants.
Those about `Rip` rest on the ASSUMEs of `TrashDisk`, which TLC evaluates in every
run of `MCRip`: `ConstantsAssumption`; `RolesAssumption` (a process runs one
command); `StartsAssumption`: at the start the disk is well-typed, entries have
infos, an inode is in one place, a content is in one inode, and it is where it
belongs or its `.trashinfo` says where that is. `NewObjs` gives a new file an
inode number nobody can still see: one that is open (`Open`) is never reused,
whatever `InodeReuse` says, as POSIX has it.

| Theorem | States | Under |
|---|---|---|
| `RipSafety!TypeCorrect` | `TypeOK` | |
| `RipSafety!ExclusionHolds` | `Exclusion` | flock |
| `RipSafety!InfoOrderHolds`, `OneHolderHolds` | `InfoOrder`, `OneHolder` | flock, no strays |
| `RipKeeps!NoOverwriteHolds` | `NoOverwrite` | `Renames` |
| `RipKeeps!NoLossHolds` | `NoLoss` | flock, no strays, `Renames`, `Homely` |
| `RipPromise!PromiseHolds` | `Promise` (refinement of `Vault`) | flock, no strays, `Renames`, `Lone` |
| `RipPromise!AtRestHolds` | `AtRest` | the same |
| `CopyPutProofs!RemovedIsKept` | `RemovedKept` | |
| `CopyPutProofs!AllOrNothingHolds` | `AllOrNothing` | |
| `CopyPutProofs!ReportedHolds` | `Reported` | |
| `PlacementProofs!RightPlaceHolds`, `NoSideTrashHolds` | `RightPlace`, `NoSideTrash` | |
| `PlacementProofs!RouteFoundHolds`, `NeverCrossesHolds` | `RouteFound`, `NeverCrosses` | |
| `EmptySelectProofs!HandsOverHolds`, `LazilyHolds` | `HandsOver`, `Lazily` | |
| `RestoreCommandProofs`, 8 theorems | `NoFabrication` `NoSelfConflict` `RollsBack` `UndoesLast` `AsNamed` `StaysBeneath` `OnceBack` `FirstWordDecides` | |

**Types, locks, names.** `TypeOK` says beyond types that no call is reached
without what it uses (`Ready`): a reservation, an open box, a tombstone, a name
below the limit. One lemma per module of steps. `Exclusion`
is not inductive: it says where processes are, not what they hold. The
invariant `Locked` adds that a process in a shared section holds `SH`, one in
an exclusive section holds `EX`, and nobody else holds anything when someone
holds `EX`. Each step is classified by `Region` (it stays, takes
a lock, or drops it), so one argument covers all actions.
`InfoOrder` and `OneHolder` are inductive only together, as `Names`: `Named` (an entry has an
info), `Held` (under a name somebody holds there is no entry, but there is an
info: the reservation, or what the taken entry left) and `Single` (a name has one holder). An
exclusive holder excludes all others by `Exclusion`; two shared ones are
kept apart by `O_EXCL` (a second reservation needs a missing info), by the
tombstone or rename (a second taker needs an entry) and by the order of the
two. Neither `renameat2` nor unique inode numbers are assumed: the theorem
shows that `Reserved` suffices in `files/` among `rip` processes, which is what
the comment above `noreplace_with` (`sys.rs:184`) claims. It also implies that the put-back finds its name free
unless a stray has taken it.

**Nothing is overwritten.** `Renames` is what a rename needs not to replace
anything: `renameat2`; or, with the fallback that looks first, flock, no
strays, no saves and at most one restore, since without the system call nobody
can keep a user from creating a file in the window (finding 9). `Clear` says that what the fallback saw
absent still is: in `files/` by `Names`, at a restore's destination
by `StillClear`, which holds because nobody else adds to that directory.

**Nothing is lost.** `NoLoss` speaks of contents; a step touches inodes, names
and staging slots, and what makes it harmless happened many steps ago. `KeepInv` carries it:

- `Route`: who is where. By rename only, nobody copies or discards; nobody
  reaches the put-back, because `Names` leaves nothing to compare unequal.
- `OnePlace`: an inode is in one of `files/`, staging and the users' directories,
  once. A step that takes it out of one of them cannot take it from another.
- `Slots`: a box is one put's, no tombstone of anyone's; a tombstone that is being
  checked is one process's. So `empty`'s sweep, under `EX`, takes
  nothing from a put, which is under `SH`.
- `Copies`: what a put by copy has published is under its name, untouched, its
  own, and has the content the source had when it was copied; what it discards in
  a rollback is that. `RemoveSource` compares, so the source that goes has this content.
- `Victims`: what is deleted without a lock is in nobody's hands. Inode numbers
  are reused here as soon as the number is closed.
- `Doomed`: a listed item whose info and inode are still what they were has the
  content the person saw, whatever happened in between (`Vouched`); from the
  recheck to the tombstone nothing changes.
- `Kept`: every content that counts is at its user's or `Firm` in `files/`, a copy
  whose put has not finished not counting. `RemoveSource` makes it firm in the step
  in which the source goes; a kill leaves it under its name, where it counts.

`Homely` is: everything is on the trash's file system, or nothing is restored. It leaves
out a restore by copy, whose tombstone may hold a stranger's entry for a while (findings 4 and
5); `MCTwoRestores` checks `NoLoss` for that.

**The promise.** `Promise` says more than `NoLoss`: contents come back to where
they were, and move one at a time. `Homed`: a content at a
user's is in one inode, in the directory it belongs to. `Told`: by rename, an
entry's info says where its content belongs, and what a restore has read and
rechecked is still the entry's when it renames. Of two restores one can
rename what the other's absence let a put publish under the same name (finding 4): hence
`Lone`, one restore at a time and by rename, or none. It is not an
assumption made for the proof: with two restores the code breaks `Promise`. Each step is then shown to
be about one inode (`About`), which is not both at a user's and in the trash;
with `OnePlace` and `NoLoss` this makes it one of `Vault`'s steps or a stutter (`StepAbout`,
`VaultStep`).

**At rest.** `AtRest` speaks of the end, when all are done, none was killed and no clean-up call
failed: what the code is to remove and can remove is gone, whichever of its other calls
failed. `RestInv` says it of every state, of who is still to clean up. `Staged`: a box or
tombstone in `.rip-staging` is one that a live process is to publish, drop or burn, or that an
empty collected to sweep. `Infos`: a `.trashinfo` without its entry was there at the start, or someone
holds the name and is to unlink it. Both only while there was no mishap. Cleaning up is by
identity, so it may also find something else and leave it; that it does not is `Tidy`:
who is to unlink an info still finds the one that it read (`SettledAt`), and a tombstone that is
opened to be deleted still holds what it was made for, or nothing (`BurningAt`). A step
disturbs neither for others (`Aside`), and leaves behind only what is its own or
was another's (`Leaves`). `Lone` again: the second of two restores may rename an entry whose
info is not the one it read, and then leaves that info behind (finding 4).

**A tree copied.** `RemovedIsKept`: for any tree, any
names and paths, and any number of calls of others. It rests on the ASSUMEs
of `CopyPut`: the start trees are trees of inodes, the argument is a name in
its parent, and only a directory is the root of another mount (a put refuses a
path at or above a mount point before it comes here, `mount_conflict` at
`put.rs:631`; for a directory the walk looks once more). `RemovedKept` is
about the end of a chain of looks at one file, so the invariant `IInv`
carries each link: `TreeOK` (types); `CopyOK`: each copy is `Faithful`, its
stamp not newer than its bytes, and its bytes not newer than the file, since
`cp` keeps the mtime it saw before it read; `Recorded`: after `verify_copy`,
`snap` is the stamps of the copy; `Kept`: nothing is removed before the copy
is published and synced, and what was removed has its bytes in the copy.
`Manifest::unchanged` then closes the chain: a file removed has now the stamp
that `snap` has, hence the bytes in between are its own. The walk's `pre` is
not needed for that; it keeps entries that were renamed from being taken for
those the user named.

**All of it, or nothing.** `AllOrNothingHolds`: what `walk` with
`Check::Removable` lets through, `cp` copies and `remove_tree` removes, whatever
the shape of the tree and the flags of its entries. This is a claim about three
traversals of one tree, by three pieces of code, so the invariant `Clean` says
what each leaves to the next, in every state in which nobody else has touched
the tree and no call has failed (`Untouched`; `edits` and `fault` only ever move away from it).

- `Walked`: what `pre` has at a path is what is there, and if no problem was
  found, it can be opened and its directory lets it go.
- `Whole`: if no problem was found, every entry of a directory in `pre` is in
  `pre`, or a frame of the stack has still to name it. Frames are not
  mixed up, as each belongs to a directory in `pre` (`Framed`).
- `Copied`: a directory in the copy has all its entries there or among what
  `cp` has to do, and each copy has the stamp of `pre`. With `Whole`: when `cp` is done, `copy` and `pre` are
  the same paths (`AllCopied`, by induction along a path).
- `Removing`: nothing was kept, nothing was added, and an entry of a directory
  that is entered is gone, or is in its frame's `todo`, or is the
  directory of the frame above. So a directory whose frame is done is empty.

`Removable` joins them: for an entry the walk passed, each of the checks of
`enter_or_unlink` agrees with the one of the walk. This is where a flag, a sticky
bit or a mount that one of them looks at and the other does not would show.

**The report is true.** `ReportedHolds` is about the other case: others move,
write, create and mount while the tree is removed, and any call may fail. What the walk
saw, nobody moved, and is still there when the put says what it kept, is
named, or is in a directory that is. (The property used to be content with a name
*below* such an entry; the proof showed that it may ask for more.) Three facts about one step carry it. An entry that changes becomes
empty, or takes an inode that from then on counts as moved (`EntriesGo`); so what is there after a
step, with nothing moved on the way to it, was there before, at the same path
(`Fewer`). And no path gets such an entry back. The invariant `Telling` adds:

- `Followed`: what is still there of what the walk recorded is what it recorded.
- `Chain`: the frames of a walk or a removal are of directories that were
  recorded, each in the one of the frame below, whether they are still there or not.
- `Told`: what is still there is named, or waits: its frame is open, or it is under a
  name that a frame has still to take (`Waits`).

`rmdir` of a directory that others filled again fails, and names the
directory; so what is in it is not left out.

**Where a put goes.** `RightPlaceHolds` and `NoSideTrashHolds`: for any tree, any
mount table and operands, and any number of mounts, unmounts and swaps between the steps. The
ASSUMEs are the kernel's: a device belongs to one filesystem, and so do a
directory and its entries, those others put there included; a mount id is never used for
another filesystem (`WorldsAssumption`). The code decides from the
table, which may be old, and acts through descriptors; what ties the two together is the
mount id, which `statx` gives for the descriptor itself. So the invariant is about
what is open: a `Handle` is on the filesystem of each mount, now there or in the table, with the id it was reached by.
`Lookup`, `Enter` and `Cross` give nothing else (`LookedUp`, `Entered`, `Crossed`), and no unmount
changes it. `AtTopdir`: once `choose` says `top`,
the argument's mount is of another filesystem than the home trash's
(`NotHome`), and the top directory that was opened has that mount and the argument's
device. A directory made in it is of its subvolume, hence of its filesystem, unless a mount lies on the name
in between; then it has another mount id, and `OnOwn` keeps it out of the session.
`SessionOK`: the table is one that was current, and the home trash stays the first of
the session. `AtMove`: before the rename the source is the parent that was opened, by
identity, and the target a `files/` of the session's. Neither theorem assumes that
the mount table is still true, which is what they are for.

`RouteFoundHolds` and `NeverCrossesHolds` are about the same trees, tables and operands, until others
change something (`Quiet`, which is in the properties). They rest on `AgreeAssumption` besides: what the kernel's
mountinfo says at the start, and that directories have one name. The code compares paths, and
the question is when that tells the same as comparing inodes. `Still` is the invariant: what the put makes, moves
and opens leaves `Agree` true. That is so because `mkdirat` takes no entry away and a new inode is
in no other directory (`MadeSettled`), and the entry a rename takes is on the way to no mount (`Apart`,
`TakenSettled`): `Apart` is what `mount_conflict`, `inside_trash` and `contains_trash` establish, by paths,
about the argument (`NoConflict`, `NotHomeFiles`), and it also keeps the home trash where its path leads (`HomeOn`).

- A path that leads somewhere leads there in the filesystem of the mount it ends in (`Leads`): each step is an entry or
  crosses a mount at its point. From the top of a filesystem one path leads to a directory (`WayUnique`,
  from the end of the path to its beginning).
- So a mount that shows a directory does so at the path `through` works out (`ShownBy`), and it is among
  `route_candidates` (`Tried`). `route` skips a candidate only if it is not the directories that are wanted, or
  read-only (`StillRoute`): when none is left, no mount shows both.
- `NeverCrosses`: what comes from `route` was verified on one mount; what is put in a top directory is on the mount of
  `item`, and `item`'s own directory could be on another device only if `item` were the top of a
  subvolume. Then everything of its device is below it (`IntoVolume`): the top directory, or the home trash's `files/`,
  which `Apart` excludes. `choose` compares the device of `item` and not of its directory, and this is why it may.

**A command line and its batch.** For any tree, any
number of trash directories with any entries, any line and any arguments. The
ASSUMEs: `TreesAssumption` (paths are sequences, with their prefixes; what is in a tree, or in
what an item brings back, is in a directory of it) and
`RestoreCommand`'s `StartsAssumption` (a trash directory on a topdir exists; an entry that a put made has
the `Path=` that put wrote, and the date of its invocation). `BatchInv` is the loop's invariant: the queue holds
what is still to be done, each item once (`Waiting`) and parents first
(`InOrder`); a path that changed holds what an item that is back brought with it, or is above one
that was reached, or about to be rolled back (`Changed`); what `ensure_parent` works on is
under nothing blocked, so it creates nothing where an item failed (`AtWork`); an
item that failed blocks its path (`LeftOut`). `CommandInv` adds what is known
before the loop: the targets are items of the listing, and each argument is still to be
resolved or names all that it may (`Arguments`). `UndoesLast` assumes no order of dates: an undo takes
invocations whole, all of one date, and where the dates went on (`Onward`) those are the last
one and others of its second. Without that condition it is `MostRecent`, which finding 3 refutes. `StaysBeneath` needs no invariant but where
entries come from: two prefixes of one path are one above the other.
`FirstWordDecides` compares two parsers of one line by induction over the
line: `first_word` and clap skip the same words (`SkippedIs`, `ClapIs`),
and where they would part the line is a conflict (`Decided`).

**What `empty` selects.** For any number of trash directories and entries, any
dates and filters, and sizes whose sums saturate. The ASSUME is
`EmptyAssumption`: no two entries have one key, sizes and the limit are `u64`s.
The reference (`Goes`, `SameBatch`) knows no order and no running total; the
code (`empty.rs:53-110`) knows only runs of a sorted list and a sum that is
added up batch by batch. Four facts join them. The sort puts every entry in one
place, in the order of `Newer` (`SortIs`, `EntIs`; `HasOrder` shows that there
is such an order, so the model's CHOOSE has what to choose). A batch of the
reference is a run of items of one date, without an orphan between them
(`BatchIs`); hence a loop that stops at the first candidate that does not join has the batch
whole, and what is no older than its members is what has been walked
(`NoOlderIs`). The total is the saturated weight of a prefix
(`HeftIs`, `AddAdds`: saturating batch by batch or once is the same). And weights grow, so what
comes after the first batch that is too much is too much as well (`Cut`). `Inv` carries them
round the loop: nothing before `start` is too much, nothing from `i` on has been
walked. `ByTrashIs` is about the hand-over: the doomed places in
falling order, each once, grouped by the trash of the entry and not of the place.

`DataLemmas` has the induction these need. The library's induction theorems
take operators, which no installed prover can instantiate; `UpTo` is induction
over a set of numbers, from the well-foundedness of `<`, `AlongSeq` over sequences, and `Recursion` is the existence
of a recursive function by it. `Dedup`, `Keep`, `Skipped`, `Clap`, `ByTrash` and `Weight` are recursive functions for that reason.

**Only model-checked.** `Terminates` and `Swept`: liveness under fairness. `NoLoss` with
restores by copy: `MCTwoRestores`. `Promise` and `AtRest` with strays: `MCTwoEmpties`. `AtRest` with restores by copy: `MCLive`. Two of `Placement`'s properties, which are not true of every world its ASSUMEs
allow: `HoldsNothing` compares inodes, so a file that is mounted somewhere and has a second name, or a trash that others swap
into the argument's tree, breaks it with no harm done by the code, which compares paths; `NotAgain` is broken by
who renames the argument's directory into the trash after `Inside` compared the paths. `MCPlacement` has
no such file and no such swap.
The three findings' runs refute theirs.

## 5. Findings

With a run each:

1. **A put's rollback can discard another put's entry** (`put.rs:801`,
   `RollbackOwn`). `copy_to_home` captures the published entry by name after
   the publish. If a restore takes the entry and another put reuses the name
   before that lstat, the identity captured is the other's, and a rollback
   discards it. The comment at `put.rs:796` promises "exactly this entry".
2. **A kill between tombstone and put-back loses an unselected entry to the
   next `empty`** (`trash.rs:931`, `Survives`): `design.md:407` says "A crash
   cannot delete anything that was not selected."
3. **`undo` can take an older invocation than the last** (`restore.rs:799`, `MostRecent`):
   the newest `DeletionDate` is the largest local time, written without a zone (`put.rs:353`). Local time
   goes back at the end of daylight saving, or with a change of the zone, while the clock goes on;
   of two invocations on either side, the earlier one has the larger date. `README.md:71`: "restore every item
   from the most recent rip invocation".

Seen while building the model, without a run of their own; the conditions of
the passing runs name each:

4. The rename back goes by name after the recheck (`restore.rs:630`), although
   `restore.rs:537` ties "every step after the lock" to the verified entry. Two
   restores and a put of one name: one of them restores the new put's entry to
   the old one's path. No content is lost, it is astray: `MCTwoRestores`
   checks `NoLoss` and not `Promise`.
5. `same_file` is device and inode (`trash.rs:933`, `design.md:376`). Where
   inode numbers are reused, two restores and a put can make a discard take a
   new entry for the one it listed. `MCTwoRestores` has unique numbers;
   `MCPutEmpty` has reused ones, where the info's identity protects `empty`.
6. Without flock (`sys.rs:241` goes on with no lock) an `empty` can remove the box or the `.trashinfo` of a put in flight,
   which `design.md:435` excludes by "`LOCK_SH` across the whole put".
   `MCNoRename2`, the run without flock, has no `empty`.
7. `ensure_parent` failing after its first mkdir leaves what it created: the
   guard exists only once it has returned (`restore.rs:451`). So does a directory that was
   made and could not be opened, which is not even in the list; the test at
   `tests/restore.rs:537` expects rollback in the cases it reaches. It is the
   second disjunct of `RollsBack`.
8. A stray dropped under a name that a put has just reserved, and a restore at
   the same time, can cost the put its `.trashinfo` (`InfoOrder` without
   `Stray = {}`); a rollback that captured the stray instead of its own entry
   (finding 1) discards the stray's content. The documentation promises nothing
   here: `MCTwoEmpties`, the run with strays, has no restore.
9. Without `renameat2`, a file saved at a restore's destination between lstat
   and rename is replaced. `design.md:321` accepts that window; `MCNoRename2` has therefore
   one restore and no `Save`.
10. `inside_trash` (`put.rs:371`) compares the identities of the ancestors in
   the namespace. An operand reached through a bind mount whose root is a
   directory inside a trash has no ancestor that is the trash, and is not
   recognised. It is the exception (`RootedIn`) in `HoldsNothing` and `NotAgain`; `MCPlacement` has such mounts, of
   the home trash and of a `.Trash-UID`, and refutes both without it.
11. On a filesystem that is mounted on `.Trash` or on `.Trash-UID` itself, `UID`, `files/` and
   `info/` are made before the mount check refuses the directory
   (`put.rs:227`, `put.rs:268`), also where it is the home trash's. It is the exception in `NoSideTrash`;
   that `.Trash-UID` belongs in it came out of the proof.
12. `mkdir_and_open` (`put.rs:139`) ignores EEXIST and does not repeat the
   owner's check for a directory that appeared after `find_dir`. Where a name
   is created by someone else in a shared top directory, the later checks
   (mount, device, the path's own) are the ones that hold.
13. Two invocations within one second are one batch for `undo`, while
   `README.md:71` speaks of "the most recent" one. `UndoesLast` therefore allows an earlier
   invocation of the same second, and forbids a part of one.
14. An orphan whose ctime has no nanoseconds (a filesystem with whole-second timestamps; elsewhere
   `trash.rs:503` keeps them) can tie with an invocation's second, sort by name between two
   of its items and split the batch (`empty.rs:91`), against `design.md:82`, "a batch is never split by size".
   The reference in `HandsOver` says so: a batch is a run of items without an orphan between them.
15. A directory that a batch restores brings back what it held. Of `rip dir/f`, a new `dir/f`, `rip dir`
   and `rip restore dir dir/f`, the older `dir/f` then finds its path taken, by what the batch itself brought back.
   Nothing is overwritten; `NoSelfConflict` allows it and forbids only directories the batch made.

## 6. Plan

Modelled: the protocol on one trash directory, the tree under an argument,
placement and routing, the selection for every deleting or restoring command,
and the command line.

What is left, in order:

1. Theorems: `NoLoss` and `AtRest` for one restore by copy; `HoldsNothing` by paths,
   from `Apart`.
2. `entry_conflict` (a mount inside the trash) in `DeleteBatch` and `Discard`,
   with `MountTable`'s `MountConflict`.
3. Restoring to a path on a topdir, looked up beneath its descriptor, against
   entries that others swap on the way.

## 7. Not modelled

The fzf picker, `cp`, clap and the kernel themselves: external, modelled as
what the code assumes of them. `parse` and `encode` of `.trashinfo` text,
percent coding, `candidate` at NAME_MAX, `parse_size`, `parse_age` and the
configuration file: functions from one value to another without state, for
which the unit tests beside them try both sides of every limit and a model
would repeat the code. `list`, escaping, sizes for people, reports, warnings,
completions, packaging and CI: output, or no behaviour. `lexical_normalize`,
`resolve` and `split_arg`: paths are given as these leave them.
