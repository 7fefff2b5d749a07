# typdoc in TLA+

Models of typdoc's core logic, checked with TLC and, where a property matters for every
configuration, proved with TLAPS. Sources are named relative to `src/`; `core/` below is
`src/crates/typdoc-core/src/`.

## The system

typdoc reads a folder of Markdown files with YAML frontmatter as a typed document store. Every
command is one short-lived process: it loads the whole project, answers or writes, and ends. Nothing
is kept in memory between commands and there is no daemon, so all coordination between processes
goes through files: lock files, state files, and the documents themselves.

| Component | State | Operations | Talks to |
| --- | --- | --- | --- |
| Namespace locks (`core/namespace_lock.rs`, `typdoc/src/signals.rs`) | lock files; per process a list of open handles and a registry for the interrupt thread | acquire, release, drop, register, deregister, release on a signal | every write command; file system; process table (wording only) |
| Numbering (`core/state.rs`, `allocate_key` in `core/project.rs`) | `.typdoc/state/<ns>.json`: the highest number issued per collection | read, allocate, write | locks, atomic writes, index |
| Atomic writes (`core/fs.rs`, `typdoc-fs`) | temp files beside their target | write_atomically, prepare_replacement, create_exclusively, find and remove leftovers | every write command |
| Write commands (`core/project.rs`, `core/mv.rs`) | the documents | `set`, `set` on a loose file, `new` by path and by code, `mv`, `mv --renumber` | all of the above, validation, refs |
| Index and namespaces (`core/index.rs`, `core/namespaces.rs`) | built once per process, never refreshed | build, get, overlap | file system, templates |
| Names, templates (`core/name.rs`, `core/argument.rs`, `core/template.rs`) | none | read, resolve, format; match, render | index |
| Refs and validation (`core/refs.rs`, `core/validate.rs`, `core/rules.rs`, `core/links.rs`, `core/body.rs`, `core/slug.rs`) | none | refs of a document, cycles, levels, transitions | index, schemas |
| Queries (`core/query.rs`, `core/scope.rs`) | none | conditions, quantifiers, sorting, scope | index, schemas |
| Frontmatter (`core/frontmatter.rs`, `core/lines.rs`) | none | split, read fields, write fields | serde_yaml |
| Schemas, config, imports, pins (`core/schema.rs`, `core/config.rs`, `core/imports.rs`, `core/lock.rs`) | none | load and check | index |
| Command line (`typdoc/src/cli.rs`, ...) | none | parse, print, exit codes | all commands |

What is hard here: commands of several processes interleave at every file operation; a command
decides on an index it read before it had its lock; the interrupt thread runs beside the main
thread; any process can be killed between two file operations, and nothing repairs what it leaves
but the next command or a person; and a lock file is an ordinary file that people delete.

What makes each part correct:

- locks: one command at a time in a namespace; a release removes only its own file; several locks
  never deadlock; every command ends; an interrupt releases what it can;
- numbering: a number is given out once, whatever is deleted or killed; the record never goes down;
  a lost record is not replaced by a guess;
- atomic writes: a reader sees the old file or the new one whole; only temp files are left over;
- write commands: a conditional `set` decides and writes on the same text; `mv` run again finishes
  what a stopped `mv` began; no committed write is lost; no ref dangles that the project could see;
- pure parts: each algorithm agrees with the definition its doc gives.

## What is modelled

### `NamespaceLock`, implementing `ExclusiveLocks`

A process is one run of a command with two threads: the main thread (`pc`) and the signal thread
(`sig`). `dir` is the directory entry of each lock's path and names an inode; `held` is the inode
behind each open handle; `registry` is `REGISTRY`. An inode number is given out again once nothing
names it and no handle is open on it (`FreeInode`), because the release check compares inode
numbers. The main thread's actions follow `acquire` (`CreateNew`, `Register`, `WriteStamp`,
`AcquireFails`, `GiveUp`), the work (`FinishWork`) and the release or drop (`ReleaseCheck`, `Unlink`,
`RemovalFails`, `Deregister`, `Close`), file operation by file operation, as other processes see them.
A release may fail at any of its calls (`release_checked`), the file being there or not: the error of `release`
leads to the drop, which tries once more, and an error of the drop is ignored, so the run ends with its lock
file in place. The signal thread passes over the entry it fails at in the same way (`SweepFails`). The ghost
`failed` keeps which locks a run failed to acquire, to remove or to sweep, so that the properties can say
that one failure costs no other lock.
A command that takes several locks takes them as `mv_lock` does, in the order of their paths. The
signal thread copies the registry (`Interrupt`), then checks and unlinks entry by entry, and then
the process dies; the main thread goes on all the while. `Crash` is SIGKILL.
`Wanted` are the sets of locks a command may take. `OperatorRemoves` is a
person who deletes a lock file, either because they know its run has ended or because the message
of a run that timed out called it stale (`owner_message`, modelled as `OwnerCase`).

`ExclusiveLocks` says what this is for: a lock is free, held or abandoned, a process is inside a set
of locks only while it holds all of them. Without interrupts `NamespaceLock` implements it.

Abstractions: a retry that finds the lock taken changes nothing and is no step; a timeout may come at
any time; the operator deletes the file at the moment at which they learn that it is stale; two
machines see one file system; a host name means one process table, as `SPC-10` says, so a container
that reuses its host's name is outside the model, and so is a process id given out again.

### `Numbering`, implementing `KeyIssuer`

Runs of `new` and `mv --renumber` for one coded collection. `state` is the `last` of each
namespace's state file, `NoRecord` or `Malformed`; `at` is the place, a namespace and a number, of
each document. A run loads (`Load`: the highest number of the destination is read here, before any
lock), takes its locks, reads the state file again and computes the number (`Allocate`), checks that
the path is free, writes the state file, puts the document there (`Create` or `Rename`) and unlocks;
it can fail or be killed between any two of these. People delete documents, delete the locks of
killed runs and make documents by hand. Numbers wrap at `Modulus`, which stands for
2^64.

The locks are those of `ExclusiveLocks`, which `NamespaceLock` implements, and a command takes all
of them in one step: it reads nothing between two acquisitions. `KeyIssuer` is the promise: a
namespace claims a number above all it claimed before, and a claim goes to one document or to none.

Abstractions: loading is one step, though the code reads file by file (only the highest number of
the destination is used, and any older value is covered by a run that loaded earlier); a schema
refusal is `Fail`; the refs to a document that `mv` moves are rewritten in `Writers`.

### `Writers`

Runs of `set`, `new` by path, `mv` and `mv --renumber` on documents that refer to each other. `file`
is the text of each path: a status, refs in list fields, a ref in a scalar field and the `auto: moves`
field, and as a ghost which document it is. A run builds its index (`Load`), finds out what it needs
(`Resolve`, `ResolveLoose`, `ResolveNew`, or `ReadSource` and `Scan`), takes its locks (`TakeLocks`)
and then reads and writes under them: `Read` and `Write` for `set`, `Create` for `new`, and for a
move `CheckFree` or `Allocate`, `Prepare` (every new text, before the first rename), `Record` for a
number, one `RenameHolder` per holder in the order of paths, `RenameOwn` for the document's own text
and `MoveDocument`. It can fail or be killed between any two of these.

What a command read before it had its locks is kept in `seen`, `text` and `scan` and may be stale when
it is used, as in the code: that is where most of the findings come from. `mistaken` remembers that a
`set` met a document that was not in its index and took it for a loose file; the properties that do
not survive that are stated for runs without it, and what happens with it is under Findings.

Abstractions: a file is replaced in one step (`AtomicWrite` has the steps); loading the index, and
scanning for holders, is one step each; every path belongs to a collection; all documents have one
schema; `set` has one operation (`Editing` has its fields); a refusal by the schema is `Fail`; a ref
by key is a ref to its document's path, so a change of slug, which leaves such refs alone, is not
modelled here.

### `AtomicWrite`, implementing `FileStore`

One action is one file-system call of `write_atomically`, `prepare_replacement`,
`create_exclusively` or `mv`'s `commit`, made through `typdoc-fs`: asking for the mode, creating the
temp file, setting its rights, writing in two parts, renaming, removing. Each may fail, and a run may be killed
between any two. `Fs` has a `sync` too,
which no write of the program calls. `disk` is what lies at each path and at each temp file's name; a file has a text, a
part (`"all"` or torn) and the rights to it, which on Windows `carry_dacl` carries over right before
the rename; here that is one step with it (`AccessAfter`), which may fail as a whole. Process ids, and with them the names of temp files, are given out again. `FileStore` is the
promise to a reader: an existing document goes from one whole text to the next.

### `Texts`, `Templates`, `Names`, composed by `Naming`

Texts are sequences of tokens. `Templates` parses, binds, matches and renders match templates;
`Names` reads a written name (key, path, prefix, import) as a ref, a body link, a mention or an
argument, and writes a document's name in one of the forms. `Naming` puts one written name in a
project and lets `new`, `mv` and `mv --renumber` make and move documents around it, `moved_name`
rewriting the name as they go.

### `Index`, `Namespaces`, composed by `Reading`

`Index` is the walk of a namespace's folder by each collection's template, the index with its key
groups and overlaps, the stray files and the audit's own walk, over a tree of folders, files and
links. `Namespaces` decides which folders are namespaces, which state files are orphans and which
namespaces a command reads, by a prefix, its flag, the environment or the current folder (`ChooseScope`).
In `Reading` a person makes and deletes files and edits the list, and
`validate --audit` runs in between. The recursive `walk` is told from the side of the entry: `Stands` are
the steps of the template that the walk stands at when it reads a folder, and an entry is entered or taken by
each of them. `fits_steps` and `fits_capture` go from the last step and the last part to the first,
with the places from which what comes after fits.

### `Frontmatter`, `Queries`, `Validation`, composed by `Editing`

`Frontmatter` splits a file, reads typed fields from a block and writes them back; `Queries` parses
and evaluates conditions; `Validation` has the checks of one document and the levels of rules. In
`Editing` one file is written by `set` (with `--if`), `new`, `mv` of a document it refers to, `mv`
of itself, and by hand. `mv` scans first and rewrites later, so another write may come in between:
its refs are then found again by field and item, its body links by line and column.

### `Bodies`, `References`, `Lists`, composed by `Checking`

`Bodies` is what the Markdown scanner gives: links, definitions, suspects, mentions and headings with
their slugs; a body is a sequence of what the scanner tells apart. `References` resolves names
within a project and into its imports, and has the refs of a document, `refs --reverse`, the scans of
`mv`, the recorded moves and `cyclic_nodes`, with a write's candidate among the documents. `Lists`
is `list`: the selection, what conditions with arrows and quantifiers answer, and the order. A key sorts by the
digits it ends in, as a number of at most `LargestNumber`, which stands for the largest u64: longer digits are
no number (`NoNumber`), all such keys rank alike, and documents that rank alike stay in the order of their paths,
in which `list` reads them, because the sort is stable (`StandsBefore`). In
`Checking`, people save and delete documents, `set` writes a list of refs and `new` makes a
document with one; `whole`, `named` and `audit_report` are the forms of `validate`. What a name reads
as in its place is a constant, `Reads`, because `Names` has the grammar. The recursive `visit` of
`cyclic_nodes` is a search with a stack of frames, one `turn` at a time; the parser of values and the
cutting of texts are folds and recursive functions. So are those of the other parts, so that no module that
is reasoned about reaches a `RECURSIVE` operator.

## Runs

| Run | Instance | Shows |
| --- | --- | --- |
| `namespace_lock` | 2 processes on 2 machines, 2 locks, 3 inode numbers, no interrupt | types, mutual exclusion, no mutual wait, only own locks removed, none left behind but those that could not be removed, refinement of `ExclusiveLocks` |
| `lock_interrupt` | 2 processes, 2 locks, 2 inode numbers, 1 interrupt, fair; a command takes both locks or the second | the registry is never ahead of the handles; an interrupted run leaves none of the locks it had registered but those it failed to remove; every command ends |
| `numbering` | 2 processes, 2 namespaces, 2 documents, 3 commands, a document made by hand | no number is issued twice, the record covers what was issued and never goes down, nothing is overwritten, refinement of `KeyIssuer` |
| `writers` | 2 processes, 2 namespaces of 2 paths and 3 coded ones, 2 initial projects, 3 commands of 7, no `auto: moves` | compare-and-set, no lost update, no vanished or doubled document, refs follow |
| `mv_rerun` | 1 process, one move run up to 3 times, `auto: moves`, list and scalar refs | a re-run finishes, the move is recorded once |
| `mv_loses_set` | 2 commands, `auto: moves` | violated: a committed `set` is undone by `mv` |
| `atomic_write` | 2 processes, 3 runs of 5 jobs, 5 paths under 2 locks, 2 process ids, Unix and Windows | a private text is never readable by others, no temp file is left, rights are kept, refinement of `FileStore` |
| `naming` | 3 projects, every form of 8 names from 10 places, 13 destinations, 5 slugs, 4 numbers | a name goes on naming its document, in its form; every document is found by each of its names |
| `reading` | 19 things a person may make, 3 at once, 5 lists, 4 sets of collections, 5 ways to run | one index whichever way it is asked; the list's last word decides; no file is passed over in silence |
| `editing` | 2 schemas with a field of each kind, 10 lists of assignments, 5 hand-made files, 3 writes | `set` changes what it says, no command breaks the block, links and refs follow a move |
| `checking` | 4 documents, 2 of them of one key, and 2 whose keys end in more than the largest number, a loose file, 3 imports, rules at each level in the project and in a collection, a finding about a schema; every content a person or a command may give them | refs, validate and mv agree; scopes agree; a list's answers agree; no command closes a cycle |
| `cycles` | the same | violated: a document on a second loop is not reported |

Bounds. Two locks are enough for every order of acquiring and releasing; two inode numbers would be
too few for both locks and a reused number, so there are three where reuse matters. In `lock_interrupt` no
command takes the first lock alone: that is the run with both locks before its second, and the run stays
short. A lock is disputed by two processes in every property;
the proof of mutual exclusion has any number. `MaxInterrupts` counts deliveries; the second signal of
a process waits behind the first in the code, so one per process is all there is. In numbering, three
commands are one that loads early, one that issues and one that issues again; `HandNumber` gives the
numbers that are there to begin with, so that `last` may be below, at and above the documents;
`Modulus` 8 is above anything three commands reach from there, and with 4 and a 3 to begin with
`LastNeverLowered` fails. In `writers`, three commands are a move, a `set` or a `new` in its way, and
a third that meets what the two left; its two initial projects have a holder in the other namespace,
also where both ends of the move are in one, a moving document with a ref of its own, and a holder of
two refs. Its `set` commands change the status and not the refs, and no schema has an `auto: moves`
field: with either, `MvOnlyRewrites`, `RefsFollow` and `OnePlace` fail (see Findings). In
`atomic_write`, the third run is the one that is given a dead run's process id and meets its temp
file. `naming` leaves out the names that are known to be lost (Findings, `refBase`). In `reading`,
three files are two that clash and the folder or link that hides them. In `editing`, three writes
are the scan's base, a write between scan and rewrite, and the rewrite. In `checking`, the four
documents give loops of one, two and three and two loops that share documents; the second file of a key,
the missing file, the file without a block, the unclosed block and the absent import each stand for
one reason not to reach a target. `LargestNumber` is 9 there: above every number that is given out, and below
the 20 and 21 that the keys of the third collection end in.

Deadlock is not checked where the number of commands is bounded, as the system then rightly stops,
nor in the sequential models, where a state may offer nothing to do; it is checked in the lock runs.

Fairness. `FairSpec` is weakly fair to each thread of each process: the operating system schedules
threads that can run. It does not require anybody to start, interrupt, kill or clear anything. Every
command ends because `acquire` gives up after its timeout, which is the action `GiveUp`. No other
part of the program waits for anything, so there is no other liveness to state; what a stopped `mv`
needs is that somebody runs it again, and `RerunFinishes` says what holds when they do.

## Findings

Two have a run that ends in a counterexample:

- **Stale text** (`mv_loses_set`). `mv` reads the document before it has a lock and, where the schema has
  an `auto: moves` field, writes that text back: a `set` in between is undone, though `SPC-10` says
  that the lock covers reading, checking and the rename.
- **Loops that share documents** (`cycles`). `cyclic_nodes` does not look again at a child it has done
  with: with `A: [B, N]`, `B: [A]`, `N: [B]` it reports A and B and never N, though the reference says
  that every document in the loop is reported. A `set` that makes N such a document is accepted.

The others follow from the same code and have no run of their own. Those in the first list show in the
models, with another choice of constants or without the condition that sets them apart.

Locks and numbers:

- the signal thread and the main thread may both pass the identity check for one file, so that the
  later unlink removes another process's lock (`namespace_lock.rs:239`), which `SPC-10` says never
  happens; and from the delivery of a signal to the end of the process the main thread goes on under
  a lock that is gone (`MutualExclusion`, `RemovesOnlyItsOwn` without their condition on `interrupts`);
- `SPC-2` says that the old key of a renumbered document is never issued again, because the source's
  `last` never goes down. It never goes up either (`project.rs:4141`): a document made by hand above
  `last` takes its number with it, and the next `new` issues it;
- in the shipped profile, which has no overflow checks, `max + 1` wraps to 0 at the largest u64, and
  `last` is lowered to it (`LastNeverLowered` with `Modulus` 4 and a 3 to begin with);
- a stopped `mv --renumber` that is run again allocates another number (`project.rs:4104`); refs that
  were already rewritten name the first for good.

Moves:

- the change that adds the `auto: moves` record overwrites the one that rewrote the document's ref to
  itself, with no other process needed (`project.rs:4015`; `RefsFollow` with `AutoMoves`);
- a second `mv` of one document with an `auto: moves` field writes its prepared text to the old path
  and moves that, so that the document is at both destinations (`OnePlace`, two moves, `AutoMoves`);
- the holders are found before the locks are taken: a list item is replaced only where it is still
  there, but a scalar is overwritten whatever it holds by then (`MvOnlyRewrites` with a `set` of
  `link`), and a ref added since is left dangling (`RefsFollow` with a `set` of `refs`);
- `mv` knows the holders by the paths they had at its scan. When a holder moves while `mv` waits and a
  `new` makes a document at its old path, `mv` finds no ref in that one and reports success, and the
  holder goes on naming a document that is gone (`project.rs:4316`; `RefsFollow` with the commands
  `Mv(a1, b2)`, `Mv(b1, a2)` and `New(b1)`), though `SPC-2` says that every ref is rewritten;
- `mv` never asks whether a moved name closes a loop, and it may: a ref that named nothing names the
  document at its new place (`CommandsFormNoCycle` speaks of `set` and `new`);
- `mv --renumber` does not check the slug a document was given by hand and carries it to a place
  that no argument may name;
- when the preparation of one change fails, the temp files of those prepared before it stay.

Sets and locks: whether `set` locks the namespace or the loose files depends on an index that may be
older than the document, so two `set` runs of one document may hold different locks (`CompareAndSet`
without its condition on `mistaken`). Two writes in two namespaces may close a loop together, each
under its own lock, each seeing the project without the other.

Names and templates (left out of `naming`'s instance): a name written relative to a `refBase` of
`namespace` or `relative` may read back as another document or none (`name.rs:516`), as may a name
with a colon inside a prefix; `**` enters hidden folders that the walk otherwise skips
(`template.rs:458`). `mv` asks `matches_path` whether a destination is in a collection, and the comment on it
says that it reads a template as the walk does. With `notes/**` it takes a destination `notes` as well, the `**`
taking nothing (`template.rs:490`); the walk, which enters only what is a folder, then reads the file in no
collection (`index.rs:368`; `WalkAgreesWithMatch` without `OnlyAsFolder`, with the file `b` of the run).

Fields: a transition that `set` refuses is open in two steps, as an optional field may be removed and
set again; a list field removed between `mv`'s scan and its rewrite comes back as a scalar
(`project.rs:4496`); a document without a block gets no `auto: moves` record.

Reports:

- a document without a block: `refs` reads its body links, `list` and the scan for `refs.acyclic`
  and the recorded moves pass it over;
- `validate` of one namespace reports `refs.acyclic` of every namespace;
- an import's document whose path equals a local one is one node with it in the scan for loops
  (`prescan_one`), so a loop may be reported that is none, and may hide one that is: with
  `A: [x::B, N]` and `B: [A]`, where the import's document is at the path of B, the search finds A and B
  on a loop and B done when it comes to N, and a `set` of N to `[B]` is accepted although it closes A, N,
  B (`CommandsFormNoCycle`, with these texts among the `Starts`; see `ImportsApart` under Proofs);
- `--strict` "raises" warnings (`commands.md:191`, `validation.md:11`), but not those of a fixed level:
  `state.behind`, `state.retired`, `files.leftover`, `collections.empty`; and `files.leftover` is not in
  `RULES`;
- the order of `list` is no total order across documents with and without keys, or where a field's
  values have several types (`project.rs:5230`; the comment above it says that it is), so the answer
  may depend on the order of the walk. `ListAnswers` speaks of those for which it is one. Two keys
  of a collection that end in one number, as WF-1 and WF-01, which a person may call two files
  (`template.rs:223`), or in more than a u64 (`project.rs:5153`), rank alike: their paths decide, as for two
  files of one key;
- a link inside an image's text hides the rewriting of the link around it.
- with `body.mentions` off, which is the default, a plain run looks at no mention, and `--audit` looks at
  all of them: where a mention names what was moved away from, the audit reports `refs.moved` at its own
  level, an error, which the plain run never reports. With all three rules of the body off the same goes
  for every link, and for `imports.absent`. `validation.md:12` and `SPC-2.md:325` say that an audit
  reports what is `off` as `info` (`project.rs:2905`, `:3029`, `:3287`). `ScopesAgree` allows this and
  nothing else;
- an `ignore` glob covers a link into an import that is there, and not into one that is absent
  (`project.rs:3174`).

## Proofs

The eight `*Proofs` modules prove, for every value of the constants that satisfies the assumptions in the
modules, what the runs check of the locks, the numbers, the writes, the write commands, the text they leave and the links they rewrite,
and of the folders that are read, that `validate` does not contradict itself or `refs` and `mv`, that `list`
answers a condition and its opposite alike and has one order, and that no command closes a loop. A property
of states follows from an inductive invariant; an action property and a refinement from the same
invariant, step by step.

| Theorem | Property | Where | Under the condition that |
| --- | --- | --- | --- |
| `TypeCorrect` | `TypeOK` | each component | |
| `Exclusion`, `OwnRemovals` | `MutualExclusion`, `RemovesOnlyItsOwn` | `NamespaceLockProofs` | (the properties speak of runs without interrupts) |
| `RegistrySound`, `NoDeadlock` | `RegistryHasHandle`, `NoMutualWait` | | |
| `NothingLeft` | `NoLockLeftBehind` | | |
| `InterruptLeavesNothing` | `InterruptReleases` | | |
| `LocksImplemented` | `ImplementsExclusiveLocks` | | nobody is interrupted |
| `Recorded`, `IssuedOnce`, `NeverLowered` | `IssuedIsRecorded`, `NeverIssuedTwice`, `LastNeverLowered` | `NumberingProofs` | no number is the largest there is (`NoneIsLargest`) |
| `NothingDestroyed` | `NothingOverwritten` | | |
| `KeysIssued` | `ImplementsKeyIssuer` | | `NoneIsLargest` |
| `NoTempLeft` | `LeavesNoTemp` | `AtomicWriteProofs` | |
| `AccessCarried` | `AccessKept` | | |
| `SecretsKept`, `SecretsKeptInPlace` | `SecretStaysPrivate` | | secrets are written over private documents only |
| `StoreImplemented` | `ImplementsFileStore` | | |
| `SetDecidesOnCurrent` | `CompareAndSet` | `WritersProofs` | |
| `NoDocumentVanishes` | `NoneVanishes` | | `SourceStays`; none without `auto: moves` |
| `AtOnePlace` | `OnePlace` | | the same |
| `MovesOnlyRewrite` | `MvOnlyRewrites` | | `LinksCurrent` and `SourceCurrent` |
| `RefsFollowMoves` | `RefsFollow` | | `NoReuse`, `NoLateRef` and `SourceCurrent` |
| `RecordedOnce` | `MovesRecordedOnce` | | no initial text repeats itself in its moves |
| `RerunCompletes` | `RerunFinishes` | | one `mv` command, refs that resolve at the start |
| `SetSaysSo` | `SetChangesWhatItSays` | `EditingProofs` | |
| `CommandsBreakNothing` | `NoCommandBreaksTheBlock` | | |
| `LinksNameIt` | `LinksFollow` | | |
| `DecidedByTheLast` | `NamespacesDecide` | `ReadingProofs` | |
| `EveryFileNamed` | `NothingSilent` | | |
| `OneIndex` | `IndexSound` | | |
| `ScopesAlike` | `ScopesAgree` | `CheckingProofs` | |
| `ListsAlike` | `ListAnswers` | | |
| `CyclesRefused` | `CommandsFormNoCycle` | `CycleProofs` | `ImportsApart` |
| `ReportsAlike` | `ReportsAgree` | | |

The conditions are facts about the runs, and none can be dropped: for each there is a counterexample
under Findings, found by TLC.

**Locks.** The inductive invariant ties each position of the main thread to the handle, the directory
entry and the ghost `owner` it implies: a process that is past `CreateNew` for a lock has its own inode
there until it unlinks it, nobody else's handle is on that inode, and locks are held in an initial
segment of their order. `MutualExclusion` alone is not inductive: it does not say why the path still
names the holder's inode. What rules out the operator's mistake is that only the process table of the
owner's own machine is believed. `NothingLeft` and `InterruptLeavesNothing` hold with interrupts and with removals that fail.
The first needs `OwnIsHeld`: a file of a run's own that it did not fail to acquire or to remove is one it
has a handle for and has not given back. The second needs `SweepInv`: a handle, the registry and the signal
thread's copy of it never name another file than a run's own that is still there, and what that thread has
visited is gone unless the sweep failed at it, whatever the main thread does, or fails to do, at the same time. The refinement maps a run between the creation and the unlink of a file to the
lock's holder, and needs `OwnersLive`: whoever owns a file is running, so what nobody owns is abandoned.

**Numbers.** The inductive invariant says that a run past `TakeLocks` owns the locks of the namespaces
it writes, that its number is above the record until it writes it and equal to it afterwards, and that
every issued number is at most the record. The condition is needed because the number after the largest
is 0. `NothingDestroyed` adds that the place a run has looked at is free until the run puts its document
there, while nobody makes documents by hand.

**Writes.** `FileInv` says that a temp file's name tells whose it is, as running processes have different
ids (`NamesApart`), that documents are changed under their locks (`Locked`), that every temp file
waiting for its rename is there and whole (`Prepared`), and that those behind are gone (`Cleared`). So a
step of one process leaves the files of the others alone. From this follow the leftovers and the
refinement: a rename puts a whole text in place of a whole text. The rights need `CarryInv`, that what a run read
of a document's rights is what the document still has, and the temp file has it from before its first
byte. A secret written over a document that is not private, or over none, is open to others by design;
`SecretsKeptInPlace` replaces that condition on runs by one on the constants.

**Write commands.** A run past `TakeLocks` owns what it needs (`Holding`), and what it needs covers every
path it will write (`Covered`); hence the text a `set` read is still in the file (`Decided`), and a text
that `mv` has prepared is one of the document it will replace, while its destination stays empty
(`Aimed`). `OnePlace` adds that each document is in one file and that no number of a coming document is
used (`OneEach`). `MvOnlyRewrites` adds that what waits for its rename is what the move makes of the file
as it is now (`Pending`). For holders the locks see to that; not for what `mv` takes from before the
locks, and there the conditions come in:

- `SourceStays` and `SourceCurrent`: where moves are recorded, `mv` writes a text of the document it read
  before the locks. It must still be the document that is there (`SourceStays`), with that text or that
  text with the record of the same move, and without a ref to itself (`SourceCurrent`);
- `LinksCurrent`: a scalar ref is overwritten whatever it holds by now, so nobody may have written to it;
- `NoReuse` and `NoLateRef`: the holders are those the scan found, by their paths. So no file may appear
  at a path of a running move's index, and no `set` may write a ref to the document that moves. A holder
  that moves away and leaves nothing at its path does no harm: `mv` then stops, as it cannot read it.

`RefsFollow` rests on `TraceInv`: while a move runs, a holder of a ref to the document is outside its
index only if it was not there to be read, is found by the scan after that, and is covered by the
prepared changes after that (`UnseenApart`, `ScanFinds`, `PlanCovers`). `RecordedOnce` needs no
condition on the runs, since every prepared text is free of repetitions by itself (`CleanInv`).

`RerunCompletes` takes one `mv` command, any number of runs of it that may overlap, fail and be killed,
and an initial project whose refs resolve. It needs nothing of the runs, as the other theorems'
conditions follow from there being one command (`MoveAlone`): the destination is in no index before the
document is there (`ToUnseen`), every ref names what is there or the destination (`Closed`), and what a
run has read of the document would still be recorded as the document is now (`SourceKnown`). Only the
ref to itself has to be excluded where moves are recorded.

**Fields.** What a command writes is a list of calls of the writer, and the argument goes call by call.
`Keeps` says that fields of other names keep their values, and that fields which are not removed keep
their order; one call keeps that of all but its own field (`CallKeeps`), so a list of calls keeps it of all
but theirs (`ToldKeeps`). `ReadsBack` says what the program reads in the text that is then written: a
scalar is written as its text, and its type is found again from the schema, so a value that was read
from a file is read back as the same (`Stable`), while one that was just set gets the type that its text has.
From both follows `SetSays`, with the stamps: whether a value changed is asked of the text written without
them, and the proof shows that this is the same question. `check_auto_direct` is needed there: no assignment
names an `auto: update` field. `UnrefusedIs` has `set` and `new` from their findings. `mv` checks nothing that it
writes, and its scan may be older than the file: what saves the block is that the scan has only names of
fields that are declared as refs (`ScanFinds`), that a list stays a list and anything else becomes a
text (`RewriteKeeps`), and that this makes no field of refs fit less than it did (`MilderIs`); `auto: moves`
stands on lists only (`RecordUnbroken`). So the inductive invariant `EditInv` has that of the scan, next to what the
last command left; it was checked with TLC before it was proved. `SchemasAreResolved` says that a schema has one field
of a name, transitions on enums only and `auto: moves` on lists only, as `schema.rs` sees to; `SetsAreTexts` and
`FilesAreTexts`, that assignments and blocks are sequences.
The proof found that the order of the fields was stated for too much: `set x= x=a` removes a field and
puts it at the end. `SetChangesWhatItSays` speaks of the order of fields that are not removed, and the run has
such a list of assignments.

**Links.** `LinksFollow` compares a line word by word, with the destination of each link at its `[`: so it says at
once that each link is renamed and that nothing else is. `IsDestination` and `Whole` make a link a matter of four places (`[`, `](`,
`)` and what may be bracketed), and `FlatLink` is such a link on a line without images in links. `splice_body_destination`
then finds the destination that the scan saw (`SpliceIsAt`), and after one splice the links to its left stand where they
stood (`AsBefore`), while those to its right have moved together and have the words they had (`HeldAlike`, `Gone`). That is one
step (`LineStep`); the line follows by going through it from its end, the way `rewrite_holder` sorts what it splices
(`LineFollows`), and a line has every ref the scan found on it and no other (`LineScanned`, from `ScanIs`). `EntryLines` matters
here: a link's line is told from the number of lines above it, and the body is counted from the same place.
Refs in fields are rewritten one call at a time in whatever order the scan gives them, and `replace_item` takes the first item
that has the old name, not the one the scan saw. What saves the list is a count: `Partly` says that for each item
that still has its old name there is a call to come with that name (`OneWritten`), so that none is left at the end (`AllWritten`), and since a new
name is never the old one of another, no call writes over what another has written.
The invariant `LinkInv` says that until the document is moved the body is one a person left, as every command
copies it, and that the scan is what `mv_reverse_scan` finds in the file it is of.

`LinksAreWhole` says that in the bodies of the model a `[`, `![`, `](` or `)` always is part of a link, and that a
destination has none of them: text in brackets that is no link, and destinations with parentheses, are
words of their own to the scanner and are not modelled. `NamesAreWords` says the same of the names a move
writes, and that none is empty or the old name of another; a file name with a `<` or with parentheses that do not balance,
for which `rewritten_body_destination` adds brackets (`mv.rs:91`), is left out. `BodyIsNoField` is `field_name_problem` (`schema.rs:555`).

**Folders.** The steps of `Reading` are a person's, and a run of `validate`; the invariant `ReadInv` says that
the tree still hangs together (`Grown`), that the list and the collections are among the constants, and that a
report is that of the tree, the list and the collections there are (`ReportInv`), as every other step clears it.
The rest is what the pure functions return.

- *Namespaces.* `ApplyEntries` is followed entry by entry: after each, what is matched and what is excluded are
  the folders whose last reaching entry so far includes, or excludes, them (`EntriesDecide`). An excluded folder is then in
  no namespace, and no walk leaves its namespace's folder.
- *Files.* `NothingSilent` needs that the folder `stray_files` reads is that of the template's plain names, written
  as a path and cut again (`Segments` after `PathOf`), and that a visible file in it is in that folder's list.
- *One index.* `Indexed` is what the index holds after each file of each walk (`EntriesGrow`, `OverlapsGrow`: the first match
  makes the entry and enters the group of the key, each further collection the overlap), and `Prune` takes away
  what overlaps. `InOrder` puts the paths of a walk in an order that is total, since two paths with one text are the
  same. So a key's group lists the files in the order in which `LookUpKey` wants them.
  That walk and `matches_path` agree goes by induction down the folders (`WalkFits`): the walk stands in a
  folder at a step exactly if the steps before it fit the names above, so it takes a file if and only if the rest
  fits the file's name. The two recursions run against each other, the walk from the namespace's folder down and
  `FitsSteps` from the file up; `FitFrom` says what the second has at each step, `Ahead` that something the walk
  stands at is among it. The audit's own walk has no template, and is compared by its closed form.

Three assumptions are made. `TreeAssumption`: what a new project and a person have is a finite tree of folders and
files, with names in the characters of `Ascii`, which is the alphabet whose order `Before` has. `ConfigAssumption`:
`namespaces` is a list of texts. `MemberAssumption`: collections have names of their own and templates of at least one
segment, none of them empty or with a `/`, as `Template::parse` sees to. Proving it found that `WalkAgreesWithMatch`
was false of templates that end in `**` below another step, of which the run had none (Findings, names and
templates), and that `ExcludedIsInvisible` was false of a folder that is called `default` or has a `*` in its name, which
no namespace may be called. The properties say so now, and the run has the first case.

**Reports.** `ScopesAgree` is a fact about any documents on disk (`AskedAlike`), so it needs no invariant.
The proof goes through the checks from the inside out. `Told` relates what one check says when it is
asked plainly, strictly and by an audit: what the plain run says the audit says too, and the strict run
says it as it is or raised from a warning; what the audit adds is `info`, or a recorded move or an absent
import in a line that the plain run passes over. It holds of one rule at its level (`RuleTold`), of
findings whose level is fixed, and of unions of both, hence of each check and of `check_entry`
(`EntryTold`). What is said of a document in one scope is then all that is said of it in another, since
the walk, the state files and the schemas are told of elsewhere (`ApartAssumption`) and the scan for
moves and cycles reads the whole project whatever the scope. `LevelAssumption` and `IndexAssumption` say
that a level is one of three and that a document has a collection and a namespace.

`ReportsAgree` ties three readings of one ref. `EntrySays` says what an audit finds of a document, and
nothing else about refs: an audit raises what is off to `info`, so no level hides a finding
(`AuditHears`); a field has a finding of `refs.resolve`, `refs.moved` or `imports.absent` exactly if it
is declared as a ref and does not resolve (`RefsSay`, `ResolvedSays`, `UnresolvedSays`); a link has one, in the
line of its destination, exactly if that is `Lost` (`DestinationSays`, `AnchorSays`, `MissedSays`,
`BodySay`); and a mention exactly if it is missing (`MentionsSay`). `RefsAre` and `BodyRefAt` say that
`refs` lists the same fields and destinations, and `MentionNamed` that a mention of a key leads to one
document or to none, `KeyFound`, so that it is in the list of that document's move or is missing. All
this is a fact about any documents on disk whose bodies are bodies, which is the invariant
(`BodiesRead`, `BodiesStay`). `NameAssumption` says that no field is called `$body` or has an empty name,
as `field_name_problem` (`schema.rs:555`) sees to; without it a field's finding could be taken for a
link's. `BodyAssumption` says that lines are numbered from 1, that `classify_body` gives a link one of five
readings, and that a mention that reads as a key is of the key it ends in (`name.rs`, `read_with`). The
attempt to prove the property in its first form, without `Overlooked`, failed for links into an absent
import under an `ignore` glob (Findings, the reports); the bodies of the run have that case since.

**Lists.** `ListAnswers` is again a fact about any documents on disk, of the types that the cycles' proof shows
them to keep (`DiskTyped`). Its first half compares lists of two conditions. `Contrary` relates two answers: both
are one error, or one holds where the other does not. An item and its opposite have contrary answers of a value
and of none (`MatchesContrary`, `AbsentContrary`, `ReachedContrary`); `all` of some answers is contrary to `any` of
their contraries (`CombineContrary`), whichever error of several the code meets first; so the lists part the
documents (`PartedIs`, `ArrowsPart`, `AnyPart`). What `list` says dangles is what `refs` does not resolve
(`DanglingIs`), and an arrow that is followed forth is followed back, but for one into an import (`FollowsIs`).
The second half is about sorting. A relation is `Weak` when it ranks: nothing is before itself by a detour, and two
that it does not tell apart stand alike to every other. Each sort key ranks the values that one schema lets a
field have (`ValueKind`, `KindOrders`, `KeyWeak`), with missing ones last in either direction; keys one after another rank
(`OneAfterAnother`); and so does what `compare_identity` compares at the end (`IdentityWeak`), which does not tell all documents
apart: two keys may be one, end in one number, or in more than a number holds. The order of the index, by
path, then tells those apart (`StandingStrict`), so that no two documents stand alike.
`PlainAssumption` says that the conditions that are turned round are `=` conditions on fields, `SortAssumption` that
names and sort keys are written in the alphabet, `KeyAssumption` that the documents of a collection have keys
exactly if its schema has a code, as `Template::bind` sees to.

**Cycles.** `CyclesRefused` holds for any number of documents and refs. A loop is a ring, a set of
documents each of which has a ref to one of them, and so is what is searched for in the edges that
`prescan_refs` collects. The argument has three parts.

- *The search finds a ring wherever there is one* (`SearchFinds`). `TurnIs` says that a turn opens, closes,
  looks at or enters one frame. `SearchInv` says that the frames are a path of the graph, and that what is
  done leads only to what is done and holds no ring, as long as no cycle was found; after that, what was
  found holds a ring. The search is over after as many turns as `Turns` counts, since each uses one pair
  of a node and a place among its children that none has used (`TurnUses`).
- *Where a write closes a loop, every ring goes through the document that is written* (`LoopFound`). A name
  that leads elsewhere than to that document, or is none of its names, leads where it did before
  (`ResolveAfter`: the first file of a key stays the first, unless the new one is). So a ring without the
  document was there before the write; the ring that the search finds is through the document, and the
  write is refused (`LoopRefused`).
- *A `set` that leaves the list as it was is not asked about loops*, and forms none, as the file has no new
  name (`NamesKept`, `SetKeeps`).

`ImportsApart` says that no ref of the field leads into an import to a path where this project may have a
document. Without it the second part fails: the ring that is found may be none (Findings, the reports, has the counterexample). That the field's name, paths and readings are what the
program has is said by `FileAssumption`, `PathAssumption` and `RefFieldAssumption`: the files are made of
texts, paths are written in the alphabet whose order `FirstText` follows, a name is read as an import's
only where there is one, and the field is an acyclic `ref[]` wherever it is declared. Inductions over
turns, documents and items are made with sets of numbers (`ByNat`, from the least element of a set).

**Assumptions on constants** say that the sets are disjoint (a path is not a number, a lock's state is
not a process), that values are of their types, and that commands and jobs are such as the program
accepts: no document is moved to where it is, nothing else is written at a move's destination, and a
document that is created is not secret. TLC evaluates them on every run. Proving `AtomicWrite` showed
that a `CASE` in its `Rename` had two arms that were both true for one state, where TLC took the first
and the semantics leaves the choice open; this and like places in `Editing` and `Queries` are `IF` now.

Left to TLC: the liveness property `EveryRunEnds`, which is out of the prover's reach; the two properties of
`Naming`, which say what `Names` reads in a text that it has written, token by token.

## Not modelled

- Schemas, config and imports are taken as loaded: reading the JSON files, `extends`, and the findings
  about them (`validate --schemas` reports only those) are a pure function of files that no command
  writes. In a cycle of `extends` that redefines a field, which file is told so depends on the
  collection that is checked first, since `schema::check` looks at a file once.
- Where an import's folder is found and how `lock.json` pins it: nothing in the program writes that file.
- `list` over imports.
- The command line, the wording of messages, output formats and exit codes.
- The syntax of Markdown and YAML, with lines and columns: the libraries `pulldown-cmark` and
  `serde_yaml` have them. The models take what they give.
- The in-place patch of a state file's JSON text, and the Windows calls that `carry_dacl` and
  `posix_rename` are made of.
- The test kit, which only tests use.

## Plan

What is left, in order:

1. A proof about the pure part that is left: a name that `Names` writes is read as the same name (`StillNames`,
   `NamesFindDocuments`).
2. Schemas: `extends` and what it leaves a resolved schema with.
3. Imports: which folder is taken, and `list` over them.
