---------------------------- MODULE AtomicWrite ----------------------------
(***************************************************************************)
(* How a file is written: `write_atomically`, `prepare_replacement` and    *)
(* `create_exclusively` of crates/typdoc-core/src/fs.rs, `commit` of       *)
(* mv.rs, which uses the second, and the file operations of typdoc-fs they *)
(* are built from. One action is one operation of the file system; each of *)
(* them may fail, and a run may be killed between any two.                 *)
(*                                                                         *)
(* All paths are in one folder, where the temp files of all runs are too.  *)
(* A run has the locks of the paths it writes; two runs with other locks   *)
(* may be in the folder at once (`set` on a loose file).                   *)
(***************************************************************************)
EXTENDS Integers, Sequences

CONSTANTS
    Proc, Path, Version,
    Pid,        \* process ids, given out again when a process is gone
    Draw,       \* the values of the drawn part of a temp file's name
    LockOf,     \* the lock that covers each path
    Jobs,       \* what people run
    Initial,    \* the folders they may start with
    Secret,     \* the texts of documents that nobody else may read
    MaxRuns,    \* bound: how many runs are ever started
    MaxChanges, \* bound: how many files one `mv` changes
    Abandoned,  \* the owner of a lock whose run was killed
    None        \* no file, no job, no access to carry

VARIABLES
    file,     \* the file of each name: documents and temp files
    owner,    \* who holds each lock
    pc,       \* where each run is
    job,      \* what it does
    pid,      \* its process id
    at,       \* which of its changes it is preparing or renaming
    carried,  \* the access it read from the file it replaces
    temps,    \* the names of the temp files it has made
    stuck,    \* ghost: a removal of its temp file has failed
    windows,  \* the platform
    runs      \* how many runs were started

procVars == <<pc, job, pid, at, carried, temps, stuck>>
vars == <<file, owner, procVars, windows, runs>>

\* is_temp_name: the reserved shape, with the process id, the drawn part and
\* the count of the process in it. Such a name is never a document.
Temp == Pid \X Draw \X (0..MaxChanges)
Name == Path \cup Temp
Lock == {LockOf[q] : q \in Path}

(***************************************************************************)
(* A file: which text, how much of it is there, and who may read it. On    *)
(* Unix the access is the mode, on Windows the DACL.                       *)
(***************************************************************************)
Access == {"private", "shared"}
File == [text : Version, part : {"none", "some", "all"}, access : Access]
Default == "shared"

Change == [path : Path, text : Version]
Job == [op : {"replace"}, changes : {<<c>> : c \in Change}]
    \cup [op : {"commit"}, changes : Seq(Change), from : Path, to : Path]
    \cup [op : {"create"}, path : Path, text : Version]

ASSUME NamesAssumption ==
    /\ Path \cap Temp = {}
    /\ None \notin File \cup Job \cup Access \cup Pid \cup Proc \cup Version \cup {"torn"}
    /\ Abandoned \notin Proc \cup {None}
ASSUME JobAssumption ==
    /\ Jobs \subseteq Job
    \* A change is of a file that holds a ref; nothing is at the destination.
    /\ \A j \in Jobs : j.op = "commit" =>
          /\ Len(j.changes) <= MaxChanges
          /\ j.from # j.to /\ \A i \in DOMAIN j.changes : j.changes[i].path # j.to
ASSUME InitialAssumption ==
    \A f \in Initial :
        /\ f \in [Path -> File \cup {None}]
        /\ \A q \in Path : f[q] # None => f[q].part = "all"
ASSUME SecretAssumption ==
    /\ \A f \in Initial, q \in Path :
          f[q] # None /\ f[q].text \in Secret => f[q].access = "private"
    /\ \A j \in Jobs : j.op = "create" => j.text \notin Secret
ASSUME BoundAssumption == MaxRuns \in Nat /\ MaxChanges \in Nat \ {0}

Steps == {"idle", "mode", "temp", "access", "write", "some", "rename", "tidy",
          "move", "make", "fill", "fillrest", "undo", "ok", "failed"}

TypeOK ==
    /\ file \in [Name -> File \cup {None}]
    /\ owner \in [Lock -> Proc \cup {None, Abandoned}]
    /\ pc \in [Proc -> Steps]
    /\ job \in [Proc -> Job \cup {None}]
    /\ pid \in [Proc -> Pid \cup {None}]
    /\ at \in [Proc -> 1..MaxChanges + 1]
    /\ carried \in [Proc -> Access \cup {None}]
    /\ temps \in [Proc -> Seq(Temp)]
    /\ stuck \in [Proc -> BOOLEAN]
    /\ windows \in BOOLEAN
    /\ runs \in 0..MaxRuns

Init ==
    /\ \E f \in Initial : file = [n \in Name |-> IF n \in Path THEN f[n] ELSE None]
    /\ owner = [l \in Lock |-> None]
    /\ pc = [p \in Proc |-> "idle"]
    /\ job = [p \in Proc |-> None]
    /\ pid = [p \in Proc |-> None]
    /\ at = [p \in Proc |-> 1]
    /\ carried = [p \in Proc |-> None]
    /\ temps = [p \in Proc |-> <<>>]
    /\ stuck = [p \in Proc |-> FALSE]
    /\ windows \in BOOLEAN
    /\ runs = 0

-----------------------------------------------------------------------------
Goto(p, step) == pc' = [pc EXCEPT ![p] = step]
Keep(p) == UNCHANGED <<owner, job, pid, windows, runs>>

\* The paths whose locks a job needs.
Touched(j) ==
    IF j.op = "create" THEN {j.path}
    ELSE {j.changes[i].path : i \in DOMAIN j.changes}
         \cup (IF j.op = "commit" THEN {j.from, j.to} ELSE {})

\* The file that is being replaced, and the temp file for it.
Target(p) == job[p].changes[at[p]].path
LastTemp(p) == temps[p][Len(temps[p])]

\* temp_path: beside the target; the count is that of this process.
TempName(p, d) == <<pid[p], d, Len(temps[p])>>

\* A run starts, has its locks and, if it moves a document, has looked at the
\* destination. No two live processes have one id.
Start(p, j, i) ==
    /\ pc[p] = "idle" /\ runs < MaxRuns
    /\ \A q \in Proc : pid[q] # i
    /\ \A q \in Touched(j) : owner[LockOf[q]] = None
    /\ j.op = "commit" => file[j.from] # None /\ file[j.to] = None
    /\ owner' = [l \in Lock |-> IF \E q \in Touched(j) : LockOf[q] = l THEN p ELSE owner[l]]
    /\ job' = [job EXCEPT ![p] = j]
    /\ pid' = [pid EXCEPT ![p] = i]
    /\ runs' = runs + 1
    /\ Goto(p, CASE j.op = "create" -> "make"
                 [] j.op = "commit" /\ j.changes = <<>> -> "move"
                 [] OTHER -> "mode")
    /\ UNCHANGED <<file, at, carried, temps, stuck, windows>>

\* The access of the file that will be replaced; one that is not there has none.
ReadMode(p) ==
    /\ pc[p] = "mode"
    /\ carried' = [carried EXCEPT
           ![p] = IF file[Target(p)] = None THEN None ELSE file[Target(p)].access]
    /\ Goto(p, "temp")
    /\ UNCHANGED <<file, at, temps, stuck>> /\ Keep(p)

\* create_new on the temp file's name refuses a name that is taken.
CreateTemp(p, d) ==
    /\ pc[p] = "temp" /\ file[TempName(p, d)] = None
    /\ file' = [file EXCEPT ![TempName(p, d)] =
                   [text |-> job[p].changes[at[p]].text, part |-> "none", access |-> Default]]
    /\ temps' = [temps EXCEPT ![p] = Append(@, TempName(p, d))]
    /\ Goto(p, "access")
    /\ UNCHANGED <<at, carried, stuck>> /\ Keep(p)

\* Mutant of SetAccess: the mode is not set at all.
SetAccessSkipped(p) ==
    /\ pc[p] = "access"
    /\ Goto(p, "write")
    /\ UNCHANGED <<file, at, carried, temps, stuck>> /\ Keep(p)

\* set_mode, before there is a byte in the file. On Windows the mode is the
\* read-only flag, and who may read is settled by the rename.
SetAccess(p) ==
    /\ pc[p] = "access"
    /\ file' = IF carried[p] = None \/ windows THEN file
               ELSE [file EXCEPT ![LastTemp(p)].access = carried[p]]
    /\ Goto(p, "write")
    /\ UNCHANGED <<at, carried, temps, stuck>> /\ Keep(p)

\* write_all: some of the bytes ...
WriteSome(p) ==
    /\ pc[p] = "write"
    /\ file' = [file EXCEPT ![LastTemp(p)].part = "some"]
    /\ Goto(p, "some")
    /\ UNCHANGED <<at, carried, temps, stuck>> /\ Keep(p)

\* ... and the rest; then the next change is prepared, or the renames begin.
WriteRest(p) ==
    /\ pc[p] = "some"
    /\ file' = [file EXCEPT ![LastTemp(p)].part = "all"]
    /\ IF at[p] < Len(job[p].changes)
       THEN at' = [at EXCEPT ![p] = @ + 1] /\ Goto(p, "mode")
       ELSE at' = [at EXCEPT ![p] = 1] /\ Goto(p, "rename")
    /\ UNCHANGED <<carried, temps, stuck>> /\ Keep(p)

\* Mutant of AccessAfter: nothing is carried on Windows.
AccessAfterPlain(to, from) == file[from].access

\* carry_dacl on Windows: the file that takes another's place gets its access.
AccessAfter(to, from) ==
    IF windows /\ file[to] # None THEN file[to].access ELSE file[from].access

Moved(from, to) ==
    [file EXCEPT ![to] = [file[from] EXCEPT !.access = AccessAfter(to, from)], ![from] = None]

Rename(p) ==
    /\ pc[p] = "rename"
    /\ file' = Moved(temps[p][at[p]], Target(p))
    /\ at' = [at EXCEPT ![p] = @ + 1]
    /\ Goto(p, IF at[p] < Len(job[p].changes) THEN "rename"
               ELSE IF job[p].op = "commit" THEN "move" ELSE "ok")
    /\ UNCHANGED <<carried, temps, stuck>> /\ Keep(p)

\* The document itself moves last.
MoveDocument(p) ==
    /\ pc[p] = "move"
    /\ file' = Moved(job[p].from, job[p].to)
    /\ Goto(p, "ok")
    /\ UNCHANGED <<at, carried, temps, stuck>> /\ Keep(p)

\* Mutant of Make: the file that is there is written over.
MakeAnyway(p) ==
    /\ pc[p] = "make"
    /\ file' = [file EXCEPT ![job[p].path] =
                   [text |-> job[p].text, part |-> "none", access |-> Default]]
    /\ Goto(p, "fill")
    /\ UNCHANGED <<at, carried, temps, stuck>> /\ Keep(p)

\* create_exclusively: the document itself, empty, where nothing was ...
Make(p) ==
    /\ pc[p] = "make" /\ file[job[p].path] = None
    /\ file' = [file EXCEPT ![job[p].path] =
                   [text |-> job[p].text, part |-> "none", access |-> Default]]
    /\ Goto(p, "fill")
    /\ UNCHANGED <<at, carried, temps, stuck>> /\ Keep(p)

\* ... some of its bytes, and the rest.
Fill(p) ==
    /\ pc[p] \in {"fill", "fillrest"}
    /\ file' = [file EXCEPT ![job[p].path].part = IF pc[p] = "fill" THEN "some" ELSE "all"]
    /\ Goto(p, IF pc[p] = "fill" THEN "fillrest" ELSE "ok")
    /\ UNCHANGED <<at, carried, temps, stuck>> /\ Keep(p)

\* Mutant of AfterFailure: a failed rename leaves the temp file.
AfterFailureLeaves(p) ==
    CASE pc[p] \in {"access", "write", "some"} -> "tidy"
      [] pc[p] \in {"fill", "fillrest"} -> "undo"
      [] OTHER -> "failed"

\* Where a failed operation leads: what this call made is removed, but commit
\* leaves the temp files that were prepared.
AfterFailure(p) ==
    CASE pc[p] \in {"access", "write", "some"} -> "tidy"
      [] pc[p] = "rename" /\ job[p].op = "replace" -> "tidy"
      [] pc[p] \in {"fill", "fillrest"} -> "undo"
      [] OTHER -> "failed"

Fail(p) ==
    /\ pc[p] \in {"mode", "temp", "access", "write", "some", "rename", "move",
                  "make", "fill", "fillrest"}
    /\ Goto(p, AfterFailure(p))
    /\ UNCHANGED <<file, at, carried, temps, stuck>> /\ Keep(p)

\* remove_file on what this call made.
Remove(p) ==
    /\ pc[p] \in {"tidy", "undo"}
    /\ file' = [file EXCEPT ![IF pc[p] = "tidy" THEN LastTemp(p) ELSE job[p].path] = None]
    /\ Goto(p, "failed")
    /\ UNCHANGED <<at, carried, temps, stuck>> /\ Keep(p)

\* Its failure is not reported.
RemoveFails(p) ==
    /\ pc[p] \in {"tidy", "undo"}
    /\ stuck' = [stuck EXCEPT ![p] = TRUE]
    /\ Goto(p, "failed")
    /\ UNCHANGED <<file, at, carried, temps>> /\ Keep(p)

\* The end of a run.
Ends(p) ==
    /\ pc' = [pc EXCEPT ![p] = "idle"]
    /\ job' = [job EXCEPT ![p] = None]
    /\ pid' = [pid EXCEPT ![p] = None]
    /\ at' = [at EXCEPT ![p] = 1]
    /\ carried' = [carried EXCEPT ![p] = None]
    /\ temps' = [temps EXCEPT ![p] = <<>>]
    /\ stuck' = [stuck EXCEPT ![p] = FALSE]
    /\ UNCHANGED <<file, windows, runs>>

Unlock(p) ==
    /\ pc[p] \in {"ok", "failed"}
    /\ owner' = [l \in Lock |-> IF owner[l] = p THEN None ELSE owner[l]]
    /\ Ends(p)

Crash(p) ==
    /\ pc[p] # "idle"
    /\ owner' = [l \in Lock |-> IF owner[l] = p THEN Abandoned ELSE owner[l]]
    /\ Ends(p)

\* Somebody deletes the lock file of a killed run.
ClearLock(l) ==
    /\ owner[l] = Abandoned
    /\ owner' = [owner EXCEPT ![l] = None]
    /\ UNCHANGED <<file, procVars, windows, runs>>

Step(p) ==
    \/ \E j \in Jobs, i \in Pid : Start(p, j, i)
    \/ ReadMode(p) \/ (\E d \in Draw : CreateTemp(p, d)) \/ SetAccess(p)
    \/ WriteSome(p) \/ WriteRest(p) \/ Rename(p) \/ MoveDocument(p)
    \/ Make(p) \/ Fill(p)
    \/ Fail(p) \/ Remove(p) \/ RemoveFails(p) \/ Unlock(p) \/ Crash(p)

Next == (\E p \in Proc : Step(p)) \/ (\E l \in Lock : ClearLock(l))

Spec == Init /\ [][Next]_vars

-----------------------------------------------------------------------------
(* Properties.                                                             *)

Whole(n) == file[n].part = "all"

\* On Unix, the text of a document that nobody else may read is never in a
\* file that others may read, be it a temp file of a write that goes on or one
\* that a killed run has left.
SecretStaysPrivate ==
    ~windows => \A n \in Name :
        file[n] # None /\ file[n].text \in Secret /\ file[n].part # "none" =>
            file[n].access = "private"

\* A document that is replaced stays readable to the same people, on both
\* platforms.
AccessKept ==
    [][\A q \in Path : file[q] # None /\ file'[q] # None => file'[q].access = file[q].access]_vars

\* A run that ends by itself leaves no temp file, unless the removal failed or
\* it was a `commit` that failed: what it prepared stays.
LeavesNoTemp ==
    \A p \in Proc :
        pc[p] = "ok" \/ (pc[p] = "failed" /\ ~stuck[p] /\ job[p].op # "commit") =>
            \A i \in DOMAIN temps[p] : file[temps[p][i]] = None

\* What a reader of each path gets.
ValueOf(q) ==
    IF file[q] = None THEN None ELSE IF Whole(q) THEN file[q].text ELSE "torn"
Store == INSTANCE FileStore WITH value <- [q \in Path |-> ValueOf(q)], Torn <- "torn"

\* The documents change as FileStore says: every file that was there is seen
\* with its old text or with the new one, whole, through failures and kills.
ImplementsFileStore == Store!Spec
=============================================================================
