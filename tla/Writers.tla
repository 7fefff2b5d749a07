------------------------------ MODULE Writers ------------------------------
(***************************************************************************)
(* The commands that write documents: `set_collected`, `set_loose`,        *)
(* `new_uncoded`, `mv` and `mv_renumber` of crates/typdoc-core/src/        *)
(* project.rs, and `commit` of mv.rs. A run loads the index, reads what it *)
(* needs to know which locks to take, takes them, checks, and writes file  *)
(* by file. It may fail or be killed between any two steps.                *)
(*                                                                         *)
(* The locks are those of ExclusiveLocks, taken in one step as nothing is  *)
(* read between two acquisitions. Replacing a file is one step: a reader   *)
(* sees the old text or the new one (fs.rs). A new number is a path that   *)
(* was never given out before, as KeyIssuer promises.                      *)
(***************************************************************************)
EXTENDS Integers, Sequences

CONSTANTS
    Proc, Namespace, Path, Status,
    Coded,      \* the paths that are made from a number
    NsOf,       \* the namespace whose folder holds each path
    Rank,       \* the order of paths: of holders, and of numbers
    Commands,   \* what people run
    Initial,    \* the projects they may start with
    AutoMoves,  \* whether the schemas have an `auto: moves` field
    MaxRuns,    \* bound: how many commands are ever started
    Loose,      \* the lock .loose.lock
    Abandoned,  \* the owner of a lock whose run was killed
    None        \* no file, no path, no condition, no owner, no command

VARIABLES
    file,      \* the text of each path, or None
    owner,     \* who holds each lock
    pc,        \* where each run is
    job,       \* its command
    seen,      \* the paths its index has
    needs,     \* the locks it takes
    text,      \* `set`: the text it decided on; `mv`: the document's text
    scan,      \* `mv`: who holds a ref to the document, in a list or as a scalar
    dest,      \* `mv`: where the document goes
    plan,      \* `mv`: the prepared texts of holders not yet renamed into place
    own,       \* `mv`: the prepared text of the document itself, or None
    used,      \* the paths whose numbers the state files have recorded
    born,      \* ghost: how many documents were made
    mistaken,  \* ghost: a document of a collection was taken for a loose file
    runs       \* how many commands were started

procVars == <<pc, job, seen, needs, text, scan, dest, plan, own>>
vars == <<file, owner, procVars, used, born, mistaken, runs>>

(***************************************************************************)
(* A text, as far as commands tell texts apart. `doc` is a ghost: which    *)
(* document it is. `refs` are the refs in list fields, `link` a ref in a   *)
(* scalar field, `moves` the `auto: moves` field. Body links are left out. *)
(***************************************************************************)
Text == [doc : Path \cup Nat, status : Status, refs : SUBSET Path,
         link : Path \cup {None}, moves : Seq(Path)]
Change == [path : Path, text : Text]
Lock == Namespace \cup {Loose}

SetOf(field, values) == [op : {"set"}, path : Path, field : {field}, value : values,
                         when : Status \cup {None}]
SetCommand == SetOf("status", Status) \cup SetOf("link", Path) \cup SetOf("refs", SUBSET Path)
NewCommand == [op : {"new"}, path : Path]
MvCommand  == [op : {"mv"}, path : Path, to : Path]
RenumberCommand == [op : {"renumber"}, path : Path, ns : Namespace]
Command == SetCommand \cup NewCommand \cup MvCommand \cup RenumberCommand

ASSUME NamesAssumption ==
    /\ Loose \notin Namespace
    /\ Abandoned \notin Proc \cup {None}
    /\ None \notin Proc \cup Path \cup Text \cup Status \cup Command
ASSUME PathAssumption ==
    /\ Coded \subseteq Path
    /\ NsOf \in [Path -> Namespace]
    /\ Rank \in [Path -> Nat]
    /\ \A q, r \in Path : Rank[q] = Rank[r] => q = r
    /\ Path \cap Nat = {}   \* a document that is made is no path, see Text
ASSUME CommandAssumption ==
    /\ Commands \subseteq Command
    /\ \A c \in Commands : c.op = "mv" => c.to # c.path
    /\ \A c \in Commands : c.op = "renumber" => c.path \in Coded /\ c.ns # NsOf[c.path]
    /\ \A c \in Commands : c.op \in {"new", "mv"} => c.path \notin Coded
    /\ \A c \in Commands : c.op = "mv" => c.to \notin Coded
ASSUME InitialAssumption ==
    /\ Initial \subseteq [Path -> Text \cup {None}]
    /\ \A f \in Initial, q \in Path : f[q] # None => f[q].doc = q
ASSUME StatusAssumption == Status # {}
ASSUME OptionsAssumption == AutoMoves \in BOOLEAN /\ MaxRuns \in Nat

Steps == {"idle", "resolve", "scan", "wait", "read", "write", "create",
          "check", "prepare", "record", "rename", "unlock"}
NoScan == [refs |-> {}, link |-> {}]

TypeOK ==
    /\ file \in [Path -> Text \cup {None}]
    /\ owner \in [Lock -> Proc \cup {None, Abandoned}]
    /\ pc \in [Proc -> Steps]
    /\ job \in [Proc -> Command \cup {None}]
    /\ seen \in [Proc -> SUBSET Path]
    /\ needs \in [Proc -> SUBSET Lock]
    /\ text \in [Proc -> Text \cup {None}]
    /\ scan \in [Proc -> [refs : SUBSET Path, link : SUBSET Path]]
    /\ dest \in [Proc -> Path \cup {None}]
    /\ plan \in [Proc -> SUBSET Change]
    /\ own \in [Proc -> Text \cup {None}]
    /\ used \in SUBSET Path
    /\ born \in Nat
    /\ mistaken \in BOOLEAN
    /\ runs \in 0..MaxRuns

Present == {q \in Path : file[q] # None}

Init ==
    /\ file \in Initial
    /\ owner = [l \in Lock |-> None]
    /\ pc = [p \in Proc |-> "idle"]
    /\ job = [p \in Proc |-> None]
    /\ seen = [p \in Proc |-> {}]
    /\ needs = [p \in Proc |-> {}]
    /\ text = [p \in Proc |-> None]
    /\ scan = [p \in Proc |-> NoScan]
    /\ dest = [p \in Proc |-> None]
    /\ plan = [p \in Proc |-> {}]
    /\ own = [p \in Proc |-> None]
    /\ used = Present
    /\ born = 0
    /\ mistaken = FALSE
    /\ runs = 0

-----------------------------------------------------------------------------
(* What the commands compute.                                              *)

\* Mutant of NewText: a field with a default is not filled in.
NewTextUnset(d) ==
    [doc |-> d, status |-> None, refs |-> {}, link |-> None, moves |-> <<>>]

\* new_block: the defaults of the schema, and nothing set.
FirstStatus == CHOOSE s \in Status : TRUE
NewText(d) ==
    [doc |-> d, status |-> FirstStatus, refs |-> {}, link |-> None, moves |-> <<>>]

\* evaluate_plain_ifs: every --if is true of the text that was read.
Holds(c, t) == c.when = None \/ t.status = c.when

\* check_refs: what a ref field will name is in the index or, failing that, a
\* file of the project.
Resolves(c, index) ==
    /\ c.field = "refs" => c.value \subseteq index \cup Present
    /\ c.field = "link" => c.value \in index \cup Present

\* apply_ops: one field gets its new value, the others stay.
Applied(c, t) == [t EXCEPT ![c.field] = c.value]

\* Mutant of Scanned: only the document's own namespace is looked through.
ScannedHere(index, from) ==
    [refs |-> {q \in index : NsOf[q] = NsOf[from] /\ from \in file[q].refs},
     link |-> {q \in index : NsOf[q] = NsOf[from] /\ file[q].link = from}]

\* mv_reverse_scan: the documents of the index with a ref to `from`.
Scanned(index, from) ==
    [refs |-> {q \in index : from \in file[q].refs},
     link |-> {q \in index : file[q].link = from}]
Holders(s) == s.refs \cup s.link

\* rewrite_holder: an item of a list is replaced where it is still there, a
\* scalar is set to the new name whatever it holds by now.
Rewritten(q, t, s, from, to) ==
    [t EXCEPT !.refs = IF q \in s.refs /\ from \in @ THEN (@ \ {from}) \cup {to} ELSE @,
              !.link = IF q \in s.link THEN to ELSE @]

\* Mutant of Recorded: a re-run appends once more.
RecordedAgain(t, from) == [t EXCEPT !.moves = Append(@, from)]

\* mv_document_change: the previous name at the end of the `auto: moves` field.
Recorded(t, from) ==
    [t EXCEPT !.moves = IF @ # <<>> /\ @[Len(@)] = from THEN @ ELSE Append(@, from)]

\* mv_rewrite_changes: the holders whose text changes, as they are under the lock.
HolderChanges(s, from, to) ==
    {ch \in {[path |-> q, text |-> Rewritten(q, file[q], s, from, to)] : q \in Holders(s)} :
        ch.text # file[ch.path]}

\* Mutant of OwnChange: the field is written whether the schema has it or not.
OwnChangeAlways(t, from) == IF Recorded(t, from) = t THEN None ELSE Recorded(t, from)

\* mv_document_change: made from the text that was read before the lock.
OwnChange(t, from) ==
    IF AutoMoves /\ Recorded(t, from) # t THEN Recorded(t, from) ELSE None

\* Mutants of Needed: one end or the holders are forgotten.
NeededHere(from, there, holders) == {NsOf[from], there}
NeededThere(from, there, holders) == {there} \cup {NsOf[q] : q \in holders}

\* mv_lock: the namespaces of both ends and of every holder.
Needed(from, there, holders) == {NsOf[from], there} \cup {NsOf[q] : q \in holders}

-----------------------------------------------------------------------------
(* The commands.                                                           *)

Moves(p) == job[p] # None /\ job[p].op \in {"mv", "renumber"}
Goto(p, step) == pc' = [pc EXCEPT ![p] = step]
Keep(p) == UNCHANGED <<job, seen, used, born, mistaken, runs>>

\* A command starts and builds its index, which it never builds again.
Load(p, c) ==
    /\ pc[p] = "idle" /\ runs < MaxRuns
    /\ job' = [job EXCEPT ![p] = c]
    /\ seen' = [seen EXCEPT ![p] = Present]
    /\ runs' = runs + 1
    /\ Goto(p, "resolve")
    /\ UNCHANGED <<file, owner, needs, text, scan, dest, plan, own, used, born, mistaken>>

\* resolve_write_target: a path of the index is a document.
Resolve(p) ==
    /\ pc[p] = "resolve" /\ job[p].op = "set" /\ job[p].path \in seen[p]
    /\ needs' = [needs EXCEPT ![p] = {NsOf[job[p].path]}]
    /\ Goto(p, "wait")
    /\ UNCHANGED <<file, owner, text, scan, dest, plan, own>> /\ Keep(p)

\* ... and a file that is not in the index is a loose one, written under the
\* one lock of loose files. Every path here belongs to a collection, so this
\* file was made after the index was built.
ResolveLoose(p) ==
    /\ pc[p] = "resolve" /\ job[p].op = "set" /\ job[p].path \notin seen[p]
    /\ file[job[p].path] # None
    /\ needs' = [needs EXCEPT ![p] = {Loose}]
    /\ mistaken' = TRUE
    /\ Goto(p, "wait")
    /\ UNCHANGED <<file, owner, job, seen, text, scan, dest, plan, own, used, born, runs>>

\* new_uncoded: the path names its namespace.
ResolveNew(p) ==
    /\ pc[p] = "resolve" /\ job[p].op = "new"
    /\ needs' = [needs EXCEPT ![p] = {NsOf[job[p].path]}]
    /\ Goto(p, "wait")
    /\ UNCHANGED <<file, owner, text, scan, dest, plan, own>> /\ Keep(p)

\* mv, mv_renumber: the document's text is read before any lock is taken.
ReadSource(p) ==
    /\ pc[p] = "resolve" /\ Moves(p)
    /\ job[p].path \in seen[p] /\ file[job[p].path] # None
    /\ text' = [text EXCEPT ![p] = file[job[p].path]]
    /\ Goto(p, "scan")
    /\ UNCHANGED <<file, owner, needs, scan, dest, plan, own>> /\ Keep(p)

\* mv_reverse_scan, also before any lock: it reads every document of the index.
Scan(p) ==
    /\ pc[p] = "scan"
    /\ seen[p] \subseteq Present
    /\ LET c == job[p]
           found == Scanned(seen[p], c.path)
           there == IF c.op = "mv" THEN NsOf[c.to] ELSE c.ns
       IN  /\ scan' = [scan EXCEPT ![p] = found]
           /\ needs' = [needs EXCEPT ![p] = Needed(c.path, there, Holders(found))]
    /\ Goto(p, "wait")
    /\ UNCHANGED <<file, owner, text, dest, plan, own>> /\ Keep(p)

\* acquire, mv_lock.
TakeLocks(p) ==
    /\ pc[p] = "wait"
    /\ \A l \in needs[p] : owner[l] = None
    /\ owner' = [l \in Lock |-> IF l \in needs[p] THEN p ELSE owner[l]]
    /\ Goto(p, CASE job[p].op = "set" -> "read"
                 [] job[p].op = "new" -> "create"
                 [] OTHER -> "check")
    /\ UNCHANGED <<file, needs, text, scan, dest, plan, own>> /\ Keep(p)

\* set_collected, set_loose: read, check --if and the refs. A loose file has no
\* schema, so its fields are no refs.
Read(p) ==
    /\ pc[p] = "read"
    /\ LET c == job[p] IN
        /\ file[c.path] # None
        /\ Holds(c, file[c.path])
        /\ needs[p] = {Loose} \/ Resolves(c, seen[p])
        /\ text' = [text EXCEPT ![p] = file[c.path]]
    /\ Goto(p, "write")
    /\ UNCHANGED <<file, owner, needs, scan, dest, plan, own>> /\ Keep(p)

\* write_atomically.
Write(p) ==
    /\ pc[p] = "write"
    /\ file' = [file EXCEPT ![job[p].path] = Applied(job[p], text[p])]
    /\ Goto(p, "unlock")
    /\ UNCHANGED <<owner, needs, text, scan, dest, plan, own>> /\ Keep(p)

\* create_document_or_exists.
Create(p) ==
    /\ pc[p] = "create"
    /\ file[job[p].path] = None
    /\ file' = [file EXCEPT ![job[p].path] = NewText(born + 1)]
    /\ born' = born + 1
    /\ Goto(p, "unlock")
    /\ UNCHANGED <<owner, job, seen, needs, text, scan, dest, plan, own, used, mistaken, runs>>

\* Mutant of CheckFree: whatever is there is replaced.
CheckFreeSkipped(p) ==
    /\ pc[p] = "check" /\ job[p].op = "mv"
    /\ dest' = [dest EXCEPT ![p] = job[p].to]
    /\ Goto(p, "prepare")
    /\ UNCHANGED <<file, owner, needs, text, scan, plan, own>> /\ Keep(p)

\* mv: the destination is looked at under the lock.
CheckFree(p) ==
    /\ pc[p] = "check" /\ job[p].op = "mv"
    /\ file[job[p].to] = None
    /\ dest' = [dest EXCEPT ![p] = job[p].to]
    /\ Goto(p, "prepare")
    /\ UNCHANGED <<file, owner, needs, text, scan, plan, own>> /\ Keep(p)

\* mv_renumber: the path of the next number of the destination.
Allocate(p) ==
    /\ pc[p] = "check" /\ job[p].op = "renumber"
    /\ LET free == {q \in Coded : NsOf[q] = job[p].ns /\ q \notin used} IN
        \E q \in free :
            /\ \A other \in free : Rank[q] <= Rank[other]
            /\ file[q] = None
            /\ dest' = [dest EXCEPT ![p] = q]
    /\ Goto(p, "prepare")
    /\ UNCHANGED <<file, owner, needs, text, scan, plan, own>> /\ Keep(p)

\* mv_rewrite_changes, mv_document_change and the first loop of commit: every
\* new text is ready before the first rename.
Prepare(p) ==
    /\ pc[p] = "prepare"
    /\ Holders(scan[p]) \subseteq Present
    /\ plan' = [plan EXCEPT ![p] = HolderChanges(scan[p], job[p].path, dest[p])]
    /\ own' = [own EXCEPT ![p] = OwnChange(text[p], job[p].path)]
    /\ Goto(p, IF job[p].op = "mv" THEN "rename" ELSE "record")
    /\ UNCHANGED <<file, owner, needs, text, scan, dest>> /\ Keep(p)

\* state::write.
Record(p) ==
    /\ pc[p] = "record"
    /\ used' = used \cup {dest[p]}
    /\ Goto(p, "rename")
    /\ UNCHANGED <<file, owner, job, seen, needs, text, scan, dest, plan, own, born, mistaken, runs>>

\* commit: the holders in the order of their paths. A rename onto a path does
\* not ask whether a file is there.
RenameHolder(p) ==
    /\ pc[p] = "rename" /\ plan[p] # {}
    /\ \E ch \in plan[p] :
        /\ \A other \in plan[p] : Rank[ch.path] <= Rank[other.path]
        /\ file' = [file EXCEPT ![ch.path] = ch.text]
        /\ plan' = [plan EXCEPT ![p] = @ \ {ch}]
    /\ UNCHANGED <<owner, pc, needs, text, scan, dest, own>> /\ Keep(p)

\* ... then the document's own new text ...
RenameOwn(p) ==
    /\ pc[p] = "rename" /\ plan[p] = {} /\ own[p] # None
    /\ file' = [file EXCEPT ![job[p].path] = own[p]]
    /\ own' = [own EXCEPT ![p] = None]
    /\ UNCHANGED <<owner, pc, needs, text, scan, dest, plan>> /\ Keep(p)

\* Mutant of MoveDocument: the document moves before its holders are rewritten.
MoveDocumentFirst(p) ==
    /\ pc[p] = "rename" /\ file[job[p].path] # None
    /\ file' = [file EXCEPT ![dest[p]] = file[job[p].path], ![job[p].path] = None]
    /\ Goto(p, IF plan[p] = {} /\ own[p] = None THEN "unlock" ELSE "rename")
    /\ UNCHANGED <<owner, needs, text, scan, dest, plan, own>> /\ Keep(p)

\* ... and the document itself last.
MoveDocument(p) ==
    /\ pc[p] = "rename" /\ plan[p] = {} /\ own[p] = None
    /\ file[job[p].path] # None
    /\ file' = [file EXCEPT ![dest[p]] = file[job[p].path], ![job[p].path] = None]
    /\ Goto(p, "unlock")
    /\ UNCHANGED <<owner, needs, text, scan, dest, plan, own>> /\ Keep(p)

\* A refusal or a failed file operation; the locks are dropped on the way out.
Fail(p) ==
    /\ pc[p] \notin {"idle", "unlock"}
    /\ Goto(p, "unlock")
    /\ UNCHANGED <<file, owner, needs, text, scan, dest, plan, own>> /\ Keep(p)

\* The end of a run: nothing of it stays in memory.
Ends(p) ==
    /\ pc' = [pc EXCEPT ![p] = "idle"]
    /\ job' = [job EXCEPT ![p] = None]
    /\ seen' = [seen EXCEPT ![p] = {}]
    /\ needs' = [needs EXCEPT ![p] = {}]
    /\ text' = [text EXCEPT ![p] = None]
    /\ scan' = [scan EXCEPT ![p] = NoScan]
    /\ dest' = [dest EXCEPT ![p] = None]
    /\ plan' = [plan EXCEPT ![p] = {}]
    /\ own' = [own EXCEPT ![p] = None]
    /\ UNCHANGED <<file, used, born, mistaken, runs>>

Unlock(p) ==
    /\ pc[p] = "unlock"
    /\ owner' = [l \in Lock |-> IF owner[l] = p THEN None ELSE owner[l]]
    /\ Ends(p)

\* The run is killed under its locks, and their files stay. Killed before, it
\* leaves nothing, as if it had failed.
Crash(p) ==
    /\ \E l \in Lock : owner[l] = p
    /\ owner' = [l \in Lock |-> IF owner[l] = p THEN Abandoned ELSE owner[l]]
    /\ Ends(p)

\* Somebody deletes the lock file of a killed run.
ClearLock(l) ==
    /\ owner[l] = Abandoned
    /\ owner' = [owner EXCEPT ![l] = None]
    /\ UNCHANGED <<file, procVars, used, born, mistaken, runs>>

Step(p) ==
    \/ \E c \in Commands : Load(p, c)
    \/ Resolve(p) \/ ResolveLoose(p) \/ ResolveNew(p)
    \/ ReadSource(p) \/ Scan(p)
    \/ TakeLocks(p)
    \/ Read(p) \/ Write(p) \/ Create(p)
    \/ CheckFree(p) \/ Allocate(p) \/ Prepare(p) \/ Record(p)
    \/ RenameHolder(p) \/ RenameOwn(p) \/ MoveDocument(p)
    \/ Fail(p) \/ Unlock(p) \/ Crash(p)

Next == (\E p \in Proc : Step(p)) \/ (\E l \in Lock : ClearLock(l))

Spec == Init /\ [][Next]_vars

-----------------------------------------------------------------------------
(* Properties.                                                             *)

\* A `set` that knows what it writes to decides on the text that it replaces:
\* what its --if and its checks saw is what the file holds when it is replaced,
\* whatever other `set`, `mv` and `new` runs do, in this namespace or another.
CompareAndSet ==
    [][\A p \in Proc : Write(p) /\ ~mistaken => file[job[p].path] = text[p]]_vars

\* What a move may do to a text: refs to `from` become refs to `to`, and `from`
\* is added to the moves.
Follows(t, u, from, to) ==
    /\ u.doc = t.doc /\ u.status = t.status
    /\ u.refs = t.refs \/ (from \in t.refs /\ u.refs = (t.refs \ {from}) \cup {to})
    /\ u.link = t.link \/ (t.link = from /\ u.link = to)
    /\ u.moves = t.moves \/ u.moves = Append(t.moves, from)

\* Of a document that `mv` replaces, it changes the refs to the moved document
\* and the list of moves, and nothing else: no value that a `set` committed
\* while `mv` was reading or waiting for its locks is lost.
MvOnlyRewrites ==
    [][\A p \in Proc : \A q \in Path :
          (RenameHolder(p) \/ RenameOwn(p)) /\ ~mistaken /\ file[q] # None =>
              Follows(file[q], file'[q], job[p].path, dest[p])]_vars

Finishes(p) ==
    /\ pc[p] = "rename"
    /\ file[job[p].path] # None /\ file'[job[p].path] = None

\* When a document has moved, no ref of the project names its old place, though
\* the documents that hold refs to it are written to and moved meanwhile.
RefsFollow ==
    [][\A p \in Proc : Finishes(p) /\ ~mistaken =>
          \A q \in Path : file'[q] # None =>
              job[p].path \notin file'[q].refs \cup {file'[q].link}]_vars

\* A document is at one place: none of two commands puts an old copy back where
\* the other has moved it from.
OnePlace ==
    ~mistaken => \A q, r \in Present : file[q].doc = file[r].doc => q = r

\* No document is replaced by another: neither `new` nor `mv` lands on one, and
\* a killed run leaves every document somewhere. This needs that no text is
\* written back that was read before the lock.
NoneVanishes ==
    [][~mistaken => {file[q].doc : q \in Present} \subseteq {file'[q].doc : q \in Present'}]_vars

\* A move that was stopped anywhere and is run again until it ends leaves a
\* project in which every ref names a document that is there.
RerunFinishes ==
    [][\A p \in Proc : Finishes(p) =>
          \A q \in Present' : file'[q].refs \cup {file'[q].link} \subseteq Present' \cup {None}]_vars

\* However often a stopped move is run again, it is recorded once.
MovesRecordedOnce ==
    \A q \in Present : \A i \in 1..Len(file[q].moves) - 1 :
        file[q].moves[i] # file[q].moves[i + 1]
=============================================================================
