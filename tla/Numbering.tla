----------------------------- MODULE Numbering -----------------------------
(***************************************************************************)
(* How coded documents get their numbers: `new_coded`, `mv_renumber` and   *)
(* `allocate_key` of crates/typdoc-core/src/project.rs, and the state file *)
(* of state.rs. Concurrent runs of `new` and `mv --renumber`, each of      *)
(* which loads the project before it takes a lock, may fail or be killed   *)
(* between any two steps, while people delete documents and make them by   *)
(* hand. There is one coded collection; each namespace records its `last`. *)
(*                                                                         *)
(* The locks are those of ExclusiveLocks, which NamespaceLock implements.  *)
(* Nothing is read between the acquisitions of one command, so it takes    *)
(* its locks in one step. Numbers are u64 and wrap, as the shipped build   *)
(* has no overflow check: Modulus stands for 2^64.                         *)
(***************************************************************************)
EXTENDS Integers, FiniteSets

CONSTANTS
    Proc, Namespace, Doc,
    Slug,         \* what may follow a key in a file name
    SlugOf,       \* the slug of each document
    Modulus,      \* one more than the largest number
    HandNumber,   \* numbers people give, to documents and in state files
    MaxRuns,      \* bound: how many commands are ever started
    MaxHand,      \* bound: how many documents are made by hand
    None,         \* no number, no place, no owner
    NoRecord,     \* a state file without an entry
    Malformed,    \* an entry whose `last` is not a whole number
    Abandoned     \* the owner of a lock whose run was killed

Number == 0..Modulus - 1
Place  == [ns : Namespace, num : Number]

ASSUME ModulusAssumption == Modulus \in Nat \ {0}
ASSUME HandAssumption == HandNumber \subseteq Number
ASSUME SlugAssumption == SlugOf \in [Doc -> Slug]
ASSUME NoneAssumption ==
    /\ None \notin Proc \cup Doc \cup Namespace \cup Number \cup Place \cup Slug
    /\ {NoRecord, Malformed} \cap Number = {}
    /\ Abandoned \notin Proc \cup {None}
ASSUME BoundAssumption == MaxRuns \in Nat /\ MaxHand \in Nat

VARIABLES
    state,    \* what the state file of each namespace records
    at,       \* where each document is, or None
    owner,    \* who holds the lock of each namespace, or None
    pc,       \* where each run is
    job,      \* its command: the document, where it is, where it goes
    seen,     \* the highest number in the destination when the run loaded
    next,     \* the number it was given
    issued,   \* ghost: numbers typdoc put a document under
    runs,     \* how many commands were started
    hand      \* how many documents were made by hand

fileVars  == <<state, at>>
procVars  == <<pc, job, seen, next>>
ghostVars == <<issued>>
vars == <<fileVars, owner, procVars, ghostVars, runs, hand>>

NoJob  == [doc |-> None, from |-> None, ns |-> None]
Job    == [doc : Doc, from : Place \cup {None}, ns : Namespace]
Record == Number \cup {NoRecord, Malformed}
Steps  == {"idle", "wait", "allocate", "check", "record", "place", "unlock"}

TypeOK ==
    /\ state \in [Namespace -> Record]
    /\ at \in [Doc -> Place \cup {None}]
    /\ owner \in [Namespace -> Proc \cup {None, Abandoned}]
    /\ pc \in [Proc -> Steps]
    /\ job \in [Proc -> Job \cup {NoJob}]
    /\ seen \in [Proc -> Number \cup {None}]
    /\ next \in [Proc -> Number \cup {None}]
    /\ issued \in [Namespace -> SUBSET Number]
    /\ runs \in 0..MaxRuns
    /\ hand \in 0..MaxHand

-----------------------------------------------------------------------------
Larger(m, n) == IF m >= n THEN m ELSE n
OrZero(n) == IF n \in Number THEN n ELSE 0

Existing(ns) == {at[d].num : d \in {e \in Doc : at[e] # None /\ at[e].ns = ns}}

\* highest_existing, over the documents the index has: one number, or None.
Highest(ns) ==
    IF Existing(ns) = {} THEN {None}
    ELSE {n \in Existing(ns) : \A m \in Existing(ns) : m <= n}

\* Mutants of NextNumber: from the documents alone; a missing record as it is.
NextNumberFromFiles(highest, last) == (OrZero(highest) + 1) % Modulus
NextNumberNoDefault(highest, last) ==
    IF last \in Number THEN (Larger(OrZero(highest), last) + 1) % Modulus ELSE last

\* allocate_key: the number after both the highest one seen and `last`.
NextNumber(highest, last) == (Larger(OrZero(highest), OrZero(last)) + 1) % Modulus

\* allocate_key refuses a record that is no number, and a lost one.
Refused(highest, record) ==
    \/ record = Malformed
    \/ record = NoRecord /\ highest # None

\* A file's path is made from its key and its slug.
FilesAt(place, slug) == {d \in Doc : at[d] = place /\ SlugOf[d] = slug}

Target(p) == [ns |-> job[p].ns, num |-> next[p]]
Renumbers(p) == job[p].from # None

\* Mutant of Needs: `mv` locks only the namespace it takes the document from.
NeedsSource(p) == {IF Renumbers(p) THEN job[p].from.ns ELSE job[p].ns}

\* The namespaces a command locks: `mv` also the one it takes a document from.
Needs(p) == {job[p].ns} \cup (IF Renumbers(p) THEN {job[p].from.ns} ELSE {})

Init ==
    /\ state \in [Namespace -> HandNumber \cup {NoRecord, Malformed}]
    /\ at \in [Doc -> [ns : Namespace, num : HandNumber] \cup {None}]
    /\ \A d, e \in Doc : d # e /\ at[d] # None => at[d] # at[e]
    /\ owner = [ns \in Namespace |-> None]
    /\ pc = [p \in Proc |-> "idle"]
    /\ job = [p \in Proc |-> NoJob]
    /\ seen = [p \in Proc |-> None]
    /\ next = [p \in Proc |-> None]
    /\ issued = [ns \in Namespace |-> {}]
    /\ runs = 0
    /\ hand = 0

-----------------------------------------------------------------------------
(* One run of a command.                                                   *)

Goto(p, step) == pc' = [pc EXCEPT ![p] = step]

\* Project::load reads the index, and `resolve` finds the document to move.
\* `new` makes a document d that nobody else is making.
Load(p, d, ns) ==
    /\ pc[p] = "idle"
    /\ runs < MaxRuns
    /\ IF at[d] = None THEN \A q \in Proc : job[q].doc # d ELSE at[d].ns # ns
    /\ job' = [job EXCEPT ![p] = [doc |-> d, from |-> at[d], ns |-> ns]]
    /\ \E n \in Highest(ns) : seen' = [seen EXCEPT ![p] = n]
    /\ runs' = runs + 1
    /\ Goto(p, "wait")
    /\ UNCHANGED <<fileVars, owner, next, ghostVars, hand>>

TakeLocks(p) ==
    /\ pc[p] = "wait"
    /\ \A ns \in Needs(p) : owner[ns] = None
    /\ owner' = [ns \in Namespace |-> IF ns \in Needs(p) THEN p ELSE owner[ns]]
    /\ Goto(p, "allocate")
    /\ UNCHANGED <<fileVars, job, seen, next, ghostVars, runs, hand>>

\* allocate_key: the state file is read again, under the lock.
Allocate(p) ==
    LET last == state[job[p].ns] IN
    /\ pc[p] = "allocate"
    /\ ~Refused(seen[p], last)
    /\ next' = [next EXCEPT ![p] = NextNumber(seen[p], last)]
    /\ Goto(p, "check")
    /\ UNCHANGED <<fileVars, owner, job, seen, ghostVars, runs, hand>>

\* The path the key gives must be free, or nothing is written.
CheckFree(p) ==
    /\ pc[p] = "check"
    /\ FilesAt(Target(p), SlugOf[job[p].doc]) = {}
    /\ Goto(p, "record")
    /\ UNCHANGED <<fileVars, owner, job, seen, next, ghostVars, runs, hand>>

\* Mutant of WriteRecord: the document comes before the record.
WriteRecordLater(p) ==
    /\ pc[p] = "record"
    /\ Goto(p, "place")
    /\ UNCHANGED <<fileVars, owner, job, seen, next, ghostVars, runs, hand>>

\* state::write, before the document: a temp file renamed over the state file.
WriteRecord(p) ==
    /\ pc[p] = "record"
    /\ state' = [state EXCEPT ![job[p].ns] = next[p]]
    /\ Goto(p, "place")
    /\ UNCHANGED <<at, owner, job, seen, next, ghostVars, runs, hand>>

\* `new`: create_exclusively makes the file, only where there is none.
Create(p) ==
    /\ pc[p] = "place"
    /\ ~Renumbers(p)
    /\ FilesAt(Target(p), SlugOf[job[p].doc]) = {}
    /\ at' = [at EXCEPT ![job[p].doc] = Target(p)]
    /\ issued' = [issued EXCEPT ![job[p].ns] = @ \cup {next[p]}]
    /\ Goto(p, "unlock")
    /\ UNCHANGED <<state, owner, job, seen, next, runs, hand>>

\* `mv --renumber`: the rename that ends mv::commit. It moves the file that is
\* at the old path by now, over any that is at the new one.
Rename(p) ==
    LET slug  == SlugOf[job[p].doc]
        moved == FilesAt(job[p].from, slug) IN
    /\ pc[p] = "place"
    /\ Renumbers(p)
    /\ moved # {}
    /\ at' = [d \in Doc |->
                IF d \in moved THEN Target(p)
                ELSE IF d \in FilesAt(Target(p), slug) THEN None ELSE at[d]]
    /\ issued' = [issued EXCEPT ![job[p].ns] = @ \cup {next[p]}]
    /\ Goto(p, "unlock")
    /\ UNCHANGED <<state, owner, job, seen, next, runs, hand>>

\* Mutant of Fail: a number that was recorded and not used is given back.
FailRollsBack(p) ==
    /\ pc[p] = "place"
    /\ state' = [state EXCEPT ![job[p].ns] = next[p] - 1]
    /\ Goto(p, "unlock")
    /\ UNCHANGED <<at, owner, job, seen, next, ghostVars, runs, hand>>

\* A refusal of allocate_key, of the schema or of the path, or an error of any
\* file operation: the command writes no more, and drops its locks. A timeout
\* has none to drop.
Fail(p) ==
    /\ pc[p] \in {"wait", "allocate", "check", "record", "place"}
    /\ Goto(p, "unlock")
    /\ UNCHANGED <<fileVars, owner, job, seen, next, ghostVars, runs, hand>>

Ends(p, left) ==
    /\ owner' = [ns \in Namespace |-> IF owner[ns] = p THEN left ELSE owner[ns]]
    /\ job' = [job EXCEPT ![p] = NoJob]
    /\ seen' = [seen EXCEPT ![p] = None]
    /\ next' = [next EXCEPT ![p] = None]
    /\ Goto(p, "idle")
    /\ UNCHANGED <<fileVars, ghostVars, runs, hand>>

Unlock(p) == pc[p] = "unlock" /\ Ends(p, None)

\* SIGKILL or a power cut. Killed inside create_new's write, the document is
\* there, short; that is Create and then Crash.
Crash(p) == pc[p] # "idle" /\ Ends(p, Abandoned)

-----------------------------------------------------------------------------
(* People.                                                                 *)

ClearLock(ns) ==
    /\ owner[ns] = Abandoned
    /\ owner' = [owner EXCEPT ![ns] = None]
    /\ UNCHANGED <<fileVars, procVars, ghostVars, runs, hand>>

Delete(d) ==
    /\ at[d] # None
    /\ at' = [at EXCEPT ![d] = None]
    /\ UNCHANGED <<state, owner, procVars, ghostVars, runs, hand>>

MakeByHand(d, ns, n) ==
    /\ hand < MaxHand
    /\ at[d] = None
    /\ \A p \in Proc : job[p].doc # d
    /\ FilesAt([ns |-> ns, num |-> n], SlugOf[d]) = {}
    /\ at' = [at EXCEPT ![d] = [ns |-> ns, num |-> n]]
    /\ hand' = hand + 1
    /\ UNCHANGED <<state, owner, procVars, ghostVars, runs>>

-----------------------------------------------------------------------------
Run(p) ==
    \/ \E d \in Doc, ns \in Namespace : Load(p, d, ns)
    \/ TakeLocks(p)
    \/ Allocate(p)
    \/ CheckFree(p)
    \/ WriteRecord(p)
    \/ Create(p)
    \/ Rename(p)
    \/ Fail(p)
    \/ Unlock(p)
    \/ Crash(p)

Next ==
    \/ \E p \in Proc : Run(p)
    \/ \E ns \in Namespace : ClearLock(ns)
    \/ \E d \in Doc : Delete(d)
    \/ \E d \in Doc, ns \in Namespace, n \in HandNumber : MakeByHand(d, ns, n)

Spec == Init /\ [][Next]_vars

-----------------------------------------------------------------------------
(* Properties.                                                             *)

\* p puts a document under its new key.
Puts(p) == pc[p] = "place" /\ pc'[p] = "unlock" /\ at' # at

\* A number typdoc gives to a document in a namespace is one it never gave
\* there before, whatever loaded when, was deleted since, or was killed where.
NeverIssuedTwice ==
    [][\A p \in Proc : Puts(p) => next[p] \notin issued[job[p].ns]]_vars

\* SPC-8: `last` is never lowered, and a record once a number stays one.
LastNeverLowered ==
    [][\A ns \in Namespace :
        state[ns] \in Number => state'[ns] \in Number /\ state'[ns] >= state[ns]]_vars

\* The state file knows of every number a document was put under, at every
\* moment at which a run may be killed.
IssuedIsRecorded ==
    \A ns \in Namespace : \A n \in issued[ns] : state[ns] \in Number /\ n <= state[ns]

\* While nobody makes documents by hand, neither command destroys one: the path
\* that a key gives is still free when the document gets there, though the
\* rename of `mv` replaces what it finds.
NothingOverwritten ==
    [][hand = 0 => \A p \in Proc : Puts(p) => \A d \in Doc : at[d] # None => at'[d] # None]_vars

-----------------------------------------------------------------------------
(* The promise of numbering, and what each part of it is here.             *)

Issuer == INSTANCE KeyIssuer WITH
    top     <- [ns \in Namespace |-> OrZero(state[ns])],
    claimed <- [ns \in Namespace |->
                  {next[p] : p \in {q \in Proc : pc[q] = "place" /\ job[q].ns = ns}}],
    issued  <- issued

\* Recording a number claims it, and the document that gets it is the one the
\* claim was made for.
ImplementsKeyIssuer == Issuer!Spec
=============================================================================
