--------------------------- MODULE NamespaceLock ---------------------------
(***************************************************************************)
(* The lock files of crates/typdoc-core/src/namespace_lock.rs: `acquire`,  *)
(* `release`, the drop of a lock, the registry the interrupt handler of    *)
(* crates/typdoc/src/signals.rs reads, and the loops of `mv_lock` and      *)
(* `mv_finish` that take and give back several locks.                      *)
(*                                                                         *)
(* A process is one run of a command. It has two threads: the main thread, *)
(* whose position is pc[p], and the signal thread, whose position is       *)
(* sig[p]. A lock file is a directory entry that names an inode; the file  *)
(* system gives an inode number out again once no entry and no open handle *)
(* refers to it.                                                           *)
(***************************************************************************)
EXTENDS Integers, FiniteSets

CONSTANTS
    Proc,           \* process ids
    Lock,           \* lock files, each a canonical path
    Rank,           \* the place of a lock file in the order of path bytes
    Wanted,         \* the sets of locks a command may take
    Inode,          \* the inode numbers the file system has
    HostName,       \* what gethostname says on the machine of each process
    Unknown,        \* the host name `unknown-host`
    None,           \* no inode, no process, no lock
    MaxInterrupts   \* bound: how many SIGINT or SIGTERM are ever delivered

ASSUME RankAssumption ==
    /\ Rank \in [Lock -> Nat]
    /\ \A k, l \in Lock : Rank[k] = Rank[l] => k = l
ASSUME WantedAssumption == Wanted \subseteq SUBSET Lock
ASSUME NoneAssumption == None \notin Inode \cup Proc \cup Lock
ASSUME ProcAssumption == "free" \notin Proc /\ "abandoned" \notin Proc
ASSUME InterruptAssumption == MaxInterrupts \in Nat

VARIABLES
    dir,        \* the inode each lock file's path names, or None
    stamp,      \* the process id written into each inode, or None
    owner,      \* ghost: the live run that created each inode, or None
    pc,         \* where the main thread of each process is
    want,       \* the locks the command of each process takes
    cur,        \* the lock the main thread is taking or giving back
    held,       \* the inode behind each open handle, or None
    registry,   \* REGISTRY: the identity recorded for each path, or None
    failed,     \* ghost: what went wrong for each process, and with which lock
    sig,        \* where the signal thread is
    sweep,      \* the entries the signal thread copied
    visited,    \* the locks of those entries it has dealt with
    interrupts  \* how many interrupts have been delivered

fsVars   == <<dir, stamp, owner>>
mainVars == <<pc, want, cur, held, registry, failed>>
sigVars  == <<sig, sweep, visited>>
vars == <<fsVars, mainVars, sigVars, interrupts>>

MainStates == {"idle", "acquire", "opened", "stamp", "working",
               "unlock", "unlink", "drop", "dropUnlink", "deregister", "close"}
\* A lock file that an acquire, a release or the signal thread did not remove.
Failures == {"acquire", "release", "sweep"} \X Lock
Entries == [Lock -> Inode \cup {None}]
NoEntries == [l \in Lock |-> None]

TypeOK ==
    /\ dir \in Entries
    /\ stamp \in [Inode -> Proc \cup {None}]
    /\ owner \in [Inode -> Proc \cup {None}]
    /\ pc \in [Proc -> MainStates]
    /\ want \in [Proc -> SUBSET Lock]
    /\ cur \in [Proc -> Lock \cup {None}]
    /\ held \in [Proc -> Entries]
    /\ registry \in [Proc -> Entries]
    /\ failed \in [Proc -> SUBSET Failures]
    /\ sig \in [Proc -> {"off", "check", "unlink"}]
    /\ sweep \in [Proc -> Entries]
    /\ visited \in [Proc -> SUBSET Lock]
    /\ interrupts \in Nat

Init ==
    /\ dir = NoEntries
    /\ stamp = [i \in Inode |-> None]
    /\ owner = [i \in Inode |-> None]
    /\ pc = [p \in Proc |-> "idle"]
    /\ want = [p \in Proc |-> {}]
    /\ cur = [p \in Proc |-> None]
    /\ held = [p \in Proc |-> NoEntries]
    /\ registry = [p \in Proc |-> NoEntries]
    /\ failed = [p \in Proc |-> {}]
    /\ sig = [p \in Proc |-> "off"]
    /\ sweep = [p \in Proc |-> NoEntries]
    /\ visited = [p \in Proc |-> {}]
    /\ interrupts = 0

-----------------------------------------------------------------------------
(* What the file system and the lock order say.                            *)

Live(p) == pc[p] # "idle"

\* An inode number that can be given out: no path names it, no handle is open.
FreeInode(i) ==
    /\ \A l \in Lock : dir[l] # i
    /\ \A p \in Proc, l \in Lock : held[p][l] # i

\* Mutant of Earliest: locks are taken in no order.
EarliestAny(S) == S

\* order_locks: the lock of S whose path's bytes sort first.
Earliest(S) == {l \in S : \A k \in S : Rank[l] <= Rank[k]}

Handles(p) == {l \in Lock : held[p][l] # None}
Todo(p)    == want[p] \ Handles(p)
Unvisited(p) == {l \in Lock : sweep[p][l] # None} \ visited[p]

\* Mutant of OwnerCase: the process table is asked whatever the host.
OwnerCaseAnyHost(ourHost, ownerHost, status) == status

(***************************************************************************)
(* owner_message: what a run that timed out is told about the owner of the *)
(* lock. Hosts are compared before the process table is asked, because a   *)
(* process id says nothing on another machine.                             *)
(***************************************************************************)
OwnerCase(ourHost, ownerHost, status) ==
    CASE ourHost = Unknown \/ ownerHost = Unknown -> "host not known"
      [] ourHost # Unknown /\ ownerHost # Unknown /\ ownerHost # ourHost
            -> "other host"
      [] OTHER -> status

\* What process_status may answer on q's machine about the id of p. A host
\* name is taken to mean one process table; elsewhere the id is anybody's.
StatusOf(q, p) ==
    IF HostName[q] = HostName[p] /\ HostName[p] # Unknown
        THEN {IF Live(p) THEN "running" ELSE "not running"}
        ELSE {"running", "not running", "unknown"}

\* timeout_error: the message q gets about lock l may call the lock stale.
SaysStale(q, l) ==
    LET p == stamp[dir[l]] IN
    /\ p # None
    /\ \E status \in StatusOf(q, p) :
          OwnerCase(HostName[q], HostName[p], status) = "not running"

-----------------------------------------------------------------------------
(* The main thread.                                                        *)

\* A command begins: `set` and `new` take one lock, `mv` a set of them.
Start(p, L) ==
    /\ pc[p] = "idle"
    /\ L # {}
    /\ pc' = [pc EXCEPT ![p] = "acquire"]
    /\ want' = [want EXCEPT ![p] = L]
    /\ UNCHANGED <<fsVars, cur, held, registry, failed, sigVars, interrupts>>

\* acquire: create_new with O_EXCL succeeds; the handle is open, and nothing
\* in the process names the file yet.
CreateNew(p, l, i) ==
    /\ pc[p] = "acquire"
    /\ l \in Earliest(Todo(p))
    /\ dir[l] = None
    /\ FreeInode(i)
    /\ dir' = [dir EXCEPT ![l] = i]
    /\ stamp' = [stamp EXCEPT ![i] = None]
    /\ owner' = [owner EXCEPT ![i] = p]
    /\ held' = [held EXCEPT ![p][l] = i]
    /\ cur' = [cur EXCEPT ![p] = l]
    /\ pc' = [pc EXCEPT ![p] = "opened"]
    /\ UNCHANGED <<want, registry, failed, sigVars, interrupts>>

\* Mutants of GiveUp: the locks taken so far are forgotten; there is no timeout.
GiveUpForgets(p) ==
    /\ pc[p] = "acquire"
    /\ pc' = [pc EXCEPT ![p] = "unlock"]
    /\ held' = [held EXCEPT ![p] = NoEntries]
    /\ UNCHANGED <<fsVars, want, cur, registry, failed, sigVars, interrupts>>
GiveUpNever(p) == FALSE

\* acquire: AlreadyExists once the timeout has passed, or a folder or a file
\* that cannot be created. The error drops the locks taken so far. A retry
\* before the timeout changes nothing.
GiveUp(p) ==
    /\ pc[p] = "acquire"
    /\ pc' = [pc EXCEPT ![p] = "unlock"]
    /\ UNCHANGED <<fsVars, want, cur, held, registry, failed, sigVars, interrupts>>

\* Mutant of Register: the path goes where the identity belongs.
RegisterPath(p) ==
    /\ pc[p] = "opened"
    /\ registry' = [registry EXCEPT ![p][cur[p]] = cur[p]]
    /\ pc' = [pc EXCEPT ![p] = "stamp"]
    /\ UNCHANGED <<fsVars, want, cur, held, failed, sigVars, interrupts>>

\* register: the identity read from the handle, under the path.
Register(p) ==
    /\ pc[p] = "opened"
    /\ registry' = [registry EXCEPT ![p][cur[p]] = held[p][cur[p]]]
    /\ pc' = [pc EXCEPT ![p] = "stamp"]
    /\ UNCHANGED <<fsVars, want, cur, held, failed, sigVars, interrupts>>

\* Mutant of WriteStamp: the command goes to work with its first lock.
WriteStampWorks(p) ==
    /\ pc[p] = "stamp"
    /\ stamp' = [stamp EXCEPT ![held[p][cur[p]]] = p]
    /\ pc' = [pc EXCEPT ![p] = "working"]
    /\ UNCHANGED <<dir, owner, want, cur, held, registry, failed, sigVars, interrupts>>

\* acquire: the owner's pid, host and time are written and the lock is held.
WriteStamp(p) ==
    /\ pc[p] = "stamp"
    /\ stamp' = [stamp EXCEPT ![held[p][cur[p]]] = p]
    /\ pc' = [pc EXCEPT ![p] = IF Todo(p) = {} THEN "working" ELSE "acquire"]
    /\ UNCHANGED <<dir, owner, want, cur, held, registry, failed, sigVars, interrupts>>

\* acquire: handle.identity() or handle.write_all() fails. No NamespaceLock
\* exists yet, so the handle is closed, the file stays and so does the entry.
AcquireFails(p) ==
    /\ pc[p] \in {"opened", "stamp"}
    /\ held' = [held EXCEPT ![p][cur[p]] = None]
    /\ failed' = [failed EXCEPT ![p] = @ \cup {<<"acquire", cur[p]>>}]
    /\ pc' = [pc EXCEPT ![p] = "unlock"]
    /\ UNCHANGED <<fsVars, want, cur, registry, sigVars, interrupts>>

\* The command has read, checked and written, or has failed; its locks go.
FinishWork(p) ==
    /\ pc[p] = "working"
    /\ pc' = [pc EXCEPT ![p] = "unlock"]
    /\ UNCHANGED <<fsVars, want, cur, held, registry, failed, sigVars, interrupts>>

\* release_checked: the path's identity against the handle's, the first time
\* or, where `release` failed, once more in the drop.
ReleaseCheck(p, l) ==
    /\ pc[p] \in {"unlock", "drop"}
    /\ l \in Earliest(Handles(p))
    /\ cur' = [cur EXCEPT ![p] = l]
    /\ pc' = [pc EXCEPT ![p] =
                IF dir[l] # held[p][l] THEN "deregister"
                ELSE IF @ = "unlock" THEN "unlink" ELSE "dropUnlink"]
    /\ UNCHANGED <<fsVars, want, held, registry, failed, sigVars, interrupts>>

\* release_checked: remove_file removes whatever the path names by now.
Unlink(p) ==
    /\ pc[p] \in {"unlink", "dropUnlink"}
    /\ dir[cur[p]] # None
    /\ dir' = [dir EXCEPT ![cur[p]] = None]
    /\ pc' = [pc EXCEPT ![p] = "deregister"]
    /\ UNCHANGED <<stamp, owner, want, cur, held, registry, failed, sigVars, interrupts>>

\* release_checked: identity, identity_at or remove_file fails, the file being
\* there or not. After `release` the drop tries a second time; a failure of the
\* drop itself is ignored, and the lock is given up with its file in place.
RemovalFails(p, l) ==
    /\ pc[p] \in {"unlock", "unlink", "drop", "dropUnlink"}
    /\ l \in Earliest(Handles(p))
    /\ cur' = [cur EXCEPT ![p] = l]
    /\ \/ /\ pc[p] \in {"unlock", "unlink"}
          /\ pc' = [pc EXCEPT ![p] = "drop"]
          /\ UNCHANGED failed
       \/ /\ pc' = [pc EXCEPT ![p] = "deregister"]
          /\ failed' = [failed EXCEPT ![p] = @ \cup {<<"release", l>>}]
    /\ UNCHANGED <<fsVars, want, held, registry, sigVars, interrupts>>

\* Mutant of Deregister: a released lock stays in the registry.
DeregisterSkipped(p) ==
    /\ pc[p] = "deregister"
    /\ pc' = [pc EXCEPT ![p] = "close"]
    /\ UNCHANGED <<fsVars, want, cur, held, registry, failed, sigVars, interrupts>>

\* Drop: deregister always, and only then do the fields, the handle, go.
Deregister(p) ==
    /\ pc[p] = "deregister"
    /\ registry' = [registry EXCEPT ![p][cur[p]] = None]
    /\ pc' = [pc EXCEPT ![p] = "close"]
    /\ UNCHANGED <<fsVars, want, cur, held, failed, sigVars, interrupts>>

Close(p) ==
    /\ pc[p] = "close"
    /\ held' = [held EXCEPT ![p][cur[p]] = None]
    /\ pc' = [pc EXCEPT ![p] = "unlock"]
    /\ UNCHANGED <<fsVars, want, cur, registry, failed, sigVars, interrupts>>

\* The end of a process: its handles close and its memory is gone, its files stay.
Gone(p) ==
    /\ pc' = [pc EXCEPT ![p] = "idle"]
    /\ want' = [want EXCEPT ![p] = {}]
    /\ cur' = [cur EXCEPT ![p] = None]
    /\ held' = [held EXCEPT ![p] = NoEntries]
    /\ registry' = [registry EXCEPT ![p] = NoEntries]
    /\ failed' = [failed EXCEPT ![p] = {}]
    /\ sig' = [sig EXCEPT ![p] = "off"]
    /\ sweep' = [sweep EXCEPT ![p] = NoEntries]
    /\ visited' = [visited EXCEPT ![p] = {}]
    /\ owner' = [i \in Inode |-> IF owner[i] = p THEN None ELSE owner[i]]
    /\ UNCHANGED <<dir, stamp, interrupts>>

\* main returns: every lock has been dropped.
Exit(p) ==
    /\ pc[p] = "unlock"
    /\ Handles(p) = {}
    /\ Gone(p)

-----------------------------------------------------------------------------
(* The signal thread, and what happens to a process from outside.          *)

\* SIGINT or SIGTERM: release_all_for_signal copies the registry.
Interrupt(p) ==
    /\ Live(p)
    /\ sig[p] = "off"
    /\ interrupts < MaxInterrupts
    /\ interrupts' = interrupts + 1
    /\ sig' = [sig EXCEPT ![p] = "check"]
    /\ sweep' = [sweep EXCEPT ![p] = registry[p]]
    /\ UNCHANGED <<fsVars, mainVars, visited>>

\* identity_matches for one entry: the recorded identity against the path's.
SweepCheck(p, l) ==
    /\ sig[p] = "check"
    /\ l \in Earliest(Unvisited(p))
    /\ IF dir[l] = sweep[p][l]
         THEN /\ sig' = [sig EXCEPT ![p] = "unlink"]
              /\ UNCHANGED visited
         ELSE /\ visited' = [visited EXCEPT ![p] = @ \cup {l}]
              /\ UNCHANGED sig
    /\ UNCHANGED <<fsVars, mainVars, sweep, interrupts>>

\* remove_file, whatever the path names by now.
SweepUnlink(p, l) ==
    /\ sig[p] = "unlink"
    /\ l \in Earliest(Unvisited(p))
    /\ dir[l] # None
    /\ dir' = [dir EXCEPT ![l] = None]
    /\ visited' = [visited EXCEPT ![p] = @ \cup {l}]
    /\ sig' = [sig EXCEPT ![p] = "check"]
    /\ UNCHANGED <<stamp, owner, mainVars, sweep, interrupts>>

\* Mutant of SweepFails: the first failure ends the whole sweep.
SweepFailsStops(p, l) ==
    /\ sig[p] \in {"check", "unlink"}
    /\ l \in Earliest(Unvisited(p))
    /\ visited' = [visited EXCEPT ![p] = Lock]
    /\ sig' = [sig EXCEPT ![p] = "check"]
    /\ failed' = [failed EXCEPT ![p] = @ \cup {<<"sweep", l>>}]
    /\ UNCHANGED <<fsVars, pc, want, cur, held, registry, sweep, interrupts>>

\* identity_at or remove_file fails: the sweep leaves the file, if there is
\* one, and goes on to the next entry.
SweepFails(p, l) ==
    /\ sig[p] \in {"check", "unlink"}
    /\ l \in Earliest(Unvisited(p))
    /\ visited' = [visited EXCEPT ![p] = @ \cup {l}]
    /\ sig' = [sig EXCEPT ![p] = "check"]
    /\ failed' = [failed EXCEPT ![p] = @ \cup {<<"sweep", l>>}]
    /\ UNCHANGED <<fsVars, pc, want, cur, held, registry, sweep, interrupts>>

\* emulate_default_handler: the signal, its default disposition restored, ends
\* the process. Until then the main thread has gone on running.
DieBySignal(p) ==
    /\ sig[p] = "check"
    /\ Unvisited(p) = {}
    /\ Gone(p)

\* SIGKILL or a power cut.
Crash(p) ==
    /\ Live(p)
    /\ Gone(p)

\* Somebody deletes a lock file: because a run q that timed out was told it is
\* stale, or because they know that the process has stopped.
OperatorRemoves(l) ==
    /\ dir[l] # None
    /\ \/ owner[dir[l]] = None
       \/ \E q \in Proc : SaysStale(q, l)
    /\ dir' = [dir EXCEPT ![l] = None]
    /\ UNCHANGED <<stamp, owner, mainVars, sigVars, interrupts>>

-----------------------------------------------------------------------------
MainStep(p) ==
    \/ \E l \in Lock, i \in Inode : CreateNew(p, l, i)
    \/ GiveUp(p)
    \/ Register(p)
    \/ WriteStamp(p)
    \/ AcquireFails(p)
    \/ FinishWork(p)
    \/ \E l \in Lock : ReleaseCheck(p, l)
    \/ Unlink(p)
    \/ \E l \in Lock : RemovalFails(p, l)
    \/ Deregister(p)
    \/ Close(p)
    \/ Exit(p)

SignalStep(p) ==
    \/ \E l \in Lock : SweepCheck(p, l)
    \/ \E l \in Lock : SweepUnlink(p, l)
    \/ \E l \in Lock : SweepFails(p, l)
    \/ DieBySignal(p)

Next ==
    \/ \E p \in Proc :
        \/ \E L \in Wanted : Start(p, L)
        \/ MainStep(p)
        \/ Interrupt(p)
        \/ SignalStep(p)
        \/ Crash(p)
    \/ \E l \in Lock : OperatorRemoves(l)

Spec == Init /\ [][Next]_vars

(***************************************************************************)
(* The system schedules the threads of a process that has not been killed; *)
(* nobody is obliged to start a command, to interrupt one, or to delete a  *)
(* lock file.                                                              *)
(***************************************************************************)
FairSpec == Spec /\ \A p \in Proc : WF_vars(MainStep(p)) /\ WF_vars(SignalStep(p))

-----------------------------------------------------------------------------
(* Properties.                                                             *)

InNamespace(p, l) == pc[p] = "working" /\ l \in want[p]

\* Two commands are never in one namespace at once, as long as no process has
\* been interrupted: across crashes, failed acquisitions, timeouts, inode
\* numbers given out again and lock files deleted on a message's advice.
MutualExclusion ==
    interrupts = 0 =>
        \A p, q \in Proc, l \in Lock :
            InNamespace(p, l) /\ InNamespace(q, l) => p = q

\* A process removes a file from a lock's path.
RemovedBy(p, l) ==
    /\ dir[l] # None /\ dir'[l] = None
    /\ \/ pc[p] \in {"unlink", "dropUnlink"} /\ pc'[p] = "deregister" /\ cur[p] = l
       \/ sig[p] = "unlink" /\ sig'[p] = "check"

\* Until an interrupt is delivered, the file a release unlinks is one that
\* this very run created: the identity check and the unlink are two calls,
\* and nothing gets between them.
RemovesOnlyItsOwn ==
    [][interrupts = 0 =>
        \A p \in Proc, l \in Lock : RemovedBy(p, l) => owner[dir[l]] = p]_vars

\* The registry never outlives the handle, so an identity the signal thread
\* copies is that of an inode still in use; only an acquire of that very lock
\* that failed breaks it.
RegistryHasHandle ==
    \A p \in Proc, l \in Lock :
        registry[p][l] # None /\ <<"acquire", l>> \notin failed[p]
            => held[p][l] = registry[p][l]

\* p failed to acquire l, or to remove it when giving it back.
GivenUp(p, l) == <<"acquire", l>> \in failed[p] \/ <<"release", l>> \in failed[p]

\* A run that returns from main, after its work or after a timeout, has left
\* no lock file of its own behind but one it could not acquire or remove: a
\* removal that fails, twice where `release` was called, loses no other lock.
NoLockLeftBehind ==
    [][\A p \in Proc, l \in Lock :
        /\ Exit(p)
        /\ ~GivenUp(p, l)
        /\ dir[l] # None
        => owner[dir[l]] # p]_vars

\* When an interrupted run ends, none of the locks it had registered when the
\* signal came is left, but those that could not be removed: a failure of the
\* sweep at one lock never keeps it from the next, and what the main thread
\* failed to give back the sweep still takes.
InterruptReleases ==
    [][\A p \in Proc, l \in Lock :
        /\ DieBySignal(p)
        /\ sweep[p][l] # None
        /\ <<"sweep", l>> \notin failed[p]
        /\ dir[l] # None
        => owner[dir[l]] # p]_vars

\* p cannot go on before q gives up a lock that q still uses.
WaitsFor(p, q) ==
    /\ pc[p] = "acquire"
    /\ \E l \in Earliest(Todo(p)) : l \in Handles(q) /\ dir[l] = held[q][l]

\* No two runs wait for each other, so a timeout is never the only way out of
\* a set of runs that each hold what another wants. (Three or more in a ring
\* are excluded by the same order; the run has two locks.)
NoMutualWait ==
    \A p, q \in Proc : ~(WaitsFor(p, q) /\ WaitsFor(q, p))

\* Every command comes to an end, a stale lock in its way or not.
EveryRunEnds == \A p \in Proc : Live(p) ~> ~Live(p)

-----------------------------------------------------------------------------
(* The abstract locks, and what each part of them is here.                 *)

HolderOf(l) ==
    IF dir[l] = None THEN "free"
    ELSE IF owner[dir[l]] = None THEN "abandoned" ELSE owner[dir[l]]

Abstract == INSTANCE ExclusiveLocks WITH
    holder <- [l \in Lock |-> HolderOf(l)],
    inside <- [p \in Proc |-> IF pc[p] = "working" THEN want[p] ELSE {}]

\* With no interrupt, the lock files are locks: taken only when free, given
\* back only by their holder, abandoned only by a run that ends.
ImplementsExclusiveLocks == Abstract!Spec
=============================================================================
