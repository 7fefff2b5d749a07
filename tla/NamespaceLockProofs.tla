------------------------ MODULE NamespaceLockProofs ------------------------
(***************************************************************************)
(* Proofs about NamespaceLock, for any processes, locks, inode numbers and *)
(* host names and any number of interrupts.                                *)
(***************************************************************************)
EXTENDS NamespaceLock, TLAPS

(***************************************************************************)
(* Typing. An action that follows cur[p] needs to know that it names a     *)
(* lock, and the others that its handle is open.                           *)
(***************************************************************************)
InHand == {"opened", "stamp", "unlink", "drop", "dropUnlink", "deregister", "close"}
Removing == {"unlock", "unlink", "drop", "dropUnlink"}
CurHeld == \A p \in Proc :
    pc[p] \in InHand => cur[p] \in Lock /\ held[p][cur[p]] # None
TInv == TypeOK /\ CurHeld

LEMMA GoneTyped ==
    ASSUME TInv, NEW p \in Proc, Gone(p)
    PROVE  TInv'
<1>1. NoEntries \in Entries
    BY DEF NoEntries, Entries
<1>2. TypeOK'
    BY <1>1 DEF TInv, TypeOK, Gone, MainStates, Entries
<1>3. ASSUME NEW q \in Proc, pc'[q] \in InHand
      PROVE  cur'[q] \in Lock /\ held'[q][cur'[q]] # None
    <2>1. q # p
        BY <1>3 DEF TInv, TypeOK, Gone, InHand
    <2> QED BY <2>1, <1>3 DEF TInv, TypeOK, CurHeld, Gone
<1> QED BY <1>2, <1>3 DEF TInv, CurHeld

LEMMA TInvInit == Init => TInv
BY InterruptAssumption DEF Init, TInv, TypeOK, CurHeld, InHand, NoEntries, Entries, MainStates

\* A removal that fails changes where the main thread is, and nothing on disk.
LEMMA RemovalFailsKeeps ==
    ASSUME TInv, NEW p \in Proc, NEW l \in Lock, RemovalFails(p, l)
    PROVE  /\ UNCHANGED <<dir, stamp, owner, want, held, registry, sigVars, interrupts>>
           /\ pc[p] \in Removing /\ held[p][l] # None
           /\ cur' = [cur EXCEPT ![p] = l] /\ pc' \in [Proc -> MainStates]
           /\ \A q \in Proc \ {p} : pc'[q] = pc[q] /\ failed'[q] = failed[q]
           /\ failed' \in [Proc -> SUBSET Failures]
           /\ \/ pc'[p] = "drop" /\ failed'[p] = failed[p]
              \/ pc'[p] = "deregister" /\ failed'[p] = failed[p] \cup {<<"release", l>>}
<1> USE DEF TInv, TypeOK, RemovalFails, Removing, MainStates, Failures
<1>1. /\ UNCHANGED <<dir, stamp, owner, want, held, registry, sigVars, interrupts>>
      /\ pc[p] \in Removing /\ held[p][l] # None /\ cur' = [cur EXCEPT ![p] = l]
    BY DEF fsVars, Earliest, Handles
<1>2. CASE pc' = [pc EXCEPT ![p] = "drop"] /\ UNCHANGED failed
    BY <1>1, <1>2
<1>3. CASE /\ pc' = [pc EXCEPT ![p] = "deregister"]
           /\ failed' = [failed EXCEPT ![p] = @ \cup {<<"release", l>>}]
    BY <1>1, <1>3
<1> QED BY <1>2, <1>3

LEMMA MainStepTyped ==
    ASSUME TInv, NEW p \in Proc, MainStep(p)
    PROVE  TInv'
<1> USE NoneAssumption DEF TInv, TypeOK, CurHeld, InHand, MainStates,
        fsVars, sigVars, Handles, Todo, Earliest
<1>1. ASSUME NEW l \in Lock, NEW i \in Inode, CreateNew(p, l, i)
      PROVE  TInv'
    <2>1. held' \in [Proc -> Entries] /\ held'[p][l] = i
        BY <1>1 DEF CreateNew, Entries
    <2>2. dir' \in Entries
        BY <1>1 DEF CreateNew, Entries
    <2>3. TypeOK'
        BY <1>1, <2>1, <2>2 DEF CreateNew
    <2>4. CurHeld'
        BY <1>1, <2>1 DEF CreateNew, Entries
    <2> QED BY <2>3, <2>4
<1>2. CASE GiveUp(p)
    BY <1>2 DEF GiveUp
<1>3. CASE Register(p)
    <2>1. held[p][cur[p]] \in Inode \cup {None}
        BY <1>3 DEF Register, Entries
    <2>2. registry' \in [Proc -> Entries]
        BY <1>3, <2>1 DEF Register, Entries
    <2> QED BY <1>3, <2>2 DEF Register
<1>4. CASE WriteStamp(p)
    BY <1>4 DEF WriteStamp
<1>5. CASE AcquireFails(p)
    <2>1. held' \in [Proc -> Entries]
        BY <1>5 DEF AcquireFails, Entries
    <2>2. failed' \in [Proc -> SUBSET Failures]
        BY <1>5 DEF AcquireFails, Failures
    <2> QED BY <1>5, <2>1, <2>2 DEF AcquireFails
<1>6. CASE FinishWork(p)
    BY <1>6 DEF FinishWork
<1>7. ASSUME NEW l \in Lock, ReleaseCheck(p, l)
      PROVE  TInv'
    BY <1>7 DEF ReleaseCheck
<1>8. CASE Unlink(p)
    BY <1>8 DEF Unlink, Entries
<1>9. ASSUME NEW l \in Lock, RemovalFails(p, l)
      PROVE  TInv'
    BY <1>9, RemovalFailsKeeps
<1>10. CASE Deregister(p)
    <2>1. registry' \in [Proc -> Entries]
        BY <1>10 DEF Deregister, Entries
    <2> QED BY <1>10, <2>1 DEF Deregister
<1>11. CASE Close(p)
    <2>1. held' \in [Proc -> Entries]
        BY <1>11 DEF Close, Entries
    <2> QED BY <1>11, <2>1 DEF Close
<1>12. CASE Exit(p)
    BY <1>12, GoneTyped DEF Exit
<1> QED BY <1>1, <1>2, <1>3, <1>4, <1>5, <1>6, <1>7, <1>8, <1>9, <1>10,
           <1>11, <1>12 DEF MainStep

LEMMA TInvNext == TInv /\ [Next]_vars => TInv'
<1> SUFFICES ASSUME TInv, [Next]_vars PROVE TInv'
    OBVIOUS
<1>1. ASSUME NEW p \in Proc, NEW L \in Wanted, Start(p, L)
      PROVE  TInv'
    BY <1>1, WantedAssumption DEF Start, TInv, TypeOK, CurHeld, InHand, MainStates, fsVars, sigVars
<1>2. ASSUME NEW p \in Proc, MainStep(p)
      PROVE  TInv'
    BY <1>2, MainStepTyped
<1>3. ASSUME NEW p \in Proc, Interrupt(p)
      PROVE  TInv'
    BY <1>3 DEF Interrupt, TInv, TypeOK, CurHeld, fsVars, mainVars
<1>4. ASSUME NEW p \in Proc, NEW l \in Lock, SweepCheck(p, l)
      PROVE  TInv'
    BY <1>4 DEF SweepCheck, TInv, TypeOK, CurHeld, fsVars, mainVars
<1>5. ASSUME NEW p \in Proc, NEW l \in Lock, SweepUnlink(p, l)
      PROVE  TInv'
    BY <1>5 DEF SweepUnlink, TInv, TypeOK, CurHeld, Entries, mainVars
<1>6. ASSUME NEW p \in Proc, DieBySignal(p) \/ Crash(p)
      PROVE  TInv'
    BY <1>6, GoneTyped DEF DieBySignal, Crash
<1>9. ASSUME NEW p \in Proc, NEW l \in Lock, SweepFails(p, l)
      PROVE  TInv'
    <2>1. failed' \in [Proc -> SUBSET Failures]
        BY <1>9 DEF SweepFails, TInv, TypeOK, Failures
    <2> QED BY <1>9, <2>1 DEF SweepFails, TInv, TypeOK, CurHeld, fsVars
<1>7. ASSUME NEW l \in Lock, OperatorRemoves(l)
      PROVE  TInv'
    BY <1>7 DEF OperatorRemoves, TInv, TypeOK, CurHeld, Entries, mainVars, sigVars
<1>8. CASE UNCHANGED vars
    BY <1>8 DEF vars, fsVars, mainVars, sigVars, TInv, TypeOK, CurHeld
<1> QED BY <1>1, <1>2, <1>3, <1>4, <1>5, <1>6, <1>7, <1>8, <1>9 DEF Next, SignalStep

LEMMA TInvHolds == Spec => []TInv
BY TInvInit, TInvNext, PTL DEF Spec

\* Every variable keeps its type in every execution, interrupts included.
THEOREM TypeCorrect == Spec => []TypeOK
BY TInvHolds, PTL DEF TInv

-----------------------------------------------------------------------------
(***************************************************************************)
(* Mutual exclusion. What makes it inductive: the path of a lock names the *)
(* inode of the one handle that may give it back, until that handle has    *)
(* unlinked it; the inode of an open handle was created, and is stamped,   *)
(* by the process that holds it, because its number is not free; and a     *)
(* stamped process that is alive is never said to have stopped.            *)
(***************************************************************************)
Quiet == \A p \in Proc : sig[p] = "off"

IdleHasNothing == \A p \in Proc :
    pc[p] = "idle" => \A l \in Lock : held[p][l] = None

GivenBack(p, l) == cur[p] = l /\ pc[p] \in {"deregister", "close"}

HeldIsThere == \A p \in Proc, l \in Lock :
    held[p][l] # None /\ ~GivenBack(p, l) => dir[l] = held[p][l]

HeldIsOwned == \A p \in Proc, l \in Lock :
    held[p][l] # None =>
        /\ owner[held[p][l]] = p
        /\ stamp[held[p][l]] \in {p, None}

WorkingHoldsAll == \A p \in Proc, l \in Lock : InNamespace(p, l) => held[p][l] # None

Sound == Quiet /\ IdleHasNothing /\ HeldIsThere /\ HeldIsOwned /\ WorkingHoldsAll

\* The inductive invariant: all of it as long as no interrupt was delivered.
LockInv == interrupts = 0 => Sound

LEMMA SoundExcludes ==
    ASSUME TInv, Sound, NEW p \in Proc, NEW q \in Proc, NEW l \in Lock,
           InNamespace(p, l), InNamespace(q, l)
    PROVE  p = q
<1>1. held[p][l] # None /\ held[q][l] # None
    BY DEF Sound, WorkingHoldsAll
<1>2. dir[l] = held[p][l] /\ dir[l] = held[q][l]
    BY <1>1 DEF Sound, HeldIsThere, GivenBack, InNamespace
<1>3. owner[held[p][l]] = p /\ owner[held[q][l]] = q
    BY <1>1 DEF Sound, HeldIsOwned
<1> QED BY <1>2, <1>3

LEMMA GoneSound ==
    ASSUME TInv, Sound, NEW p \in Proc, Gone(p)
    PROVE  Sound'
<1> USE DEF TInv, TypeOK, Gone, Sound
<1>1. Quiet'
    BY DEF Quiet
<1>2. \A l \in Lock : held'[p][l] = None
    BY DEF NoEntries
<1>3. \A q \in Proc \ {p} : /\ held'[q] = held[q] /\ pc'[q] = pc[q]
                            /\ cur'[q] = cur[q] /\ want'[q] = want[q]
    OBVIOUS
<1>4. IdleHasNothing'
    BY <1>2, <1>3 DEF IdleHasNothing
<1>5. HeldIsThere'
    BY <1>2, <1>3 DEF HeldIsThere, GivenBack
<1>6. HeldIsOwned'
    <2> SUFFICES ASSUME NEW q \in Proc, NEW l \in Lock, held'[q][l] # None
                 PROVE  owner'[held'[q][l]] = q /\ stamp'[held'[q][l]] \in {q, None}
        BY DEF HeldIsOwned
    <2>1. q # p /\ held'[q] = held[q]
        BY <1>2, <1>3
    <2>2. held[q][l] \in Inode
        BY <2>1 DEF Entries
    <2> QED BY <2>1, <2>2 DEF HeldIsOwned
<1>7. WorkingHoldsAll'
    BY <1>3 DEF WorkingHoldsAll, InNamespace
<1> QED BY <1>1, <1>4, <1>5, <1>6, <1>7

LEMMA CreateNewSound ==
    ASSUME TInv, Sound, NEW p \in Proc, NEW l \in Lock, NEW i \in Inode,
           CreateNew(p, l, i)
    PROVE  Sound'
<1> USE DEF TInv, TypeOK, CreateNew, Sound, Entries
<1>1. Quiet'
    BY DEF Quiet, sigVars
<1>2. held'[p][l] = i /\ i # None /\ dir'[l] = i
    BY NoneAssumption
<1>3. ASSUME NEW q \in Proc, NEW k \in Lock, q # p \/ k # l
      PROVE  /\ held'[q][k] = held[q][k]
             /\ held[q][k] # None => held[q][k] # i
    BY <1>3, NoneAssumption DEF FreeInode
<1>4. IdleHasNothing'
    BY <1>2, <1>3 DEF IdleHasNothing
<1>5. HeldIsThere'
    <2> SUFFICES ASSUME NEW q \in Proc, NEW k \in Lock,
                        held'[q][k] # None, ~GivenBack(q, k)'
                 PROVE  dir'[k] = held'[q][k]
        BY DEF HeldIsThere
    <2>1. CASE q = p /\ k = l
        BY <1>2, <2>1
    <2>2. CASE q # p \/ k # l
        <3>1. ~GivenBack(q, k)
            BY <2>2 DEF GivenBack
        <3>2. dir[k] = held[q][k] /\ held[q][k] # None
            BY <1>3, <2>2, <3>1 DEF HeldIsThere
        <3> QED BY <1>3, <2>2, <3>2
    <2> QED BY <2>1, <2>2
<1>6. HeldIsOwned'
    <2> SUFFICES ASSUME NEW q \in Proc, NEW k \in Lock, held'[q][k] # None
                 PROVE  owner'[held'[q][k]] = q /\ stamp'[held'[q][k]] \in {q, None}
        BY DEF HeldIsOwned
    <2>1. CASE q = p /\ k = l
        BY <1>2, <2>1
    <2>2. CASE q # p \/ k # l
        <3>1. held'[q][k] = held[q][k] /\ held[q][k] # i /\ held[q][k] # None
            BY <1>3, <2>2
        <3>2. /\ owner'[held[q][k]] = owner[held[q][k]]
              /\ stamp'[held[q][k]] = stamp[held[q][k]]
            BY <3>1
        <3> QED BY <3>1, <3>2 DEF HeldIsOwned
    <2> QED BY <2>1, <2>2
<1>7. WorkingHoldsAll'
    BY <1>3 DEF WorkingHoldsAll, InNamespace
<1> QED BY <1>1, <1>4, <1>5, <1>6, <1>7

\* No message calls the lock of a live owner stale.
LEMMA StaleIsDead ==
    ASSUME TInv, Sound, NEW q \in Proc, NEW l \in Lock, SaysStale(q, l),
           NEW p \in Proc, held[p][l] # None
    PROVE  dir[l] # held[p][l]
<1> SUFFICES ASSUME dir[l] = held[p][l] PROVE FALSE
    OBVIOUS
<1>1. stamp[dir[l]] = p
    BY DEF SaysStale, Sound, HeldIsOwned
<1>2. Live(p)
    BY DEF Sound, IdleHasNothing, Live
<1>3. PICK status \in StatusOf(q, p) :
        OwnerCase(HostName[q], HostName[p], status) = "not running"
    BY <1>1 DEF SaysStale
<1>4. HostName[q] = HostName[p] /\ HostName[p] # Unknown
    BY <1>3 DEF OwnerCase
<1> QED BY <1>2, <1>3, <1>4 DEF StatusOf, OwnerCase

LEMMA MainStepSound ==
    ASSUME TInv, Sound, NEW p \in Proc, MainStep(p)
    PROVE  Sound'
<1> USE NoneAssumption
    DEF TInv, TypeOK, CurHeld, InHand, Sound, Quiet, IdleHasNothing, HeldIsThere,
        GivenBack, HeldIsOwned, WorkingHoldsAll, InNamespace, fsVars, sigVars
<1>1. ASSUME NEW l \in Lock, NEW i \in Inode, CreateNew(p, l, i)
      PROVE  Sound'
    BY <1>1, CreateNewSound
<1>2. CASE GiveUp(p)
    BY <1>2 DEF GiveUp
<1>3. CASE Register(p)
    BY <1>3 DEF Register
<1>4. CASE WriteStamp(p)
    BY <1>4 DEF WriteStamp, Todo, Handles, Entries
<1>5. CASE AcquireFails(p)
    BY <1>5 DEF AcquireFails, Entries
<1>6. CASE FinishWork(p)
    BY <1>6 DEF FinishWork
<1>7. ASSUME NEW l \in Lock, ReleaseCheck(p, l)
      PROVE  Sound'
    <2>1. /\ pc[p] \in Removing /\ held[p][l] # None
          /\ cur' = [cur EXCEPT ![p] = l]
          /\ \A q \in Proc \ {p} : pc'[q] = pc[q]
          /\ pc'[p] \in {"unlink", "dropUnlink", "deregister"}
          /\ dir' = dir /\ stamp' = stamp /\ owner' = owner
          /\ held' = held /\ want' = want /\ sig' = sig
        BY <1>7 DEF ReleaseCheck, Earliest, Handles, Removing
    <2>2. HeldIsThere'
        <3>1. ASSUME NEW q \in Proc, NEW k \in Lock, ~GivenBack(q, k)'
              PROVE  q = p \/ ~GivenBack(q, k)
            BY <2>1, <3>1
        <3>2. \A k \in Lock : held[p][k] # None => dir[k] = held[p][k]
            BY <2>1 DEF Removing
        <3> QED BY <2>1, <3>1, <3>2
    <2> QED BY <2>1, <2>2 DEF Removing
<1>8. CASE Unlink(p)
    <2> DEFINE l == cur[p]
    <2>1. /\ pc[p] \in {"unlink", "dropUnlink"} /\ l \in Lock /\ held[p][l] # None
          /\ pc'[p] = "deregister" /\ \A q \in Proc \ {p} : pc'[q] = pc[q]
          /\ \A k \in Lock : k # l => dir'[k] = dir[k]
          /\ stamp' = stamp /\ owner' = owner /\ cur' = cur
          /\ held' = held /\ want' = want /\ sig' = sig
        BY <1>8 DEF Unlink, Entries
    <2>2. dir[l] = held[p][l] /\ owner[dir[l]] = p
        BY <2>1
    <2>3. ASSUME NEW q \in Proc, NEW k \in Lock, held[q][k] # None,
                 ~GivenBack(q, k)'
          PROVE  dir'[k] = held[q][k]
        <3>1. ~GivenBack(q, k)
            BY <2>1, <2>3
        <3>2. dir[k] = held[q][k] /\ owner[held[q][k]] = q
            BY <2>3, <3>1
        <3>3. k # l
            BY <2>1, <2>2, <2>3, <3>2
        <3> QED BY <2>1, <3>2, <3>3
    <2>4. HeldIsThere'
        BY <2>1, <2>3
    <2> QED BY <2>1, <2>4
<1>9. ASSUME NEW l \in Lock, RemovalFails(p, l)
      PROVE  Sound'
    <2>1. /\ pc[p] \in Removing /\ pc'[p] \in {"drop", "deregister"}
          /\ \A q \in Proc \ {p} : pc'[q] = pc[q] /\ cur'[q] = cur[q]
          /\ UNCHANGED <<dir, stamp, owner, want, held, sig>>
        BY <1>9, RemovalFailsKeeps
    <2>2. HeldIsThere'
        BY <2>1 DEF Removing
    <2> QED BY <2>1, <2>2 DEF Removing
<1>10. CASE Deregister(p)
    BY <1>10 DEF Deregister
<1>11. CASE Close(p)
    <2>1. held'[p][cur[p]] = None
        BY <1>11 DEF Close, Entries
    <2>2. \A q \in Proc, l \in Lock :
            q # p \/ l # cur[p] => held'[q][l] = held[q][l]
        BY <1>11 DEF Close, Entries
    <2>3. /\ dir' = dir /\ stamp' = stamp /\ owner' = owner /\ sig' = sig
          /\ cur' = cur /\ want' = want /\ cur[p] \in Lock
          /\ pc'[p] = "unlock" /\ \A q \in Proc \ {p} : pc'[q] = pc[q]
        BY <1>11 DEF Close
    <2>4. Quiet'
        BY <2>3 DEF Quiet
    <2>5. IdleHasNothing'
        BY <2>1, <2>2, <2>3 DEF IdleHasNothing
    <2>6. HeldIsThere'
        <3>1. ASSUME NEW q \in Proc, NEW l \in Lock, held'[q][l] # None, ~GivenBack(q, l)'
              PROVE  dir'[l] = held'[q][l]
            <4>1. held'[q][l] = held[q][l] /\ ~GivenBack(q, l)
                BY <2>1, <2>2, <2>3, <3>1 DEF GivenBack
            <4> QED BY <2>3, <3>1, <4>1 DEF Sound, HeldIsThere
        <3> QED BY <3>1 DEF HeldIsThere
    <2>7. HeldIsOwned'
        BY <2>1, <2>2, <2>3 DEF HeldIsOwned
    <2>8. WorkingHoldsAll'
        BY <2>2, <2>3 DEF WorkingHoldsAll
    <2> QED BY <2>4, <2>5, <2>6, <2>7, <2>8
<1>12. CASE Exit(p)
    BY <1>12, GoneSound DEF Exit
<1> QED BY <1>1, <1>2, <1>3, <1>4, <1>5, <1>6, <1>7, <1>8, <1>9, <1>10,
           <1>11, <1>12 DEF MainStep

LEMMA LockInvInit == Init => LockInv
BY DEF Init, LockInv, Sound, Quiet, IdleHasNothing, HeldIsThere, HeldIsOwned,
       WorkingHoldsAll, InNamespace, NoEntries

LEMMA LockInvNext == TInv /\ LockInv /\ [Next]_vars => LockInv'
<1> SUFFICES ASSUME TInv, LockInv, [Next]_vars, interrupts' = 0
             PROVE  Sound'
    BY DEF LockInv
<1> USE DEF Sound, Quiet, IdleHasNothing, HeldIsThere, GivenBack, HeldIsOwned,
            WorkingHoldsAll, InNamespace, fsVars, mainVars, sigVars
<1>1. interrupts = 0 => Sound
    BY DEF LockInv
<1>2. ASSUME NEW p \in Proc, NEW L \in Wanted, Start(p, L)
      PROVE  Sound'
    BY <1>1, <1>2 DEF Start, TInv, TypeOK
<1>3. ASSUME NEW p \in Proc, MainStep(p)
      PROVE  Sound'
    <2>1. interrupts' = interrupts
        BY <1>3 DEF MainStep, CreateNew, GiveUp, Register, WriteStamp, AcquireFails,
            FinishWork, ReleaseCheck, Unlink, RemovalFails, Deregister, Close, Exit, Gone
    <2> QED BY <1>1, <1>3, <2>1, MainStepSound
<1>4. ASSUME NEW p \in Proc, Interrupt(p)
      PROVE  Sound'
    BY <1>4 DEF Interrupt, TInv, TypeOK
<1>5. ASSUME NEW p \in Proc, NEW l \in Lock,
             SweepCheck(p, l) \/ SweepUnlink(p, l) \/ SweepFails(p, l)
      PROVE  Sound'
    BY <1>1, <1>5 DEF SweepCheck, SweepUnlink, SweepFails
<1>6. ASSUME NEW p \in Proc, DieBySignal(p) \/ Crash(p)
      PROVE  Sound'
    <2>1. interrupts' = interrupts /\ Gone(p)
        BY <1>6 DEF DieBySignal, Crash, Gone
    <2> QED BY <1>1, <2>1, GoneSound
<1>7. ASSUME NEW l \in Lock, OperatorRemoves(l)
      PROVE  Sound'
    <2>1. interrupts = 0 /\ Sound
        BY <1>1, <1>7 DEF OperatorRemoves
    <2>2. ASSUME NEW p \in Proc, held[p][l] # None
          PROVE  dir[l] # held[p][l]
        <3>1. CASE owner[dir[l]] = None
            BY <2>1, <2>2, <3>1, NoneAssumption
        <3>2. ASSUME NEW q \in Proc, SaysStale(q, l)
              PROVE  dir[l] # held[p][l]
            BY <2>1, <2>2, <3>2, StaleIsDead
        <3> QED BY <1>7, <3>1, <3>2 DEF OperatorRemoves
    <2>3. /\ \A k \in Lock : k # l => dir'[k] = dir[k]
          /\ stamp' = stamp /\ owner' = owner /\ held' = held /\ cur' = cur
          /\ pc' = pc /\ want' = want /\ sig' = sig
        BY <1>7 DEF OperatorRemoves, TInv, TypeOK, Entries
    <2>4. HeldIsThere'
        BY <2>1, <2>2, <2>3
    <2> QED BY <2>1, <2>3, <2>4
<1>8. CASE UNCHANGED vars
    BY <1>1, <1>8 DEF vars
<1> QED BY <1>2, <1>3, <1>4, <1>5, <1>6, <1>7, <1>8 DEF Next, SignalStep

LEMMA LockInvHolds == Spec => [](TInv /\ LockInv)
<1>1. Init => TInv /\ LockInv
    BY TInvInit, LockInvInit
<1>2. TInv /\ LockInv /\ [Next]_vars => (TInv /\ LockInv)'
    BY TInvNext, LockInvNext
<1> QED BY <1>1, <1>2, PTL DEF Spec

\* Two commands are never in one namespace at once, as long as no process has
\* been interrupted.
THEOREM Exclusion == Spec => []MutualExclusion
<1>1. TInv /\ LockInv => MutualExclusion
    BY SoundExcludes DEF LockInv, MutualExclusion
<1> QED BY <1>1, LockInvHolds, PTL

\* Until an interrupt is delivered, what a release unlinks is a file that the
\* same run created.
THEOREM OwnRemovals == Spec => RemovesOnlyItsOwn
<1> DEFINE A == interrupts = 0 =>
        \A p \in Proc, l \in Lock : RemovedBy(p, l) => owner[dir[l]] = p
<1>1. TInv /\ LockInv /\ [Next]_vars => A
    <2> SUFFICES ASSUME TInv, LockInv, interrupts = 0,
                        NEW p \in Proc, NEW l \in Lock, RemovedBy(p, l)
                 PROVE  owner[dir[l]] = p
        OBVIOUS
    <2>1. pc[p] \in {"unlink", "dropUnlink"} /\ cur[p] = l
        BY DEF RemovedBy, LockInv, Sound, Quiet
    <2>2. held[p][l] # None /\ dir[l] = held[p][l]
        BY <2>1 DEF LockInv, Sound, HeldIsThere, GivenBack, TInv, CurHeld, InHand
    <2> QED BY <2>2 DEF LockInv, Sound, HeldIsOwned
<1>2. TInv /\ LockInv /\ [Next]_vars => [A]_vars
    BY <1>1
<1>3. [](TInv /\ LockInv) /\ [][Next]_vars => [][A]_vars
    BY <1>2, PTL
<1> QED BY <1>3, LockInvHolds, PTL DEF Spec, RemovesOnlyItsOwn

-----------------------------------------------------------------------------
(***************************************************************************)
(* The registry, interrupts included: an entry is taken out before the     *)
(* handle it names is closed, unless acquire failed after registering.     *)
(***************************************************************************)
RegInv ==
    /\ RegistryHasHandle
    /\ \A p \in Proc : pc[p] = "close" => registry[p][cur[p]] = None

LEMMA RegInvNext == TInv /\ RegInv /\ [Next]_vars => RegInv'
<1> SUFFICES ASSUME TInv, RegInv, [Next]_vars PROVE RegInv'
    OBVIOUS
<1> USE NoneAssumption
    DEF TInv, TypeOK, CurHeld, InHand, RegInv, RegistryHasHandle, fsVars, sigVars
<1>1. ASSUME NEW p \in Proc, Gone(p)
      PROVE  RegInv'
    BY <1>1 DEF Gone, NoEntries
<1>2. ASSUME NEW p \in Proc, MainStep(p)
      PROVE  RegInv'
    <2>1. ASSUME NEW l \in Lock, NEW i \in Inode, CreateNew(p, l, i)
          PROVE  RegInv'
        BY <2>1 DEF CreateNew, Earliest, Todo, Handles, Entries
    <2>2. CASE GiveUp(p) \/ WriteStamp(p) \/ FinishWork(p) \/ Unlink(p)
        BY <2>2 DEF GiveUp, WriteStamp, FinishWork, Unlink
    <2>3. CASE Register(p)
        BY <2>3 DEF Register, Entries
    <2>4. CASE AcquireFails(p)
        BY <2>4 DEF AcquireFails, Entries
    <2>5. ASSUME NEW l \in Lock, ReleaseCheck(p, l)
          PROVE  RegInv'
        BY <2>5 DEF ReleaseCheck
    <2>6. CASE Deregister(p)
        BY <2>6 DEF Deregister, Entries
    <2>7. CASE Close(p)
        BY <2>7 DEF Close, Entries
    <2>8. CASE Exit(p)
        BY <2>8, <1>1 DEF Exit
    <2>9. ASSUME NEW l \in Lock, RemovalFails(p, l)
          PROVE  RegInv'
        BY <2>9, RemovalFailsKeeps
    <2> QED BY <1>2, <2>1, <2>2, <2>3, <2>4, <2>5, <2>6, <2>7, <2>8, <2>9 DEF MainStep
<1>3. ASSUME UNCHANGED mainVars
      PROVE  RegInv'
    BY <1>3 DEF mainVars
<1>4. ASSUME NEW p \in Proc, NEW L \in Wanted, Start(p, L)
      PROVE  RegInv'
    BY <1>4 DEF Start
<1>5. ASSUME NEW p \in Proc, Interrupt(p) \/ SignalStep(p) \/ Crash(p)
      PROVE  RegInv'
    <2>1. ASSUME NEW l \in Lock, SweepFails(p, l)
          PROVE  RegInv'
        BY <2>1 DEF SweepFails
    <2> QED BY <1>1, <1>3, <1>5, <2>1 DEF Interrupt, SignalStep, SweepCheck,
            SweepUnlink, DieBySignal, Crash, mainVars
<1>6. ASSUME NEW l \in Lock, OperatorRemoves(l)
      PROVE  RegInv'
    BY <1>3, <1>6 DEF OperatorRemoves, mainVars
<1>7. CASE UNCHANGED vars
    BY <1>3, <1>7 DEF vars, mainVars
<1> QED BY <1>2, <1>4, <1>5, <1>6, <1>7 DEF Next

\* An identity in the registry is that of an open handle of the process, so it
\* cannot have been given to another file, unless acquiring that lock failed.
THEOREM RegistrySound == Spec => []RegistryHasHandle
<1>1. Init => RegInv
    BY DEF Init, RegInv, RegistryHasHandle, NoEntries
<1>2. TInv /\ RegInv /\ [Next]_vars => RegInv'
    BY RegInvNext
<1> QED BY <1>1, <1>2, TInvHolds, PTL DEF Spec, RegInv

-----------------------------------------------------------------------------
(***************************************************************************)
(* The lock order: while a run acquires, every lock it holds comes before  *)
(* every lock it still has to take, whatever interrupts do.                *)
(***************************************************************************)
InOrder(p) == \A l \in Handles(p), k \in Todo(p) : Rank[l] < Rank[k]

OrderInv ==
    /\ IdleHasNothing
    /\ \A p \in Proc : pc[p] \in {"acquire", "opened", "stamp"} => InOrder(p)

LEMMA OrderInvNext == TInv /\ OrderInv /\ [Next]_vars => OrderInv'
<1> SUFFICES ASSUME TInv, OrderInv, [Next]_vars PROVE OrderInv'
    OBVIOUS
<1> USE RankAssumption, NoneAssumption
    DEF TInv, TypeOK, CurHeld, InHand, OrderInv, IdleHasNothing, InOrder, Handles,
        Todo, fsVars, sigVars
<1>1. ASSUME NEW p \in Proc, Gone(p)
      PROVE  OrderInv'
    BY <1>1 DEF Gone, NoEntries
<1>2. ASSUME NEW p \in Proc, NEW L \in Wanted, Start(p, L)
      PROVE  OrderInv'
    BY <1>2 DEF Start
<1>3. ASSUME NEW p \in Proc, MainStep(p)
      PROVE  OrderInv'
    <2>1. ASSUME NEW l \in Lock, NEW i \in Inode, CreateNew(p, l, i)
          PROVE  OrderInv'
        <3>1. /\ pc[p] = "acquire" /\ want' = want
              /\ pc' = [pc EXCEPT ![p] = "opened"]
              /\ Handles(p)' = Handles(p) \cup {l}
              /\ \A q \in Proc \ {p} : held'[q] = held[q]
            BY <2>1 DEF CreateNew, Entries
        <3>2. l \in Todo(p) /\ \A k \in Todo(p) : Rank[l] <= Rank[k]
            BY <2>1 DEF CreateNew, Earliest
        <3>3. Todo(p)' = Todo(p) \ {l}
            BY <3>1
        <3>4. InOrder(p)'
            <4>1. ASSUME NEW k \in Todo(p) \ {l}
                  PROVE  Rank[l] < Rank[k]
                <5>1. Rank[l] \in Nat /\ Rank[k] \in Nat /\ Rank[l] # Rank[k]
                    BY <3>2
                <5>2. Rank[l] <= Rank[k]
                    BY <3>2
                <5> QED BY <5>1, <5>2
            <4>2. \A h \in Handles(p), k \in Todo(p) : Rank[h] < Rank[k]
                BY <3>1
            <4>3. ASSUME NEW h \in Handles(p) \cup {l}, NEW k \in Todo(p) \ {l}
                  PROVE  Rank[h] < Rank[k]
                BY <4>1, <4>2, <4>3
            <4> QED BY <3>1, <3>3, <4>3
        <3> QED BY <3>1, <3>4
    <2>2. CASE GiveUp(p) \/ Register(p) \/ WriteStamp(p) \/ FinishWork(p) \/ Unlink(p)
                \/ Deregister(p)
        BY <2>2 DEF GiveUp, Register, WriteStamp, FinishWork, Unlink, Deregister
    <2>3. CASE AcquireFails(p) \/ Close(p)
        BY <2>3 DEF AcquireFails, Close
    <2>4. ASSUME NEW l \in Lock, ReleaseCheck(p, l)
          PROVE  OrderInv'
        BY <2>4 DEF ReleaseCheck
    <2>5. CASE Exit(p)
        BY <2>5, <1>1 DEF Exit
    <2>6. ASSUME NEW l \in Lock, RemovalFails(p, l)
          PROVE  OrderInv'
        BY <2>6, RemovalFailsKeeps DEF Removing
    <2> QED BY <1>3, <2>1, <2>2, <2>3, <2>4, <2>5, <2>6 DEF MainStep
<1>4. ASSUME UNCHANGED mainVars
      PROVE  OrderInv'
    BY <1>4 DEF mainVars
<1>5. ASSUME NEW p \in Proc, Interrupt(p) \/ SignalStep(p) \/ Crash(p)
      PROVE  OrderInv'
    <2>1. ASSUME NEW l \in Lock, SweepFails(p, l)
          PROVE  OrderInv'
        BY <2>1 DEF SweepFails
    <2> QED BY <1>1, <1>4, <1>5, <2>1 DEF Interrupt, SignalStep, SweepCheck,
            SweepUnlink, DieBySignal, Crash, mainVars
<1>6. ASSUME NEW l \in Lock, OperatorRemoves(l)
      PROVE  OrderInv'
    BY <1>4, <1>6 DEF OperatorRemoves, mainVars
<1>7. CASE UNCHANGED vars
    BY <1>4, <1>7 DEF vars, mainVars
<1> QED BY <1>2, <1>3, <1>5, <1>6, <1>7 DEF Next

\* No two runs wait for each other, for any number of locks and processes.
THEOREM NoDeadlock == Spec => []NoMutualWait
<1>1. Init => OrderInv
    BY DEF Init, OrderInv, IdleHasNothing, NoEntries
<1>2. TInv /\ OrderInv /\ [Next]_vars => OrderInv'
    BY OrderInvNext
<1>3. TInv /\ OrderInv => NoMutualWait
    <2> SUFFICES ASSUME OrderInv, NEW p \in Proc, NEW q \in Proc,
                        WaitsFor(p, q), WaitsFor(q, p)
                 PROVE  FALSE
        BY DEF NoMutualWait
    <2>1. PICK l \in Todo(p) : l \in Handles(q)
        BY DEF WaitsFor, Earliest
    <2>2. PICK k \in Todo(q) : k \in Handles(p)
        BY DEF WaitsFor, Earliest
    <2>3. Rank[k] < Rank[l] /\ Rank[l] < Rank[k]
        BY <2>1, <2>2 DEF OrderInv, InOrder, WaitsFor
    <2> QED BY <2>1, <2>2, <2>3, RankAssumption DEF Handles
<1> QED BY <1>1, <1>2, <1>3, TInvHolds, PTL DEF Spec

-----------------------------------------------------------------------------
(***************************************************************************)
(* What a run leaves. A lock file whose owner is p is the one p created    *)
(* for that lock: p creates at most one for each, since while it acquires  *)
(* the handles of those it has are open.                                   *)
(***************************************************************************)
Own(p, l) == dir[l] # None /\ owner[dir[l]] = p

\* The handle of a file that p created and that is still there is open, and is
\* not about to be closed, unless p gave up on it.
OwnIsHeld == \A p \in Proc, l \in Lock :
    ~GivenUp(p, l) /\ Own(p, l) => held[p][l] = dir[l] /\ ~GivenBack(p, l)

LEMMA OwnStays ==
    ASSUME TInv, UNCHANGED <<dir, owner>>
    PROVE  \A p \in Proc, l \in Lock : Own(p, l)' <=> Own(p, l)
BY DEF Own

LEMMA GoneOwnsNothing ==
    ASSUME TInv, NEW p \in Proc, Gone(p)
    PROVE  \A l \in Lock : /\ ~Own(p, l)'
                           /\ \A q \in Proc \ {p} : Own(q, l)' <=> Own(q, l)
BY NoneAssumption DEF TInv, TypeOK, Entries, Gone, Own

LEMMA CreateNewOwns ==
    ASSUME TInv, NEW p \in Proc, NEW l \in Lock, NEW i \in Inode, CreateNew(p, l, i)
    PROVE  /\ dir'[l] = i /\ held'[p][l] = i /\ held[p][l] = None
           /\ \A q \in Proc, k \in Lock : k # l => (Own(q, k)' <=> Own(q, k)) /\ dir'[k] = dir[k]
           /\ \A q \in Proc : Own(q, l)' <=> q = p
<1> USE NoneAssumption DEF TInv, TypeOK, Entries, CreateNew
<1>1. dir'[l] = i /\ held'[p][l] = i /\ held[p][l] = None
    BY DEF Earliest, Todo, Handles
<1>2. \A k \in Lock : k # l => dir'[k] = dir[k] /\ dir[k] # i
    BY DEF FreeInode
<1>3. owner'[i] = p /\ \A j \in Inode : j # i => owner'[j] = owner[j]
    OBVIOUS
<1> QED BY <1>1, <1>2, <1>3 DEF Own

\* Taking a file away takes nothing else.
LEMMA RemovedOwns ==
    ASSUME TInv, NEW l \in Lock, dir' = [dir EXCEPT ![l] = None], owner' = owner
    PROVE  \A q \in Proc, k \in Lock :
               /\ Own(q, k)' => Own(q, k) /\ dir'[k] = dir[k] /\ k # l
BY DEF TInv, TypeOK, Entries, Own

LEMMA OwnIsHeldNext == TInv /\ OwnIsHeld /\ [Next]_vars => OwnIsHeld'
<1> SUFFICES ASSUME TInv, OwnIsHeld, [Next]_vars PROVE OwnIsHeld'
    OBVIOUS
<1> USE NoneAssumption DEF TInv, TypeOK, CurHeld, InHand, OwnIsHeld, GivenUp, GivenBack, fsVars
<1>1. ASSUME NEW p \in Proc, Gone(p)
      PROVE  OwnIsHeld'
    <2>1. /\ \A q \in Proc \ {p} : /\ held'[q] = held[q] /\ pc'[q] = pc[q]
                                   /\ cur'[q] = cur[q]
          /\ \A q \in Proc \ {p} : failed'[q] = failed[q]
          /\ dir' = dir
        BY <1>1 DEF Gone
    <2> QED BY <1>1, <2>1, GoneOwnsNothing
<1>2. ASSUME NEW p \in Proc, MainStep(p)
      PROVE  OwnIsHeld'
    <2>1. ASSUME NEW l \in Lock, NEW i \in Inode, CreateNew(p, l, i)
          PROVE  OwnIsHeld'
        <3>1. /\ pc[p] = "acquire" /\ pc'[p] = "opened" /\ failed' = failed
              /\ \A q \in Proc \ {p} : held'[q] = held[q] /\ pc'[q] = pc[q] /\ cur'[q] = cur[q]
              /\ \A k \in Lock \ {l} : held'[p][k] = held[p][k]
            BY <2>1 DEF CreateNew, Entries
        <3> QED BY <2>1, <3>1, CreateNewOwns
    <2>2. CASE GiveUp(p) \/ WriteStamp(p) \/ FinishWork(p) \/ Register(p)
        <3>1. /\ UNCHANGED <<dir, owner, held, cur, failed>>
              /\ pc'[p] \notin {"deregister", "close"}
              /\ \A q \in Proc \ {p} : pc'[q] = pc[q]
            BY <2>2 DEF GiveUp, WriteStamp, FinishWork, Register
        <3> QED BY <3>1 DEF Own
    <2>3. CASE AcquireFails(p)
        BY <2>3 DEF AcquireFails, Own
    <2>4. ASSUME NEW l \in Lock, ReleaseCheck(p, l)
          PROVE  OwnIsHeld'
        BY <2>4 DEF ReleaseCheck, Own
    <2>5. CASE Unlink(p)
        <3>1. /\ owner' = owner /\ held' = held /\ cur' = cur /\ failed' = failed
              /\ cur[p] \in Lock /\ dir' = [dir EXCEPT ![cur[p]] = None]
              /\ \A q \in Proc \ {p} : pc'[q] = pc[q]
            BY <2>5 DEF Unlink
        <3>2. \A q \in Proc, k \in Lock :
                  Own(q, k)' => Own(q, k) /\ dir'[k] = dir[k] /\ k # cur[p]
            BY <3>1, RemovedOwns
        <3> QED BY <3>1, <3>2
    <2>6. CASE Deregister(p)
        BY <2>6 DEF Deregister, Own
    <2>7. CASE Close(p)
        <3>1. /\ UNCHANGED <<dir, owner, cur, failed>> /\ pc[p] = "close" /\ cur[p] \in Lock
              /\ pc'[p] = "unlock"
              /\ \A q \in Proc \ {p} : pc'[q] = pc[q] /\ held'[q] = held[q]
              /\ \A k \in Lock \ {cur[p]} : held'[p][k] = held[p][k]
            BY <2>7 DEF Close, Entries
        <3> QED BY <3>1 DEF Own
    <2>8. CASE Exit(p)
        BY <2>8, <1>1 DEF Exit
    <2>9. ASSUME NEW l \in Lock, RemovalFails(p, l)
          PROVE  OwnIsHeld'
        <3>1. /\ UNCHANGED <<dir, owner, held>> /\ cur'[p] = l /\ pc[p] \in Removing
              /\ \A q \in Proc \ {p} : /\ pc'[q] = pc[q] /\ cur'[q] = cur[q]
                                       /\ failed'[q] = failed[q]
              /\ \/ pc'[p] = "drop" /\ failed'[p] = failed[p]
                 \/ pc'[p] = "deregister" /\ failed'[p] = failed[p] \cup {<<"release", l>>}
            BY <2>9, RemovalFailsKeeps
        <3> QED BY <3>1 DEF Own, Removing
    <2> QED BY <1>2, <2>1, <2>2, <2>3, <2>4, <2>5, <2>6, <2>7, <2>8, <2>9 DEF MainStep
<1>3. ASSUME UNCHANGED <<dir, owner, mainVars>>
      PROVE  OwnIsHeld'
    BY <1>3 DEF mainVars, Own
<1>4. ASSUME NEW l \in Lock, dir' = [dir EXCEPT ![l] = None], UNCHANGED <<owner, mainVars>>
      PROVE  OwnIsHeld'
    <2>1. \A q \in Proc, k \in Lock : Own(q, k)' => Own(q, k) /\ dir'[k] = dir[k]
        BY <1>4, RemovedOwns
    <2>2. UNCHANGED <<held, pc, cur, failed>>
        BY <1>4 DEF mainVars
    <2> QED BY <2>1, <2>2
<1>5. ASSUME NEW p \in Proc, NEW L \in Wanted, Start(p, L)
      PROVE  OwnIsHeld'
    BY <1>5 DEF Start, Own
<1>6. ASSUME NEW p \in Proc, Interrupt(p) \/ SignalStep(p) \/ Crash(p)
      PROVE  OwnIsHeld'
    <2>1. ASSUME NEW l \in Lock, SweepFails(p, l)
          PROVE  OwnIsHeld'
        BY <2>1 DEF SweepFails, Own
    <2> QED BY <1>1, <1>3, <1>4, <1>6, <2>1 DEF Interrupt, SignalStep, SweepCheck,
            SweepUnlink, DieBySignal, Crash
<1>7. ASSUME NEW l \in Lock, OperatorRemoves(l)
      PROVE  OwnIsHeld'
    BY <1>4, <1>7 DEF OperatorRemoves
<1>8. CASE UNCHANGED vars
    BY <1>3, <1>8 DEF vars
<1> QED BY <1>2, <1>5, <1>6, <1>7, <1>8 DEF Next

LEMMA OwnIsHeldHolds == Spec => [](TInv /\ OwnIsHeld)
<1>1. Init => OwnIsHeld
    BY DEF Init, OwnIsHeld, Own, NoEntries
<1> QED BY <1>1, OwnIsHeldNext, TInvHolds, PTL DEF Spec

\* A run that returns from main leaves no lock file of its own behind but those
\* whose own acquire or removal failed, whatever else fails and whatever
\* signals and people do meanwhile: one failure never costs another lock.
THEOREM NothingLeft == Spec => NoLockLeftBehind
<1> DEFINE A == \A p \in Proc, l \in Lock :
        /\ Exit(p)
        /\ ~GivenUp(p, l)
        /\ dir[l] # None
        => owner[dir[l]] # p
<1>1. TInv /\ OwnIsHeld => A
    BY NoneAssumption DEF OwnIsHeld, Own, Exit, Handles, TInv, TypeOK, Entries
<1>2. [](TInv /\ OwnIsHeld) => [][A]_vars
    BY <1>1, PTL
<1> QED BY <1>2, OwnIsHeldHolds, PTL DEF NoLockLeftBehind

-----------------------------------------------------------------------------
(***************************************************************************)
(* What an interrupted run leaves. The signal thread works on a copy of    *)
(* the registry, so the copy has to stay true while the main thread goes   *)
(* on: a lock it names is not taken a second time, and a file of p's own   *)
(* that is still there is the one every record of that lock names.         *)
(***************************************************************************)
Acquiring == {"acquire", "opened", "stamp"}

IdleIsClean == \A p \in Proc, l \in Lock :
    pc[p] = "idle" => held[p][l] = None /\ registry[p][l] = None /\ sweep[p][l] = None

NotTakenTwice == \A p \in Proc, l \in Lock :
    pc[p] \in Acquiring /\ held[p][l] = None =>
        registry[p][l] = None /\ sweep[p][l] = None

OwnIsNamed == \A p \in Proc, l \in Lock :
    Own(p, l) => /\ held[p][l] \in {None, dir[l]}
                 /\ registry[p][l] \in {None, dir[l]}
                 /\ sweep[p][l] \in {None, dir[l]}

VisitedIsGone == \A p \in Proc :
    /\ sig[p] = "off" => visited[p] = {}
    /\ \A l \in visited[p] :
          sweep[p][l] # None /\ <<"sweep", l>> \notin failed[p] => ~Own(p, l)

SweepInv == IdleIsClean /\ NotTakenTwice /\ OwnIsNamed /\ VisitedIsGone

LEMMA GoneSwept ==
    ASSUME TInv, SweepInv, NEW p \in Proc, Gone(p)
    PROVE  SweepInv'
<1> USE DEF TInv, TypeOK, SweepInv, IdleIsClean, NotTakenTwice, OwnIsNamed, VisitedIsGone
<1>1. /\ pc'[p] = "idle" /\ sig'[p] = "off" /\ visited'[p] = {} /\ dir' = dir
      /\ \A l \in Lock : held'[p][l] = None /\ registry'[p][l] = None /\ sweep'[p][l] = None
      /\ \A q \in Proc \ {p} : /\ pc'[q] = pc[q] /\ held'[q] = held[q]
                               /\ registry'[q] = registry[q] /\ sweep'[q] = sweep[q]
                               /\ sig'[q] = sig[q] /\ visited'[q] = visited[q]
                               /\ failed'[q] = failed[q]
    BY DEF Gone, NoEntries
<1>2. IdleIsClean' /\ NotTakenTwice'
    BY <1>1
<1>3. OwnIsNamed' /\ VisitedIsGone'
    BY <1>1, GoneOwnsNothing
<1> QED BY <1>2, <1>3

\* A step that neither creates a file nor changes who owns one keeps what is
\* said of the copies, when no record of a lock becomes another.
LEMMA RemovalSwept ==
    ASSUME TInv, SweepInv, owner' = owner,
           dir' = dir \/ \E l \in Lock : dir' = [dir EXCEPT ![l] = None],
           \A p \in Proc, l \in Lock :
               /\ held'[p][l] \in {None, held[p][l]}
               /\ registry'[p][l] \in {None, registry[p][l], held[p][l]}
               /\ sweep'[p][l] \in {sweep[p][l], registry[p][l]}
    PROVE  OwnIsNamed'
<1>1. \A q \in Proc, k \in Lock : Own(q, k)' => Own(q, k) /\ dir'[k] = dir[k]
    <2>1. CASE dir' = dir
        BY <2>1 DEF Own
    <2>2. ASSUME NEW l \in Lock, dir' = [dir EXCEPT ![l] = None]
          PROVE  \A q \in Proc, k \in Lock : Own(q, k)' => Own(q, k) /\ dir'[k] = dir[k]
        BY <2>2, RemovedOwns
    <2> QED BY <2>1, <2>2
<1> QED BY <1>1 DEF SweepInv, OwnIsNamed

LEMMA MainStepSwept ==
    ASSUME TInv, SweepInv, NEW p \in Proc, MainStep(p)
    PROVE  SweepInv'
<1> USE NoneAssumption
    DEF TInv, TypeOK, CurHeld, InHand, SweepInv, IdleIsClean, NotTakenTwice,
        VisitedIsGone, Acquiring, fsVars, sigVars
<1>1. ASSUME NEW l \in Lock, NEW i \in Inode, CreateNew(p, l, i)
      PROVE  SweepInv'
    <2>1. /\ pc[p] = "acquire" /\ pc'[p] = "opened" /\ failed' = failed
          /\ registry' = registry /\ sweep' = sweep /\ visited' = visited /\ sig' = sig
          /\ \A q \in Proc \ {p} : held'[q] = held[q] /\ pc'[q] = pc[q]
          /\ \A k \in Lock \ {l} : held'[p][k] = held[p][k]
        BY <1>1 DEF CreateNew, Entries
    <2>2. dir'[l] = i /\ held'[p][l] = i /\ registry[p][l] = None /\ sweep[p][l] = None
        BY <1>1, <2>1, CreateNewOwns
    <2>3. \A q \in Proc, k \in Lock :
              q # p \/ k # l => (Own(q, k)' => Own(q, k) /\ dir'[k] = dir[k])
        BY <1>1, CreateNewOwns
    <2>4. OwnIsNamed'
        BY <2>1, <2>2, <2>3 DEF OwnIsNamed
    <2>5. VisitedIsGone'
        BY <2>1, <2>2, <2>3
    <2>6. IdleIsClean' /\ NotTakenTwice'
        BY <2>1, <2>2
    <2> QED BY <2>4, <2>5, <2>6
<1>2. CASE GiveUp(p) \/ WriteStamp(p) \/ FinishWork(p)
    BY <1>2 DEF GiveUp, WriteStamp, FinishWork, OwnIsNamed, Own
<1>3. CASE Register(p)
    <2>1. /\ UNCHANGED <<dir, owner, held, sweep, visited, sig, failed>>
          /\ pc[p] = "opened" /\ pc'[p] = "stamp" /\ held[p][cur[p]] # None
          /\ \A q \in Proc \ {p} : pc'[q] = pc[q]
          /\ \A q \in Proc, l \in Lock :
                /\ registry'[q][l] \in {registry[q][l], held[q][l]}
                /\ q # p => registry'[q][l] = registry[q][l]
        BY <1>3 DEF Register, Entries
    <2>2. OwnIsNamed'
        BY <2>1, RemovalSwept
    <2> QED BY <2>1, <2>2 DEF Own
<1>4. CASE AcquireFails(p) \/ Close(p) \/ Deregister(p)
    <2>1. /\ UNCHANGED <<dir, owner, sweep, visited, sig>> /\ pc'[p] \in {"unlock", "close"}
          /\ \A q \in Proc \ {p} : /\ pc'[q] = pc[q] /\ held'[q] = held[q]
                                   /\ registry'[q] = registry[q]
          /\ \A q \in Proc : failed[q] \subseteq failed'[q]
          /\ \A q \in Proc, l \in Lock : /\ held'[q][l] \in {None, held[q][l]}
                                         /\ registry'[q][l] \in {None, registry[q][l]}
        <3>1. CASE AcquireFails(p)
            BY <3>1 DEF AcquireFails, Entries
        <3>2. CASE Close(p)
            BY <3>2 DEF Close, Entries
        <3>3. CASE Deregister(p)
            BY <3>3 DEF Deregister, Entries
        <3> QED BY <1>4, <3>1, <3>2, <3>3
    <2>2. OwnIsNamed'
        BY <2>1, RemovalSwept
    <2> QED BY <2>1, <2>2 DEF Own
<1>5. ASSUME NEW l \in Lock, ReleaseCheck(p, l)
      PROVE  SweepInv'
    BY <1>5 DEF ReleaseCheck, OwnIsNamed, Own
<1>6. CASE Unlink(p)
    <2>1. /\ UNCHANGED <<owner, held, registry, sweep, visited, sig, failed>> /\ pc'[p] = "deregister"
          /\ cur[p] \in Lock /\ dir' = [dir EXCEPT ![cur[p]] = None]
          /\ \A q \in Proc \ {p} : pc'[q] = pc[q]
        BY <1>6 DEF Unlink
    <2>2. OwnIsNamed'
        BY <2>1, RemovalSwept
    <2>3. \A q \in Proc, k \in Lock : Own(q, k)' => Own(q, k)
        BY <2>1, RemovedOwns
    <2> QED BY <2>1, <2>2, <2>3
<1>7. CASE Exit(p)
    BY <1>7, GoneSwept DEF Exit
<1>8. ASSUME NEW l \in Lock, RemovalFails(p, l)
      PROVE  SweepInv'
    <2>1. /\ UNCHANGED <<dir, owner, held, registry, sweep, visited, sig>>
          /\ pc[p] \in Removing /\ pc'[p] \in {"drop", "deregister"}
          /\ \A q \in Proc \ {p} : pc'[q] = pc[q]
          /\ \A q \in Proc : failed[q] \subseteq failed'[q]
        BY <1>8, RemovalFailsKeeps DEF sigVars
    <2> QED BY <2>1 DEF OwnIsNamed, Own, Removing
<1> QED BY <1>1, <1>2, <1>3, <1>4, <1>5, <1>6, <1>7, <1>8 DEF MainStep

LEMMA SweepInvNext == TInv /\ SweepInv /\ [Next]_vars => SweepInv'
<1> SUFFICES ASSUME TInv, SweepInv, [Next]_vars PROVE SweepInv'
    OBVIOUS
<1> USE NoneAssumption
    DEF TInv, TypeOK, CurHeld, InHand, SweepInv, IdleIsClean, NotTakenTwice,
        VisitedIsGone, Acquiring, fsVars, mainVars
<1>1. ASSUME NEW p \in Proc, NEW L \in Wanted, Start(p, L)
      PROVE  SweepInv'
    BY <1>1 DEF Start, OwnIsNamed, Own, sigVars
<1>2. ASSUME NEW p \in Proc, Interrupt(p)
      PROVE  SweepInv'
    <2>1. /\ UNCHANGED <<dir, owner, pc, held, registry, visited, failed>>
          /\ sig[p] = "off" /\ pc[p] # "idle" /\ sweep'[p] = registry[p]
          /\ \A q \in Proc \ {p} : sweep'[q] = sweep[q] /\ sig'[q] = sig[q]
        BY <1>2 DEF Interrupt, Live
    <2>2. OwnIsNamed'
        BY <2>1, RemovalSwept
    <2>3. visited'[p] = {} /\ \A q \in Proc, k \in Lock : Own(q, k)' <=> Own(q, k)
        BY <2>1 DEF Own
    <2> QED BY <2>1, <2>2, <2>3
<1>3. ASSUME NEW p \in Proc, NEW l \in Lock, SweepCheck(p, l)
      PROVE  SweepInv'
    <2>1. /\ UNCHANGED <<dir, owner, pc, held, registry, sweep, failed>>
          /\ sig[p] = "check" /\ sig'[p] # "off" /\ sweep[p][l] # None
          /\ visited'[p] = IF dir[l] = sweep[p][l] THEN visited[p] ELSE visited[p] \cup {l}
          /\ \A q \in Proc \ {p} : visited'[q] = visited[q] /\ sig'[q] = sig[q]
        <3>1. sig[p] = "check" /\ UNCHANGED <<dir, owner, pc, held, registry, sweep, failed>>
            BY <1>3 DEF SweepCheck
        <3>2. sweep[p][l] # None
            BY <1>3 DEF SweepCheck, Unvisited, Earliest
        <3>3. CASE dir[l] = sweep[p][l]
            BY <1>3, <3>1, <3>2, <3>3 DEF SweepCheck
        <3>4. CASE dir[l] # sweep[p][l]
            BY <1>3, <3>1, <3>2, <3>4 DEF SweepCheck
        <3> QED BY <3>3, <3>4
    <2>2. /\ OwnIsNamed'
          /\ \A q \in Proc, k \in Lock : Own(q, k)' <=> Own(q, k)
        BY <2>1 DEF OwnIsNamed, Own
    <2>3. dir[l] # sweep[p][l] => ~Own(p, l)
        BY <2>1 DEF OwnIsNamed
    <2>4. IdleIsClean'
        BY <2>1, <2>2
    <2>5. NotTakenTwice'
        BY <2>1, <2>2
    <2>6. VisitedIsGone'
        <3>1. \A q \in Proc : sig'[q] = "off" => visited'[q] = {}
            BY <2>1
        <3>2. ASSUME NEW q \in Proc, NEW k \in visited'[q], sweep[q][k] # None,
                     <<"sweep", k>> \notin failed[q]
              PROVE  ~Own(q, k)
            <4>1. k \in visited[q] \/ (q = p /\ k = l /\ dir[l] # sweep[p][l])
                BY <2>1, <3>2
            <4> QED BY <2>3, <3>2, <4>1
        <3>3. \A q \in Proc : visited'[q] \in SUBSET Lock
            BY <2>1
        <3> QED BY <2>1, <2>2, <3>1, <3>2, <3>3
    <2> QED BY <2>2, <2>4, <2>5, <2>6
<1>4. ASSUME NEW p \in Proc, NEW l \in Lock, SweepUnlink(p, l)
      PROVE  SweepInv'
    <2>1. /\ UNCHANGED <<owner, pc, held, registry, sweep, failed>>
          /\ sig'[p] # "off" /\ dir' = [dir EXCEPT ![l] = None]
          /\ visited'[p] = visited[p] \cup {l}
          /\ \A q \in Proc \ {p} : visited'[q] = visited[q] /\ sig'[q] = sig[q]
        BY <1>4 DEF SweepUnlink
    <2>2. OwnIsNamed'
        BY <2>1, RemovalSwept
    <2>3. \A q \in Proc, k \in Lock : Own(q, k)' => Own(q, k) /\ k # l
        BY <2>1, RemovedOwns
    <2> QED BY <2>1, <2>2, <2>3
<1>5. ASSUME NEW l \in Lock, OperatorRemoves(l)
      PROVE  SweepInv'
    <2>1. /\ UNCHANGED <<owner, pc, held, registry, sweep, visited, sig, failed>>
          /\ dir' = [dir EXCEPT ![l] = None]
        BY <1>5 DEF OperatorRemoves, sigVars
    <2>2. OwnIsNamed'
        BY <2>1, RemovalSwept
    <2>3. \A q \in Proc, k \in Lock : Own(q, k)' => Own(q, k)
        BY <2>1, RemovedOwns
    <2> QED BY <2>1, <2>2, <2>3
<1>6. ASSUME NEW p \in Proc, DieBySignal(p) \/ Crash(p)
      PROVE  SweepInv'
    BY <1>6, GoneSwept DEF DieBySignal, Crash
<1>7. CASE UNCHANGED vars
    BY <1>7 DEF vars, sigVars, OwnIsNamed, Own
<1>8. ASSUME NEW p \in Proc, NEW l \in Lock, SweepFails(p, l)
      PROVE  SweepInv'
    <2>1. /\ UNCHANGED <<dir, owner, pc, held, registry, sweep>>
          /\ sig'[p] # "off" /\ visited'[p] = visited[p] \cup {l}
          /\ failed'[p] = failed[p] \cup {<<"sweep", l>>}
          /\ \A q \in Proc \ {p} : /\ visited'[q] = visited[q] /\ sig'[q] = sig[q]
                                   /\ failed'[q] = failed[q]
        BY <1>8 DEF SweepFails
    <2>2. /\ OwnIsNamed'
          /\ \A q \in Proc, k \in Lock : Own(q, k)' <=> Own(q, k)
        BY <2>1 DEF OwnIsNamed, Own
    <2>3. IdleIsClean' /\ NotTakenTwice'
        BY <2>1
    <2>4. VisitedIsGone'
        BY <2>1, <2>2
    <2> QED BY <2>2, <2>3, <2>4
<1> QED BY <1>1, <1>2, <1>3, <1>4, <1>5, <1>6, <1>7, <1>8, MainStepSwept
        DEF Next, SignalStep

LEMMA SweepInvHolds == Spec => [](TInv /\ SweepInv)
<1>1. Init => SweepInv
    BY DEF Init, SweepInv, IdleIsClean, NotTakenTwice, OwnIsNamed, VisitedIsGone, Own,
           NoEntries
<1> QED BY <1>1, SweepInvNext, TInvHolds, PTL DEF Spec

\* When an interrupted run ends, none of the locks in its registry when the
\* signal came is left but those the sweep itself failed to remove, however
\* the two threads interleave and whatever the main thread failed to give back.
THEOREM InterruptLeavesNothing == Spec => InterruptReleases
<1> DEFINE A == \A p \in Proc, l \in Lock :
        /\ DieBySignal(p)
        /\ sweep[p][l] # None
        /\ <<"sweep", l>> \notin failed[p]
        /\ dir[l] # None
        => owner[dir[l]] # p
<1>1. TInv /\ SweepInv => A
    BY DEF SweepInv, VisitedIsGone, Own, DieBySignal, Unvisited
<1>2. [](TInv /\ SweepInv) => [][A]_vars
    BY <1>1, PTL
<1> QED BY <1>2, SweepInvHolds, PTL DEF InterruptReleases

-----------------------------------------------------------------------------
(***************************************************************************)
(* The lock files implement locks. An owner is alive, and its inode bears  *)
(* no other stamp, so a lock a message calls stale is an abandoned one.    *)
(***************************************************************************)
OwnersLive == \A i \in Inode :
    owner[i] # None => Live(owner[i]) /\ stamp[i] \in {owner[i], None}

RefInv == interrupts = 0 => Sound /\ OwnersLive

LEMMA MainStepOwners ==
    ASSUME TInv, Sound, OwnersLive, NEW p \in Proc, MainStep(p)
    PROVE  OwnersLive'
<1> USE NoneAssumption DEF TInv, TypeOK, OwnersLive, Live, fsVars
<1>1. ASSUME UNCHANGED <<stamp, owner>>, pc[p] # "idle" => pc'[p] # "idle",
             \A q \in Proc \ {p} : pc'[q] = pc[q]
      PROVE  OwnersLive'
    BY <1>1
<1>2. ASSUME NEW l \in Lock, NEW i \in Inode, CreateNew(p, l, i)
      PROVE  OwnersLive'
    BY <1>2 DEF CreateNew
<1>3. CASE GiveUp(p) \/ Register(p) \/ AcquireFails(p) \/ FinishWork(p) \/ Unlink(p)
            \/ Deregister(p) \/ Close(p)
    BY <1>1, <1>3 DEF GiveUp, Register, AcquireFails, FinishWork, Unlink, Deregister, Close
<1>4. ASSUME NEW l \in Lock, RemovalFails(p, l)
      PROVE  OwnersLive'
    BY <1>1, <1>4, RemovalFailsKeeps
<1>5. CASE WriteStamp(p)
    <2>1. owner[held[p][cur[p]]] = p /\ held[p][cur[p]] \in Inode
        BY <1>5 DEF WriteStamp, CurHeld, InHand, Sound, HeldIsOwned, Entries
    <2> QED BY <1>5, <2>1 DEF WriteStamp
<1>6. ASSUME NEW l \in Lock, ReleaseCheck(p, l)
      PROVE  OwnersLive'
    BY <1>1, <1>6 DEF ReleaseCheck
<1>7. CASE Exit(p)
    BY <1>7 DEF Exit, Gone
<1> QED BY <1>2, <1>3, <1>4, <1>5, <1>6, <1>7 DEF MainStep

\* An interrupt that was delivered stays counted.
LEMMA NoneYet ==
    ASSUME TInv, [Next]_vars, interrupts' = 0
    PROVE  interrupts = 0
<1>1. ASSUME NEW p \in Proc, MainStep(p) PROVE interrupts' = interrupts
    <2>1. ASSUME NEW l \in Lock, NEW i \in Inode, CreateNew(p, l, i)
          PROVE  interrupts' = interrupts
        BY <2>1 DEF CreateNew
    <2>2. ASSUME NEW l \in Lock, ReleaseCheck(p, l) PROVE interrupts' = interrupts
        BY <2>2 DEF ReleaseCheck
    <2>3. CASE GiveUp(p) \/ Register(p) \/ WriteStamp(p) \/ AcquireFails(p) \/ FinishWork(p)
        BY <2>3 DEF GiveUp, Register, WriteStamp, AcquireFails, FinishWork
    <2>4. CASE Unlink(p) \/ Deregister(p) \/ Close(p) \/ Exit(p)
        BY <2>4 DEF Unlink, Deregister, Close, Exit, Gone
    <2>5. ASSUME NEW l \in Lock, RemovalFails(p, l) PROVE interrupts' = interrupts
        BY <2>5 DEF RemovalFails
    <2> QED BY <1>1, <2>1, <2>2, <2>3, <2>4, <2>5 DEF MainStep
<1>2. ASSUME NEW p \in Proc, SignalStep(p) PROVE interrupts' = interrupts
    BY <1>2 DEF SignalStep, SweepCheck, SweepUnlink, SweepFails, DieBySignal, Gone
<1>3. ASSUME NEW p \in Proc, Interrupt(p) PROVE interrupts' = interrupts + 1
    BY <1>3 DEF Interrupt
<1>4. \A p \in Proc, L \in Wanted : Start(p, L) => interrupts' = interrupts
    BY DEF Start
<1>5. \A p \in Proc : Crash(p) => interrupts' = interrupts
    BY DEF Crash, Gone
<1>6. \A l \in Lock : OperatorRemoves(l) => interrupts' = interrupts
    BY DEF OperatorRemoves
<1>7. interrupts \in Nat
    BY InterruptAssumption DEF TInv, TypeOK
<1> QED BY <1>1, <1>2, <1>3, <1>4, <1>5, <1>6, <1>7 DEF Next, vars

LEMMA RefInvNext == TInv /\ RefInv /\ [Next]_vars => RefInv'
<1> SUFFICES ASSUME TInv, RefInv, [Next]_vars, interrupts' = 0
             PROVE  (Sound /\ OwnersLive)'
    BY DEF RefInv
<1>1. interrupts = 0
    BY NoneYet
<1>2. Sound /\ OwnersLive
    BY <1>1 DEF RefInv
<1>3. Sound'
    BY <1>1, LockInvNext DEF RefInv, LockInv
<1> USE NoneAssumption DEF TInv, TypeOK, OwnersLive, Live, fsVars
<1>4. ASSUME NEW p \in Proc, NEW L \in Wanted, Start(p, L)
      PROVE  OwnersLive'
    BY <1>2, <1>4 DEF Start
<1>5. ASSUME NEW p \in Proc, MainStep(p)
      PROVE  OwnersLive'
    BY <1>2, <1>5, MainStepOwners
<1>6. ASSUME NEW p \in Proc, DieBySignal(p) \/ Crash(p)
      PROVE  OwnersLive'
    BY <1>2, <1>6 DEF DieBySignal, Crash, Gone
<1>7. ASSUME UNCHANGED <<pc, stamp, owner>>
      PROVE  OwnersLive'
    BY <1>2, <1>7
<1>8. ASSUME NEW p \in Proc, NEW l \in Lock,
             SweepCheck(p, l) \/ SweepUnlink(p, l) \/ SweepFails(p, l)
      PROVE  OwnersLive'
    BY <1>7, <1>8 DEF SweepCheck, SweepUnlink, SweepFails, mainVars
<1>9. ASSUME NEW l \in Lock, OperatorRemoves(l)
      PROVE  OwnersLive'
    BY <1>7, <1>9 DEF OperatorRemoves, mainVars
<1>10. ASSUME NEW p \in Proc, Interrupt(p)
      PROVE  OwnersLive'
    BY <1>7, <1>10 DEF Interrupt, mainVars
<1>11. ASSUME UNCHANGED vars
       PROVE  OwnersLive'
    BY <1>7, <1>11 DEF vars, mainVars
<1>12. OwnersLive'
    BY <1>4, <1>5, <1>6, <1>8, <1>9, <1>10, <1>11 DEF Next, SignalStep
<1> QED BY <1>2, <1>3, <1>12

LEMMA RefInvHolds == Spec => [](TInv /\ RefInv)
<1>1. Init => RefInv
    BY LockInvInit DEF Init, RefInv, LockInv, OwnersLive
<1> QED BY <1>1, RefInvNext, TInvHolds, PTL DEF Spec

\* The abstract state of a step that keeps every file and nobody's work.
InsideOf(p) == IF pc[p] = "working" THEN want[p] ELSE {}

LEMMA Stutters ==
    ASSUME UNCHANGED <<dir, owner>>, \A p \in Proc : InsideOf(p)' = InsideOf(p)
    PROVE  UNCHANGED Abstract!vars
BY DEF Abstract!vars, HolderOf, InsideOf

LEMMA HolderIsOwner ==
    ASSUME TInv, NEW p \in Proc, NEW l \in Lock
    PROVE  HolderOf(l) = p <=> Own(p, l)
BY ProcAssumption, NoneAssumption DEF HolderOf, Own, TInv, TypeOK, Entries

LEMMA GoneAbandons ==
    ASSUME TInv, NEW p \in Proc, Gone(p)
    PROVE  Abstract!Abandon(p)
<1>1. \A l \in Lock : HolderOf(l)' = IF HolderOf(l) = p THEN "abandoned" ELSE HolderOf(l)
    BY ProcAssumption, NoneAssumption DEF HolderOf, Gone, TInv, TypeOK, Entries
<1>2. InsideOf(p)' = {} /\ \A q \in Proc \ {p} : InsideOf(q)' = InsideOf(q)
    BY DEF Gone, InsideOf, TInv, TypeOK
<1> QED BY <1>1, <1>2 DEF Abstract!Abandon, InsideOf

LEMMA MainStepRefines ==
    ASSUME TInv, Sound, NEW p \in Proc, MainStep(p)
    PROVE  [Abstract!Next]_(Abstract!vars)
<1> USE DEF TInv, TypeOK, CurHeld, InHand
<1>1. ASSUME NEW l \in Lock, NEW i \in Inode, CreateNew(p, l, i)
      PROVE  Abstract!Grab(p, l)
    <2>1. HolderOf(l) = "free" /\ HolderOf(l)' = p
        BY <1>1, NoneAssumption DEF CreateNew, HolderOf, Entries
    <2>2. \A k \in Lock \ {l} : HolderOf(k)' = HolderOf(k)
        BY <1>1 DEF CreateNew, HolderOf, Entries, FreeInode
    <2>3. \A q \in Proc : InsideOf(q)' = InsideOf(q)
        BY <1>1 DEF CreateNew, InsideOf
    <2> QED BY <2>1, <2>2, <2>3 DEF Abstract!Grab, InsideOf
<1>2. CASE GiveUp(p) \/ Register(p) \/ AcquireFails(p) \/ Deregister(p) \/ Close(p)
    <2>1. UNCHANGED <<dir, owner>> /\ \A q \in Proc : InsideOf(q)' = InsideOf(q)
        BY <1>2 DEF GiveUp, Register, AcquireFails, Deregister, Close, InsideOf, fsVars
    <2> QED BY <2>1, Stutters
<1>3. ASSUME NEW l \in Lock, RemovalFails(p, l)
      PROVE  UNCHANGED Abstract!vars
    <2>1. UNCHANGED <<dir, owner>> /\ \A q \in Proc : InsideOf(q)' = InsideOf(q)
        BY <1>3, RemovalFailsKeeps DEF InsideOf, Removing
    <2> QED BY <2>1, Stutters
<1>4. ASSUME NEW l \in Lock, ReleaseCheck(p, l)
      PROVE  UNCHANGED Abstract!vars
    <2>1. UNCHANGED <<dir, owner>> /\ \A q \in Proc : InsideOf(q)' = InsideOf(q)
        BY <1>4 DEF ReleaseCheck, InsideOf, fsVars
    <2> QED BY <2>1, Stutters
<1>5. CASE WriteStamp(p) /\ Todo(p) = {}
    <2>1. /\ InsideOf(p) = {} /\ InsideOf(p)' = want[p]
          /\ \A q \in Proc \ {p} : InsideOf(q)' = InsideOf(q)
        BY <1>5 DEF WriteStamp, InsideOf
    <2>2. \A l \in want[p] : HolderOf(l) = p
        <3>1. \A l \in want[p] : held[p][l] # None
            BY <1>5 DEF Todo, Handles
        <3>2. \A l \in want[p] : dir[l] = held[p][l] /\ owner[dir[l]] = p
            BY <1>5, <3>1 DEF WriteStamp, Sound, HeldIsThere, HeldIsOwned, GivenBack
        <3> QED BY <3>1, <3>2, HolderIsOwner DEF Own
    <2>3. \A l \in Lock : HolderOf(l)' = HolderOf(l)
        BY <1>5 DEF WriteStamp, HolderOf
    <2>4. Abstract!Enter(p, want[p])
        BY <2>1, <2>2, <2>3 DEF Abstract!Enter, InsideOf
    <2>5. want[p] \in SUBSET Lock
        OBVIOUS
    <2>6. \E L \in SUBSET Lock : Abstract!Enter(p, L)
        BY <2>4, <2>5 DEF Abstract!Enter
    <2> QED BY <2>6 DEF Abstract!Next
<1>6. CASE WriteStamp(p) /\ Todo(p) # {}
    <2>1. UNCHANGED <<dir, owner>> /\ \A q \in Proc : InsideOf(q)' = InsideOf(q)
        BY <1>6 DEF WriteStamp, InsideOf
    <2> QED BY <2>1, Stutters
<1>7. CASE FinishWork(p)
    <2>1. /\ InsideOf(p)' = {} /\ \A q \in Proc \ {p} : InsideOf(q)' = InsideOf(q)
          /\ \A l \in Lock : HolderOf(l)' = HolderOf(l)
        BY <1>7 DEF FinishWork, InsideOf, HolderOf, fsVars
    <2>2. Abstract!Leave(p)
        BY <2>1 DEF Abstract!Leave, InsideOf
    <2> QED BY <2>2 DEF Abstract!Next
<1>8. CASE Unlink(p)
    <2>1. PICK l \in Lock :
              /\ l = cur[p] /\ pc[p] \in {"unlink", "dropUnlink"} /\ dir' = [dir EXCEPT ![l] = None]
              /\ owner' = owner /\ held[p][l] # None
        BY <1>8 DEF Unlink
    <2>2. dir[l] = held[p][l] /\ owner[dir[l]] = p
        BY <2>1 DEF Sound, HeldIsThere, HeldIsOwned, GivenBack
    <2>3. HolderOf(l) = p
        BY <2>1, <2>2, HolderIsOwner DEF Own
    <2>4. HolderOf(l)' = "free" /\ \A k \in Lock \ {l} : HolderOf(k)' = HolderOf(k)
        BY <2>1 DEF HolderOf, Entries
    <2>5. InsideOf(p) = {} /\ \A q \in Proc : InsideOf(q)' = InsideOf(q)
        BY <1>8 DEF Unlink, InsideOf
    <2>6. Abstract!GiveBack(p, l)
        BY <2>1, <2>3, <2>4, <2>5 DEF Abstract!GiveBack, InsideOf
    <2> QED BY <2>1, <2>6 DEF Abstract!Next
<1>9. CASE Exit(p)
    BY <1>9, GoneAbandons DEF Exit, Abstract!Next
<1> QED BY <1>1, <1>2, <1>3, <1>4, <1>5, <1>6, <1>7, <1>8, <1>9 DEF MainStep, Abstract!Next

LEMMA NextRefines ==
    ASSUME TInv, RefInv, [Next]_vars, interrupts = 0, interrupts' = 0
    PROVE  [Abstract!Next]_(Abstract!vars)
<1>1. Sound /\ OwnersLive
    BY DEF RefInv
<1> USE DEF TInv, TypeOK
<1>2. ASSUME NEW p \in Proc, NEW L \in Wanted, Start(p, L)
      PROVE  UNCHANGED Abstract!vars
    <2>1. UNCHANGED <<dir, owner>> /\ \A q \in Proc : InsideOf(q)' = InsideOf(q)
        BY <1>2 DEF Start, InsideOf, fsVars
    <2> QED BY <2>1, Stutters
<1>3. ASSUME NEW p \in Proc, Interrupt(p)
      PROVE  FALSE
    BY <1>3 DEF Interrupt
<1>4. ASSUME NEW p \in Proc, SignalStep(p)
      PROVE  FALSE
    BY <1>1, <1>4 DEF SignalStep, SweepCheck, SweepUnlink, SweepFails, DieBySignal, Sound, Quiet
<1>5. ASSUME NEW l \in Lock, OperatorRemoves(l)
      PROVE  Abstract!Clear(l)
    <2>1. owner[dir[l]] = None
        <3> SUFFICES ASSUME owner[dir[l]] # None, NEW q \in Proc, SaysStale(q, l)
                     PROVE  FALSE
            BY <1>5 DEF OperatorRemoves
        <3>1. dir[l] \in Inode
            BY <1>5 DEF OperatorRemoves, Entries
        <3> DEFINE p == stamp[dir[l]]
        <3>2. p # None /\ p = owner[dir[l]] /\ Live(p)
            BY <1>1, <3>1 DEF SaysStale, OwnersLive
        <3>3. PICK status \in StatusOf(q, p) :
                OwnerCase(HostName[q], HostName[p], status) = "not running"
            BY DEF SaysStale
        <3>4. HostName[q] = HostName[p] /\ HostName[p] # Unknown
            BY <3>3 DEF OwnerCase
        <3> QED BY <3>2, <3>3, <3>4 DEF StatusOf, OwnerCase
    <2>2. /\ dir[l] # None /\ dir' = [dir EXCEPT ![l] = None] /\ owner' = owner
          /\ pc' = pc /\ want' = want
        BY <1>5 DEF OperatorRemoves, mainVars
    <2>3. HolderOf(l) = "abandoned"
        BY <2>1, <2>2 DEF HolderOf
    <2>4. HolderOf(l)' = "free" /\ \A k \in Lock \ {l} : HolderOf(k)' = HolderOf(k)
        BY <2>2 DEF HolderOf, Entries
    <2>5. \A q \in Proc : InsideOf(q)' = InsideOf(q)
        BY <2>2 DEF InsideOf
    <2> QED BY <2>3, <2>4, <2>5 DEF Abstract!Clear, InsideOf
<1>6. ASSUME NEW p \in Proc, Crash(p)
      PROVE  Abstract!Abandon(p)
    BY <1>6, GoneAbandons DEF Crash
<1>7. CASE UNCHANGED vars
    BY <1>7, Stutters DEF vars, fsVars, mainVars, InsideOf
<1> QED BY <1>1, <1>2, <1>3, <1>4, <1>5, <1>6, <1>7, MainStepRefines DEF Next, Abstract!Next

\* As long as nobody interrupts a run, the lock files behave as locks: taken
\* only when free, given back only by their holder, abandoned only by a run
\* that ends, and cleared by hand only when abandoned.
THEOREM LocksImplemented == Spec /\ [](interrupts = 0) => ImplementsExclusiveLocks
<1>1. Init => Abstract!Init
    BY DEF Init, Abstract!Init, HolderOf, NoEntries
<1>2. TInv /\ RefInv /\ [Next]_vars /\ interrupts = 0 /\ (interrupts = 0)'
          => [Abstract!Next]_(Abstract!vars)
    BY NextRefines
<1> QED BY <1>1, <1>2, RefInvHolds, PTL DEF Spec, ImplementsExclusiveLocks, Abstract!Spec
=============================================================================
