-------------------------- MODULE NumberingProofs --------------------------
(***************************************************************************)
(* Proofs about Numbering, for any runs, namespaces, documents and slugs   *)
(* and any bounds.                                                         *)
(***************************************************************************)
EXTENDS Numbering, TLAPS

LEMMA Remainder ==
    /\ \A n \in Nat : n % Modulus \in Number
    /\ \A n \in Number : n + 1 < Modulus => (n + 1) % Modulus = n + 1
BY ModulusAssumption, Z3 DEF Number

LEMMA NextNumberTyped ==
    ASSUME NEW m, NEW n
    PROVE  NextNumber(m, n) \in Number
<1>1. OrZero(m) \in Nat /\ OrZero(n) \in Nat
    BY ModulusAssumption DEF OrZero, Number
<1>2. Larger(OrZero(m), OrZero(n)) + 1 \in Nat
    BY <1>1 DEF Larger
<1> QED BY <1>2, Remainder DEF NextNumber

\* As long as it does not wrap, the next number is above both it is made from.
LEMMA NextNumberAbove ==
    ASSUME NEW m, NEW n, OrZero(m) < Modulus - 1, OrZero(n) < Modulus - 1
    PROVE  NextNumber(m, n) > OrZero(n)
<1> DEFINE k == Larger(OrZero(m), OrZero(n))
<1>1. OrZero(m) \in Number /\ OrZero(n) \in Number
    BY ModulusAssumption DEF OrZero, Number
<1>2. k \in Number /\ k + 1 < Modulus /\ k >= OrZero(n)
    BY <1>1, ModulusAssumption DEF Larger, Number
<1>3. NextNumber(m, n) = k + 1
    BY <1>2, Remainder DEF NextNumber
<1> QED BY <1>1, <1>2, <1>3 DEF Number

-----------------------------------------------------------------------------
(* Typing. A run past `allocate` has a number and a job.                   *)

AtWork == {"wait", "allocate", "check", "record", "place"}

TInv ==
    /\ TypeOK
    /\ \A p \in Proc : pc[p] \in AtWork => job[p] \in Job
    /\ \A p \in Proc : pc[p] \in {"check", "record", "place"} => next[p] \in Number

LEMMA TInvInit == Init => TInv
<1> SUFFICES ASSUME Init PROVE TInv
    OBVIOUS
<1>1. state \in [Namespace -> Record]
    BY HandAssumption DEF Init, Record
<1>2. at \in [Doc -> Place \cup {None}]
    BY HandAssumption DEF Init, Place
<1>3. runs \in 0..MaxRuns /\ hand \in 0..MaxHand
    BY BoundAssumption DEF Init
<1>4. TypeOK
    BY <1>1, <1>2, <1>3 DEF Init, TypeOK, Steps
<1> QED BY <1>4 DEF Init, TInv, AtWork

LEMMA EndsTyped ==
    ASSUME TInv, NEW p \in Proc, NEW left \in {None, Abandoned}, Ends(p, left)
    PROVE  TInv'
<1> USE DEF TInv, TypeOK, AtWork, Steps, Ends, Goto, fileVars, ghostVars
<1>1. owner' \in [Namespace -> Proc \cup {None, Abandoned}]
    OBVIOUS
<1>2. TypeOK'
    BY <1>1
<1>3. pc'[p] = "idle" /\ \A q \in Proc \ {p} :
        pc'[q] = pc[q] /\ job'[q] = job[q] /\ next'[q] = next[q]
    OBVIOUS
<1> QED BY <1>2, <1>3

LEMMA RunTyped ==
    ASSUME TInv, NEW p \in Proc, Run(p)
    PROVE  TInv'
<1> USE NoneAssumption DEF TInv, TypeOK, AtWork, Steps, Goto, fileVars, ghostVars
<1>1. ASSUME NEW d \in Doc, NEW ns \in Namespace, Load(p, d, ns)
      PROVE  TInv'
    <2>1. PICK n \in Highest(ns) : seen' = [seen EXCEPT ![p] = n]
        BY <1>1 DEF Load
    <2>2. n \in Number \cup {None}
        BY DEF Highest, Existing, Place
    <2>3. [doc |-> d, from |-> at[d], ns |-> ns] \in Job
        BY DEF Job
    <2>4. runs' \in 0..MaxRuns
        BY <1>1, BoundAssumption DEF Load
    <2> QED BY <1>1, <2>1, <2>2, <2>3, <2>4 DEF Load
<1>2. CASE TakeLocks(p)
    BY <1>2 DEF TakeLocks
<1>3. CASE Allocate(p)
    BY <1>3, NextNumberTyped DEF Allocate
<1>4. CASE CheckFree(p)
    BY <1>4 DEF CheckFree
<1>5. CASE WriteRecord(p)
    BY <1>5 DEF WriteRecord, Record
<1>6. CASE Create(p)
    <2>1. job[p].ns \in Namespace /\ next[p] \in Number
        BY <1>6 DEF Create, Job
    <2>2. Target(p) \in Place
        BY <2>1 DEF Target, Place
    <2>3. at' \in [Doc -> Place \cup {None}]
        BY <1>6, <2>2 DEF Create
    <2>4. issued' \in [Namespace -> SUBSET Number]
        BY <1>6, <2>1 DEF Create
    <2>5. TypeOK'
        BY <1>6, <2>3, <2>4 DEF Create
    <2>6. /\ \A q \in Proc : job'[q] = job[q] /\ next'[q] = next[q]
          /\ pc'[p] = "unlock" /\ \A q \in Proc \ {p} : pc'[q] = pc[q]
        BY <1>6 DEF Create
    <2> QED BY <2>5, <2>6
<1>7. CASE Rename(p)
    <2>1. job[p].ns \in Namespace /\ next[p] \in Number
        BY <1>7 DEF Rename, Job
    <2>2. Target(p) \in Place
        BY <2>1 DEF Target, Place
    <2>3. at' \in [Doc -> Place \cup {None}]
        BY <1>7, <2>2 DEF Rename
    <2> QED BY <1>7, <2>1, <2>3 DEF Rename
<1>8. CASE Fail(p)
    BY <1>8 DEF Fail
<1>9. CASE Unlock(p) \/ Crash(p)
    BY <1>9, EndsTyped DEF Unlock, Crash
<1> QED BY <1>1, <1>2, <1>3, <1>4, <1>5, <1>6, <1>7, <1>8, <1>9 DEF Run

LEMMA TInvNext == TInv /\ [Next]_vars => TInv'
<1> SUFFICES ASSUME TInv, [Next]_vars PROVE TInv'
    OBVIOUS
<1>1. ASSUME NEW p \in Proc, Run(p)
      PROVE  TInv'
    BY <1>1, RunTyped
<1>2. ASSUME NEW ns \in Namespace, ClearLock(ns)
      PROVE  TInv'
    BY <1>2 DEF ClearLock, TInv, TypeOK, fileVars, procVars, ghostVars
<1>3. ASSUME NEW d \in Doc, Delete(d)
      PROVE  TInv'
    BY <1>3 DEF Delete, TInv, TypeOK, procVars, ghostVars
<1>4. ASSUME NEW d \in Doc, NEW ns \in Namespace, NEW n \in HandNumber,
             MakeByHand(d, ns, n)
      PROVE  TInv'
    <2>1. [ns |-> ns, num |-> n] \in Place
        BY HandAssumption DEF Place
    <2>2. hand' \in 0..MaxHand
        BY <1>4, BoundAssumption DEF MakeByHand, TInv, TypeOK
    <2> QED BY <1>4, <2>1, <2>2 DEF MakeByHand, TInv, TypeOK, procVars, ghostVars
<1>5. CASE UNCHANGED vars
    BY <1>5 DEF vars, fileVars, procVars, ghostVars, TInv, TypeOK
<1> QED BY <1>1, <1>2, <1>3, <1>4, <1>5 DEF Next

LEMMA TInvHolds == Spec => []TInv
BY TInvInit, TInvNext, PTL DEF Spec

\* Every variable keeps its type.
THEOREM TypeCorrect == Spec => []TypeOK
BY TInvHolds, PTL DEF TInv

-----------------------------------------------------------------------------
(***************************************************************************)
(* A namespace's lock keeps everybody else from its record and from the    *)
(* numbers given under it, so a run's number stays above the record until  *)
(* the run writes it there, and unused until the run uses it.              *)
(***************************************************************************)
Locked == {"allocate", "check", "record", "place"}

Alone == \A p \in Proc : pc[p] \in Locked => owner[job[p].ns] = p

SeenIsLow == \A p \in Proc : OrZero(seen[p]) < Modulus - 1

Ahead == \A p \in Proc :
    pc[p] \in {"check", "record"} => next[p] > OrZero(state[job[p].ns])

Claimed == \A p \in Proc : pc[p] = "place" =>
    state[job[p].ns] = next[p] /\ next[p] \notin issued[job[p].ns]

NumInv == Alone /\ SeenIsLow /\ Ahead /\ Claimed /\ IssuedIsRecorded

\* No number in the project is the largest one that can be held.
NoneIsLargest ==
    /\ \A ns \in Namespace : OrZero(state[ns]) < Modulus - 1
    /\ \A d \in Doc : at[d] # None => at[d].num < Modulus - 1
    /\ Modulus > 1

LEMMA NumInvInit == Init /\ NoneIsLargest => NumInv
<1> SUFFICES ASSUME Init, NoneIsLargest PROVE NumInv
    OBVIOUS
<1>1. SeenIsLow
    BY ModulusAssumption, NoneAssumption DEF Init, SeenIsLow, NoneIsLargest, OrZero
<1> QED BY <1>1 DEF Init, NumInv, Alone, Ahead, Claimed, IssuedIsRecorded, Locked

LEMMA RunKeeps ==
    ASSUME TInv, TInv', NumInv, NoneIsLargest, NEW p \in Proc, Run(p)
    PROVE  NumInv'
<1> USE NoneAssumption
    DEF TInv, TypeOK, AtWork, Locked, NumInv, Alone, SeenIsLow, Ahead, Claimed,
        IssuedIsRecorded, Goto, fileVars, ghostVars
\* Two runs under the lock of one namespace are one.
<1>1. ASSUME NEW q \in Proc, NEW r \in Proc, pc[q] \in Locked, pc[r] \in Locked,
             job[q].ns = job[r].ns
      PROVE  q = r
    BY <1>1
<1>2. ASSUME NEW q \in Proc, pc[q] \in Locked
      PROVE  job[q].ns \in Namespace
    BY <1>2 DEF Job
<1>3. ASSUME NEW d \in Doc, NEW ns \in Namespace, Load(p, d, ns)
      PROVE  NumInv'
    <2>1. PICK n \in Highest(ns) : seen' = [seen EXCEPT ![p] = n]
        BY <1>3 DEF Load
    <2>2. OrZero(n) < Modulus - 1
        <3>1. CASE n = None
            BY <3>1, ModulusAssumption DEF NoneIsLargest, OrZero
        <3>2. CASE n # None
            <4>1. n \in Existing(ns)
                BY <3>2 DEF Highest
            <4>2. n \in Number /\ n < Modulus - 1
                BY <4>1 DEF Existing, NoneIsLargest, Place
            <4> QED BY <4>2 DEF OrZero
        <3> QED BY <3>1, <3>2
    <2>3. SeenIsLow'
        BY <2>1, <2>2
    <2> QED BY <1>3, <2>3 DEF Load
<1>4. CASE TakeLocks(p)
    BY <1>4 DEF TakeLocks, Needs, Job
<1>5. CASE Allocate(p)
    <2>1. next'[p] > OrZero(state[job[p].ns])
        BY <1>2, <1>5, NextNumberAbove DEF Allocate, NoneIsLargest
    <2> QED BY <1>5, <2>1 DEF Allocate
<1>6. CASE CheckFree(p)
    BY <1>6 DEF CheckFree
<1>7. CASE WriteRecord(p)
    <2> DEFINE ns == job[p].ns
    <2>1. ns \in Namespace /\ next[p] \in Number /\ next[p] > OrZero(state[ns])
        BY <1>2, <1>7 DEF WriteRecord
    <2>2. \A m \in issued[ns] : m < next[p]
        BY <2>1 DEF OrZero, Number
    <2>3. state'[ns] = next[p] /\ \A k \in Namespace \ {ns} : state'[k] = state[k]
        BY <1>7, <2>1 DEF WriteRecord
    <2>4. /\ pc[p] = "record" /\ pc'[p] = "place"
          /\ \A q \in Proc \ {p} : pc'[q] = pc[q]
          /\ owner' = owner /\ job' = job /\ seen' = seen /\ next' = next /\ issued' = issued
        BY <1>7 DEF WriteRecord
    <2>5. ASSUME NEW q \in Proc \ {p}, pc'[q] \in Locked
          PROVE  job[q].ns \in Namespace /\ job[q].ns # ns
        BY <1>1, <1>2, <2>4, <2>5
    <2>6. Ahead' /\ Alone' /\ SeenIsLow'
        BY <2>3, <2>4, <2>5 DEF OrZero
    <2>7. Claimed'
        BY <2>1, <2>2, <2>3, <2>4, <2>5 DEF Number
    <2>8. IssuedIsRecorded'
        <3> SUFFICES ASSUME NEW k \in Namespace, NEW m \in issued[k]
                     PROVE  state'[k] \in Number /\ m <= state'[k]
            BY <2>4
        <3>1. CASE k = ns
            BY <2>1, <2>2, <2>3, <3>1 DEF Number
        <3>2. CASE k # ns
            BY <2>3, <3>2
        <3> QED BY <3>1, <3>2
    <2> QED BY <2>6, <2>7, <2>8
<1>8. CASE Create(p) \/ Rename(p)
    <2> DEFINE ns == job[p].ns
    <2>1. /\ pc[p] = "place" /\ pc'[p] = "unlock" /\ ns \in Namespace
          /\ \A q \in Proc \ {p} : pc'[q] = pc[q]
          /\ issued'[ns] = issued[ns] \cup {next[p]}
          /\ \A k \in Namespace \ {ns} : issued'[k] = issued[k]
          /\ state' = state /\ owner' = owner /\ job' = job /\ seen' = seen /\ next' = next
        BY <1>2, <1>8 DEF Create, Rename
    <2>2. ASSUME NEW q \in Proc, pc'[q] \in Locked
          PROVE  q # p /\ job[q].ns \in Namespace \ {ns}
        BY <1>1, <1>2, <2>1, <2>2
    <2>3. Claimed'
        BY <2>1, <2>2
    <2>4. IssuedIsRecorded'
        BY <2>1 DEF Number
    <2> QED BY <2>1, <2>3, <2>4
<1>9. CASE Fail(p)
    BY <1>9 DEF Fail
<1>10. CASE Unlock(p) \/ Crash(p)
    <2>1. PICK left \in {None, Abandoned} : Ends(p, left)
        BY <1>10 DEF Unlock, Crash
    <2>2. \A q \in Proc : pc'[q] \in Locked =>
            q # p /\ pc'[q] = pc[q] /\ job'[q] = job[q] /\ next'[q] = next[q]
        BY <2>1 DEF Ends
    <2>3. Alone'
        BY <1>2, <2>1, <2>2 DEF Ends
    <2>4. SeenIsLow'
        <3>1. OrZero(None) < Modulus - 1
            BY ModulusAssumption DEF OrZero, NoneIsLargest
        <3>2. \A q \in Proc : seen'[q] = seen[q] \/ seen'[q] = None
            BY <2>1 DEF Ends
        <3> QED BY <3>1, <3>2 DEF OrZero
    <2> QED BY <2>1, <2>2, <2>3, <2>4 DEF Ends
<1> QED BY <1>3, <1>4, <1>5, <1>6, <1>7, <1>8, <1>9, <1>10 DEF Run

LEMMA NumInvNext ==
    TInv /\ TInv' /\ NumInv /\ NoneIsLargest /\ [Next]_vars => NumInv'
<1> SUFFICES ASSUME TInv, TInv', NumInv, NoneIsLargest, [Next]_vars PROVE NumInv'
    OBVIOUS
<1> USE NoneAssumption
    DEF TypeOK, TInv, NumInv, Alone, SeenIsLow, Ahead, Claimed, IssuedIsRecorded, Locked,
        AtWork, Job
<1>1. ASSUME NEW p \in Proc, Run(p)
      PROVE  NumInv'
    BY <1>1, RunKeeps
<1>2. ASSUME NEW ns \in Namespace, ClearLock(ns)
      PROVE  NumInv'
    BY <1>2 DEF ClearLock, fileVars, procVars, ghostVars
<1>3. ASSUME UNCHANGED <<state, owner, procVars, ghostVars>>
      PROVE  NumInv'
    BY <1>3 DEF procVars, ghostVars
<1>4. ASSUME NEW d \in Doc, Delete(d)
      PROVE  NumInv'
    BY <1>3, <1>4 DEF Delete
<1>5. ASSUME NEW d \in Doc, NEW ns \in Namespace, NEW n \in HandNumber,
             MakeByHand(d, ns, n)
      PROVE  NumInv'
    BY <1>3, <1>5 DEF MakeByHand
<1>6. CASE UNCHANGED vars
    BY <1>3, <1>6 DEF vars, fileVars
<1> QED BY <1>1, <1>2, <1>4, <1>5, <1>6 DEF Next

LEMMA NumInvHolds == Spec /\ []NoneIsLargest => [](TInv /\ NumInv)
BY TInvHolds, NumInvInit, NumInvNext, PTL DEF Spec

\* The state file knows of every number a document was put under, as long as no
\* number in the project is the largest one that can be held.
THEOREM Recorded == Spec /\ []NoneIsLargest => []IssuedIsRecorded
BY NumInvHolds, PTL DEF NumInv

\* Under the same condition no number is given twice in a namespace.
THEOREM IssuedOnce == Spec /\ []NoneIsLargest => NeverIssuedTwice
<1> DEFINE A == \A p \in Proc : Puts(p) => next[p] \notin issued[job[p].ns]
<1>1. TInv /\ NumInv => A
    BY DEF NumInv, Claimed, Puts
<1>2. [](TInv /\ NumInv) => [][A]_vars
    BY <1>1, PTL
<1> QED BY <1>2, NumInvHolds, PTL DEF NeverIssuedTwice

\* And `last` never goes down.
THEOREM NeverLowered == Spec /\ []NoneIsLargest => LastNeverLowered
<1> DEFINE A == \A ns \in Namespace :
        state[ns] \in Number => state'[ns] \in Number /\ state'[ns] >= state[ns]
<1>1. TInv /\ NumInv /\ [Next]_vars => A
    <2> SUFFICES ASSUME TInv, NumInv, [Next]_vars, NEW ns \in Namespace,
                        state[ns] \in Number
                 PROVE  state'[ns] \in Number /\ state'[ns] >= state[ns]
        OBVIOUS
    <2>1. CASE state' = state
        BY <2>1 DEF Number
    <2>2. ASSUME NEW p \in Proc, WriteRecord(p)
          PROVE  state'[ns] \in Number /\ state'[ns] >= state[ns]
        <3>1. next[p] \in Number /\ next[p] > OrZero(state[job[p].ns])
            BY <2>2 DEF WriteRecord, TInv, NumInv, Ahead
        <3>2. CASE ns = job[p].ns
            BY <2>2, <3>1, <3>2 DEF WriteRecord, TInv, TypeOK, OrZero, Number
        <3>3. CASE ns # job[p].ns
            BY <2>2, <3>3 DEF WriteRecord, TInv, TypeOK, Number
        <3> QED BY <3>2, <3>3
    <2>3. state' = state \/ \E p \in Proc : WriteRecord(p)
        BY DEF Next, Run, Load, TakeLocks, Allocate, CheckFree, Create, Rename, Fail,
            Unlock, Crash, Ends, ClearLock, Delete, MakeByHand, vars, fileVars
    <2> QED BY <2>1, <2>2, <2>3
<1>2. [](TInv /\ NumInv) /\ [][Next]_vars => [][A]_vars
    BY <1>1, PTL
<1> QED BY <1>2, NumInvHolds, PTL DEF Spec, LastNeverLowered

-----------------------------------------------------------------------------
(***************************************************************************)
(* What is at the new path. The path a run found free stays free while it  *)
(* holds the lock of the namespace, as nobody else puts a document there.  *)
(* No bound on the numbers is needed.                                      *)
(***************************************************************************)
StillFree == \A p \in Proc : pc[p] \in {"record", "place"} =>
    FilesAt(Target(p), SlugOf[job[p].doc]) = {}

FreeInv == Alone /\ (hand = 0 => StillFree)

\* A step that leaves the commands alone, ends no run and takes no lock from
\* one keeps the locks.
LEMMA AloneNext ==
    ASSUME TInv, Alone, [Next]_vars
    PROVE  Alone'
<1> USE NoneAssumption DEF TInv, TypeOK, AtWork, Locked, Alone, Job, Goto, fileVars, ghostVars
<1>1. ASSUME NEW p \in Proc, Run(p)
      PROVE  Alone'
    <2>1. ASSUME NEW d \in Doc, NEW ns \in Namespace, Load(p, d, ns)
          PROVE  Alone'
        BY <2>1 DEF Load
    <2>2. CASE TakeLocks(p)
        BY <2>2 DEF TakeLocks, Needs
    <2>3. CASE Allocate(p) \/ CheckFree(p) \/ WriteRecord(p) \/ Fail(p)
        BY <2>3 DEF Allocate, CheckFree, WriteRecord, Fail
    <2>4. CASE Create(p) \/ Rename(p)
        BY <2>4 DEF Create, Rename
    <2>5. CASE Unlock(p) \/ Crash(p)
        BY <2>5 DEF Unlock, Crash, Ends
    <2> QED BY <1>1, <2>1, <2>2, <2>3, <2>4, <2>5 DEF Run
<1>2. ASSUME NEW ns \in Namespace, ClearLock(ns)
      PROVE  Alone'
    BY <1>2 DEF ClearLock, procVars
<1>3. ASSUME UNCHANGED <<owner, procVars>>
      PROVE  Alone'
    BY <1>3 DEF procVars
<1>4. ASSUME NEW d \in Doc, Delete(d)
      PROVE  Alone'
    BY <1>3, <1>4 DEF Delete
<1>5. ASSUME NEW d \in Doc, NEW ns \in Namespace, NEW n \in HandNumber,
             MakeByHand(d, ns, n)
      PROVE  Alone'
    BY <1>3, <1>5 DEF MakeByHand
<1>6. CASE UNCHANGED vars
    BY <1>3, <1>6 DEF vars
<1> QED BY <1>1, <1>2, <1>4, <1>5, <1>6 DEF Next

\* Two runs at their documents are in two namespaces.
LEMMA Apart ==
    ASSUME TInv, Alone, NEW p \in Proc, NEW q \in Proc, p # q,
           pc[p] \in Locked, pc[q] \in Locked
    PROVE  job[p].ns # job[q].ns
BY DEF Alone

\* What a step of p leaves to the other runs, and what it does to documents.
OthersStay(p) == \A q \in Proc \ {p} :
    pc'[q] = pc[q] /\ job'[q] = job[q] /\ next'[q] = next[q]
OnlyPutsAtTarget(p) == \A d \in Doc :
    at'[d] \in {at[d], None} \/ (pc[p] = "place" /\ at'[d] = Target(p))

LEMMA OthersKeepFree ==
    ASSUME TInv, Alone, StillFree, NEW p \in Proc, OthersStay(p), OnlyPutsAtTarget(p),
           pc'[p] \notin {"record", "place"}
    PROVE  StillFree'
<1> USE DEF TInv, TypeOK, AtWork, Locked, OthersStay, OnlyPutsAtTarget
<1> SUFFICES ASSUME NEW q \in Proc, pc'[q] \in {"record", "place"},
                    NEW d \in Doc, at'[d] = Target(q)', SlugOf[d] = SlugOf[job'[q].doc]
             PROVE  FALSE
    BY DEF StillFree, FilesAt
<1>1. q # p /\ Target(q)' = Target(q) /\ pc[q] \in {"record", "place"} /\ job'[q] = job[q]
    BY DEF Target
<1>2. at[d] # Target(q)
    BY <1>1 DEF StillFree, FilesAt
<1>3. Target(q) # None
    BY <1>1, NoneAssumption DEF Target, Place, Job
<1>4. pc[p] = "place" /\ Target(p) = Target(q)
    BY <1>1, <1>2, <1>3
<1>5. job[p].ns = job[q].ns
    BY <1>4 DEF Target
<1> QED BY <1>1, <1>4, <1>5, Apart

LEMMA RunKeepsFree ==
    ASSUME TInv, Alone, StillFree, NEW p \in Proc, Run(p)
    PROVE  StillFree'
<1> USE DEF TInv, TypeOK, AtWork, Locked, Goto
<1>1. ASSUME OthersStay(p), OnlyPutsAtTarget(p), pc'[p] \notin {"record", "place"}
      PROVE  StillFree'
    BY <1>1, OthersKeepFree
<1>2. ASSUME UNCHANGED <<at, job, next>>,
             pc'[p] \in {"record", "place"} => pc[p] \in {"record", "place"},
             \A q \in Proc \ {p} : pc'[q] = pc[q]
      PROVE  StillFree'
    BY <1>2 DEF StillFree, Target, FilesAt
<1>3. ASSUME NEW d \in Doc, NEW ns \in Namespace, Load(p, d, ns)
      PROVE  StillFree'
    <2>1. OthersStay(p) /\ OnlyPutsAtTarget(p) /\ pc'[p] = "wait"
        BY <1>3 DEF Load, fileVars, OthersStay, OnlyPutsAtTarget
    <2> QED BY <1>1, <2>1
<1>4. CASE TakeLocks(p) \/ WriteRecord(p) \/ Fail(p)
    BY <1>2, <1>4 DEF TakeLocks, WriteRecord, Fail, fileVars
<1>5. CASE Allocate(p)
    <2>1. OthersStay(p) /\ OnlyPutsAtTarget(p) /\ pc'[p] = "check"
        BY <1>5 DEF Allocate, fileVars, OthersStay, OnlyPutsAtTarget
    <2> QED BY <1>1, <2>1
<1>6. CASE CheckFree(p)
    BY <1>6 DEF CheckFree, StillFree, Target, FilesAt, fileVars
<1>7. CASE Create(p) \/ Rename(p)
    <2>1. OnlyPutsAtTarget(p)
        BY <1>7 DEF Create, Rename, OnlyPutsAtTarget
    <2>2. OthersStay(p) /\ pc'[p] = "unlock"
        BY <1>7 DEF Create, Rename, OthersStay
    <2> QED BY <1>1, <2>1, <2>2
<1>8. CASE Unlock(p) \/ Crash(p)
    <2>1. OthersStay(p) /\ OnlyPutsAtTarget(p) /\ pc'[p] = "idle"
        BY <1>8 DEF Unlock, Crash, Ends, fileVars, OthersStay, OnlyPutsAtTarget
    <2> QED BY <1>1, <2>1
<1> QED BY <1>3, <1>4, <1>5, <1>6, <1>7, <1>8 DEF Run

LEMMA FreeInvNext == TInv /\ FreeInv /\ [Next]_vars => FreeInv'
<1> SUFFICES ASSUME TInv, FreeInv, [Next]_vars, hand' = 0 PROVE StillFree'
    BY AloneNext DEF FreeInv
<1>1. hand = 0
    <2>1. hand' \in {hand, hand + 1}
        BY DEF Next, Run, Load, TakeLocks, Allocate, CheckFree, WriteRecord, Create, Rename,
            Fail, Unlock, Crash, Ends, ClearLock, Delete, MakeByHand, vars
    <2>2. hand \in Nat
        BY BoundAssumption DEF TInv, TypeOK
    <2> QED BY <2>1, <2>2
<1>2. Alone /\ StillFree
    BY <1>1 DEF FreeInv
<1>3. ASSUME NEW p \in Proc, Run(p)
      PROVE  StillFree'
    BY <1>2, <1>3, RunKeepsFree
<1>4. ASSUME UNCHANGED <<at, procVars>>
      PROVE  StillFree'
    BY <1>2, <1>4 DEF procVars, StillFree, Target, FilesAt
<1>5. ASSUME NEW ns \in Namespace, ClearLock(ns)
      PROVE  StillFree'
    BY <1>4, <1>5 DEF ClearLock, fileVars
<1>6. ASSUME NEW d \in Doc, Delete(d)
      PROVE  StillFree'
    <2>1. \A p \in Proc : pc[p] \in {"record", "place"} => Target(p) # None
        BY NoneAssumption DEF TInv, TypeOK, AtWork, Target, Place, Job
    <2> QED BY <1>2, <1>6, <2>1 DEF Delete, procVars, StillFree, Target, FilesAt, TInv, TypeOK
<1>7. ASSUME NEW d \in Doc, NEW ns \in Namespace, NEW n \in HandNumber,
             MakeByHand(d, ns, n)
      PROVE  FALSE
    BY <1>1, <1>7 DEF MakeByHand
<1>8. CASE UNCHANGED vars
    BY <1>4, <1>8 DEF vars, fileVars
<1> QED BY <1>3, <1>5, <1>6, <1>7, <1>8 DEF Next

\* Only two steps put a document under a key.
LEMMA WhoPuts ==
    ASSUME TInv, [Next]_vars, NEW p \in Proc, Puts(p)
    PROVE  Create(p) \/ Rename(p)
<1> USE DEF Puts, TInv, TypeOK, Goto, fileVars, procVars
<1>1. ASSUME NEW q \in Proc, Run(q)
      PROVE  Create(p) \/ Rename(p)
    <2>1. q = p
        BY <1>1 DEF Run, Load, TakeLocks, Allocate, CheckFree, WriteRecord, Create, Rename,
            Fail, Unlock, Crash, Ends
    <2> QED BY <1>1, <2>1 DEF Run, Load, TakeLocks, Allocate, CheckFree, WriteRecord,
            Fail, Unlock, Crash, Ends
<1> QED BY <1>1 DEF Next, ClearLock, Delete, MakeByHand, vars

\* While nobody makes documents by hand, neither `new` nor `mv --renumber` puts
\* a document over another one, though the rename replaces what it finds.
THEOREM NothingDestroyed == Spec => NothingOverwritten
<1> DEFINE A == hand = 0 =>
        \A p \in Proc : Puts(p) => \A d \in Doc : at[d] # None => at'[d] # None
<1>1. TInv /\ FreeInv /\ [Next]_vars => A
    <2> SUFFICES ASSUME TInv, FreeInv, [Next]_vars, hand = 0, NEW p \in Proc, Puts(p),
                        NEW d \in Doc, at[d] # None
                 PROVE  at'[d] # None
        OBVIOUS
    <2>1. pc[p] = "place" /\ FilesAt(Target(p), SlugOf[job[p].doc]) = {}
        BY DEF FreeInv, StillFree, Puts
    <2>2. Target(p) # None
        BY <2>1, NoneAssumption DEF TInv, TypeOK, AtWork, Target, Place, Job
    <2> QED BY <2>1, <2>2, WhoPuts DEF Create, Rename, TInv, TypeOK
<1>2. TInv /\ FreeInv /\ [Next]_vars => [A]_vars
    BY <1>1
<1>3. Init => FreeInv
    BY DEF Init, FreeInv, Alone, StillFree, Locked
<1>4. Spec => [](TInv /\ FreeInv)
    BY <1>3, FreeInvNext, TInvHolds, PTL DEF Spec
<1> QED BY <1>2, <1>4, PTL DEF Spec, NothingOverwritten

-----------------------------------------------------------------------------
(***************************************************************************)
(* The refinement of KeyIssuer. A claim is a run at its document; the lock *)
(* makes it the only claim of its namespace.                               *)
(***************************************************************************)
ClaimedIn(ns) == {next[q] : q \in {r \in Proc : pc[r] = "place" /\ job[r].ns = ns}}

LEMMA OneClaim ==
    ASSUME TInv, Alone, NEW p \in Proc, pc[p] = "place"
    PROVE  ClaimedIn(job[p].ns) = {next[p]}
<1>1. \A q \in Proc : pc[q] = "place" /\ job[q].ns = job[p].ns => q = p
    BY Apart DEF Locked
<1> QED BY <1>1 DEF ClaimedIn

\* What a step of p does to the claims, from what it does to p alone.
LEMMA ClaimEnds ==
    ASSUME TInv, Alone, NEW p \in Proc, pc[p] = "place", pc'[p] # "place", OthersStay(p)
    PROVE  \A ns \in Namespace :
               ClaimedIn(ns)' = IF ns = job[p].ns THEN {} ELSE ClaimedIn(ns)
<1>1. \A q \in Proc : q # p /\ pc[q] = "place" => job[q].ns # job[p].ns
    BY Apart DEF Locked
<1>2. \A q \in Proc : pc'[q] = "place" <=> q # p /\ pc[q] = "place"
    BY DEF OthersStay
<1>3. \A q \in Proc \ {p} : job'[q] = job[q] /\ next'[q] = next[q]
    BY DEF OthersStay
<1>4. ASSUME NEW ns \in Namespace
      PROVE  ClaimedIn(ns)' = IF ns = job[p].ns THEN {} ELSE ClaimedIn(ns)
    <2>1. CASE ns = job[p].ns
        BY <1>1, <1>2, <1>3, <2>1 DEF ClaimedIn
    <2>2. CASE ns # job[p].ns
        BY <1>2, <1>3, <2>2 DEF ClaimedIn
    <2> QED BY <2>1, <2>2
<1> QED BY <1>4

LEMMA NoClaimChanges ==
    ASSUME NEW p \in Proc, pc[p] # "place", pc'[p] # "place", OthersStay(p)
    PROVE  \A ns \in Namespace : ClaimedIn(ns)' = ClaimedIn(ns)
BY DEF OthersStay, ClaimedIn

LEMMA StepOfIssuer ==
    ASSUME NEW ns \in Namespace, NEW n,
           \/ n \in Number /\ Issuer!Claim(ns, n)
           \/ n \in ClaimedIn(ns) /\ (Issuer!Issue(ns, n) \/ Issuer!Skip(ns, n))
    PROVE  Issuer!Next
BY DEF Issuer!Next, ClaimedIn

LEMMA RunRefines ==
    ASSUME TInv, NumInv, NEW p \in Proc, Run(p)
    PROVE  [Issuer!Next]_(Issuer!vars)
<1> USE DEF TInv, TypeOK, AtWork, Goto, fileVars, ghostVars
<1> SUFFICES ASSUME NEW ns, NEW n, ns = job[p].ns, n = next[p]
             PROVE  [Issuer!Next]_(Issuer!vars)
    OBVIOUS
<1>1. Alone
    BY DEF NumInv
<1>2. pc[p] \in AtWork => ns \in Namespace
    BY DEF Job
<1>3. ASSUME UNCHANGED <<state, issued>>, pc[p] # "place", pc'[p] # "place", OthersStay(p)
      PROVE  UNCHANGED Issuer!vars
    BY <1>3, NoClaimChanges DEF Issuer!vars, ClaimedIn
<1>4. ASSUME UNCHANGED <<state, issued>>, pc[p] = "place", pc'[p] # "place", OthersStay(p)
      PROVE  Issuer!Next
    <2>1. ns \in Namespace /\ ClaimedIn(ns) = {n}
        BY <1>1, <1>2, <1>4, OneClaim
    <2>2. \A k \in Namespace : ClaimedIn(k)' = IF k = ns THEN {} ELSE ClaimedIn(k)
        BY <1>1, <1>4, ClaimEnds
    <2>3. [k \in Namespace |-> ClaimedIn(k)]'
            = [[k \in Namespace |-> ClaimedIn(k)] EXCEPT ![ns] = @ \ {n}]
        BY <2>1, <2>2
    <2>4. n \in [k \in Namespace |-> ClaimedIn(k)][ns]
        BY <2>1
    <2>5. UNCHANGED <<[k \in Namespace |-> OrZero(state[k])], issued>>
        BY <1>4
    <2>6. Issuer!Skip(ns, n)
        BY <2>3, <2>4, <2>5 DEF Issuer!Skip, ClaimedIn
    <2> QED BY <2>1, <2>6, StepOfIssuer
<1>5. ASSUME NEW d \in Doc, NEW k \in Namespace, Load(p, d, k)
      PROVE  UNCHANGED Issuer!vars
    <2>1. OthersStay(p)
        BY <1>5 DEF Load, OthersStay
    <2> QED BY <1>3, <1>5, <2>1 DEF Load
<1>6. CASE TakeLocks(p) \/ Allocate(p) \/ CheckFree(p)
    <2>1. OthersStay(p)
        BY <1>6 DEF TakeLocks, Allocate, CheckFree, OthersStay
    <2> QED BY <1>3, <1>6, <2>1 DEF TakeLocks, Allocate, CheckFree
<1>7. CASE WriteRecord(p)
    <2>1. /\ pc[p] = "record" /\ pc' = [pc EXCEPT ![p] = "place"]
          /\ state' = [state EXCEPT ![ns] = n]
          /\ UNCHANGED <<job, next, issued>> /\ ns \in Namespace /\ n \in Number
        BY <1>2, <1>7 DEF WriteRecord
    <2>2. n > OrZero(state[ns])
        BY <2>1 DEF NumInv, Ahead
    <2>3. \A k \in Namespace :
              OrZero(state[k])' = IF k = ns THEN n ELSE OrZero(state[k])
        BY <2>1 DEF OrZero
    <2>4. \A k \in Namespace :
              ClaimedIn(k)' = IF k = ns THEN ClaimedIn(k) \cup {n} ELSE ClaimedIn(k)
        BY <2>1 DEF ClaimedIn
    <2>5. [k \in Namespace |-> OrZero(state[k])]'
            = [[k \in Namespace |-> OrZero(state[k])] EXCEPT ![ns] = n]
        BY <2>3 DEF OrZero
    <2>6. [k \in Namespace |-> ClaimedIn(k)]'
            = [[k \in Namespace |-> ClaimedIn(k)] EXCEPT ![ns] = @ \cup {n}]
        BY <2>1, <2>4
    <2>7. n > [k \in Namespace |-> OrZero(state[k])][ns] /\ UNCHANGED issued
        BY <2>1, <2>2
    <2>8. Issuer!Claim(ns, n)
        BY <2>5, <2>6, <2>7 DEF Issuer!Claim, ClaimedIn
    <2> QED BY <2>1, <2>8, StepOfIssuer
<1>8. CASE Create(p) \/ Rename(p)
    <2>1. /\ pc[p] = "place" /\ pc'[p] = "unlock" /\ ns \in Namespace
          /\ issued' = [issued EXCEPT ![ns] = @ \cup {n}] /\ state' = state
        BY <1>2, <1>8 DEF Create, Rename
    <2>2. OthersStay(p)
        BY <1>8 DEF Create, Rename, OthersStay
    <2>3. ClaimedIn(ns) = {n}
        BY <1>1, <2>1, OneClaim
    <2>4. \A k \in Namespace : ClaimedIn(k)' = IF k = ns THEN {} ELSE ClaimedIn(k)
        BY <1>1, <2>1, <2>2, ClaimEnds
    <2>5. [k \in Namespace |-> ClaimedIn(k)]'
            = [[k \in Namespace |-> ClaimedIn(k)] EXCEPT ![ns] = @ \ {n}]
        BY <2>3, <2>4
    <2>6. n \in [k \in Namespace |-> ClaimedIn(k)][ns]
        BY <2>1, <2>3
    <2>7. UNCHANGED [k \in Namespace |-> OrZero(state[k])]
        BY <2>1
    <2>8. Issuer!Issue(ns, n)
        BY <2>1, <2>5, <2>6, <2>7 DEF Issuer!Issue, ClaimedIn
    <2> QED BY <2>1, <2>3, <2>8, StepOfIssuer
<1>9. CASE Fail(p)
    <2>1. OthersStay(p) /\ pc'[p] = "unlock"
        BY <1>9 DEF Fail, OthersStay
    <2> QED BY <1>3, <1>4, <1>9, <2>1 DEF Fail
<1>10. CASE Unlock(p) \/ Crash(p)
    <2>1. OthersStay(p) /\ pc'[p] = "idle" /\ UNCHANGED <<state, issued>>
        BY <1>10 DEF Unlock, Crash, Ends, OthersStay
    <2> QED BY <1>3, <1>4, <2>1
<1> QED BY <1>5, <1>6, <1>7, <1>8, <1>9, <1>10 DEF Run

LEMMA NextRefines ==
    ASSUME TInv, NumInv, [Next]_vars
    PROVE  [Issuer!Next]_(Issuer!vars)
<1>1. ASSUME UNCHANGED <<state, procVars, ghostVars>>
      PROVE  UNCHANGED Issuer!vars
    BY <1>1 DEF procVars, ghostVars, Issuer!vars
<1>2. ASSUME NEW ns \in Namespace, ClearLock(ns)
      PROVE  UNCHANGED Issuer!vars
    BY <1>1, <1>2 DEF ClearLock, fileVars
<1>3. ASSUME NEW d \in Doc, Delete(d)
      PROVE  UNCHANGED Issuer!vars
    BY <1>1, <1>3 DEF Delete
<1>4. ASSUME NEW d \in Doc, NEW ns \in Namespace, NEW n \in HandNumber,
             MakeByHand(d, ns, n)
      PROVE  UNCHANGED Issuer!vars
    BY <1>1, <1>4 DEF MakeByHand
<1>5. CASE UNCHANGED vars
    BY <1>1, <1>5 DEF vars, fileVars
<1> QED BY <1>2, <1>3, <1>4, <1>5, RunRefines DEF Next

\* Numbering implements the key issuer: a number is claimed above all that were
\* claimed before, and goes to the one document the claim was made for or to
\* none, as long as no number in the project is the largest there is.
THEOREM KeysIssued == Spec /\ []NoneIsLargest => ImplementsKeyIssuer
<1>1. Init => Issuer!Init
    <2> SUFFICES ASSUME Init PROVE Issuer!Init
        OBVIOUS
    <2>1. \A ns \in Namespace : OrZero(state[ns]) \in Number
        BY ModulusAssumption DEF OrZero, Number
    <2> QED BY <2>1 DEF Init, Issuer!Init
<1>2. TInv /\ NumInv /\ [Next]_vars => [Issuer!Next]_(Issuer!vars)
    BY NextRefines
<1> QED BY <1>1, <1>2, NumInvHolds, PTL DEF Spec, ImplementsKeyIssuer, Issuer!Spec
=============================================================================
