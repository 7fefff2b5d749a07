--------------------------- MODULE WritersProofs ---------------------------
(***************************************************************************)
(* Proofs about Writers: that its variables keep their types, that a `set` *)
(* decides on the text it replaces, and what `mv` does to the project:     *)
(* that a document stays at one place, that a move changes nothing but     *)
(* refs and its own record, that it is recorded once, that no ref names    *)
(* the old place, and that a move which was stopped and is run again       *)
(* leaves no dangling ref.                                                 *)
(***************************************************************************)
EXTENDS Writers, TLAPS, SequenceTheorems

-----------------------------------------------------------------------------
(* What the operators of the model return.                                 *)

LEMMA FirstStatusType == FirstStatus \in Status
BY StatusAssumption DEF FirstStatus

LEMMA NewTextType == \A d \in Nat : NewText(d) \in Text
BY FirstStatusType, EmptySeq DEF NewText, Text

LEMMA AppliedType ==
    ASSUME NEW c \in Command, c.op = "set", NEW t \in Text
    PROVE  Applied(c, t) \in Text
<1>1. c \in SetCommand
  BY DEF Command, NewCommand, MvCommand, RenumberCommand
<1>2. CASE c \in SetOf("status", Status)
  BY <1>2 DEF SetOf, Applied, Text
<1>3. CASE c \in SetOf("link", Path)
  BY <1>3 DEF SetOf, Applied, Text
<1>4. CASE c \in SetOf("refs", SUBSET Path)
  BY <1>4 DEF SetOf, Applied, Text
<1> QED
  BY <1>1, <1>2, <1>3, <1>4 DEF SetCommand

LEMMA RecordedType ==
    ASSUME NEW t \in Text, NEW from \in Path
    PROVE  Recorded(t, from) \in Text
<1>1. t.moves \in Seq(Path) /\ Append(t.moves, from) \in Seq(Path)
  BY AppendProperties DEF Text
<1> QED
  BY <1>1 DEF Recorded, Text

LEMMA RewrittenType ==
    ASSUME NEW q, NEW t \in Text, NEW s, NEW from \in Path, NEW to \in Path
    PROVE  Rewritten(q, t, s, from, to) \in Text
BY DEF Rewritten, Text

LEMMA NsOfType == \A q \in Path : NsOf[q] \in Namespace /\ NsOf[q] \in Lock
BY PathAssumption DEF Lock

LEMMA CommandFields ==
    ASSUME NEW c \in Command
    PROVE  /\ c.path \in Path
           /\ c.op \in {"set", "new", "mv", "renumber"}
           /\ c.op = "mv" => c.to \in Path
           /\ c.op = "renumber" => c.ns \in Namespace
BY DEF Command, SetCommand, SetOf, NewCommand, MvCommand, RenumberCommand

LEMMA NoneApart ==
    /\ None \notin Text /\ None \notin Command /\ None \notin Path
    /\ None \notin Proc
BY NamesAssumption

-----------------------------------------------------------------------------
(* Types. What a run knows depends on where it is.                         *)

MoveOps == {"mv", "renumber"}

Known(p) ==
    /\ pc[p] # "idle" => job[p] \in Commands
    /\ pc[p] \in {"read", "write"} => job[p].op = "set"
    /\ pc[p] = "create" => job[p].op = "new"
    /\ pc[p] \in {"scan", "check", "prepare", "record", "rename"} => job[p].op \in MoveOps
    /\ pc[p] = "write" => text[p] \in Text
    /\ pc[p] \in {"scan", "wait", "check", "prepare"} /\ job[p].op \in MoveOps => text[p] \in Text
    /\ pc[p] \in {"prepare", "record", "rename"} => dest[p] \in Path

TypeInv == TypeOK /\ \A p \in Proc : Known(p)

LEMMA NoScanType == NoScan \in [refs : SUBSET Path, link : SUBSET Path]
BY DEF NoScan

LEMMA TypeInit == Init => TypeInv
<1> SUFFICES ASSUME Init PROVE TypeInv
  OBVIOUS
<1>1. file \in [Path -> Text \cup {None}] /\ used \in SUBSET Path
  BY InitialAssumption DEF Init, Present
<1>2. 0 \in 0..MaxRuns
  BY OptionsAssumption
<1>3. TypeOK
  BY <1>1, <1>2, NoScanType DEF Init, TypeOK, Steps
<1>4. \A p \in Proc : Known(p)
  BY DEF Init, Known
<1> QED
  BY <1>3, <1>4 DEF TypeInv

LEMMA JobType ==
    ASSUME TypeInv, NEW p \in Proc, pc[p] # "idle"
    PROVE  job[p] \in Command
BY CommandAssumption DEF TypeInv, Known

LEMMA HolderChangesType ==
    ASSUME TypeInv, NEW s \in [refs : SUBSET Path, link : SUBSET Path],
           Holders(s) \subseteq Present, NEW from \in Path, NEW to \in Path
    PROVE  /\ HolderChanges(s, from, to) \in SUBSET Change
           /\ \A ch \in HolderChanges(s, from, to) : ch.path \in Holders(s)
<1>1. ASSUME NEW q \in Holders(s)
      PROVE  q \in Path /\ file[q] \in Text
  BY <1>1 DEF Present, TypeInv, TypeOK
<1>2. ASSUME NEW q \in Holders(s)
      PROVE  [path |-> q, text |-> Rewritten(q, file[q], s, from, to)] \in Change
  <2>1. Rewritten(q, file[q], s, from, to) \in Text
    BY <1>1, RewrittenType
  <2> QED
    BY <1>1, <2>1 DEF Change
<1> QED
  BY <1>2 DEF HolderChanges

LEMMA OwnChangeType ==
    ASSUME NEW t \in Text, NEW from \in Path
    PROVE  OwnChange(t, from) \in Text \cup {None}
BY RecordedType DEF OwnChange

LEMMA TypeNext == TypeInv /\ [Next]_vars => TypeInv'
<1> SUFFICES ASSUME TypeInv, [Next]_vars PROVE TypeInv'
  OBVIOUS
<1> USE CommandFields, NoneApart
<1>0. CASE UNCHANGED vars
  BY <1>0 DEF TypeInv, TypeOK, Known, vars, procVars
<1>1. ASSUME NEW p \in Proc, NEW c \in Commands, Load(p, c) PROVE TypeInv'
  BY <1>1, CommandAssumption, OptionsAssumption
     DEF Load, TypeInv, TypeOK, Known, Goto, Steps, Present, MoveOps
<1>2. ASSUME NEW p \in Proc, Resolve(p) \/ ResolveNew(p) PROVE TypeInv'
  <2>1. NsOf[job[p].path] \in Lock
    BY <1>2, JobType, NsOfType DEF Resolve, ResolveNew
  <2>2. /\ pc[p] = "resolve" /\ job[p].op \in {"set", "new"}
        /\ pc' = [pc EXCEPT ![p] = "wait"]
        /\ needs' = [needs EXCEPT ![p] = {NsOf[job[p].path]}]
        /\ UNCHANGED <<file, owner, text, scan, dest, plan, own, job, seen, used, born, mistaken, runs>>
    BY <1>2 DEF Resolve, ResolveNew, Goto, Keep
  <2> QED
    BY <2>1, <2>2 DEF TypeInv, TypeOK, Known, Steps, MoveOps
<1>3. ASSUME NEW p \in Proc, ResolveLoose(p) PROVE TypeInv'
  BY <1>3 DEF ResolveLoose, TypeInv, TypeOK, Known, Goto, Steps, MoveOps, Lock
<1>4. ASSUME NEW p \in Proc, ReadSource(p) PROVE TypeInv'
  <2>1. job[p] \in Command /\ file[job[p].path] \in Text
    BY <1>4, JobType DEF ReadSource, TypeInv, TypeOK
  <2> QED
    BY <1>4, <2>1 DEF ReadSource, Moves, TypeInv, TypeOK, Known, Goto, Keep, Steps, MoveOps
<1>5. ASSUME NEW p \in Proc, Scan(p) PROVE TypeInv'
  <2> DEFINE found == Scanned(seen[p], job[p].path)
             there == IF job[p].op = "mv" THEN NsOf[job[p].to] ELSE job[p].ns
  <2>1. job[p] \in Command /\ job[p].op \in MoveOps
    BY <1>5, JobType DEF Scan, TypeInv, Known
  <2>2. found \in [refs : SUBSET Path, link : SUBSET Path]
    BY DEF Scanned, TypeInv, TypeOK
  <2>3. Needed(job[p].path, there, Holders(found)) \in SUBSET Lock
    BY <2>1, <2>2, NsOfType DEF Needed, Holders, Lock, MoveOps
  <2> HIDE DEF found, there
  <2>4. /\ pc[p] = "scan" /\ pc' = [pc EXCEPT ![p] = "wait"]
        /\ scan' = [scan EXCEPT ![p] = found]
        /\ needs' = [needs EXCEPT ![p] = Needed(job[p].path, there, Holders(found))]
        /\ UNCHANGED <<file, owner, text, dest, plan, own, job, seen, used, born, mistaken, runs>>
    BY <1>5 DEF Scan, Goto, Keep, found, there
  <2> QED
    BY <2>2, <2>3, <2>4 DEF TypeInv, TypeOK, Known, Steps, MoveOps
<1>6. ASSUME NEW p \in Proc, TakeLocks(p) PROVE TypeInv'
  <2>1. job[p] \in Command
    BY <1>6, JobType DEF TakeLocks
  <2> QED
    BY <1>6, <2>1 DEF TakeLocks, TypeInv, TypeOK, Known, Goto, Keep, Steps, MoveOps
<1>7. ASSUME NEW p \in Proc, Read(p) PROVE TypeInv'
  <2>1. job[p] \in Command /\ file[job[p].path] \in Text
    BY <1>7, JobType DEF Read, TypeInv, TypeOK
  <2> QED
    BY <1>7, <2>1 DEF Read, TypeInv, TypeOK, Known, Goto, Keep, Steps, MoveOps
<1>8. ASSUME NEW p \in Proc, Write(p) PROVE TypeInv'
  <2>1. job[p] \in Command /\ job[p].op = "set" /\ text[p] \in Text
    BY <1>8, JobType DEF Write, TypeInv, Known
  <2>2. Applied(job[p], text[p]) \in Text
    BY <2>1, AppliedType
  <2> QED
    BY <1>8, <2>1, <2>2 DEF Write, TypeInv, TypeOK, Known, Goto, Keep, Steps, MoveOps
<1>9. ASSUME NEW p \in Proc, Create(p) PROVE TypeInv'
  <2>1. born + 1 \in Nat /\ NewText(born + 1) \in Text
    BY NewTextType DEF TypeInv, TypeOK
  <2> QED
    BY <1>9, <2>1 DEF Create, TypeInv, TypeOK, Known, Goto, Steps, MoveOps
<1>10. ASSUME NEW p \in Proc, CheckFree(p) \/ Allocate(p) PROVE TypeInv'
  <2>1. job[p] \in Command
    BY <1>10, JobType DEF CheckFree, Allocate
  <2>2. PICK q \in Path : dest' = [dest EXCEPT ![p] = q]
    BY PathAssumption, <1>10, <2>1 DEF CheckFree, Allocate
  <2> QED
    BY <1>10, <2>1, <2>2
       DEF CheckFree, Allocate, TypeInv, TypeOK, Known, Goto, Keep, Steps, MoveOps
<1>11. ASSUME NEW p \in Proc, Prepare(p) PROVE TypeInv'
  <2>1. job[p] \in Command /\ job[p].op \in MoveOps /\ text[p] \in Text /\ dest[p] \in Path
    BY <1>11, JobType DEF Prepare, TypeInv, Known
  <2>2. HolderChanges(scan[p], job[p].path, dest[p]) \in SUBSET Change
    BY <1>11, <2>1, HolderChangesType DEF Prepare, TypeInv, TypeOK
  <2>3. OwnChange(text[p], job[p].path) \in Text \cup {None}
    BY <2>1, OwnChangeType
  <2> QED
    BY <1>11, <2>1, <2>2, <2>3 DEF Prepare, TypeInv, TypeOK, Known, Goto, Keep, Steps, MoveOps
<1>12. ASSUME NEW p \in Proc, Record(p) PROVE TypeInv'
  BY <1>12 DEF Record, TypeInv, TypeOK, Known, Goto, Steps, MoveOps
<1>13. ASSUME NEW p \in Proc, RenameHolder(p) PROVE TypeInv'
  <2>1. PICK ch \in plan[p] : /\ file' = [file EXCEPT ![ch.path] = ch.text]
                              /\ plan' = [plan EXCEPT ![p] = @ \ {ch}]
    BY <1>13 DEF RenameHolder
  <2>2. ch.path \in Path /\ ch.text \in Text
    BY DEF TypeInv, TypeOK, Change
  <2> QED
    BY <1>13, <2>1, <2>2 DEF RenameHolder, TypeInv, TypeOK, Known, Keep, MoveOps
<1>14. ASSUME NEW p \in Proc, RenameOwn(p) PROVE TypeInv'
  BY <1>14 DEF RenameOwn, TypeInv, TypeOK, Known, Keep, MoveOps
<1>15. ASSUME NEW p \in Proc, MoveDocument(p) PROVE TypeInv'
  <2>1. job[p] \in Command /\ file[job[p].path] \in Text
    BY <1>15, JobType DEF MoveDocument, TypeInv, TypeOK
  <2> QED
    BY <1>15, <2>1 DEF MoveDocument, TypeInv, TypeOK, Known, Goto, Keep, Steps, MoveOps
<1>16. ASSUME NEW p \in Proc, Fail(p) PROVE TypeInv'
  BY <1>16 DEF Fail, TypeInv, TypeOK, Known, Goto, Keep, Steps, MoveOps
<1>17. ASSUME NEW p \in Proc, Unlock(p) \/ Crash(p) PROVE TypeInv'
  <2>1. Ends(p) /\ owner' \in [Lock -> Proc \cup {None, Abandoned}]
    BY <1>17 DEF Unlock, Crash, TypeInv, TypeOK
  <2>2. TypeOK'
    BY <2>1, NoScanType DEF Ends, TypeInv, TypeOK, Steps
  <2>3. ASSUME NEW q \in Proc PROVE Known(q)'
    BY <2>1 DEF Ends, TypeInv, TypeOK, Known
  <2> QED
    BY <2>2, <2>3 DEF TypeInv
<1>18. ASSUME NEW l \in Lock, ClearLock(l) PROVE TypeInv'
  BY <1>18 DEF ClearLock, TypeInv, TypeOK, Known, procVars
<1> QED
  BY <1>0, <1>1, <1>2, <1>3, <1>4, <1>5, <1>6, <1>7, <1>8, <1>9, <1>10, <1>11, <1>12, <1>13,
     <1>14, <1>15, <1>16, <1>17, <1>18 DEF Next, Step

\* The variables of the write commands keep their types: what a command takes
\* from its index, its scan and the files is always a text, a path or a lock.
THEOREM TypeCorrect == Spec => []TypeOK
<1>1. TypeInv => TypeOK
  BY DEF TypeInv
<1> QED
  BY TypeInit, TypeNext, <1>1, PTL DEF Spec

-----------------------------------------------------------------------------
(* A `set` decides on what it replaces. A run past TakeLocks owns the locks *)
(* it needs, what it needs covers every path it writes, and so a text that  *)
(* was read under the lock is still in the file.                            *)

Locked == {"read", "write", "create", "check", "prepare", "record", "rename"}

Holding(p) == pc[p] \in Locked => \A l \in needs[p] : owner[l] = p

Covered(p) ==
    /\ pc[p] \in Locked \cup {"wait"} => LET c == job[p] IN
        /\ NsOf[c.path] \in needs[p] \/ (c.op = "set" /\ mistaken)
        /\ c.op = "mv" => NsOf[c.to] \in needs[p]
        /\ c.op = "renumber" => c.ns \in needs[p]
        /\ c.op \in MoveOps => \A q \in Holders(scan[p]) : NsOf[q] \in needs[p]
    /\ pc[p] \in {"prepare", "record", "rename"} => NsOf[dest[p]] \in needs[p]
    /\ pc[p] \in {"record", "rename"} => \A ch \in plan[p] : NsOf[ch.path] \in needs[p]

Decided(p) == pc[p] = "write" /\ ~mistaken => file[job[p].path] = text[p]

LockInv == TypeInv /\ \A p \in Proc : Holding(p) /\ Covered(p)
SetInv == LockInv /\ \A p \in Proc : Decided(p)

LEMMA SetInit == Init => SetInv
BY TypeInit DEF Init, SetInv, LockInv, Holding, Covered, Decided, Locked

\* Owners: only free locks are taken, and only one's own are given back.
LEMMA HoldingNext ==
    ASSUME LockInv, Next, NEW r \in Proc
    PROVE  Holding(r)'
<1>0. /\ TypeOK /\ Holding(r) /\ r # None /\ r # Abandoned
      /\ \A l \in needs[r] : l \in Lock
  BY NamesAssumption DEF LockInv, TypeInv, TypeOK
<1>1. ASSUME NEW p \in Proc, TakeLocks(p) PROVE Holding(r)'
  BY <1>0, <1>1 DEF TakeLocks, Goto, TypeOK, Holding, Locked
<1>2. ASSUME NEW p \in Proc, Unlock(p) \/ Crash(p) PROVE Holding(r)'
  BY <1>0, <1>2 DEF Unlock, Crash, Ends, TypeOK, Holding, Locked
<1>3. ASSUME NEW l \in Lock, ClearLock(l) PROVE Holding(r)'
  BY <1>0, <1>3 DEF ClearLock, procVars, TypeOK, Holding
<1>4. ASSUME NEW p \in Proc,
             \/ \E c \in Commands : Load(p, c)
             \/ Resolve(p) \/ ResolveLoose(p) \/ ResolveNew(p) \/ Scan(p)
      PROVE  Holding(r)'
  <2>1. owner' = owner /\ pc[p] \notin Locked /\ pc'[p] \notin Locked
        /\ \A q \in Proc \ {p} : pc'[q] = pc[q] /\ needs'[q] = needs[q]
    BY <1>0, <1>4
       DEF Load, Resolve, ResolveLoose, ResolveNew, Scan, Goto, Keep, Locked, TypeOK
  <2> QED
    BY <1>0, <2>1 DEF Holding
<1>5. ASSUME NEW p \in Proc,
             \/ ReadSource(p) \/ Read(p) \/ Write(p) \/ Create(p) \/ CheckFree(p) \/ Allocate(p)
             \/ Prepare(p) \/ Record(p) \/ RenameHolder(p) \/ RenameOwn(p)
             \/ MoveDocument(p) \/ Fail(p)
      PROVE  Holding(r)'
  <2>1. owner' = owner /\ needs' = needs
    BY <1>5 DEF ReadSource, Read, Write, Create, CheckFree, Allocate, Prepare, Record,
                RenameHolder, RenameOwn, MoveDocument, Fail, Keep
  <2>2. pc'[r] \in Locked => pc[r] \in Locked
    BY <1>0, <1>5
       DEF ReadSource, Read, Write, Create, CheckFree, Allocate, Prepare, Record,
           RenameHolder, RenameOwn, MoveDocument, Fail, Goto, Locked, TypeOK
  <2> QED
    BY <1>0, <2>1, <2>2 DEF Holding
<1> QED
  BY <1>1, <1>2, <1>3, <1>4, <1>5 DEF Next, Step

\* What a run needs covers what it will write.
LEMMA CoveredNext ==
    ASSUME LockInv, Next, NEW r \in Proc
    PROVE  Covered(r)'
<1>0. /\ TypeInv /\ TypeOK /\ Known(r) /\ Covered(r)
  BY DEF LockInv, TypeInv
<1>1. ASSUME NEW p \in Proc, NEW c \in Commands, Load(p, c) PROVE Covered(r)'
  BY <1>0, <1>1 DEF Load, Goto, TypeOK, Covered, Locked
<1>2. ASSUME NEW p \in Proc, Resolve(p) \/ ResolveNew(p) PROVE Covered(r)'
  <2>1. /\ pc[p] = "resolve" /\ job[p].op \in {"set", "new"}
        /\ pc' = [pc EXCEPT ![p] = "wait"]
        /\ needs' = [needs EXCEPT ![p] = {NsOf[job[p].path]}]
        /\ UNCHANGED <<scan, dest, plan, job, mistaken>>
    BY <1>2 DEF Resolve, ResolveNew, Goto, Keep
  <2> QED
    BY <1>0, <2>1 DEF TypeOK, Covered, Locked, MoveOps
<1>3. ASSUME NEW p \in Proc, ResolveLoose(p) PROVE Covered(r)'
  BY <1>0, <1>3 DEF ResolveLoose, Goto, TypeOK, Covered, Locked, MoveOps
<1>4. ASSUME NEW p \in Proc, ReadSource(p) PROVE Covered(r)'
  BY <1>0, <1>4 DEF ReadSource, Goto, Keep, TypeOK, Covered, Locked
<1>5. ASSUME NEW p \in Proc, Scan(p) PROVE Covered(r)'
  <2> DEFINE found == Scanned(seen[p], job[p].path)
             there == IF job[p].op = "mv" THEN NsOf[job[p].to] ELSE job[p].ns
  <2>1. /\ pc[p] = "scan" /\ pc' = [pc EXCEPT ![p] = "wait"]
        /\ scan' = [scan EXCEPT ![p] = found]
        /\ needs' = [needs EXCEPT ![p] = Needed(job[p].path, there, Holders(found))]
        /\ UNCHANGED <<dest, plan, job, mistaken>>
    BY <1>5 DEF Scan, Goto, Keep
  <2>2. CASE r = p
    <3>1. /\ pc'[p] = "wait" /\ job' = job /\ scan'[p] = found
          /\ needs'[p] = Needed(job[p].path, there, Holders(found))
      BY <1>0, <2>1 DEF TypeOK
    <3> HIDE DEF found
    <3>2. /\ NsOf[job[p].path] \in needs'[p] /\ there \in needs'[p]
          /\ \A q \in Holders(found) : NsOf[q] \in needs'[p]
      BY <3>1 DEF Needed
    <3> QED
      BY <2>2, <3>1, <3>2 DEF Covered, Locked
  <2>3. CASE r # p
    BY <1>0, <2>1, <2>3 DEF TypeOK, Covered
  <2> QED
    BY <2>2, <2>3
<1>6. ASSUME NEW p \in Proc,
             TakeLocks(p) \/ Read(p) \/ Write(p) \/ Create(p) \/ RenameOwn(p) \/ MoveDocument(p)
      PROVE  Covered(r)'
  <2>1. UNCHANGED <<job, needs, scan, dest, plan, mistaken>>
    BY <1>6 DEF TakeLocks, Read, Write, Create, RenameOwn, MoveDocument, Keep
  <2>2. /\ pc'[r] \in Locked \cup {"wait"} => pc[r] \in Locked \cup {"wait"}
        /\ pc'[r] \in {"prepare", "record", "rename"} => pc'[r] = pc[r]
    BY <1>0, <1>6
       DEF TakeLocks, Read, Write, Create, RenameOwn, MoveDocument, Goto, TypeOK, Locked
  <2> QED
    BY <1>0, <2>1, <2>2 DEF Covered
<1>7. ASSUME NEW p \in Proc, CheckFree(p) \/ Allocate(p) PROVE Covered(r)'
  <2>1. /\ pc[p] = "check" /\ pc' = [pc EXCEPT ![p] = "prepare"]
        /\ UNCHANGED <<job, needs, scan, plan, mistaken>>
    BY <1>7 DEF CheckFree, Allocate, Goto, Keep
  <2>2. PICK q : /\ dest' = [dest EXCEPT ![p] = q]
                 /\ \/ job[p].op = "mv" /\ q = job[p].to
                    \/ job[p].op = "renumber" /\ NsOf[q] = job[p].ns
    BY <1>7 DEF CheckFree, Allocate
  <2>3. NsOf[q] \in needs[p]
    BY <2>1, <2>2 DEF LockInv, Covered, Locked
  <2> QED
    BY <1>0, <2>1, <2>2, <2>3 DEF TypeOK, Covered, Locked
<1>8. ASSUME NEW p \in Proc, Prepare(p) PROVE Covered(r)'
  <2>1. job[p] \in Command /\ job[p].op \in MoveOps /\ dest[p] \in Path /\ pc[p] = "prepare"
    BY <1>8, JobType DEF Prepare, TypeInv, Known, LockInv
  <2>2. \A ch \in plan'[p] : ch.path \in Holders(scan[p])
    BY <1>0, <1>8, <2>1, HolderChangesType, CommandFields DEF Prepare, TypeOK
  <2>3. \A q \in Holders(scan[p]) : NsOf[q] \in needs[p]
    BY <2>1 DEF LockInv, Covered, Locked
  <2>4. /\ UNCHANGED <<job, needs, scan, dest, mistaken>>
        /\ pc'[p] \in {"rename", "record"}
        /\ \A q \in Proc \ {p} : pc'[q] = pc[q] /\ plan'[q] = plan[q]
    BY <1>0, <1>8 DEF Prepare, Goto, Keep, TypeOK
  <2>5. CASE r = p
    BY <1>0, <2>1, <2>2, <2>3, <2>4, <2>5 DEF Covered, Locked
  <2>6. CASE r # p
    BY <1>0, <2>4, <2>6 DEF Covered
  <2> QED
    BY <2>5, <2>6
<1>9. ASSUME NEW p \in Proc, Record(p) PROVE Covered(r)'
  BY <1>0, <1>9 DEF Record, Goto, TypeOK, Covered, Locked
<1>10. ASSUME NEW p \in Proc, RenameHolder(p) PROVE Covered(r)'
  <2>1. /\ UNCHANGED <<pc, job, needs, scan, dest, mistaken>>
        /\ plan'[r] \subseteq plan[r]
    BY <1>0, <1>10 DEF RenameHolder, Keep, TypeOK
  <2> QED
    BY <1>0, <2>1 DEF Covered
<1>11. ASSUME NEW p \in Proc, Fail(p) PROVE Covered(r)'
  BY <1>0, <1>11 DEF Fail, Goto, Keep, TypeOK, Covered, Locked
<1>12. ASSUME NEW p \in Proc, Unlock(p) \/ Crash(p) PROVE Covered(r)'
  BY <1>0, <1>12 DEF Unlock, Crash, Ends, TypeOK, Covered, Locked
<1>13. ASSUME NEW l \in Lock, ClearLock(l) PROVE Covered(r)'
  BY <1>0, <1>13 DEF ClearLock, procVars, Covered
<1> QED
  BY <1>1, <1>2, <1>3, <1>4, <1>5, <1>6, <1>7, <1>8, <1>9, <1>10, <1>11, <1>12, <1>13 DEF Next, Step

LEMMA LockInvNext == LockInv /\ [Next]_vars => LockInv'
<1>1. ASSUME LockInv, Next PROVE LockInv'
  BY <1>1, TypeNext, HoldingNext, CoveredNext DEF LockInv
<1>2. ASSUME LockInv, UNCHANGED vars PROVE LockInv'
  <2>1. TypeInv'
    BY <1>2, TypeNext DEF LockInv
  <2>2. \A p \in Proc : (Holding(p) <=> Holding(p)') /\ (Covered(p) <=> Covered(p)')
    BY <1>2 DEF vars, procVars, Holding, Covered
  <2> QED
    BY <1>2, <2>1, <2>2 DEF LockInv
<1> QED
  BY <1>1, <1>2

\* Whoever replaces a file owns the lock of its namespace.
LEMMA OnlyUnderLock ==
    ASSUME LockInv, ~mistaken, NEW p \in Proc, Step(p), NEW q \in Path, file'[q] # file[q]
    PROVE  pc[p] \in Locked /\ owner[NsOf[q]] = p
<1>0. Holding(p) /\ Covered(p) /\ Known(p) /\ TypeOK
  BY DEF LockInv, TypeInv
<1>1. CASE Write(p)
  BY <1>0, <1>1 DEF Write, TypeOK, Holding, Covered, Locked
<1>2. CASE Create(p)
  BY <1>0, <1>2 DEF Create, TypeOK, Known, Holding, Covered, Locked
<1>3. CASE RenameHolder(p)
  <2>1. PICK ch \in plan[p] : file' = [file EXCEPT ![ch.path] = ch.text]
    BY <1>3 DEF RenameHolder
  <2>2. q = ch.path /\ NsOf[q] \in needs[p]
    BY <1>0, <1>3, <2>1 DEF RenameHolder, TypeOK, Covered
  <2> QED
    BY <1>0, <1>3, <2>2 DEF RenameHolder, Holding, Locked
<1>4. CASE RenameOwn(p)
  BY <1>0, <1>4 DEF RenameOwn, TypeOK, Holding, Covered, Locked
<1>5. CASE MoveDocument(p)
  <2>1. q = job[p].path \/ q = dest[p]
    BY <1>0, <1>5 DEF MoveDocument, TypeOK
  <2> QED
    BY <1>0, <1>5, <2>1 DEF MoveDocument, Holding, Covered, Locked
<1>6. \/ Write(p) \/ Create(p) \/ RenameHolder(p) \/ RenameOwn(p) \/ MoveDocument(p)
      \/ file' = file
  BY DEF Step, Load, Resolve, ResolveLoose, ResolveNew, ReadSource, Scan, TakeLocks, Read,
         CheckFree, Allocate, Prepare, Record, Fail, Unlock, Crash, Ends
<1> QED
  BY <1>1, <1>2, <1>3, <1>4, <1>5, <1>6

\* Only a path taken for a loose file marks a document as mistaken, for good.
LEMMA MistakenOnly ==
    ASSUME Next
    PROVE  mistaken' = mistaken \/ (mistaken' /\ \E p \in Proc : ResolveLoose(p))
<1>0. \A p \in Proc, c \in Commands : Load(p, c) => mistaken' = mistaken
  BY DEF Load
<1>1. ASSUME NEW p \in Proc, Resolve(p) \/ ResolveNew(p) \/ ReadSource(p)
                              \/ Scan(p) \/ TakeLocks(p) \/ Read(p)
      PROVE  mistaken' = mistaken
  BY <1>1 DEF Resolve, ResolveNew, ReadSource, Scan, TakeLocks, Read, Keep
<1>2. ASSUME NEW p \in Proc, Write(p) \/ Create(p) \/ CheckFree(p) \/ Allocate(p)
                              \/ Prepare(p) \/ Record(p)
      PROVE  mistaken' = mistaken
  BY <1>2 DEF Write, Create, CheckFree, Allocate, Prepare, Record, Keep
<1>3. ASSUME NEW p \in Proc, RenameHolder(p) \/ RenameOwn(p) \/ MoveDocument(p) \/ Fail(p)
                              \/ Unlock(p) \/ Crash(p)
      PROVE  mistaken' = mistaken
  BY <1>3 DEF RenameHolder, RenameOwn, MoveDocument, Fail, Unlock, Crash, Ends, Keep
<1>4. \A p \in Proc : ResolveLoose(p) => mistaken'
  BY DEF ResolveLoose
<1>5. \A l \in Lock : ClearLock(l) => mistaken' = mistaken
  BY DEF ClearLock
<1>6. ASSUME NEW p \in Proc, Step(p), ~ResolveLoose(p)
      PROVE  mistaken' = mistaken
  <2> SUFFICES ASSUME mistaken' # mistaken PROVE FALSE
    OBVIOUS
  <2>1. /\ ~Resolve(p) /\ ~ResolveNew(p) /\ ~ReadSource(p)
        /\ ~Scan(p) /\ ~TakeLocks(p) /\ ~Read(p)
    BY <1>1
  <2>2. /\ ~Write(p) /\ ~Create(p) /\ ~CheckFree(p) /\ ~Allocate(p)
        /\ ~Prepare(p) /\ ~Record(p)
    BY <1>2
  <2>3. /\ ~RenameHolder(p) /\ ~RenameOwn(p) /\ ~MoveDocument(p) /\ ~Fail(p)
        /\ ~Unlock(p) /\ ~Crash(p)
    BY <1>3
  <2> QED
    BY <1>0, <1>6, <2>1, <2>2, <2>3 DEF Step
<1> QED
  BY <1>4, <1>5, <1>6 DEF Next

LEMMA MistakenStays ==
    ASSUME Next, ~mistaken' PROVE ~mistaken
BY MistakenOnly

\* A step of one run leaves what every other run has in memory alone.
LEMMA OthersUntouched ==
    ASSUME TypeOK, NEW p \in Proc, Step(p), NEW r \in Proc, r # p
    PROVE  /\ pc'[r] = pc[r] /\ job'[r] = job[r] /\ text'[r] = text[r]
           /\ dest'[r] = dest[r] /\ plan'[r] = plan[r] /\ own'[r] = own[r]
<1> DEFINE Same == /\ pc'[r] = pc[r] /\ job'[r] = job[r] /\ text'[r] = text[r]
                   /\ dest'[r] = dest[r] /\ plan'[r] = plan[r] /\ own'[r] = own[r]
<1>1. ASSUME NEW c \in Commands, Load(p, c) PROVE Same
  BY <1>1 DEF Load, Goto, TypeOK
<1>2. CASE Resolve(p) \/ ResolveLoose(p) \/ ResolveNew(p)
  BY <1>2 DEF Resolve, ResolveLoose, ResolveNew, Keep, Goto, TypeOK
<1>3. CASE ReadSource(p) \/ Scan(p) \/ TakeLocks(p)
  BY <1>3 DEF ReadSource, Scan, TakeLocks, Keep, Goto, TypeOK
<1>4. CASE Read(p) \/ Write(p) \/ Create(p)
  BY <1>4 DEF Read, Write, Create, Keep, Goto, TypeOK
<1>5. CASE CheckFree(p) \/ Allocate(p) \/ Prepare(p) \/ Record(p)
  BY <1>5 DEF CheckFree, Allocate, Prepare, Record, Keep, Goto, TypeOK
<1>6. CASE RenameHolder(p) \/ RenameOwn(p) \/ MoveDocument(p)
  BY <1>6 DEF RenameHolder, RenameOwn, MoveDocument, Keep, Goto, TypeOK
<1>7. CASE Fail(p) \/ Unlock(p) \/ Crash(p)
  BY <1>7 DEF Fail, Unlock, Crash, Ends, Keep, Goto, TypeOK
<1> QED
  BY <1>1, <1>2, <1>3, <1>4, <1>5, <1>6, <1>7 DEF Step

LEMMA DecidedNext ==
    ASSUME SetInv, Next, NEW r \in Proc
    PROVE  Decided(r)'
<1> SUFFICES ASSUME pc'[r] = "write", ~mistaken'
             PROVE  file'[job'[r].path] = text'[r]
  BY DEF Decided
<1>0. /\ LockInv /\ TypeOK /\ Known(r) /\ Holding(r) /\ Covered(r) /\ Decided(r)
  BY DEF SetInv, LockInv, TypeInv
<1>1. ~mistaken
  BY MistakenStays
<1>2. CASE Read(r)
  BY <1>0, <1>2 DEF Read, Keep, TypeOK
<1>3. ASSUME ~Read(r)
      PROVE  pc[r] = "write" /\ job'[r] = job[r] /\ text'[r] = text[r]
  <2>1. ASSUME NEW p \in Proc, Step(p), p # r
        PROVE  pc'[r] = pc[r] /\ job'[r] = job[r] /\ text'[r] = text[r]
    BY <1>0, <2>1, OthersUntouched
  <2>2. ASSUME Step(r) PROVE FALSE
    BY <1>0, <1>3, <2>2
       DEF Step, Load, Resolve, ResolveLoose, ResolveNew, ReadSource, Scan, TakeLocks,
           Write, Create, CheckFree, Allocate, Prepare, Record, RenameHolder, RenameOwn,
           MoveDocument, Fail, Unlock, Crash, Ends, Keep, Goto, TypeOK
  <2>3. ASSUME NEW l \in Lock, ClearLock(l)
        PROVE  pc'[r] = pc[r] /\ job'[r] = job[r] /\ text'[r] = text[r]
    BY <2>3 DEF ClearLock, procVars
  <2> QED
    BY <2>1, <2>2, <2>3 DEF Next
<1>4. ASSUME ~Read(r)
      PROVE  file'[job[r].path] = file[job[r].path]
  <2>1. /\ job[r] \in Command /\ job[r].path \in Path
        /\ owner[NsOf[job[r].path]] = r
    BY <1>0, <1>1, <1>3, <1>4, JobType, CommandFields DEF LockInv, Holding, Covered, Locked
  <2>2. ASSUME NEW p \in Proc, Step(p), file'[job[r].path] # file[job[r].path]
        PROVE  p = r
    BY <1>0, <1>1, <2>1, <2>2, OnlyUnderLock
  <2>3. ASSUME Step(r) PROVE file' = file
    <3>1. pc[r] = "write" /\ pc'[r] = "write"
      BY <1>3, <1>4
    <3> QED
      BY <1>0, <1>4, <2>3, <3>1
         DEF Step, Load, Resolve, ResolveLoose, ResolveNew, ReadSource, Scan, TakeLocks, Read,
             Write, Create, CheckFree, Allocate, Prepare, Record, RenameHolder, RenameOwn,
             MoveDocument, Fail, Unlock, Crash, Ends, Keep, Goto, TypeOK
  <2> QED
    BY <2>2, <2>3 DEF Next, ClearLock
<1> QED
  BY <1>0, <1>1, <1>2, <1>3, <1>4 DEF Decided

LEMMA SetInvNext == SetInv /\ [Next]_vars => SetInv'
<1>1. ASSUME SetInv, Next PROVE SetInv'
  BY <1>1, LockInvNext, DecidedNext DEF SetInv
<1>2. ASSUME SetInv, UNCHANGED vars PROVE SetInv'
  <2>1. \A p \in Proc : Decided(p) <=> Decided(p)'
    BY <1>2 DEF vars, procVars, Decided
  <2> QED
    BY <1>2, <2>1, LockInvNext DEF SetInv
<1> QED
  BY <1>1, <1>2

\* What a `set` read, checked and decided on under its lock is what the file
\* holds when it is replaced, however many runs write beside it and wherever
\* they are killed, unless some document was taken for a loose file.
THEOREM SetDecidesOnCurrent == Spec => CompareAndSet
<1>1. SetInv => [\A p \in Proc : Write(p) /\ ~mistaken => file[job[p].path] = text[p]]_vars
  BY DEF SetInv, Decided, Write
<1> QED
  BY SetInit, SetInvNext, <1>1, PTL DEF Spec, CompareAndSet

-----------------------------------------------------------------------------
(* No document vanishes: what a move will write over is the document the   *)
(* text was made from, and where it will put its own there is nothing. The *)
(* moved document's own text is made from what was read before the locks,  *)
(* and so the document must still be where it was read.                    *)

SourceStays ==
    \A p \in Proc : pc[p] = "prepare" /\ AutoMoves =>
        file[job[p].path] # None /\ file[job[p].path].doc = text[p].doc

Aimed(p) ==
    ~mistaken =>
        /\ pc[p] \in {"prepare", "record", "rename"} => file[dest[p]] = None
        /\ pc[p] \in {"record", "rename"} =>
              /\ own[p] # None =>
                    file[job[p].path] # None /\ own[p].doc = file[job[p].path].doc
              /\ \A ch \in plan[p] :
                    file[ch.path] # None /\ ch.text.doc = file[ch.path].doc

AimInv == SetInv /\ \A p \in Proc : Aimed(p)

LEMMA AimInit == Init => AimInv
BY SetInit DEF AimInv, Aimed, Init

LEMMA DocKept ==
    /\ \A q, t, s, from, to : t \in Text => Rewritten(q, t, s, from, to).doc = t.doc
    /\ \A c \in Command, t \in Text : c.op = "set" => Applied(c, t).doc = t.doc
    /\ \A t \in Text : \A from : Recorded(t, from).doc = t.doc
<1>1. ASSUME NEW q, NEW t \in Text, NEW s, NEW from, NEW to
      PROVE  Rewritten(q, t, s, from, to).doc = t.doc
  BY DEF Rewritten, Text
<1>2. ASSUME NEW c \in Command, NEW t \in Text, c.op = "set"
      PROVE  Applied(c, t).doc = t.doc
  <2>1. c.field # "doc"
    BY <1>2 DEF Command, SetCommand, SetOf, NewCommand, MvCommand, RenumberCommand
  <2> QED
    BY <2>1 DEF Applied, Text
<1>3. \A t \in Text : \A from : Recorded(t, from).doc = t.doc
  BY DEF Recorded, Text
<1> QED
  BY <1>1, <1>2, <1>3

\* The files a run will touch are touched by nobody else meanwhile.
LEMMA OthersKeep ==
    ASSUME LockInv, ~mistaken, NEW p \in Proc, Step(p), NEW r \in Proc, r # p,
           pc[r] \in Locked, NEW q \in Path, NsOf[q] \in needs[r]
    PROVE  file'[q] = file[q]
<1>1. owner[NsOf[q]] = r
  BY DEF LockInv, Holding
<1> QED
  BY <1>1, OnlyUnderLock

LEMMA SourceKept ==
    ASSUME LockInv, ~mistaken, NEW p \in Proc, Step(p), NEW r \in Proc, r # p,
           pc[r] \in {"record", "rename"}
    PROVE  file'[job[r].path] = file[job[r].path]
<1>1. Known(r) /\ Covered(r) /\ TypeInv
  BY DEF LockInv, TypeInv
<1>2. job[r] \in Command /\ job[r].op # "set" /\ job[r].path \in Path
  BY <1>1, JobType, CommandFields DEF Known, MoveOps
<1> QED
  BY <1>1, <1>2, OthersKeep DEF Covered, Locked

LEMMA AimedOthers ==
    ASSUME AimInv, ~mistaken, NEW p \in Proc, Step(p), NEW r \in Proc, r # p
    PROVE  Aimed(r)'
<1>0. /\ LockInv /\ TypeOK /\ Known(r) /\ Covered(r) /\ Aimed(r)
  BY DEF AimInv, SetInv, LockInv, TypeInv
<1>1. /\ pc'[r] = pc[r] /\ dest'[r] = dest[r] /\ plan'[r] = plan[r] /\ own'[r] = own[r]
      /\ job'[r] = job[r]
  BY <1>0, OthersUntouched
<1>2. pc[r] \in {"prepare", "record", "rename"} => file'[dest[r]] = file[dest[r]]
  BY <1>0, OthersKeep DEF Known, Covered, Locked
<1>3. ASSUME pc[r] \in {"record", "rename"}, NEW ch \in plan[r]
      PROVE  file'[ch.path] = file[ch.path]
  BY <1>0, <1>3, OthersKeep DEF Covered, Locked, TypeOK, Change
<1>4. ASSUME pc[r] \in {"record", "rename"}
      PROVE  file'[job[r].path] = file[job[r].path]
  BY <1>0, <1>4, SourceKept
<1> QED
  BY <1>0, <1>1, <1>2, <1>3, <1>4 DEF Aimed

LEMMA AimedOwn ==
    ASSUME AimInv, SourceStays, ~mistaken, NEW p \in Proc, Step(p)
    PROVE  Aimed(p)'
<1>0. /\ LockInv /\ TypeInv /\ TypeOK /\ Known(p) /\ Aimed(p)
  BY DEF AimInv, SetInv, LockInv, TypeInv
<1>1. CASE CheckFree(p) \/ Allocate(p)
  <2>1. PICK q \in Path : /\ file[q] = None
                          /\ dest' = [dest EXCEPT ![p] = q]
    BY PathAssumption, <1>0, <1>1, JobType, CommandFields DEF CheckFree, Allocate
  <2>2. file' = file /\ pc'[p] = "prepare"
    BY <1>0, <1>1 DEF CheckFree, Allocate, Goto, TypeOK
  <2> QED
    BY <1>0, <2>1, <2>2 DEF Aimed, TypeOK
<1>2. CASE Prepare(p)
  <2>1. /\ job[p] \in Command /\ dest[p] \in Path /\ job[p].path \in Path
    BY <1>0, <1>2, JobType, CommandFields DEF Prepare, Known
  <2>2. \A q \in Holders(scan[p]) : file[q] \in Text
    BY <1>0, <1>2 DEF Prepare, Present, TypeOK
  <2>3. \A ch \in HolderChanges(scan[p], job[p].path, dest[p]) :
            ch.path \in Holders(scan[p]) /\ ch.text.doc = file[ch.path].doc
    BY <2>2, DocKept DEF HolderChanges
  <2>4. OwnChange(text[p], job[p].path) # None =>
            /\ file[job[p].path] # None
            /\ OwnChange(text[p], job[p].path).doc = file[job[p].path].doc
    BY <1>0, <1>2, <2>1, DocKept DEF OwnChange, SourceStays, Prepare, Known
  <2>5. /\ file' = file /\ dest' = dest /\ job' = job
        /\ plan'[p] = HolderChanges(scan[p], job[p].path, dest[p])
        /\ own'[p] = OwnChange(text[p], job[p].path)
    BY <1>0, <1>2 DEF Prepare, Keep, TypeOK
  <2>6. \A ch \in plan'[p] : file[ch.path] # None
    BY <1>2, <2>3, <2>5 DEF Prepare, Present
  <2> QED
    BY <1>0, <1>2, <2>3, <2>4, <2>5, <2>6 DEF Aimed, Prepare
<1>3. CASE RenameHolder(p)
  <2>1. PICK ch \in plan[p] : /\ file' = [file EXCEPT ![ch.path] = ch.text]
                              /\ plan' = [plan EXCEPT ![p] = @ \ {ch}]
    BY <1>3 DEF RenameHolder
  <2>2. /\ ch.path \in Path /\ ch.text \in Text /\ dest[p] \in Path
        /\ \A other \in plan[p] : other.path \in Path
        /\ pc[p] = "rename" /\ plan'[p] \subseteq plan[p]
        /\ own' = own /\ dest' = dest /\ job' = job
    BY <1>0, <1>3, <2>1 DEF RenameHolder, Keep, TypeOK, Change, Known
  <2>3. /\ file[dest[p]] = None /\ file[ch.path] # None
        /\ ch.text.doc = file[ch.path].doc
        /\ \A other \in plan[p] :
              file[other.path] # None /\ other.text.doc = file[other.path].doc
    BY <1>0, <2>2 DEF Aimed
  <2>4. file'[dest[p]] = None
    BY <1>0, <2>1, <2>2, <2>3 DEF TypeOK
  <2>5. \A other \in plan[p] :
            file'[other.path] # None /\ other.text.doc = file'[other.path].doc
    BY <1>0, <2>1, <2>2, <2>3, NoneApart DEF TypeOK
  <2>6. own[p] # None =>
            file'[job[p].path] # None /\ own[p].doc = file'[job[p].path].doc
    BY <1>0, <2>1, <2>2, <2>3, NoneApart DEF TypeOK, Aimed
  <2> QED
    BY <2>2, <2>3, <2>4, <2>5, <2>6 DEF Aimed
<1>4. CASE RenameOwn(p)
  <2>1. /\ file' = [file EXCEPT ![job[p].path] = own[p]]
        /\ plan'[p] = {} /\ own'[p] = None /\ dest' = dest
    BY <1>0, <1>4 DEF RenameOwn, TypeOK
  <2>2. file[dest[p]] = None /\ file[job[p].path] # None
    BY <1>0, <1>4 DEF RenameOwn, Aimed
  <2>3. file'[dest[p]] = None
    BY <1>0, <1>4, <2>1, <2>2 DEF RenameOwn, TypeOK, Known
  <2> QED
    BY <2>1, <2>3 DEF Aimed
<1>5. CASE Record(p)
  BY <1>0, <1>5 DEF Record, Aimed
<1>6. CASE \/ \E c \in Commands : Load(p, c)
           \/ Resolve(p) \/ ResolveLoose(p) \/ ResolveNew(p) \/ ReadSource(p) \/ Scan(p)
           \/ TakeLocks(p) \/ Read(p) \/ Write(p) \/ Create(p) \/ MoveDocument(p)
           \/ Fail(p) \/ Unlock(p) \/ Crash(p)
  <2>1. pc'[p] \notin {"prepare", "record", "rename"}
    BY <1>0, <1>6
       DEF Load, Resolve, ResolveLoose, ResolveNew, ReadSource, Scan, TakeLocks, Read,
           Write, Create, MoveDocument, Fail, Unlock, Crash, Ends, Goto, TypeOK
  <2> QED
    BY <2>1 DEF Aimed
<1> QED
  BY <1>1, <1>2, <1>3, <1>4, <1>5, <1>6 DEF Step

LEMMA AimInvNext == SourceStays /\ AimInv /\ [Next]_vars => AimInv'
<1>1. ASSUME SourceStays, AimInv, Next PROVE AimInv'
  <2>1. ASSUME NEW r \in Proc PROVE Aimed(r)'
    <3> SUFFICES ASSUME ~mistaken' PROVE Aimed(r)'
      BY DEF Aimed
    <3>1. ~mistaken
      BY <1>1, MistakenStays
    <3>2. ASSUME NEW p \in Proc, Step(p) PROVE Aimed(r)'
      BY <1>1, <3>1, <3>2, AimedOthers, AimedOwn
    <3>3. ASSUME NEW l \in Lock, ClearLock(l) PROVE Aimed(r)'
      BY <1>1, <3>1, <3>3 DEF AimInv, Aimed, ClearLock, procVars
    <3> QED
      BY <1>1, <3>2, <3>3 DEF Next
  <2> QED
    BY <1>1, <2>1, SetInvNext DEF AimInv
<1>2. ASSUME AimInv, UNCHANGED vars PROVE AimInv'
  <2>1. \A p \in Proc : Aimed(p) <=> Aimed(p)'
    BY <1>2 DEF vars, procVars, Aimed
  <2> QED
    BY <1>2, <2>1, SetInvNext DEF AimInv
<1> QED
  BY <1>1, <1>2

LEMMA StepKeepsDocuments ==
    ASSUME AimInv, ~mistaken, NEW p \in Proc, Step(p)
    PROVE  {file[q].doc : q \in Present} \subseteq {file'[q].doc : q \in Present'}
<1>0. /\ LockInv /\ TypeInv /\ TypeOK /\ Known(p) /\ Aimed(p) /\ Decided(p)
  BY DEF AimInv, SetInv, LockInv, TypeInv
<1>1. SUFFICES ASSUME NEW q \in Path, file[q] # None
               PROVE  \E r \in Path : file'[r] # None /\ file'[r].doc = file[q].doc
  BY DEF Present
<1>2. CASE Write(p)
  <2>1. /\ job[p] \in Command /\ job[p].op = "set" /\ text[p] \in Text
        /\ file[job[p].path] = text[p]
    BY <1>0, <1>2, JobType DEF Write, Known, Decided
  <2>2. Applied(job[p], text[p]).doc = text[p].doc /\ Applied(job[p], text[p]) # None
    BY <2>1, DocKept, AppliedType, NoneApart
  <2> QED
    BY <1>0, <1>1, <1>2, <2>1, <2>2 DEF Write, TypeOK
<1>3. CASE Create(p)
  BY <1>0, <1>1, <1>3 DEF Create, TypeOK
<1>4. CASE RenameHolder(p)
  <2>1. PICK ch \in plan[p] : file' = [file EXCEPT ![ch.path] = ch.text]
    BY <1>4 DEF RenameHolder
  <2>2. /\ ch.text \in Text /\ ch.text.doc = file[ch.path].doc
    BY <1>0, <1>4 DEF RenameHolder, TypeOK, Change, Aimed
  <2> QED
    BY <1>0, <1>1, <2>1, <2>2, NoneApart DEF TypeOK
<1>5. CASE RenameOwn(p)
  <2>1. /\ own[p] \in Text /\ own[p].doc = file[job[p].path].doc
        /\ file' = [file EXCEPT ![job[p].path] = own[p]]
    BY <1>0, <1>5 DEF RenameOwn, TypeOK, Aimed
  <2> QED
    BY <1>0, <1>1, <2>1, NoneApart DEF TypeOK
<1>6. CASE MoveDocument(p)
  <2>1. /\ dest[p] \in Path /\ file[dest[p]] = None /\ file[job[p].path] # None
        /\ job[p].path \in Path
    BY <1>0, <1>6, JobType, CommandFields DEF MoveDocument, Known, Aimed
  <2>2. file'[dest[p]] = file[job[p].path]
    BY <1>0, <1>6, <2>1 DEF MoveDocument, TypeOK
  <2>3. CASE q = job[p].path
    BY <2>1, <2>2, <2>3
  <2>4. CASE q # job[p].path
    <3>1. file'[q] = file[q]
      BY <1>0, <1>1, <1>6, <2>1, <2>4 DEF MoveDocument, TypeOK
    <3> QED
      BY <1>1, <3>1
  <2> QED
    BY <2>3, <2>4
<1>7. \/ Write(p) \/ Create(p) \/ RenameHolder(p) \/ RenameOwn(p) \/ MoveDocument(p)
      \/ file' = file
  BY DEF Step, Load, Resolve, ResolveLoose, ResolveNew, ReadSource, Scan, TakeLocks, Read,
         CheckFree, Allocate, Prepare, Record, Fail, Unlock, Crash, Ends
<1> QED
  BY <1>1, <1>2, <1>3, <1>4, <1>5, <1>6, <1>7

\* No command replaces one document by another, wherever the runs beside it are
\* killed, if no document that a move records was moved or replaced between the
\* reading of its text and the locks.
THEOREM NoDocumentVanishes == Spec /\ []SourceStays => NoneVanishes
<1>1. AimInv /\ [Next]_vars =>
        [~mistaken => {file[q].doc : q \in Present} \subseteq {file'[q].doc : q \in Present'}]_vars
  <2>1. ASSUME AimInv, Next, ~mistaken
        PROVE  {file[q].doc : q \in Present} \subseteq {file'[q].doc : q \in Present'}
    <3>1. ASSUME NEW l \in Lock, ClearLock(l)
          PROVE  {file[q].doc : q \in Present} \subseteq {file'[q].doc : q \in Present'}
      BY <3>1 DEF ClearLock, Present
    <3> QED
      BY <2>1, <3>1, StepKeepsDocuments DEF Next
  <2> QED
    BY <2>1
<1>2. SourceStays /\ AimInv /\ [Next]_vars => AimInv'
  BY AimInvNext
<1> QED
  BY AimInit, <1>1, <1>2, PTL DEF Spec, NoneVanishes

\* Where no schema has an `auto: moves` field, no text is written back that was
\* read before the locks, and no document vanishes at all.
THEOREM NoneVanishesUnrecorded == ~AutoMoves => (Spec => NoneVanishes)
<1> SUFFICES ASSUME ~AutoMoves PROVE Spec => NoneVanishes
  OBVIOUS
<1>1. SourceStays
  BY DEF SourceStays
<1> QED
  BY <1>1, NoDocumentVanishes, PTL

-----------------------------------------------------------------------------
(* A document is at one place. A file keeps its document, gets a new one    *)
(* that no file has had before, or gets the one of a file that is then gone.*)

Unique == \A q, r \in Present : file[q].doc = file[r].doc => q = r
Unborn == \A q \in Present : \A n \in Nat : n > born => file[q].doc # n

OneEach == ~mistaken => Unique /\ Unborn

OneInv == AimInv /\ OneEach

LEMMA OneInit == Init => OneInv
<1> SUFFICES ASSUME Init PROVE OneEach
  BY AimInit DEF OneInv
<1>1. \A q \in Present : file[q].doc = q /\ q \in Path
  BY InitialAssumption DEF Init, Present
<1>2. \A q \in Present : q \notin Nat
  BY <1>1, PathAssumption
<1> QED
  BY <1>1, <1>2 DEF OneEach, Unique, Unborn

\* The documents stay where they are.
Stays ==
    /\ born' = born
    /\ \A q \in Path : file'[q] # None => file[q] # None /\ file'[q].doc = file[q].doc

\* A document is made.
Appears == \E at \in Path :
    /\ born' = born + 1
    /\ file'[at] # None /\ file'[at].doc = born + 1
    /\ \A q \in Path \ {at} : file'[q] = file[q]

\* A document changes its place.
Goes == \E from, to \in Path :
    /\ born' = born
    /\ file[from] # None /\ file'[from] = None /\ file'[to] = file[from]
    /\ \A q \in Path \ {from, to} : file'[q] = file[q]

LEMMA StepPlaces ==
    ASSUME AimInv, ~mistaken, NEW p \in Proc, Step(p)
    PROVE  Stays \/ Appears \/ Goes
<1>0. /\ LockInv /\ TypeInv /\ TypeOK /\ Known(p) /\ Aimed(p) /\ Decided(p)
  BY DEF AimInv, SetInv, LockInv, TypeInv
<1>1. CASE Write(p)
  <2>1. /\ job[p] \in Command /\ job[p].op = "set" /\ text[p] \in Text
        /\ file[job[p].path] = text[p]
    BY <1>0, <1>1, JobType DEF Write, Known, Decided
  <2>2. Applied(job[p], text[p]).doc = text[p].doc /\ text[p] # None
    BY <2>1, DocKept, NoneApart
  <2>3. Stays
    BY <1>0, <1>1, <2>1, <2>2 DEF Write, Keep, TypeOK, Stays
  <2> QED
    BY <2>3
<1>2. CASE Create(p)
  <2>1. job[p].path \in Path /\ born + 1 \in Nat
    BY <1>0, <1>2, JobType, CommandFields DEF Create, TypeOK
  <2>2. NewText(born + 1) # None /\ NewText(born + 1).doc = born + 1
    BY <2>1, NewTextType, NoneApart DEF NewText
  <2>3. Appears
    BY <1>0, <1>2, <2>1, <2>2 DEF Create, TypeOK, Appears
  <2> QED
    BY <2>3
<1>3. CASE RenameHolder(p)
  <2>1. PICK ch \in plan[p] : file' = [file EXCEPT ![ch.path] = ch.text]
    BY <1>3 DEF RenameHolder
  <2>2. file[ch.path] # None /\ ch.text.doc = file[ch.path].doc
    BY <1>0, <1>3 DEF RenameHolder, Aimed
  <2>3. Stays
    BY <1>0, <1>3, <2>1, <2>2 DEF RenameHolder, Keep, TypeOK, Stays
  <2> QED
    BY <2>3
<1>4. CASE RenameOwn(p)
  <2>1. /\ file[job[p].path] # None /\ own[p].doc = file[job[p].path].doc
        /\ file' = [file EXCEPT ![job[p].path] = own[p]] /\ born' = born
    BY <1>0, <1>4 DEF RenameOwn, Keep, Aimed
  <2>2. Stays
    BY <1>0, <2>1 DEF TypeOK, Stays
  <2> QED
    BY <2>2
<1>5. CASE MoveDocument(p)
  <2>1. /\ dest[p] \in Path /\ file[dest[p]] = None /\ file[job[p].path] # None
        /\ job[p].path \in Path
    BY <1>0, <1>5, JobType, CommandFields DEF MoveDocument, Known, Aimed
  <2>2. /\ born' = born
        /\ file'[job[p].path] = None /\ file'[dest[p]] = file[job[p].path]
        /\ \A q \in Path \ {job[p].path, dest[p]} : file'[q] = file[q]
    BY <1>0, <1>5, <2>1 DEF MoveDocument, Keep, TypeOK
  <2>3. Goes
    BY <2>1, <2>2 DEF Goes
  <2> QED
    BY <2>3
<1>6. \/ Write(p) \/ Create(p) \/ RenameHolder(p) \/ RenameOwn(p) \/ MoveDocument(p)
      \/ file' = file /\ born' = born
  BY DEF Step, Load, Resolve, ResolveLoose, ResolveNew, ReadSource, Scan, TakeLocks, Read,
         CheckFree, Allocate, Prepare, Record, Fail, Unlock, Crash, Ends, Keep
<1> QED
  BY <1>1, <1>2, <1>3, <1>4, <1>5, <1>6 DEF Stays

LEMMA OneInvNext == SourceStays /\ OneInv /\ [Next]_vars => OneInv'
<1>1. ASSUME SourceStays, OneInv, Next, ~mistaken' PROVE Unique' /\ Unborn'
  <2>0. AimInv /\ ~mistaken /\ Unique /\ Unborn /\ born \in Nat
    BY <1>1, MistakenStays DEF OneInv, OneEach, AimInv, SetInv, LockInv, TypeInv, TypeOK
  <2>1. CASE Stays
    BY <2>0, <2>1 DEF Stays, Unique, Unborn, Present
  <2>2. CASE Appears
    <3>1. PICK at \in Path :
            /\ born' = born + 1
            /\ file'[at] # None /\ file'[at].doc = born + 1
            /\ \A q \in Path \ {at} : file'[q] = file[q]
      BY <2>2 DEF Appears
    <3>2. \A q \in Path \ {at} : file'[q] # None => file'[q].doc # born + 1
      BY <2>0, <3>1 DEF Unborn, Present
    <3>3. Unique'
      BY <2>0, <3>1, <3>2 DEF Unique, Present
    <3>4. \A n \in Nat : n > born + 1 => n > born /\ n # born + 1
      BY <2>0
    <3>5. Unborn'
      BY <2>0, <3>1, <3>4 DEF Unborn, Present
    <3> QED
      BY <3>3, <3>5
  <2>3. CASE Goes
    BY <2>0, <2>3 DEF Goes, Unique, Unborn, Present
  <2>4. ASSUME NEW l \in Lock, ClearLock(l) PROVE Stays
    BY <2>4 DEF ClearLock, Stays
  <2> QED
    BY <1>1, <2>0, <2>1, <2>2, <2>3, <2>4, StepPlaces DEF Next
<1>2. ASSUME OneInv, UNCHANGED vars PROVE OneEach'
  BY <1>2 DEF OneInv, OneEach, Unique, Unborn, Present, vars
<1> QED
  BY <1>1, <1>2, AimInvNext DEF OneInv, OneEach

\* A document is at one place, wherever the runs are killed, if no document that
\* a move records was moved or replaced between the reading of its text and the
\* locks: no command puts a copy back where another has moved the document from.
THEOREM AtOnePlace == Spec /\ []SourceStays => []OnePlace
<1>1. SourceStays /\ OneInv /\ [Next]_vars => OneInv'
  BY OneInvNext
<1>2. OneInv => OnePlace
  BY DEF OneInv, OneEach, Unique, OnePlace
<1> QED
  BY OneInit, <1>1, <1>2, PTL DEF Spec

\* Where no schema has an `auto: moves` field, a document always is at one place.
THEOREM AtOnePlaceUnrecorded == ~AutoMoves => (Spec => []OnePlace)
<1> SUFFICES ASSUME ~AutoMoves PROVE Spec => []OnePlace
  OBVIOUS
<1>1. SourceStays
  BY DEF SourceStays
<1> QED
  BY <1>1, AtOnePlace, PTL

-----------------------------------------------------------------------------
(* A move changes refs and its own record, and nothing else. What waits for *)
(* its rename is what the move makes of the file as it is now. For holders  *)
(* the locks see to it; the document's own text is made from what was read  *)
(* before them, and would lose what was written since, unless that was but   *)
(* the record of the same move by a run that was stopped.                    *)

SourceCurrent ==
    \A p \in Proc : pc[p] = "prepare" /\ AutoMoves =>
        /\ file[job[p].path] # None
        /\ Recorded(file[job[p].path], job[p].path) = Recorded(text[p], job[p].path)
        /\ job[p].path \notin Holders(scan[p])

Pending(p) ==
    ~mistaken /\ pc[p] \in {"record", "rename"} =>
        /\ \A ch, other \in plan[p] : ch.path = other.path => ch = other
        /\ \A ch \in plan[p] :
              /\ file[ch.path] # None
              /\ ch.text = Rewritten(ch.path, file[ch.path], scan[p], job[p].path, dest[p])
        /\ own[p] # None =>
              /\ own[p] = Recorded(file[job[p].path], job[p].path)
              /\ \A ch \in plan[p] : ch.path # job[p].path

PendingInv == SetInv /\ \A p \in Proc : Pending(p)

LEMMA PendingInit == Init => PendingInv
BY SetInit DEF PendingInv, Pending, Init

\* What a run knows changes by its own steps, and the files that it will
\* replace are its own while it has them prepared.
LEMMA OthersLeave ==
    ASSUME LockInv, ~mistaken, NEW p \in Proc, Step(p), NEW r \in Proc, r # p
    PROVE  /\ pc'[r] = pc[r] /\ job'[r] = job[r] /\ seen'[r] = seen[r] /\ text'[r] = text[r]
           /\ scan'[r] = scan[r] /\ dest'[r] = dest[r] /\ plan'[r] = plan[r] /\ own'[r] = own[r]
           /\ pc[r] \in {"record", "rename"} =>
                 /\ file'[job[r].path] = file[job[r].path]
                 /\ \A ch \in plan[r] : file'[ch.path] = file[ch.path]
<1>0. TypeOK /\ Covered(r)
  BY DEF LockInv, TypeInv
<1>1. /\ pc'[r] = pc[r] /\ job'[r] = job[r] /\ seen'[r] = seen[r] /\ text'[r] = text[r]
      /\ scan'[r] = scan[r] /\ dest'[r] = dest[r] /\ plan'[r] = plan[r] /\ own'[r] = own[r]
  BY <1>0
     DEF Step, Load, Resolve, ResolveLoose, ResolveNew, ReadSource, Scan, TakeLocks, Read,
         Write, Create, CheckFree, Allocate, Prepare, Record, RenameHolder, RenameOwn,
         MoveDocument, Fail, Unlock, Crash, Ends, Keep, Goto, TypeOK
<1>2. ASSUME pc[r] \in {"record", "rename"}, NEW ch \in plan[r]
      PROVE  file'[ch.path] = file[ch.path]
  BY <1>0, <1>2, OthersKeep DEF Covered, Locked, TypeOK, Change
<1> QED
  BY <1>1, <1>2, SourceKept

LEMMA PendingOthers ==
    ASSUME PendingInv, ~mistaken, NEW p \in Proc, Step(p), NEW r \in Proc, r # p
    PROVE  Pending(r)'
<1>1. LockInv /\ Pending(r)
  BY DEF PendingInv, SetInv
<1> QED
  BY <1>1, OthersLeave DEF Pending

\* The texts that Prepare makes.
LEMMA Prepared ==
    ASSUME PendingInv, NEW p \in Proc, Prepare(p)
    PROVE  /\ job[p].path \in Path /\ dest[p] \in Path
           /\ UNCHANGED <<file, dest, job, scan, seen>>
           /\ own'[p] = OwnChange(text[p], job[p].path)
           /\ \A ch \in plan'[p] :
                 /\ ch.path \in Holders(scan[p]) /\ file[ch.path] \in Text
                 /\ ch.text = Rewritten(ch.path, file[ch.path], scan[p], job[p].path, dest[p])
                 /\ ch = [path |-> ch.path, text |-> ch.text]
           /\ \A q \in Holders(scan[p]) :
                 Rewritten(q, file[q], scan[p], job[p].path, dest[p]) # file[q] =>
                     \E ch \in plan'[p] : ch.path = q
<1>0. TypeInv /\ TypeOK /\ Known(p)
  BY DEF PendingInv, SetInv, LockInv, TypeInv
<1>1. PICK from, to : from = job[p].path /\ to = dest[p]
  OBVIOUS
<1>2. from \in Path /\ to \in Path
  BY <1>0, <1>1, JobType, CommandFields DEF Prepare, Known
<1>3. \A q \in Holders(scan[p]) : file[q] \in Text
  BY <1>0 DEF Prepare, Present, TypeOK
<1>4. /\ UNCHANGED <<file, dest, job, scan, seen>>
      /\ plan'[p] = HolderChanges(scan[p], from, to)
      /\ own'[p] = OwnChange(text[p], from)
  BY <1>0, <1>1 DEF Prepare, Keep, TypeOK
<1>5. \A ch \in plan'[p] :
          /\ ch.path \in Holders(scan[p])
          /\ ch.text = Rewritten(ch.path, file[ch.path], scan[p], from, to)
          /\ ch = [path |-> ch.path, text |-> ch.text]
  BY <1>4 DEF HolderChanges
<1>6. ASSUME NEW q \in Holders(scan[p]), Rewritten(q, file[q], scan[p], from, to) # file[q]
      PROVE  \E ch \in plan'[p] : ch.path = q
  <2> DEFINE new == [path |-> q, text |-> Rewritten(q, file[q], scan[p], from, to)]
  <2>1. new.text # file[new.path]
    BY <1>6
  <2>2. new \in plan'[p]
    BY <1>4, <2>1 DEF HolderChanges
  <2> QED
    BY <2>2
<1> QED
  BY <1>1, <1>2, <1>3, <1>4, <1>5, <1>6

LEMMA PendingOwn ==
    ASSUME PendingInv, SourceCurrent, ~mistaken, NEW p \in Proc, Step(p)
    PROVE  Pending(p)'
<1>0. /\ LockInv /\ TypeInv /\ TypeOK /\ Known(p) /\ Pending(p)
  BY DEF PendingInv, SetInv, LockInv, TypeInv
<1>1. CASE Prepare(p)
  <2>1. \A ch \in plan'[p] : file[ch.path] # None
    BY <1>1, Prepared, NoneApart
  <2>2. ASSUME own'[p] # None
        PROVE  /\ own'[p] = Recorded(file[job[p].path], job[p].path)
               /\ job[p].path \notin Holders(scan[p])
    BY <1>1, <2>2, Prepared DEF OwnChange, SourceCurrent, Prepare
  <2>3. \A ch, other \in plan'[p] : ch.path = other.path => ch = other
    BY <1>1, Prepared
  <2> QED
    BY <1>1, <2>1, <2>2, <2>3, Prepared DEF Pending
<1>2. CASE RenameHolder(p)
  <2>1. PICK ch \in plan[p] : /\ file' = [file EXCEPT ![ch.path] = ch.text]
                              /\ plan' = [plan EXCEPT ![p] = @ \ {ch}]
    BY <1>2 DEF RenameHolder
  <2>2. /\ pc[p] = "rename" /\ plan'[p] = plan[p] \ {ch}
        /\ own' = own /\ dest' = dest /\ job' = job /\ scan' = scan
    BY <1>0, <1>2, <2>1 DEF RenameHolder, Keep, TypeOK
  <2>3. \A other \in plan'[p] : file'[other.path] = file[other.path]
    BY <1>0, <2>1, <2>2 DEF Pending, TypeOK
  <2>4. own[p] # None => file'[job[p].path] = file[job[p].path]
    BY <1>0, <2>1, <2>2 DEF Pending, TypeOK
  <2> QED
    BY <1>0, <2>2, <2>3, <2>4 DEF Pending
<1>3. CASE RenameOwn(p)
  <2>1. plan'[p] = {} /\ own'[p] = None
    BY <1>0, <1>3 DEF RenameOwn, TypeOK
  <2> QED
    BY <2>1 DEF Pending
<1>4. CASE Record(p)
  BY <1>0, <1>4 DEF Record, Pending
<1>5. CASE \/ \E c \in Commands : Load(p, c)
           \/ Resolve(p) \/ ResolveLoose(p) \/ ResolveNew(p) \/ ReadSource(p) \/ Scan(p)
           \/ TakeLocks(p) \/ Read(p) \/ Write(p) \/ Create(p) \/ CheckFree(p) \/ Allocate(p)
           \/ MoveDocument(p) \/ Fail(p) \/ Unlock(p) \/ Crash(p)
  <2>1. pc'[p] \notin {"record", "rename"}
    BY <1>0, <1>5
       DEF Load, Resolve, ResolveLoose, ResolveNew, ReadSource, Scan, TakeLocks, Read,
           Write, Create, CheckFree, Allocate, MoveDocument, Fail, Unlock, Crash, Ends, Goto,
           TypeOK
  <2> QED
    BY <2>1 DEF Pending
<1> QED
  BY <1>1, <1>2, <1>3, <1>4, <1>5 DEF Step

LEMMA PendingInvNext == SourceCurrent /\ PendingInv /\ [Next]_vars => PendingInv'
<1>1. ASSUME SourceCurrent, PendingInv, Next, NEW r \in Proc PROVE Pending(r)'
  <2> SUFFICES ASSUME ~mistaken' PROVE Pending(r)'
    BY DEF Pending
  <2>1. ~mistaken
    BY <1>1, MistakenStays
  <2>2. ASSUME NEW p \in Proc, Step(p) PROVE Pending(r)'
    BY <1>1, <2>1, <2>2, PendingOthers, PendingOwn
  <2>3. ASSUME NEW l \in Lock, ClearLock(l) PROVE Pending(r)'
    BY <1>1, <2>1, <2>3 DEF PendingInv, Pending, ClearLock, procVars
  <2> QED
    BY <1>1, <2>2, <2>3 DEF Next
<1>2. ASSUME PendingInv, UNCHANGED vars, NEW r \in Proc PROVE Pending(r)'
  BY <1>2 DEF PendingInv, Pending, vars, procVars
<1> QED
  BY <1>1, <1>2, SetInvNext DEF PendingInv

\* A ref in a scalar field is set to the new name whatever the field holds by
\* then. So nobody may have written to the ones that the scan found.
LinksCurrent ==
    \A p \in Proc : pc[p] = "prepare" =>
        \A q \in scan[p].link : file[q] # None => file[q].link = job[p].path

LinksKept(p) ==
    ~mistaken /\ pc[p] \in {"record", "rename"} =>
        \A ch \in plan[p] : ch.path \in scan[p].link => file[ch.path].link = job[p].path

LinksInv == PendingInv /\ \A p \in Proc : LinksKept(p)

LEMMA LinksInvNext == LinksCurrent /\ SourceCurrent /\ LinksInv /\ [Next]_vars => LinksInv'
<1>1. ASSUME LinksCurrent, LinksInv, Next, ~mistaken, NEW r \in Proc PROVE LinksKept(r)'
  <2>0. PendingInv /\ LockInv /\ TypeOK /\ LinksKept(r) /\ Pending(r)
    BY <1>1 DEF LinksInv, PendingInv, SetInv, LockInv, TypeInv
  <2>1. ASSUME NEW p \in Proc, Step(p), p # r PROVE LinksKept(r)'
    BY <1>1, <2>0, <2>1, OthersLeave DEF LinksKept
  <2>2. CASE Prepare(r)
    <3>1. \A ch \in plan'[r] : file[ch.path] # None
      BY <2>0, <2>2, Prepared, NoneApart
    <3>2. \A q \in scan[r].link : file[q] # None => file[q].link = job[r].path
      BY <1>1, <2>2 DEF LinksCurrent, Prepare
    <3> QED
      BY <2>0, <2>2, <3>1, <3>2, Prepared DEF LinksKept
  <2>3. CASE RenameHolder(r)
    <3>1. PICK ch \in plan[r] : /\ file' = [file EXCEPT ![ch.path] = ch.text]
                                /\ plan' = [plan EXCEPT ![r] = @ \ {ch}]
      BY <2>3 DEF RenameHolder
    <3>2. /\ pc[r] = "rename" /\ plan'[r] = plan[r] \ {ch} /\ job' = job /\ scan' = scan
      BY <2>0, <2>3, <3>1 DEF RenameHolder, Keep, TypeOK
    <3>3. \A other \in plan'[r] : file'[other.path] = file[other.path]
      BY <1>1, <2>0, <3>1, <3>2 DEF Pending, TypeOK
    <3> QED
      BY <1>1, <2>0, <3>2, <3>3 DEF LinksKept
  <2>4. CASE RenameOwn(r)
    BY <2>0, <2>4 DEF RenameOwn, LinksKept
  <2>5. CASE Record(r)
    BY <2>0, <2>5 DEF Record, LinksKept
  <2>6. CASE \/ \E c \in Commands : Load(r, c)
             \/ Resolve(r) \/ ResolveLoose(r) \/ ResolveNew(r) \/ ReadSource(r) \/ Scan(r)
             \/ TakeLocks(r) \/ Read(r) \/ Write(r) \/ Create(r) \/ CheckFree(r) \/ Allocate(r)
             \/ MoveDocument(r) \/ Fail(r) \/ Unlock(r) \/ Crash(r)
    <3>1. pc'[r] \notin {"record", "rename"}
      BY <2>0, <2>6
         DEF Load, Resolve, ResolveLoose, ResolveNew, ReadSource, Scan, TakeLocks, Read,
             Write, Create, CheckFree, Allocate, MoveDocument, Fail, Unlock, Crash, Ends, Goto,
             TypeOK
    <3> QED
      BY <3>1 DEF LinksKept
  <2>7. ASSUME NEW l \in Lock, ClearLock(l) PROVE LinksKept(r)'
    BY <2>0, <2>7 DEF LinksKept, ClearLock, procVars
  <2> QED
    BY <1>1, <2>1, <2>2, <2>3, <2>4, <2>5, <2>6, <2>7 DEF Next, Step
<1>2. ASSUME LinksInv, UNCHANGED vars, NEW r \in Proc PROVE LinksKept(r)'
  BY <1>2 DEF LinksInv, LinksKept, vars, procVars
<1>3. ASSUME ~mistaken', Next PROVE ~mistaken
  BY <1>3, MistakenStays
<1> QED
  BY <1>1, <1>2, <1>3, PendingInvNext DEF LinksInv, LinksKept

LEMMA RewrittenFollows ==
    ASSUME NEW q, NEW t \in Text, NEW s, NEW from, NEW to, q \in s.link => t.link = from
    PROVE  Follows(t, Rewritten(q, t, s, from, to), from, to)
BY DEF Rewritten, Follows, Text

LEMMA RecordedFollows ==
    ASSUME NEW t \in Text, NEW from, NEW to
    PROVE  Follows(t, Recorded(t, from), from, to)
BY DEF Recorded, Follows, Text

\* Where no scalar ref that `mv` found was written to before it took its locks,
\* a move loses nothing that other runs committed: of every document that it
\* replaces, it changes the refs to the moved document and the list of moves.
\* Where the schemas have an `auto: moves` field, this needs the same of the
\* moved document, whose text is read before the locks are taken, save for the
\* record of the same move, and that the document has no ref to itself.
THEOREM MovesOnlyRewrite == Spec /\ []LinksCurrent /\ []SourceCurrent => MvOnlyRewrites
<1> DEFINE Rewrites ==
        \A p \in Proc : \A q \in Path :
            (RenameHolder(p) \/ RenameOwn(p)) /\ ~mistaken /\ file[q] # None =>
                Follows(file[q], file'[q], job[p].path, dest[p])
<1>1. LinksInv => [Rewrites]_vars
  <2> SUFFICES ASSUME LinksInv, NEW p \in Proc, NEW q \in Path, ~mistaken, file[q] # None,
                      RenameHolder(p) \/ RenameOwn(p)
               PROVE  Follows(file[q], file'[q], job[p].path, dest[p])
    OBVIOUS
  <2>0. /\ TypeOK /\ Pending(p) /\ LinksKept(p) /\ pc[p] = "rename"
        /\ file[q] \in Text
    BY DEF LinksInv, PendingInv, SetInv, LockInv, TypeInv, TypeOK, RenameHolder, RenameOwn
  <2>1. CASE file'[q] = file[q]
    BY <2>1 DEF Follows
  <2>2. ASSUME RenameHolder(p), file'[q] # file[q]
        PROVE  Follows(file[q], file'[q], job[p].path, dest[p])
    <3>1. PICK ch \in plan[p] : file' = [file EXCEPT ![ch.path] = ch.text]
      BY <2>2 DEF RenameHolder
    <3>2. /\ ch.path = q /\ file'[q] = ch.text
          /\ ch.text = Rewritten(q, file[q], scan[p], job[p].path, dest[p])
          /\ q \in scan[p].link => file[q].link = job[p].path
      BY <2>0, <2>2, <3>1 DEF TypeOK, Pending, LinksKept
    <3> QED
      BY <2>0, <3>2, RewrittenFollows
  <2>3. ASSUME RenameOwn(p), file'[q] # file[q]
        PROVE  Follows(file[q], file'[q], job[p].path, dest[p])
    <3>1. job[p].path = q /\ file'[q] = Recorded(file[q], q)
      BY <2>0, <2>3 DEF RenameOwn, TypeOK, Pending
    <3> QED
      BY <2>0, <3>1, RecordedFollows
  <2> QED
    BY <2>1, <2>2, <2>3
<1>2. LinksCurrent /\ SourceCurrent /\ LinksInv /\ [Next]_vars => LinksInv'
  BY LinksInvNext
<1>3. Init => LinksInv
  BY PendingInit DEF LinksInv, LinksKept, Init
<1> QED
  BY <1>1, <1>2, <1>3, PTL DEF Spec, MvOnlyRewrites

-----------------------------------------------------------------------------
(* A move is recorded once. No text that a run holds, has prepared or has   *)
(* written names the same place twice in a row, and only `mv` adds a name.  *)

Clean(t) == \A i \in 1..Len(t.moves) - 1 : t.moves[i] # t.moves[i + 1]

CleanFiles == \A q \in Present : Clean(file[q])
CleanRun(p) ==
    /\ text[p] # None => Clean(text[p])
    /\ own[p] # None => Clean(own[p])
    /\ \A ch \in plan[p] : Clean(ch.text)

CleanInv == TypeInv /\ CleanFiles /\ \A p \in Proc : CleanRun(p)

\* A name is added only where the last one is another.
LEMMA RecordedClean ==
    ASSUME NEW t \in Text, NEW from \in Path, Clean(t)
    PROVE  Clean(Recorded(t, from))
<1> DEFINE s == t.moves
           longer == Append(s, from)
<1>1. s \in Seq(Path) /\ Len(s) \in Nat
  BY LenProperties DEF Text
<1>2. Recorded(t, from).moves = IF s # <<>> /\ s[Len(s)] = from THEN s ELSE longer
  BY DEF Recorded, Text
<1>3. CASE s # <<>> /\ s[Len(s)] = from
  BY <1>2, <1>3 DEF Clean
<1>4. CASE ~(s # <<>> /\ s[Len(s)] = from)
  <2>1. /\ Len(longer) = Len(s) + 1
        /\ \A i \in 1..Len(s) : longer[i] = s[i]
        /\ longer[Len(s) + 1] = from
    BY <1>1, AppendProperties
  <2>2. ASSUME NEW i \in 1..Len(longer) - 1
        PROVE  longer[i] # longer[i + 1]
    <3>1. i \in 1..Len(s)
      BY <1>1, <2>1, <2>2
    <3>2. CASE i = Len(s)
      <4>1. s # <<>>
        BY <3>1, <3>2, <1>1
      <4> QED
        BY <1>4, <2>1, <3>1, <3>2, <4>1
    <3>3. CASE i # Len(s)
      <4>1. i \in 1..Len(s) - 1 /\ i + 1 \in 1..Len(s)
        BY <1>1, <3>1, <3>3
      <4>2. s[i] # s[i + 1]
        BY <4>1 DEF Clean
      <4> QED
        BY <2>1, <3>1, <4>1, <4>2
    <3> QED
      BY <3>2, <3>3
  <2> QED
    BY <1>2, <1>4, <2>2 DEF Clean
<1> QED
  BY <1>3, <1>4

LEMMA OthersClean ==
    /\ \A q, s, from, to : \A t \in Text : Clean(t) => Clean(Rewritten(q, t, s, from, to))
    /\ \A c \in Command, t \in Text : c.op = "set" /\ Clean(t) => Clean(Applied(c, t))
    /\ \A d \in Nat : Clean(NewText(d))
<1>1. ASSUME NEW q, NEW t \in Text, NEW s, NEW from, NEW to, Clean(t)
      PROVE  Clean(Rewritten(q, t, s, from, to))
  <2>1. Rewritten(q, t, s, from, to).moves = t.moves
    BY DEF Rewritten, Text
  <2> QED
    BY <1>1, <2>1 DEF Clean
<1>2. ASSUME NEW c \in Command, NEW t \in Text, c.op = "set", Clean(t)
      PROVE  Clean(Applied(c, t))
  <2>1. c.field # "moves"
    BY <1>2 DEF Command, SetCommand, SetOf, NewCommand, MvCommand, RenumberCommand
  <2>2. Applied(c, t).moves = t.moves
    BY <2>1 DEF Applied, Text
  <2> QED
    BY <1>2, <2>2 DEF Clean
<1>3. ASSUME NEW d \in Nat PROVE Clean(NewText(d))
  <2>1. Len(NewText(d).moves) = 0
    BY DEF NewText
  <2> QED
    BY <2>1 DEF Clean
<1> QED
  BY <1>1, <1>2, <1>3

LEMMA CleanNext == CleanInv /\ Next => CleanFiles' /\ \A p \in Proc : CleanRun(p)'
<1> SUFFICES ASSUME CleanInv, Next
             PROVE  CleanFiles' /\ \A p \in Proc : CleanRun(p)'
  OBVIOUS
<1>0. /\ TypeInv /\ TypeOK /\ CleanFiles
      /\ \A p \in Proc : Known(p) /\ CleanRun(p)
  BY DEF CleanInv, TypeInv
<1>1. ASSUME NEW p \in Proc, ReadSource(p) \/ Read(p)
      PROVE  CleanFiles' /\ \A r \in Proc : CleanRun(r)'
  <2>1. /\ UNCHANGED <<file, own, plan>>
        /\ text' = [text EXCEPT ![p] = file[job[p].path]]
        /\ file[job[p].path] # None /\ job[p].path \in Path
    BY <1>0, <1>1, JobType, CommandFields DEF ReadSource, Read
  <2>2. Clean(file[job[p].path])
    BY <1>0, <2>1 DEF CleanFiles, Present
  <2> QED
    BY <1>0, <2>1, <2>2 DEF CleanFiles, CleanRun, Present, TypeOK
<1>2. ASSUME NEW p \in Proc, Write(p)
      PROVE  CleanFiles' /\ \A r \in Proc : CleanRun(r)'
  <2>1. /\ job[p] \in Command /\ job[p].op = "set" /\ text[p] \in Text /\ text[p] # None
    BY <1>0, <1>2, JobType, NoneApart DEF Write, Known
  <2>2. Clean(Applied(job[p], text[p]))
    BY <1>0, <2>1, OthersClean DEF CleanRun
  <2>3. /\ file' = [file EXCEPT ![job[p].path] = Applied(job[p], text[p])]
        /\ UNCHANGED <<text, own, plan>>
    BY <1>2 DEF Write
  <2> QED
    BY <1>0, <2>2, <2>3 DEF CleanFiles, CleanRun, Present, TypeOK
<1>3. ASSUME NEW p \in Proc, Create(p)
      PROVE  CleanFiles' /\ \A r \in Proc : CleanRun(r)'
  <2>1. born + 1 \in Nat
    BY <1>0 DEF TypeOK
  <2>2. Clean(NewText(born + 1))
    BY <2>1, OthersClean
  <2>3. /\ file' = [file EXCEPT ![job[p].path] = NewText(born + 1)]
        /\ UNCHANGED <<text, own, plan>>
    BY <1>3 DEF Create
  <2> QED
    BY <1>0, <2>2, <2>3 DEF CleanFiles, CleanRun, Present, TypeOK
<1>4. ASSUME NEW p \in Proc, Prepare(p)
      PROVE  CleanFiles' /\ \A r \in Proc : CleanRun(r)'
  <2>1. PICK from, to : from = job[p].path /\ to = dest[p]
    OBVIOUS
  <2>2. from \in Path /\ text[p] \in Text /\ text[p] # None
    BY <1>0, <1>4, <2>1, JobType, CommandFields, NoneApart DEF Prepare, Known
  <2>3. /\ plan' = [plan EXCEPT ![p] = HolderChanges(scan[p], from, to)]
        /\ own' = [own EXCEPT ![p] = OwnChange(text[p], from)]
        /\ UNCHANGED <<file, text>>
        /\ Holders(scan[p]) \subseteq Present
    BY <1>4, <2>1 DEF Prepare
  <2>4. OwnChange(text[p], from) # None => Clean(OwnChange(text[p], from))
    BY <1>0, <2>2, RecordedClean DEF OwnChange, CleanRun
  <2>5. \A q \in Holders(scan[p]) : file[q] \in Text /\ Clean(file[q])
    BY <1>0, <2>3 DEF CleanFiles, Present, TypeOK
  <2>6. \A ch \in HolderChanges(scan[p], from, to) : Clean(ch.text)
    BY <2>5, OthersClean DEF HolderChanges
  <2> QED
    BY <1>0, <2>3, <2>4, <2>6 DEF CleanFiles, CleanRun, Present, TypeOK
<1>5. ASSUME NEW p \in Proc, RenameHolder(p)
      PROVE  CleanFiles' /\ \A r \in Proc : CleanRun(r)'
  <2>1. PICK ch \in plan[p] : /\ file' = [file EXCEPT ![ch.path] = ch.text]
                              /\ plan' = [plan EXCEPT ![p] = @ \ {ch}]
    BY <1>5 DEF RenameHolder
  <2>2. Clean(ch.text) /\ UNCHANGED <<text, own>>
    BY <1>0, <1>5 DEF CleanRun, RenameHolder
  <2>3. CleanFiles'
    BY <1>0, <2>1, <2>2 DEF CleanFiles, Present, TypeOK
  <2>4. \A r \in Proc : plan'[r] \subseteq plan[r]
    BY <1>0, <2>1 DEF TypeOK
  <2> QED
    BY <1>0, <2>2, <2>3, <2>4 DEF CleanRun
<1>6. ASSUME NEW p \in Proc, RenameOwn(p)
      PROVE  CleanFiles' /\ \A r \in Proc : CleanRun(r)'
  BY <1>0, <1>6 DEF RenameOwn, CleanFiles, CleanRun, Present, TypeOK
<1>7. ASSUME NEW p \in Proc, MoveDocument(p)
      PROVE  CleanFiles' /\ \A r \in Proc : CleanRun(r)'
  <2>1. /\ file' = [file EXCEPT ![dest[p]] = file[job[p].path], ![job[p].path] = None]
        /\ file[job[p].path] # None /\ UNCHANGED <<text, own, plan>>
        /\ job[p].path \in Path
    BY <1>0, <1>7, JobType, CommandFields DEF MoveDocument
  <2>2. Clean(file[job[p].path])
    BY <1>0, <2>1 DEF CleanFiles, Present
  <2>3. \A q \in Path : file'[q] # None => file'[q] = file[q] \/ file'[q] = file[job[p].path]
    BY <1>0, <2>1 DEF TypeOK
  <2>4. CleanFiles'
    BY <1>0, <2>2, <2>3 DEF CleanFiles, Present
  <2> QED
    BY <1>0, <2>1, <2>4 DEF CleanRun
<1>8. ASSUME NEW p \in Proc, Unlock(p) \/ Crash(p)
      PROVE  CleanFiles' /\ \A r \in Proc : CleanRun(r)'
  BY <1>0, <1>8 DEF Unlock, Crash, Ends, CleanFiles, CleanRun, Present, TypeOK
<1>9. ASSUME UNCHANGED <<file, text, own, plan>>
      PROVE  CleanFiles' /\ \A r \in Proc : CleanRun(r)'
  BY <1>0, <1>9 DEF CleanFiles, CleanRun, Present
<1>10. ASSUME NEW p \in Proc,
              \/ \E c \in Commands : Load(p, c)
              \/ Resolve(p) \/ ResolveLoose(p) \/ ResolveNew(p) \/ Scan(p) \/ TakeLocks(p)
              \/ CheckFree(p) \/ Allocate(p) \/ Record(p) \/ Fail(p)
       PROVE  UNCHANGED <<file, text, own, plan>>
  BY <1>10 DEF Load, Resolve, ResolveLoose, ResolveNew, Scan, TakeLocks, CheckFree, Allocate,
               Record, Fail
<1>11. ASSUME NEW l \in Lock, ClearLock(l) PROVE UNCHANGED <<file, text, own, plan>>
  BY <1>11 DEF ClearLock, procVars
<1> QED
  BY <1>1, <1>2, <1>3, <1>4, <1>5, <1>6, <1>7, <1>8, <1>9, <1>10, <1>11 DEF Next, Step

\* What the initial texts must be: no name follows itself in a list of moves.
InitialClean == \A f \in Initial, q \in Path : f[q] # None => Clean(f[q])

\* However many runs of `mv` are stopped and however often they are run again,
\* beside whatever other commands, no document's list of moves names the same
\* place twice in a row, if none did at the start.
THEOREM RecordedOnce == InitialClean => (Spec => []MovesRecordedOnce)
<1> SUFFICES ASSUME InitialClean PROVE Spec => []MovesRecordedOnce
  OBVIOUS
<1>1. Init => CleanInv
  BY TypeInit DEF InitialClean, Init, CleanInv, CleanFiles, CleanRun, Present
<1>2. CleanInv /\ [Next]_vars => CleanInv'
  <2>1. ASSUME CleanInv, UNCHANGED vars PROVE CleanFiles' /\ \A p \in Proc : CleanRun(p)'
    BY <2>1 DEF CleanInv, CleanFiles, CleanRun, Present, vars, procVars
  <2> QED
    BY <2>1, CleanNext, TypeNext DEF CleanInv
<1>3. CleanInv => MovesRecordedOnce
  BY DEF CleanInv, CleanFiles, Clean, MovesRecordedOnce
<1> QED
  BY <1>1, <1>2, <1>3, PTL DEF Spec
-----------------------------------------------------------------------------
(* Refs follow the document. A run looks for them in the files of an index  *)
(* that it does not build again, before it has any lock. What it found       *)
(* stays all there is as long as no file appears in the meantime at a path   *)
(* of its index, and no `set` writes a ref to the document: a holder that    *)
(* moves away then is missed when the scan or the preparation reads it.      *)

NoReuse ==
    \A q \in Path, r \in Proc :
        file[q] = None /\ file'[q] # None /\ Moves(r) => q \notin seen[r]

NoLateRef ==
    \A p, r \in Proc : Write(p) /\ Moves(r) => LET q == job[p].path IN
        /\ job[r].path \in file'[q].refs => job[r].path \in file[q].refs
        /\ job[r].path = file'[q].link => job[r].path = file[q].link

Refers(t, x) == x \in t.refs \/ t.link = x

\* The run moves a document that its index had and that is still there.
Tracing(r) ==
    /\ ~mistaken /\ Moves(r)
    /\ job[r].path \in seen[r] /\ file[job[r].path] # None

UnseenApart(r) ==
    pc[r] \in {"resolve", "scan"} /\ seen[r] \subseteq Present =>
        \A q \in Present \ seen[r] : ~Refers(file[q], job[r].path)

ScanFinds(r) ==
    pc[r] \in {"wait", "check", "prepare"} /\ Holders(scan[r]) \subseteq Present =>
        \A q \in Present :
            /\ job[r].path \in file[q].refs => q \in scan[r].refs
            /\ file[q].link = job[r].path => q \in scan[r].link

PlanCovers(r) ==
    pc[r] \in {"record", "rename"} =>
        /\ dest[r] # job[r].path
        /\ \A q \in Present : Refers(file[q], job[r].path) => \E ch \in plan[r] : ch.path = q
        /\ \A ch \in plan[r] : ~Refers(ch.text, job[r].path)
        /\ own[r] # None => ~Refers(own[r], job[r].path)

Traced(r) == Tracing(r) => UnseenApart(r) /\ ScanFinds(r) /\ PlanCovers(r)

\* A run that moves has found its document in its index, and looked nowhere else.
Looked(r) ==
    /\ pc[r] \in {"scan", "wait", "check", "prepare", "record", "rename"} /\ Moves(r) =>
          job[r].path \in seen[r]
    /\ pc[r] \in {"wait", "check", "prepare", "record", "rename"} /\ Moves(r) =>
          Holders(scan[r]) \subseteq seen[r]

TraceInv ==
    /\ AimInv /\ PendingInv
    /\ \A r \in Proc : Looked(r) /\ Traced(r)

LEMMA LookedNext ==
    ASSUME TypeInv, Next, NEW r \in Proc, Looked(r)
    PROVE  Looked(r)'
<1>0. TypeOK /\ Known(r)
  BY DEF TypeInv
<1>1. CASE ReadSource(r)
  BY <1>0, <1>1 DEF ReadSource, Goto, Keep, TypeOK, Looked, Moves
<1>2. CASE Scan(r)
  <2>1. /\ scan'[r] = Scanned(seen[r], job[r].path) /\ job' = job /\ seen' = seen
        /\ pc[r] = "scan"
    BY <1>0, <1>2 DEF Scan, Keep, TypeOK
  <2>2. Holders(Scanned(seen[r], job[r].path)) \subseteq seen[r]
    BY DEF Holders, Scanned
  <2> QED
    BY <2>1, <2>2 DEF Looked, Moves
<1>3. CASE \/ TakeLocks(r) \/ CheckFree(r) \/ Allocate(r) \/ Prepare(r) \/ Record(r)
           \/ RenameHolder(r) \/ RenameOwn(r)
  <2>1. /\ UNCHANGED <<job, seen, scan>>
        /\ pc[r] \in {"wait", "check", "prepare", "record", "rename"}
    BY <1>3 DEF TakeLocks, CheckFree, Allocate, Prepare, Record, RenameHolder, RenameOwn, Keep
  <2> QED
    BY <2>1 DEF Looked, Moves
<1>4. CASE Resolve(r) \/ ResolveLoose(r) \/ ResolveNew(r)
  <2>1. job' = job /\ ~Moves(r)
    BY <1>4 DEF Resolve, ResolveLoose, ResolveNew, Keep, Moves
  <2> QED
    BY <2>1 DEF Looked, Moves
<1>5. CASE \/ \E c \in Commands : Load(r, c)
           \/ Read(r) \/ Write(r) \/ Create(r) \/ MoveDocument(r) \/ Fail(r) \/ Unlock(r)
           \/ Crash(r)
  <2>1. pc'[r] \notin {"scan", "wait", "check", "prepare", "record", "rename"}
    BY <1>0, <1>5
       DEF Load, Read, Write, Create, MoveDocument, Fail, Unlock, Crash, Ends, Goto, TypeOK
  <2> QED
    BY <2>1 DEF Looked
<1>6. ASSUME NEW p \in Proc, Step(p), p # r PROVE Looked(r)'
  <2>1. pc'[r] = pc[r] /\ job'[r] = job[r] /\ seen'[r] = seen[r] /\ scan'[r] = scan[r]
    BY <1>0, <1>6
       DEF Step, Load, Resolve, ResolveLoose, ResolveNew, ReadSource, Scan, TakeLocks, Read,
           Write, Create, CheckFree, Allocate, Prepare, Record, RenameHolder, RenameOwn,
           MoveDocument, Fail, Unlock, Crash, Ends, Keep, Goto, TypeOK
  <2> QED
    BY <2>1 DEF Looked, Moves
<1>7. ASSUME NEW l \in Lock, ClearLock(l) PROVE Looked(r)'
  BY <1>7 DEF ClearLock, procVars, Looked, Moves
<1> QED
  BY <1>1, <1>2, <1>3, <1>4, <1>5, <1>6, <1>7 DEF Next, Step
\* Another run's step brings no ref to the moved document into a file: the file
\* had it before, or came with it from a place where there is no file any more.
LEMMA RefOrigin ==
    ASSUME AimInv, PendingInv, ~mistaken, NoLateRef,
           NEW p \in Proc, Step(p), NEW r \in Proc, Moves(r),
           NEW from \in Path, from = job[r].path, file[from] # None,
           NEW q \in Path, file'[q] # None, Refers(file'[q], from)
    PROVE  \E o \in Path :
              /\ file[o] # None
              /\ from \in file'[q].refs => from \in file[o].refs
              /\ file'[q].link = from => file[o].link = from
              /\ o = q \/ file'[o] = None
<1>0. /\ LockInv /\ TypeInv /\ TypeOK /\ Known(p) /\ Aimed(p) /\ Decided(p) /\ Pending(p)
  BY DEF AimInv, PendingInv, SetInv, LockInv, TypeInv
<1>1. CASE file'[q] = file[q]
  BY <1>1
<1>2. ASSUME Write(p), file'[q] # file[q]
      PROVE  /\ file[q] # None
             /\ from \in file'[q].refs => from \in file[q].refs
             /\ file'[q].link = from => file[q].link = from
  <2>1. q = job[p].path
    BY <1>0, <1>2 DEF Write, TypeOK
  <2>2. file[q] # None
    BY <1>0, <1>2, <2>1, NoneApart DEF Write, Decided, Known
  <2> QED
    BY <1>2, <2>1, <2>2 DEF NoLateRef
<1>3. ASSUME Create(p), file'[q] # file[q] PROVE FALSE
  <2>1. file'[q] = NewText(born + 1)
    BY <1>0, <1>3 DEF Create, TypeOK
  <2> QED
    BY <2>1, NoneApart DEF NewText, Refers
<1>4. ASSUME RenameHolder(p), file'[q] # file[q]
      PROVE  /\ file[q] # None
             /\ from \in file'[q].refs => from \in file[q].refs
             /\ file'[q].link = from => file[q].link = from
  <2>1. PICK ch \in plan[p] : file' = [file EXCEPT ![ch.path] = ch.text]
    BY <1>4 DEF RenameHolder
  <2>2. ch.path = q /\ file'[q] = ch.text /\ pc[p] = "rename"
    BY <1>0, <1>4, <2>1 DEF TypeOK, RenameHolder
  <2>3. /\ file[q] # None
        /\ file'[q] = Rewritten(q, file[q], scan[p], job[p].path, dest[p])
    BY <1>0, <2>2 DEF Pending
  <2>4. file[q] \in Text /\ dest[p] # from
    BY <1>0, <2>2, <2>3 DEF TypeOK, Aimed
  <2> QED
    BY <2>3, <2>4 DEF Rewritten, Text
<1>5. ASSUME RenameOwn(p), file'[q] # file[q]
      PROVE  /\ file[q] # None
             /\ from \in file'[q].refs => from \in file[q].refs
             /\ file'[q].link = from => file[q].link = from
  <2>1. /\ job[p].path = q /\ file'[q] = Recorded(file[q], q) /\ file[q] # None
    BY <1>0, <1>5 DEF RenameOwn, TypeOK, Pending, Aimed
  <2> QED
    BY <1>0, <2>1 DEF Recorded, Text, TypeOK
<1>6. ASSUME MoveDocument(p), file'[q] # file[q]
      PROVE  \E o \in Path : file[o] # None /\ file'[q] = file[o] /\ file'[o] = None
  <2>1. /\ job[p].path \in Path /\ file[job[p].path] # None
        /\ file' = [file EXCEPT ![dest[p]] = file[job[p].path], ![job[p].path] = None]
    BY <1>0, <1>6, JobType, CommandFields DEF MoveDocument
  <2>2. file'[job[p].path] = None
    BY <1>0, <2>1 DEF TypeOK
  <2>3. file'[q] = file[job[p].path]
    BY <1>0, <1>6, <2>1 DEF TypeOK
  <2> QED
    BY <2>1, <2>2, <2>3
<1>7. \/ Write(p) \/ Create(p) \/ RenameHolder(p) \/ RenameOwn(p) \/ MoveDocument(p)
      \/ file' = file
  BY DEF Step, Load, Resolve, ResolveLoose, ResolveNew, ReadSource, Scan, TakeLocks, Read,
         CheckFree, Allocate, Prepare, Record, Fail, Unlock, Crash, Ends
<1> QED
  BY <1>1, <1>2, <1>3, <1>4, <1>5, <1>6, <1>7

LEMMA TracedOthers ==
    ASSUME TraceInv, ~mistaken, NoReuse, NoLateRef,
           NEW p \in Proc, Step(p), NEW r \in Proc, r # p
    PROVE  Traced(r)'
<1>0. /\ AimInv /\ PendingInv /\ LockInv /\ TypeOK /\ Looked(r) /\ Traced(r)
      /\ TypeInv /\ Known(r)
  BY DEF TraceInv, AimInv, SetInv, LockInv, TypeInv
<1>1. PICK from : from = job[r].path
  OBVIOUS
<1>2. /\ pc'[r] = pc[r] /\ job'[r] = job[r] /\ seen'[r] = seen[r]
      /\ scan'[r] = scan[r] /\ dest'[r] = dest[r] /\ plan'[r] = plan[r] /\ own'[r] = own[r]
      /\ pc[r] \in {"record", "rename"} => \A ch \in plan[r] : file'[ch.path] = file[ch.path]
  BY <1>0, OthersLeave
<1>3. SUFFICES ASSUME Moves(r), from \in seen[r], file'[from] # None
               PROVE  (UnseenApart(r) /\ ScanFinds(r) /\ PlanCovers(r))'
  BY <1>1, <1>2 DEF Traced, Tracing, Moves
<1>4. \A q \in Path : q \in seen[r] /\ file'[q] # None => file[q] # None
  BY <1>3 DEF NoReuse
<1>5. from \in Path /\ file[from] # None /\ seen[r] \subseteq Path
  BY <1>0, <1>3, <1>4 DEF TypeOK
<1>6. UnseenApart(r) /\ ScanFinds(r) /\ PlanCovers(r)
  BY <1>0, <1>1, <1>3, <1>5 DEF Traced, Tracing
<1>7. ASSUME NEW q \in Path, file'[q] # None, Refers(file'[q], from)
      PROVE  \E o \in Path :
                /\ file[o] # None
                /\ from \in file'[q].refs => from \in file[o].refs
                /\ file'[q].link = from => file[o].link = from
                /\ o = q \/ file'[o] = None
  BY <1>0, <1>1, <1>3, <1>5, <1>7, RefOrigin
<1>8. UnseenApart(r)'
  <2> SUFFICES ASSUME pc[r] \in {"resolve", "scan"}, \A x \in seen[r] : file'[x] # None,
                      NEW q \in Path, file'[q] # None, q \notin seen[r], Refers(file'[q], from)
               PROVE  FALSE
    BY <1>1, <1>2, <1>5 DEF UnseenApart, Present
  <2>1. PICK o \in Path : /\ file[o] # None /\ Refers(file[o], from)
                          /\ o = q \/ file'[o] = None
    BY <1>7 DEF Refers
  <2>2. o \notin seen[r]
    BY <2>1
  <2>3. seen[r] \subseteq Present
    BY <1>4, <1>5 DEF Present
  <2> QED
    BY <1>1, <1>6, <2>1, <2>2, <2>3 DEF UnseenApart, Present
<1>9. ScanFinds(r)'
  <2> SUFFICES ASSUME pc[r] \in {"wait", "check", "prepare"},
                      \A x \in Holders(scan[r]) : file'[x] # None,
                      NEW q \in Path, file'[q] # None
               PROVE  /\ from \in file'[q].refs => q \in scan[r].refs
                      /\ file'[q].link = from => q \in scan[r].link
    BY <1>1, <1>2 DEF ScanFinds, Present
  <2>1. Holders(scan[r]) \subseteq Present
    BY <1>0, <1>3, <1>4, <1>5 DEF Looked, Present
  <2>2. \A o \in Path : file[o] # None =>
            /\ from \in file[o].refs => o \in scan[r].refs
            /\ file[o].link = from => o \in scan[r].link
    BY <1>1, <1>6, <2>1 DEF ScanFinds, Present
  <2>3. SUFFICES ASSUME Refers(file'[q], from)
                 PROVE  /\ from \in file'[q].refs => q \in scan[r].refs
                        /\ file'[q].link = from => q \in scan[r].link
    BY DEF Refers
  <2>4. PICK o \in Path : /\ file[o] # None
                          /\ from \in file'[q].refs => from \in file[o].refs
                          /\ file'[q].link = from => file[o].link = from
                          /\ o = q \/ file'[o] = None
    BY <1>7, <2>3
  <2>5. o \in Holders(scan[r])
    BY <2>2, <2>3, <2>4 DEF Holders, Refers
  <2> QED
    BY <2>2, <2>4, <2>5
<1>10. PlanCovers(r)'
  <2> SUFFICES ASSUME pc[r] \in {"record", "rename"}, NEW q \in Path, file'[q] # None,
                      Refers(file'[q], from)
               PROVE  \E ch \in plan[r] : ch.path = q
    BY <1>1, <1>2, <1>6 DEF PlanCovers, Present
  <2>1. PICK o \in Path : /\ file[o] # None /\ Refers(file[o], from)
                          /\ o = q \/ file'[o] = None
    BY <1>7 DEF Refers
  <2>2. PICK ch \in plan[r] : ch.path = o
    BY <1>1, <1>6, <2>1 DEF PlanCovers, Present
  <2> QED
    BY <1>2, <2>1, <2>2
<1> QED
  BY <1>8, <1>9, <1>10

\* What is prepared has no ref to the old place, and where there is one, a new
\* text is prepared.
LEMMA PlanMade ==
    ASSUME TraceInv, SourceCurrent, NEW r \in Proc, Prepare(r), Tracing(r)
    PROVE  PlanCovers(r)'
<1>0. /\ AimInv /\ PendingInv /\ TypeInv /\ TypeOK /\ Aimed(r) /\ Traced(r) /\ Known(r)
      /\ ~mistaken
  BY DEF TraceInv, AimInv, SetInv, LockInv, TypeInv, Tracing
<1>1. PICK from, to : from = job[r].path /\ to = dest[r]
  OBVIOUS
<1>2. /\ pc[r] = "prepare" /\ Holders(scan[r]) \subseteq Present
      /\ from \in Path /\ file[from] # None
  BY <1>0, <1>1, Prepared DEF Prepare, Tracing
<1>3. \A q \in Present :
          /\ from \in file[q].refs => q \in scan[r].refs
          /\ file[q].link = from => q \in scan[r].link
  BY <1>0, <1>1, <1>2 DEF Traced, ScanFinds
<1>4. to # from
  BY <1>0, <1>1, <1>2 DEF Aimed
<1>5. /\ UNCHANGED <<file, dest, job>>
      /\ own'[r] = OwnChange(text[r], from)
      /\ \A ch \in plan'[r] :
            /\ ch.path \in Present /\ file[ch.path] \in Text
            /\ ch.text = Rewritten(ch.path, file[ch.path], scan[r], from, to)
      /\ \A q \in Holders(scan[r]) :
            Rewritten(q, file[q], scan[r], from, to) # file[q] => \E ch \in plan'[r] : ch.path = q
  BY <1>0, <1>1, <1>2, Prepared
<1>6. ASSUME NEW q \in Present
      PROVE  ~Refers(Rewritten(q, file[q], scan[r], from, to), from)
  <2>1. file[q] \in Text
    BY <1>0 DEF Present, TypeOK
  <2> QED
    BY <1>3, <1>4, <2>1 DEF Rewritten, Refers, Text
<1>7. ASSUME NEW q \in Present, Refers(file[q], from)
      PROVE  \E ch \in plan'[r] : ch.path = q
  <2>1. q \in Holders(scan[r])
    BY <1>3, <1>7 DEF Refers, Holders
  <2> QED
    BY <1>5, <1>6, <1>7, <2>1
<1>8. ASSUME own'[r] # None PROVE ~Refers(own'[r], from)
  <2>1. /\ from \notin Holders(scan[r])
        /\ own'[r] = Recorded(file[from], from)
    BY <1>1, <1>2, <1>5, <1>8 DEF OwnChange, SourceCurrent
  <2>2. ~Refers(file[from], from)
    BY <1>2, <1>3, <2>1 DEF Refers, Holders, Present
  <2>3. file[from] \in Text
    BY <1>0, <1>2 DEF TypeOK
  <2> QED
    BY <2>1, <2>2, <2>3 DEF Recorded, Refers, Text
<1> QED
  BY <1>1, <1>4, <1>5, <1>6, <1>7, <1>8 DEF PlanCovers, Present
LEMMA TracedOwn ==
    ASSUME TraceInv, SourceCurrent, ~mistaken, NEW r \in Proc, Step(r)
    PROVE  Traced(r)'
<1>0. /\ AimInv /\ PendingInv /\ TypeInv /\ TypeOK /\ Looked(r) /\ Traced(r) /\ Known(r)
      /\ Pending(r) /\ Aimed(r)
  BY DEF TraceInv, PendingInv, AimInv, SetInv, LockInv, TypeInv
<1> SUFFICES ASSUME Tracing(r)' PROVE (UnseenApart(r) /\ ScanFinds(r) /\ PlanCovers(r))'
  BY DEF Traced
<1>1. ASSUME NEW c \in Commands, Load(r, c)
      PROVE  (UnseenApart(r) /\ ScanFinds(r) /\ PlanCovers(r))'
  <2>1. pc'[r] = "resolve" /\ seen'[r] = Present /\ file' = file
    BY <1>0, <1>1 DEF Load, Goto, TypeOK
  <2> QED
    BY <2>1 DEF UnseenApart, ScanFinds, PlanCovers, Present
<1>2. ASSUME UNCHANGED <<file, job, seen, mistaken>>
      PROVE  UnseenApart(r) /\ ScanFinds(r) /\ PlanCovers(r) /\ Tracing(r)
  BY <1>0, <1>2 DEF Traced, Tracing, Moves
<1>3. CASE ReadSource(r)
  <2>1. /\ pc[r] = "resolve" /\ pc'[r] = "scan" /\ UNCHANGED <<file, job, seen, mistaken>>
    BY <1>0, <1>3 DEF ReadSource, Goto, Keep, TypeOK
  <2> QED
    BY <1>2, <2>1 DEF UnseenApart, ScanFinds, PlanCovers, Present
<1>4. CASE Scan(r)
  <2>1. /\ pc[r] = "scan" /\ pc'[r] = "wait" /\ UNCHANGED <<file, job, seen, mistaken>>
        /\ scan'[r] = Scanned(seen[r], job[r].path) /\ seen[r] \subseteq Present
    BY <1>0, <1>4 DEF Scan, Goto, Keep, TypeOK
  <2>2. \A q \in Present \ seen[r] : ~Refers(file[q], job[r].path)
    BY <1>2, <2>1 DEF UnseenApart
  <2>3. ScanFinds(r)'
    BY <2>1, <2>2 DEF ScanFinds, Scanned, Refers, Present
  <2> QED
    BY <2>1, <2>3 DEF UnseenApart, PlanCovers
<1>5. CASE TakeLocks(r) \/ CheckFree(r) \/ Allocate(r)
  <2>1. /\ pc[r] \in {"wait", "check"} /\ pc'[r] \in {"read", "create", "check", "prepare"}
        /\ UNCHANGED <<file, job, seen, mistaken, scan>>
    BY <1>0, <1>5 DEF TakeLocks, CheckFree, Allocate, Goto, Keep, TypeOK
  <2> QED
    BY <1>2, <2>1 DEF UnseenApart, ScanFinds, PlanCovers, Present
<1>6. CASE Prepare(r)
  <2>1. /\ pc'[r] \in {"record", "rename"} /\ UNCHANGED <<file, job, seen, mistaken>>
    BY <1>0, <1>6 DEF Prepare, Goto, Keep, TypeOK
  <2>2. PlanCovers(r)'
    BY <1>2, <1>6, <2>1, PlanMade
  <2> QED
    BY <2>1, <2>2 DEF UnseenApart, ScanFinds
<1>7. CASE Record(r)
  <2>1. /\ pc[r] = "record" /\ pc'[r] = "rename"
        /\ UNCHANGED <<file, job, seen, mistaken, dest, plan, own>>
    BY <1>0, <1>7 DEF Record, Goto, TypeOK
  <2> QED
    BY <1>2, <2>1 DEF UnseenApart, ScanFinds, PlanCovers, Present
<1>8. CASE RenameHolder(r)
  <2>1. PICK ch \in plan[r] : /\ file' = [file EXCEPT ![ch.path] = ch.text]
                              /\ plan' = [plan EXCEPT ![r] = @ \ {ch}]
    BY <1>8 DEF RenameHolder
  <2>2. /\ pc[r] = "rename" /\ plan'[r] = plan[r] \ {ch}
        /\ UNCHANGED <<pc, job, seen, mistaken, dest, own>>
    BY <1>0, <1>8, <2>1 DEF RenameHolder, Keep, TypeOK
  <2>3. ch.path \in Path /\ file[ch.path] # None
    BY <1>0, <2>2 DEF TypeOK, Change, Pending
  <2>4. Tracing(r)
    BY <1>0, <2>1, <2>2, <2>3 DEF Tracing, Moves, TypeOK
  <2>5. PlanCovers(r)
    BY <1>0, <2>4 DEF Traced
  <2>6. \A q \in Path : file'[q] = IF q = ch.path THEN ch.text ELSE file[q]
    BY <1>0, <2>1, <2>3 DEF TypeOK
  <2>7. PlanCovers(r)'
    BY <2>2, <2>3, <2>5, <2>6 DEF PlanCovers, Present
  <2> QED
    BY <2>2, <2>7 DEF UnseenApart, ScanFinds
<1>9. CASE RenameOwn(r)
  <2>1. /\ pc[r] = "rename" /\ UNCHANGED <<pc, job, seen, mistaken, dest, plan>>
        /\ own[r] # None /\ own'[r] = None
        /\ file' = [file EXCEPT ![job[r].path] = own[r]]
    BY <1>0, <1>9 DEF RenameOwn, Keep, TypeOK
  <2>2. file[job[r].path] # None /\ job[r].path \in Path
    BY <1>0, <2>1, JobType, CommandFields DEF Aimed, Tracing
  <2>3. Tracing(r)
    BY <2>1, <2>2 DEF Tracing, Moves
  <2>4. PlanCovers(r)
    BY <1>0, <2>3 DEF Traced
  <2>5. \A q \in Path : file'[q] = IF q = job[r].path THEN own[r] ELSE file[q]
    BY <1>0, <2>1, <2>2 DEF TypeOK
  <2>6. PlanCovers(r)'
    BY <2>1, <2>2, <2>4, <2>5 DEF PlanCovers, Present
  <2> QED
    BY <2>1, <2>6 DEF UnseenApart, ScanFinds
<1>10. CASE Resolve(r) \/ ResolveNew(r) \/ ResolveLoose(r)
  <2>1. ~Moves(r)'
    BY <1>10 DEF Resolve, ResolveNew, ResolveLoose, Keep, Moves
  <2> QED
    BY <2>1 DEF Tracing
<1>11. CASE \/ Read(r) \/ Write(r) \/ Create(r) \/ MoveDocument(r) \/ Fail(r) \/ Unlock(r)
            \/ Crash(r)
  <2>1. pc'[r] \in {"write", "unlock", "idle"}
    BY <1>0, <1>11
       DEF Read, Write, Create, MoveDocument, Fail, Unlock, Crash, Ends, Goto, TypeOK
  <2> QED
    BY <2>1 DEF UnseenApart, ScanFinds, PlanCovers
<1> QED
  BY <1>1, <1>3, <1>4, <1>5, <1>6, <1>7, <1>8, <1>9, <1>10, <1>11 DEF Step

LEMMA TraceInvNext ==
    SourceCurrent /\ TraceInv /\ [Next]_vars /\ [NoReuse /\ NoLateRef]_vars => TraceInv'
<1>1. ASSUME SourceCurrent, TraceInv, Next, NoReuse, NoLateRef, NEW r \in Proc
      PROVE  Looked(r)' /\ Traced(r)'
  <2>0. TypeInv /\ Looked(r) /\ Traced(r)
    BY <1>1 DEF TraceInv, AimInv, SetInv, LockInv
  <2>1. Looked(r)'
    BY <1>1, <2>0, LookedNext
  <2>2. ASSUME NEW p \in Proc, Step(p), ~mistaken PROVE Traced(r)'
    BY <1>1, <2>2, TracedOthers, TracedOwn
  <2>3. ASSUME NEW l \in Lock, ClearLock(l) PROVE Traced(r)'
    BY <2>0, <2>3
       DEF ClearLock, procVars, Traced, Tracing, Moves, UnseenApart, ScanFinds, PlanCovers, Present
  <2>4. ASSUME mistaken PROVE Traced(r)'
    BY <1>1, <2>4, MistakenStays DEF Traced, Tracing
  <2> QED
    BY <1>1, <2>1, <2>2, <2>3, <2>4 DEF Next
<1>2. ASSUME TraceInv, UNCHANGED vars, NEW r \in Proc PROVE Looked(r)' /\ Traced(r)'
  BY <1>2
     DEF TraceInv, vars, procVars, Looked, Traced, Tracing, Moves, UnseenApart, ScanFinds,
         PlanCovers, Present
<1>3. TraceInv /\ SourceCurrent => SourceStays
  <2> SUFFICES ASSUME TraceInv, SourceCurrent, NEW p \in Proc, pc[p] = "prepare", AutoMoves
               PROVE  file[job[p].path] # None /\ file[job[p].path].doc = text[p].doc
    BY DEF SourceStays
  <2>0. TypeInv /\ TypeOK /\ Known(p)
    BY DEF TraceInv, AimInv, SetInv, LockInv, TypeInv
  <2>1. /\ text[p] \in Text /\ file[job[p].path] # None
        /\ Recorded(file[job[p].path], job[p].path) = Recorded(text[p], job[p].path)
    BY <2>0 DEF Known, SourceCurrent
  <2>2. job[p].path \in Path /\ file[job[p].path] \in Text
    BY <2>0, <2>1, JobType, CommandFields DEF TypeOK
  <2> QED
    BY <2>1, <2>2, DocKept
<1>4. SourceCurrent /\ TraceInv /\ [Next]_vars => AimInv' /\ PendingInv'
  BY <1>3, AimInvNext, PendingInvNext DEF TraceInv
<1> QED
  BY <1>1, <1>2, <1>4 DEF TraceInv

\* The step that takes the file away from the old place is the rename that
\* brings it to the new one.
LEMMA FinishMoves ==
    ASSUME AimInv, ~mistaken, Next, NEW p \in Proc, Finishes(p)
    PROVE  MoveDocument(p)
<1>0. /\ LockInv /\ TypeInv /\ TypeOK /\ Known(p) /\ Covered(p) /\ pc[p] = "rename"
  BY DEF AimInv, SetInv, LockInv, TypeInv, Finishes
<1>1. job[p].path \in Path /\ file'[job[p].path] = None /\ file[job[p].path] # None
  BY <1>0, JobType, CommandFields DEF Finishes
<1>2. ASSUME NEW s \in Proc, Step(s) PROVE s = p
  BY <1>0, <1>1, <1>2, OthersLeave
<1>3. ASSUME NEW l \in Lock, ClearLock(l) PROVE FALSE
  BY <1>1, <1>3 DEF ClearLock
<1>4. Step(p)
  BY <1>2, <1>3 DEF Next
<1>5. ~RenameHolder(p)
  BY <1>0, <1>1, NoneApart DEF RenameHolder, TypeOK, Change
<1>6. ~RenameOwn(p)
  BY <1>0, <1>1 DEF RenameOwn, TypeOK
<1> QED
  BY <1>0, <1>1, <1>4, <1>5, <1>6
     DEF Step, Load, Resolve, ResolveLoose, ResolveNew, ReadSource, Scan, TakeLocks, Read,
         Write, Create, CheckFree, Allocate, Prepare, Record, Fail, Unlock, Crash, Ends

\* When a document has moved, no ref of the project names its old place, though
\* its holders are written to and moved meanwhile and runs are killed, if no file
\* appears at a path of the index of a running move, no `set` writes a ref to the
\* document, and the text of a document that a move records is still what it was
\* when it was read, save for the record of the same move.
THEOREM RefsFollowMoves ==
    Spec /\ []SourceCurrent /\ [][NoReuse /\ NoLateRef]_vars => RefsFollow
<1> DEFINE Leaves ==
        \A p \in Proc : Finishes(p) /\ ~mistaken =>
            \A q \in Path : file'[q] # None =>
                job[p].path \notin file'[q].refs \cup {file'[q].link}
<1>1. Init => TraceInv
  BY AimInit, PendingInit DEF TraceInv, Looked, Traced, Tracing, Moves, Init
<1>2. SourceCurrent /\ TraceInv /\ [Next]_vars /\ [NoReuse /\ NoLateRef]_vars => TraceInv'
  BY TraceInvNext
<1>3. TraceInv /\ [Next]_vars => [Leaves]_vars
  <2> SUFFICES ASSUME TraceInv, Next, NEW p \in Proc, Finishes(p), ~mistaken,
                      NEW q \in Path, file'[q] # None
               PROVE  job[p].path \notin file'[q].refs \cup {file'[q].link}
    OBVIOUS
  <2>0. /\ AimInv /\ TypeInv /\ TypeOK /\ Known(p) /\ Looked(p) /\ Traced(p)
        /\ pc[p] = "rename"
    BY DEF TraceInv, AimInv, SetInv, LockInv, TypeInv, Finishes
  <2>1. /\ plan[p] = {} /\ file[job[p].path] # None
        /\ file' = [file EXCEPT ![dest[p]] = file[job[p].path], ![job[p].path] = None]
    BY <2>0, FinishMoves DEF MoveDocument
  <2>2. job[p].path \in Path /\ Moves(p)
    BY <2>0, JobType, CommandFields, NoneApart DEF Known, Moves, MoveOps
  <2>3. PlanCovers(p)
    BY <2>0, <2>1, <2>2 DEF Traced, Tracing, Looked
  <2>4. \A o \in Path : file[o] # None => ~Refers(file[o], job[p].path)
    BY <2>0, <2>1, <2>3 DEF PlanCovers, Present
  <2>5. file'[q] = file[q] \/ file'[q] = file[job[p].path]
    BY <2>0, <2>1 DEF TypeOK
  <2> QED
    BY <2>1, <2>2, <2>4, <2>5 DEF Refers
<1> QED
  BY <1>1, <1>2, <1>3, PTL DEF Spec, RefsFollow

-----------------------------------------------------------------------------
(* A move which was stopped, anywhere and however often, leaves a project   *)
(* without a dangling ref once it is run again to its end. Several runs of  *)
(* the move may overlap.                                                    *)

\* The one command that is run, in a project whose refs name documents that are
\* there. A document that records its moves has no ref to itself.
OneMoveOf(c) ==
    /\ Commands = {c} /\ c.op = "mv"
    /\ \A f \in Initial, q \in Path : f[q] # None =>
          \A x \in f[q].refs \cup {f[q].link} : x = None \/ f[x] # None
    /\ AutoMoves => \A f \in Initial : f[c.path] # None => ~Refers(f[c.path], c.path)

\* The destination is in no index as long as there is no file.
ToUnseen(c) == \A r \in Proc : c.to \in seen[r] => file[c.to] # None

\* Every ref names a document that is there, or the destination.
Closed(c) ==
    \A q \in Present : file[q].refs \cup {file[q].link} \subseteq Present \cup {c.to, None}

NoSelf(c) == AutoMoves /\ file[c.path] # None => ~Refers(file[c.path], c.path)

\* What a run has read of the document would still be recorded as the document
\* is now, and the document is not among the holders.
SourceKnown(c, r) ==
    /\ AutoMoves /\ pc[r] \in {"scan", "wait", "check", "prepare"} =>
          /\ file[c.path] # None \/ file[c.to] # None
          /\ file[c.path] # None => Recorded(file[c.path], c.path) = Recorded(text[r], c.path)
    /\ AutoMoves => c.path \notin Holders(scan[r]) /\ \A ch \in plan[r] : ch.path # c.path
    /\ pc[r] \in {"prepare", "record", "rename"} => dest[r] = c.to

RerunInv(c) ==
    /\ TraceInv /\ ~mistaken
    /\ ToUnseen(c) /\ Closed(c) /\ NoSelf(c)
    /\ \A r \in Proc : SourceKnown(c, r)

LEMMA RecordedTwice ==
    ASSUME NEW t \in Text, NEW from \in Path
    PROVE  Recorded(Recorded(t, from), from) = Recorded(t, from)
<1> DEFINE s == t.moves
           longer == Append(s, from)
<1>1. s \in Seq(Path) /\ Len(s) \in Nat
  BY LenProperties DEF Text
<1>2. CASE s # <<>> /\ s[Len(s)] = from
  BY <1>2 DEF Recorded, Text
<1>3. CASE ~(s # <<>> /\ s[Len(s)] = from)
  <2>1. /\ Len(longer) = Len(s) + 1 /\ longer \in Seq(Path)
        /\ longer[Len(longer)] = from /\ longer # <<>>
    BY <1>1, AppendProperties
  <2>2. Recorded(t, from).moves = longer /\ Recorded(t, from) \in Text
    BY <1>3, RecordedType DEF Recorded, Text
  <2> HIDE DEF longer
  <2>3. Recorded(Recorded(t, from), from)
          = [Recorded(t, from) EXCEPT !.moves = longer]
    BY <2>1, <2>2 DEF Recorded
  <2> QED
    BY <2>2, <2>3 DEF Text
<1> QED
  BY <1>2, <1>3

-----------------------------------------------------------------------------
(* What a step does to the files, when nothing but the move is run.         *)

Rewrites(c, q, s) ==
    /\ file[q] # None /\ (AutoMoves => q # c.path)
    /\ file' = [file EXCEPT ![q] = Rewritten(q, file[q], s, c.path, c.to)]

Records(c) ==
    /\ file[c.path] # None
    /\ file' = [file EXCEPT ![c.path] = Recorded(file[c.path], c.path)]

Arrives(c) ==
    /\ file[c.path] # None /\ file[c.to] = None
    /\ \A q \in Present : ~Refers(file[q], c.path)
    /\ file' = [file EXCEPT ![c.to] = file[c.path], ![c.path] = None]

\* What runs know stays, and a run that knows the text of the document does not
\* come nearer to its renames.
Knowing ==
    /\ UNCHANGED <<seen, text, scan, dest>>
    /\ \A r \in Proc : plan'[r] \subseteq plan[r]
    /\ \A r \in Proc : pc'[r] = pc[r] \/ pc'[r] = "unlock"

LEMMA OnlyJob ==
    ASSUME NEW c, OneMoveOf(c), RerunInv(c)
    PROVE  /\ \A r \in Proc : pc[r] # "idle" => job[r] = c
           /\ c \in Command /\ c.path \in Path /\ c.to \in Path /\ c.path # c.to
<1>1. c \in Command /\ c.op = "mv" /\ c \in Commands
  BY CommandAssumption DEF OneMoveOf
<1>2. c.path \in Path /\ c.to \in Path /\ c.path # c.to
  BY <1>1, CommandFields, CommandAssumption
<1>3. \A r \in Proc : pc[r] # "idle" => job[r] = c
  BY DEF RerunInv, TraceInv, AimInv, SetInv, LockInv, TypeInv, Known, OneMoveOf
<1> QED
  BY <1>1, <1>2, <1>3

LEMMA MoveStep ==
    ASSUME NEW c, OneMoveOf(c), RerunInv(c), NEW p \in Proc, Step(p)
    PROVE  \/ file' = file
           \/ Knowing /\ (Records(c) \/ Arrives(c) \/ \E q \in Path : \E s : Rewrites(c, q, s))
<1>0. /\ AimInv /\ PendingInv /\ TypeInv /\ TypeOK /\ Known(p) /\ Aimed(p) /\ Pending(p)
      /\ Looked(p) /\ Traced(p) /\ SourceKnown(c, p) /\ ~mistaken
  BY DEF RerunInv, TraceInv, PendingInv, AimInv, SetInv, LockInv, TypeInv
<1>1. /\ pc[p] # "idle" => job[p] = c
      /\ c \in Command /\ c.path \in Path /\ c.to \in Path /\ c.path # c.to /\ c.op = "mv"
  BY OnlyJob DEF OneMoveOf
<1>2. CASE RenameHolder(p)
  <2>1. PICK ch \in plan[p] : /\ file' = [file EXCEPT ![ch.path] = ch.text]
                              /\ plan' = [plan EXCEPT ![p] = @ \ {ch}]
    BY <1>2 DEF RenameHolder
  <2>2. /\ pc[p] = "rename" /\ UNCHANGED <<pc, seen, text, scan, dest>>
        /\ ch.path \in Path
    BY <1>0, <1>2 DEF RenameHolder, Keep, TypeOK, Change
  <2>3. Rewrites(c, ch.path, scan[p])
    BY <1>0, <1>1, <2>1, <2>2 DEF Pending, SourceKnown, Rewrites
  <2>4. Knowing
    BY <1>0, <2>1, <2>2 DEF Knowing, TypeOK
  <2> QED
    BY <2>2, <2>3, <2>4
<1>3. CASE RenameOwn(p)
  <2>1. /\ pc[p] = "rename" /\ UNCHANGED <<pc, seen, text, scan, dest, plan>> /\ own[p] # None
        /\ file' = [file EXCEPT ![job[p].path] = own[p]]
    BY <1>3 DEF RenameOwn, Keep
  <2>2. Records(c)
    BY <1>0, <1>1, <2>1 DEF Pending, Aimed, Records
  <2> QED
    BY <2>1, <2>2 DEF Knowing
<1>4. CASE MoveDocument(p)
  <2>1. /\ pc[p] = "rename" /\ plan[p] = {} /\ file[c.path] # None /\ dest[p] = c.to
        /\ file' = [file EXCEPT ![c.to] = file[c.path], ![c.path] = None]
        /\ pc' = [pc EXCEPT ![p] = "unlock"] /\ UNCHANGED <<seen, text, scan, dest, plan>>
    BY <1>0, <1>1, <1>4 DEF MoveDocument, Goto, Keep, SourceKnown
  <2>2. file[c.to] = None
    BY <1>0, <2>1 DEF Aimed
  <2>3. Tracing(p)
    BY <1>0, <1>1, <2>1, NoneApart DEF Tracing, Looked, Moves
  <2>4. \A q \in Present : ~Refers(file[q], c.path)
    BY <1>0, <1>1, <2>1, <2>3 DEF Traced, PlanCovers
  <2>5. Arrives(c)
    BY <2>1, <2>2, <2>4 DEF Arrives
  <2>6. Knowing
    BY <1>0, <2>1 DEF Knowing, TypeOK
  <2> QED
    BY <2>5, <2>6
<1>5. ~Write(p) /\ ~Create(p)
  BY <1>0, <1>1 DEF Write, Create, Known
<1>6. \/ Write(p) \/ Create(p) \/ RenameHolder(p) \/ RenameOwn(p) \/ MoveDocument(p)
      \/ file' = file
  BY DEF Step, Load, Resolve, ResolveLoose, ResolveNew, ReadSource, Scan, TakeLocks, Read,
         CheckFree, Allocate, Prepare, Record, Fail, Unlock, Crash, Ends
<1> QED
  BY <1>2, <1>3, <1>4, <1>5, <1>6
LEMMA FilesNext ==
    ASSUME NEW c, OneMoveOf(c), RerunInv(c), NEW p \in Proc, Step(p)
    PROVE  /\ Closed(c)' /\ NoSelf(c)'
           /\ file'[c.to] = None => file[c.to] = None
           /\ \A q \in Path : file[q] = None /\ file'[q] # None => q = c.to
<1>0. /\ TypeOK /\ Closed(c) /\ NoSelf(c)
      /\ c.path \in Path /\ c.to \in Path /\ c.path # c.to
  BY OnlyJob DEF RerunInv, TraceInv, AimInv, SetInv, LockInv, TypeInv
<1> PICK from, to : from = c.path /\ to = c.to
  OBVIOUS
<1>1. CASE file' = file
  BY <1>0, <1>1 DEF Closed, NoSelf, Present
<1>2. ASSUME NEW q \in Path, NEW s, Rewrites(c, q, s)
      PROVE  /\ Closed(c)' /\ NoSelf(c)'
             /\ file'[to] = None => file[to] = None
             /\ \A x \in Path : file[x] = None /\ file'[x] # None => x = to
  <2>1. /\ file[q] \in Text /\ (AutoMoves => q # from)
        /\ Rewritten(q, file[q], s, from, to) \in Text
    BY <1>0, <1>2, RewrittenType DEF Rewrites, TypeOK
  <2>2. \A x \in Path : file'[x] = IF x = q THEN Rewritten(q, file[q], s, from, to) ELSE file[x]
    BY <1>0, <1>2 DEF Rewrites, TypeOK
  <2>3. Present' = Present
    BY <2>1, <2>2, NoneApart DEF Present
  <2>4. /\ Rewritten(q, file[q], s, from, to).refs \subseteq file[q].refs \cup {to}
        /\ Rewritten(q, file[q], s, from, to).link \in {file[q].link, to}
    BY <2>1 DEF Rewritten, Text
  <2>5. Closed(c)'
    BY <1>0, <2>2, <2>3, <2>4 DEF Closed, Present
  <2>6. NoSelf(c)'
    BY <1>0, <2>1, <2>2 DEF NoSelf
  <2> QED
    BY <1>0, <2>3, <2>5, <2>6 DEF Present
<1>3. ASSUME Records(c)
      PROVE  /\ Closed(c)' /\ NoSelf(c)'
             /\ file'[to] = None => file[to] = None
             /\ \A x \in Path : file[x] = None /\ file'[x] # None => x = to
  <2>1. file[from] \in Text /\ Recorded(file[from], from) \in Text
    BY <1>0, <1>3, RecordedType DEF Records, TypeOK
  <2>2. \A x \in Path : file'[x] = IF x = from THEN Recorded(file[from], from) ELSE file[x]
    BY <1>0, <1>3 DEF Records, TypeOK
  <2>3. Present' = Present
    BY <2>1, <2>2, NoneApart DEF Present
  <2>4. /\ Recorded(file[from], from).refs = file[from].refs
        /\ Recorded(file[from], from).link = file[from].link
    BY <2>1 DEF Recorded, Text
  <2>5. Closed(c)'
    BY <1>0, <2>2, <2>3, <2>4 DEF Closed, Present
  <2>6. NoSelf(c)'
    BY <1>0, <1>3, <2>2, <2>4 DEF NoSelf, Refers, Records
  <2> QED
    BY <1>0, <2>3, <2>5, <2>6 DEF Present
<1>4. ASSUME Arrives(c)
      PROVE  /\ Closed(c)' /\ NoSelf(c)'
             /\ file'[to] = None => file[to] = None
             /\ \A x \in Path : file[x] = None /\ file'[x] # None => x = to
  <2>1. /\ file'[to] = file[from] /\ file'[from] = None /\ file[from] # None
        /\ \A x \in Path \ {from, to} : file'[x] = file[x]
        /\ \A x \in Present : ~Refers(file[x], from)
    BY <1>0, <1>4 DEF Arrives, TypeOK
  <2>2. Present \ {from} \subseteq Present' /\ to \in Present'
    BY <1>0, <2>1 DEF Present
  <2>3. ASSUME NEW x \in Present'
        PROVE  file'[x].refs \cup {file'[x].link} \subseteq Present' \cup {to, None}
    <3>1. PICK o \in Present : file'[x] = file[o]
      BY <1>0, <2>1 DEF Present
    <3>2. file[o].refs \cup {file[o].link} \subseteq Present \cup {to, None}
      BY <1>0, <3>1 DEF Closed
    <3>3. from \notin file[o].refs \cup {file[o].link}
      BY <2>1, <3>1 DEF Refers
    <3> QED
      BY <2>2, <3>1, <3>2, <3>3
  <2>4. Closed(c)'
    BY <2>3 DEF Closed
  <2> QED
    BY <1>0, <2>1, <2>4 DEF NoSelf
<1> QED
  BY <1>1, <1>2, <1>3, <1>4, MoveStep

\* What the proofs about moves ask of the other runs is so when they all run
\* the same move: nothing is written but what the move writes.
LEMMA MoveAlone ==
    ASSUME NEW c, OneMoveOf(c), RerunInv(c)
    PROVE  SourceCurrent /\ (Next => NoReuse /\ NoLateRef)
<1>0. /\ AimInv /\ TypeInv /\ TypeOK /\ ToUnseen(c)
      /\ \A p \in Proc : Known(p) /\ Aimed(p) /\ SourceKnown(c, p)
      /\ \A p \in Proc : pc[p] # "idle" => job[p] = c
      /\ ~mistaken
  BY OnlyJob DEF RerunInv, TraceInv, AimInv, SetInv, LockInv, TypeInv
<1>1. ASSUME NEW p \in Proc, pc[p] = "prepare", AutoMoves
      PROVE  /\ file[c.path] # None
             /\ Recorded(file[c.path], c.path) = Recorded(text[p], c.path)
             /\ c.path \notin Holders(scan[p])
  <2>1. file[c.to] = None
    BY <1>0, <1>1 DEF SourceKnown, Aimed
  <2> QED
    BY <1>0, <1>1, <2>1 DEF SourceKnown
<1>2. SourceCurrent
  BY <1>0, <1>1 DEF SourceCurrent
<1>3. ASSUME Next PROVE NoReuse
  <2>1. ASSUME NEW q \in Path, file[q] = None, file'[q] # None
        PROVE  q = c.to
    <3>1. ASSUME NEW l \in Lock, ClearLock(l) PROVE FALSE
      BY <2>1, <3>1 DEF ClearLock
    <3> QED
      BY <1>3, <2>1, <3>1, FilesNext DEF Next
  <2> QED
    BY <1>0, <2>1 DEF NoReuse, ToUnseen
<1>4. NoLateRef
  BY <1>0 DEF NoLateRef, Write, Known, OneMoveOf
<1> QED
  BY <1>2, <1>3, <1>4

LEMMA ToUnseenNext ==
    ASSUME NEW c, OneMoveOf(c), RerunInv(c), NEW p \in Proc, Step(p)
    PROVE  ToUnseen(c)'
<1>0. TypeOK /\ ToUnseen(c) /\ c.to \in Path
  BY OnlyJob DEF RerunInv, TraceInv, AimInv, SetInv, LockInv, TypeInv
<1>1. ASSUME NEW r \in Proc
      PROVE  seen'[r] = seen[r] \/ seen'[r] = {} \/ (seen'[r] = Present /\ file' = file)
  BY <1>0
     DEF Step, Load, Resolve, ResolveLoose, ResolveNew, ReadSource, Scan, TakeLocks, Read,
         Write, Create, CheckFree, Allocate, Prepare, Record, RenameHolder, RenameOwn,
         MoveDocument, Fail, Unlock, Crash, Ends, Keep, TypeOK
<1>2. file'[c.to] = None => file[c.to] = None
  BY FilesNext
<1> QED
  BY <1>0, <1>1, <1>2 DEF ToUnseen, Present
\* The document is at one end of the move, and there it is recorded as before.
LEMMA SourceNext ==
    ASSUME NEW c, OneMoveOf(c), RerunInv(c), NEW p \in Proc, Step(p), AutoMoves
    PROVE  /\ file[c.path] # None \/ file[c.to] # None =>
                  file'[c.path] # None \/ file'[c.to] # None
           /\ file'[c.path] # None =>
                 /\ file[c.path] # None
                 /\ Recorded(file'[c.path], c.path) = Recorded(file[c.path], c.path)
<1>0. /\ TypeOK /\ c.path \in Path /\ c.to \in Path /\ c.path # c.to
  BY OnlyJob DEF RerunInv, TraceInv, AimInv, SetInv, LockInv, TypeInv
<1> PICK from, to : from = c.path /\ to = c.to
  OBVIOUS
<1>1. file[to] # None => file'[to] # None
  BY FilesNext
<1>2. ASSUME NEW q \in Path, NEW s, Rewrites(c, q, s) PROVE file'[from] = file[from]
  BY <1>0, <1>2 DEF Rewrites, TypeOK
<1>3. ASSUME Records(c)
      PROVE  /\ file[from] # None /\ file'[from] # None
             /\ Recorded(file'[from], from) = Recorded(file[from], from)
  <2>1. file[from] \in Text /\ file'[from] = Recorded(file[from], from)
    BY <1>0, <1>3 DEF Records, TypeOK
  <2> QED
    BY <1>0, <1>3, <2>1, RecordedTwice, RecordedType, NoneApart DEF Records
<1>4. ASSUME Arrives(c) PROVE file'[from] = None /\ file'[to] # None
  BY <1>0, <1>4 DEF Arrives, TypeOK
<1> QED
  BY <1>1, <1>2, <1>3, <1>4, MoveStep

LEMMA SourceKnownNext ==
    ASSUME NEW c, OneMoveOf(c), RerunInv(c), NEW p \in Proc, Step(p), NEW r \in Proc
    PROVE  SourceKnown(c, r)'
<1>0. /\ TypeInv /\ TypeOK /\ Known(r) /\ SourceKnown(c, r) /\ NoSelf(c) /\ LockInv /\ PendingInv
      /\ pc[r] # "idle" => job[r] = c
      /\ c.path \in Path /\ c.op = "mv" /\ ~mistaken
  BY OnlyJob DEF RerunInv, TraceInv, AimInv, SetInv, LockInv, TypeInv, OneMoveOf
<1>1. ASSUME pc'[r] = pc[r], text'[r] = text[r], scan'[r] = scan[r], dest'[r] = dest[r],
             plan'[r] \subseteq plan[r]
      PROVE  SourceKnown(c, r)'
  BY <1>0, <1>1, SourceNext DEF SourceKnown
<1>2. CASE p # r
  BY <1>0, <1>1, <1>2, OthersLeave
<1>3. CASE ReadSource(r)
  <2>1. /\ file' = file /\ text'[r] = file[c.path] /\ file[c.path] # None
        /\ pc'[r] = "scan" /\ UNCHANGED <<scan, dest, plan>>
    BY <1>0, <1>3 DEF ReadSource, Goto, Keep, TypeOK
  <2> QED
    BY <1>0, <2>1 DEF SourceKnown
<1>4. CASE Scan(r)
  <2>1. /\ file' = file /\ pc[r] = "scan" /\ pc'[r] = "wait" /\ UNCHANGED <<text, dest, plan>>
        /\ scan'[r] = Scanned(seen[r], c.path) /\ seen[r] \subseteq Present
    BY <1>0, <1>4 DEF Scan, Goto, Keep, TypeOK
  <2>2. AutoMoves => c.path \notin Holders(scan'[r])
    BY <1>0, <2>1 DEF Scanned, Holders, NoSelf, Refers, Present
  <2> QED
    BY <1>0, <2>1, <2>2 DEF SourceKnown
<1>5. CASE TakeLocks(r)
  <2>1. /\ file' = file /\ pc[r] = "wait" /\ pc'[r] = "check"
        /\ UNCHANGED <<text, scan, dest, plan>>
    BY <1>0, <1>5 DEF TakeLocks, Goto, Keep, TypeOK
  <2> QED
    BY <1>0, <2>1 DEF SourceKnown
<1>6. CASE CheckFree(r)
  <2>1. /\ file' = file /\ pc[r] = "check" /\ pc'[r] = "prepare" /\ dest'[r] = c.to
        /\ UNCHANGED <<text, scan, plan>>
    BY <1>0, <1>6 DEF CheckFree, Goto, Keep, TypeOK
  <2> QED
    BY <1>0, <2>1 DEF SourceKnown
<1>7. CASE Prepare(r)
  <2>1. /\ file' = file /\ pc[r] = "prepare" /\ pc'[r] = "rename"
        /\ UNCHANGED <<text, scan, dest>>
    BY <1>0, <1>7 DEF Prepare, Goto, Keep, TypeOK
  <2>2. \A ch \in plan'[r] : ch.path \in Holders(scan[r])
    BY <1>0, <1>7, Prepared
  <2> QED
    BY <1>0, <2>1, <2>2 DEF SourceKnown
<1>8. CASE Record(r) \/ RenameHolder(r) \/ RenameOwn(r)
  <2>1. /\ pc[r] \in {"record", "rename"} /\ pc'[r] = "rename"
        /\ UNCHANGED <<text, scan, dest>> /\ plan'[r] \subseteq plan[r]
    BY <1>0, <1>8 DEF Record, RenameHolder, RenameOwn, Goto, Keep, TypeOK
  <2> QED
    BY <1>0, <2>1 DEF SourceKnown
<1>9. CASE \/ \E d \in Commands : Load(r, d)
           \/ MoveDocument(r) \/ Fail(r)
  <2>1. pc'[r] \in {"resolve", "unlock"} /\ UNCHANGED <<scan, plan>>
    BY <1>0, <1>9 DEF Load, MoveDocument, Fail, Goto, TypeOK
  <2> QED
    BY <1>0, <2>1 DEF SourceKnown
<1>10. CASE Unlock(r) \/ Crash(r)
  <2>1. pc'[r] = "idle" /\ scan'[r] = NoScan /\ plan'[r] = {}
    BY <1>0, <1>10 DEF Unlock, Crash, Ends, TypeOK
  <2> QED
    BY <2>1 DEF SourceKnown, NoScan, Holders
<1>11. /\ ~Resolve(r) /\ ~ResolveLoose(r) /\ ~ResolveNew(r) /\ ~Allocate(r)
       /\ ~Read(r) /\ ~Write(r) /\ ~Create(r)
  BY <1>0 DEF Resolve, ResolveLoose, ResolveNew, Allocate, Read, Write, Create, Known
<1> QED
  BY <1>2, <1>3, <1>4, <1>5, <1>6, <1>7, <1>8, <1>9, <1>10, <1>11 DEF Step

LEMMA RerunNext ==
    ASSUME NEW c, OneMoveOf(c)
    PROVE  RerunInv(c) /\ [Next]_vars => RerunInv(c)'
<1>1. ASSUME RerunInv(c), Next PROVE RerunInv(c)'
  <2>1. TraceInv'
    BY <1>1, MoveAlone, TraceInvNext DEF RerunInv
  <2>2. ASSUME NEW p \in Proc, Step(p)
        PROVE  /\ ToUnseen(c)' /\ Closed(c)' /\ NoSelf(c)'
               /\ \A r \in Proc : SourceKnown(c, r)'
    BY <1>1, <2>2, ToUnseenNext, FilesNext, SourceKnownNext
  <2>3. ASSUME NEW l \in Lock, ClearLock(l)
        PROVE  /\ ToUnseen(c)' /\ Closed(c)' /\ NoSelf(c)'
               /\ \A r \in Proc : SourceKnown(c, r)'
    BY <1>1, <2>3
       DEF ClearLock, procVars, RerunInv, ToUnseen, Closed, NoSelf, SourceKnown, Present
  <2>4. ~mistaken'
    <3>1. \A p \in Proc : ~ResolveLoose(p)
      BY <1>1, OnlyJob DEF ResolveLoose, OneMoveOf
    <3> QED
      BY <1>1, <3>1, MistakenOnly DEF RerunInv
  <2> QED
    BY <1>1, <2>1, <2>2, <2>3, <2>4 DEF Next, RerunInv
<1>2. ASSUME RerunInv(c), UNCHANGED vars PROVE RerunInv(c)'
  <2>1. TraceInv'
    BY <1>2, MoveAlone, TraceInvNext DEF RerunInv
  <2> QED
    BY <1>2, <2>1
       DEF vars, procVars, RerunInv, ToUnseen, Closed, NoSelf, SourceKnown, Present
<1> QED
  BY <1>1, <1>2

LEMMA RerunInit ==
    ASSUME NEW c, OneMoveOf(c)
    PROVE  Init => RerunInv(c)
<1> SUFFICES ASSUME Init PROVE RerunInv(c)
  OBVIOUS
<1>1. TraceInv
  BY AimInit, PendingInit DEF TraceInv, Looked, Traced, Tracing, Moves, Init
<1>2. \A q \in Present : file[q].refs \cup {file[q].link} \subseteq Path \cup {None}
  BY <1>1 DEF TraceInv, AimInv, SetInv, LockInv, TypeInv, TypeOK, Present, Text
<1>3. Closed(c)
  BY <1>2 DEF Closed, OneMoveOf, Init, Present
<1>4. NoSelf(c)
  BY DEF NoSelf, OneMoveOf, Init
<1>5. ToUnseen(c) /\ \A r \in Proc : SourceKnown(c, r)
  BY DEF ToUnseen, SourceKnown, Init, NoScan, Holders
<1> QED
  BY <1>1, <1>3, <1>4, <1>5 DEF RerunInv, Init

\* A move that was stopped anywhere, however often, and that is run again until
\* it ends, also beside other runs of itself, leaves a project in which every
\* ref names a document that is there, if it was so at the start. Where the move
\* is recorded, the document may have no ref to itself.
THEOREM RerunCompletes ==
    ASSUME NEW c, OneMoveOf(c)
    PROVE  Spec => RerunFinishes
<1> DEFINE Whole ==
        \A p \in Proc : Finishes(p) =>
            \A q \in Present' : file'[q].refs \cup {file'[q].link} \subseteq Present' \cup {None}
<1>1. Init => RerunInv(c)
  BY RerunInit
<1>2. RerunInv(c) /\ [Next]_vars => RerunInv(c)'
  BY RerunNext
<1>3. RerunInv(c) /\ [Next]_vars => [Whole]_vars
  <2> SUFFICES ASSUME RerunInv(c), Next, NEW p \in Proc, Finishes(p)
               PROVE  \A q \in Present' :
                          file'[q].refs \cup {file'[q].link} \subseteq Present' \cup {None}
    OBVIOUS
  <2>1. /\ AimInv /\ ~mistaken /\ TypeOK /\ SourceKnown(c, p) /\ job[p] = c /\ c.to \in Path
        /\ c.path # c.to
    BY OnlyJob DEF RerunInv, TraceInv, AimInv, SetInv, LockInv, TypeInv, Finishes
  <2>2. MoveDocument(p) /\ dest[p] = c.to /\ file[c.path] # None
    BY <2>1, FinishMoves DEF Finishes, SourceKnown
  <2>3. c.to \in Present'
    BY <2>1, <2>2 DEF MoveDocument, Present, TypeOK
  <2>4. Closed(c)'
    BY <1>2 DEF RerunInv
  <2> QED
    BY <2>3, <2>4 DEF Closed
<1> QED
  BY <1>1, <1>2, <1>3, PTL DEF Spec, RerunFinishes
=============================================================================
