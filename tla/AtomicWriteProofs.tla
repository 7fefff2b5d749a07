------------------------- MODULE AtomicWriteProofs -------------------------
(***************************************************************************)
(* Proofs about AtomicWrite, for any processes, paths, texts, locks, jobs  *)
(* and folders to start with, on both platforms, and any bounds.           *)
(***************************************************************************)
EXTENDS AtomicWrite, TLAPS

Changing == {"mode", "temp", "access", "write", "some", "rename"}
Making   == {"make", "fill", "fillrest", "undo"}

Changes(p) == Len(job[p].changes)

(***************************************************************************)
(* Typing. A run has a job of the kind its step belongs to, and has made   *)
(* as many temp files as it has come to changes.                           *)
(***************************************************************************)
JobFits == \A p \in Proc :
    /\ pc[p] = "idle" => temps[p] = <<>> /\ pid[p] = None /\ at[p] = 1
    /\ pc[p] # "idle" => job[p] \in Jobs /\ pid[p] \in Pid
    /\ pc[p] \in Changing \cup {"tidy"} => job[p].op \in {"replace", "commit"}
    /\ pc[p] = "move" => job[p].op = "commit"
    /\ pc[p] \in Making => job[p].op = "create"

TempsCounted == \A p \in Proc :
    /\ pc[p] \in Changing => at[p] \in 1..Changes(p)
    /\ pc[p] \in {"mode", "temp"} => Len(temps[p]) = at[p] - 1
    /\ pc[p] \in {"access", "write", "some"} => Len(temps[p]) = at[p]
    /\ pc[p] = "rename" => Len(temps[p]) = Changes(p)
    /\ pc[p] = "tidy" => Len(temps[p]) \in 1..Changes(p)
    /\ pc[p] # "idle" /\ job[p].op = "create" => temps[p] = <<>>

TInv == TypeOK /\ JobFits /\ TempsCounted

(***************************************************************************)
(* Whose files are whose. A temp file's name tells the process and which   *)
(* of its files it is; a document is covered by a lock.                    *)
(***************************************************************************)
NamesApart ==
    /\ \A p, q \in Proc : pid[p] # None /\ pid[p] = pid[q] => p = q
    /\ \A p \in Proc : \A i \in 1..Len(temps[p]) :
          temps[p][i][1] = pid[p] /\ temps[p][i][3] = i - 1

Locked == \A p \in Proc :
    pc[p] # "idle" => \A q \in Touched(job[p]) : owner[LockOf[q]] = p

(***************************************************************************)
(* What is in them.                                                        *)
(***************************************************************************)
Written(p, i, part) ==
    /\ file[temps[p][i]] # None
    /\ file[temps[p][i]].text = job[p].changes[i].text
    /\ file[temps[p][i]].part = part

Prepared(p) ==
    /\ pc[p] \in {"mode", "temp", "access", "write", "some"} =>
          \A i \in 1..at[p] - 1 : Written(p, i, "all")
    /\ pc[p] \in {"access", "write"} => Written(p, at[p], "none")
    /\ pc[p] = "some" => Written(p, at[p], "some")
    /\ pc[p] = "rename" => \A i \in at[p]..Changes(p) : Written(p, i, "all")

\* The temp files that are gone.
Cleared(p) ==
    /\ pc[p] = "rename" => \A i \in 1..at[p] - 1 : file[temps[p][i]] = None
    /\ \/ pc[p] \in {"move", "ok"}
       \/ pc[p] = "failed" /\ ~stuck[p] /\ job[p].op # "commit"
       => \A i \in 1..Len(temps[p]) : file[temps[p][i]] = None

\* The documents of a move, and the one that is being made.
Documents(p) ==
    /\ pc[p] \in Changing \cup {"move"} /\ job[p].op = "commit" =>
          file[job[p].from] # None /\ file[job[p].to] = None
    /\ pc[p] \in {"fill", "fillrest", "undo"} =>
          /\ file[job[p].path] # None
          /\ file[job[p].path].text = job[p].text
          /\ file[job[p].path].part # "all"

FileInv ==
    /\ TInv /\ NamesApart /\ Locked
    /\ \A p \in Proc : Prepared(p) /\ Cleared(p) /\ Documents(p)

\* The access the file at a path has, or would be made with.
AccessOf(q) == IF file[q] = None THEN Default ELSE file[q].access

\* On Unix a temp file has the access of the document it will replace, once
\* that is carried over, and what is carried is the document's access still.
Carries(p) ==
    /\ pc[p] \in {"temp", "access"} =>
          carried[p] = IF file[Target(p)] = None THEN None ELSE file[Target(p)].access
    /\ pc[p] = "access" => file[LastTemp(p)].access = Default
    /\ pc[p] \in {"mode", "temp", "access", "write", "some"} =>
          \A i \in 1..at[p] - 1 :
              file[temps[p][i]].access = AccessOf(job[p].changes[i].path)
    /\ pc[p] \in {"write", "some"} => file[LastTemp(p)].access = AccessOf(Target(p))
    /\ pc[p] = "rename" =>
          \A i \in at[p]..Changes(p) :
              file[temps[p][i]].access = AccessOf(job[p].changes[i].path)

CarryInv == ~windows => \A p \in Proc : Carries(p)

\* A secret text is only ever written over a document that is private.
SecretsReplacePrivate == \A p \in Proc :
    pc[p] = "mode" /\ job[p].changes[at[p]].text \in Secret =>
        file[Target(p)] # None /\ file[Target(p)].access = "private"

SecretCarried(p) ==
    /\ pc[p] \in {"temp", "access", "write", "some"}
       /\ job[p].changes[at[p]].text \in Secret => carried[p] = "private"
    /\ pc[p] \in {"write", "some"}
       /\ job[p].changes[at[p]].text \in Secret => file[LastTemp(p)].access = "private"

SecretInv == ~windows => SecretStaysPrivate /\ \A p \in Proc : SecretCarried(p)

-----------------------------------------------------------------------------
(* What a job is made of.                                                  *)

LEMMA JobFacts ==
    ASSUME NEW j \in Jobs
    PROVE  /\ j.op \in {"replace", "commit", "create"}
           /\ j.op # "create" =>
                /\ j.changes \in Seq(Change) /\ Len(j.changes) \in 0..MaxChanges
                /\ \A i \in 1..Len(j.changes) :
                      j.changes[i].path \in Path /\ j.changes[i].text \in Version
           /\ j.op = "replace" => Len(j.changes) = 1
           /\ j.op = "commit" =>
                /\ j.from \in Path /\ j.to \in Path /\ j.from # j.to
                /\ \A i \in 1..Len(j.changes) : j.changes[i].path # j.to
           /\ j.op = "create" => j.path \in Path /\ j.text \in Version /\ j.text \notin Secret
<1>1. j \in Job
    BY JobAssumption
<1>2. CASE j \in [op : {"replace"}, changes : {<<c>> : c \in Change}]
    <2>1. PICK c \in Change : j.changes = <<c>>
        BY <1>2
    <2>2. j.op = "replace" /\ j.changes \in Seq(Change) /\ Len(j.changes) = 1
        BY <1>2, <2>1
    <2>3. j.changes[1] \in Change
        BY <2>1
    <2> QED BY <2>2, <2>3, BoundAssumption DEF Change
<1>3. CASE j \in [op : {"commit"}, changes : Seq(Change), from : Path, to : Path]
    <2>1. j.op = "commit" /\ j.changes \in Seq(Change) /\ j.from \in Path /\ j.to \in Path
        BY <1>3
    <2>2. /\ Len(j.changes) <= MaxChanges /\ j.from # j.to
          /\ \A i \in 1..Len(j.changes) : j.changes[i].path # j.to
        BY <2>1, JobAssumption
    <2>3. \A i \in 1..Len(j.changes) : j.changes[i] \in Change
        BY <2>1
    <2> QED BY <2>1, <2>2, <2>3, BoundAssumption DEF Change
<1>4. CASE j \in [op : {"create"}, path : Path, text : Version]
    BY <1>4, SecretAssumption
<1> QED BY <1>1, <1>2, <1>3, <1>4 DEF Job

LEMMA TouchedFacts ==
    ASSUME NEW j \in Jobs
    PROVE  /\ Touched(j) \subseteq Path
           /\ j.op = "create" => j.path \in Touched(j)
           /\ j.op = "commit" => j.from \in Touched(j) /\ j.to \in Touched(j)
           /\ j.op # "create" => \A i \in 1..Len(j.changes) : j.changes[i].path \in Touched(j)
<1>1. j.op # "create" => DOMAIN j.changes = 1..Len(j.changes)
    BY JobFacts
<1> QED BY <1>1, JobFacts DEF Touched

-----------------------------------------------------------------------------
(* Typing.                                                                 *)

LEMMA TInvInit == Init => TInv
<1> SUFFICES ASSUME Init PROVE TInv
    OBVIOUS
<1>1. file \in [Name -> File \cup {None}]
    <2>1. PICK f \in Initial : file = [n \in Name |-> IF n \in Path THEN f[n] ELSE None]
        BY DEF Init
    <2>2. f \in [Path -> File \cup {None}]
        BY <2>1, InitialAssumption
    <2> QED BY <2>1, <2>2
<1>2. temps \in [Proc -> Seq(Temp)] /\ at \in [Proc -> 1..MaxChanges + 1] /\ runs \in 0..MaxRuns
    BY BoundAssumption DEF Init
<1>3. TypeOK
    BY <1>1, <1>2 DEF Init, TypeOK, Steps
<1> QED BY <1>3 DEF Init, TInv, JobFits, TempsCounted, Changing, Making

LEMMA ChangeTyped ==
    ASSUME TInv, NEW p \in Proc, pc[p] \in Changing
    PROVE  /\ job[p] \in Jobs /\ job[p].op \in {"replace", "commit"}
           /\ Changes(p) \in 1..MaxChanges /\ at[p] \in 1..Changes(p)
           /\ Target(p) \in Path /\ job[p].changes[at[p]].text \in Version
           /\ Target(p) \in Touched(job[p])
<1>1. job[p] \in Jobs /\ job[p].op \in {"replace", "commit"} /\ at[p] \in 1..Changes(p)
    BY DEF TInv, JobFits, TempsCounted, Changing
<1>2. Changes(p) \in 0..MaxChanges
    BY <1>1, JobFacts DEF Changes
<1>3. Changes(p) \in 1..MaxChanges
    BY <1>1, <1>2, BoundAssumption
<1> QED BY <1>1, <1>3, JobFacts, TouchedFacts DEF Changes, Target

\* A file made here, and one that keeps its text.
LEMMA FileTyped ==
    /\ \A v \in Version, a \in Access, s \in {"none", "some", "all"} :
          [text |-> v, part |-> s, access |-> a] \in File
    /\ Default \in Access
    /\ \A f \in File : /\ \A a \in Access : [f EXCEPT !.access = a] \in File
                       /\ \A s \in {"none", "some", "all"} : [f EXCEPT !.part = s] \in File
BY DEF File, Access, Default

LEMMA LastTempTyped ==
    ASSUME TInv, NEW p \in Proc,
           pc[p] \in {"access", "write", "some", "tidy"}
    PROVE  LastTemp(p) \in Temp /\ LastTemp(p) \in Name /\ Len(temps[p]) \in 1..Len(temps[p])
           /\ Len(temps[p]) \in Nat
<1>1. temps[p] \in Seq(Temp) /\ Len(temps[p]) \in Nat
    BY DEF TInv, TypeOK
<1>2. Len(temps[p]) >= 1
    <2>1. CASE pc[p] = "tidy"
        BY <2>1 DEF TInv, TempsCounted
    <2>2. CASE pc[p] # "tidy"
        <3>1. pc[p] \in Changing /\ Len(temps[p]) = at[p] /\ at[p] \in 1..Changes(p)
            BY <2>2 DEF TInv, TempsCounted, Changing
        <3> QED BY <3>1
    <2> QED BY <2>1, <2>2
<1> QED BY <1>1, <1>2 DEF LastTemp, Name

LEMMA TempNameTyped ==
    ASSUME TInv, NEW p \in Proc, pc[p] = "temp", NEW d \in Draw
    PROVE  /\ TempName(p, d) \in Temp
           /\ TempName(p, d)[1] = pid[p] /\ TempName(p, d)[3] = Len(temps[p])
           /\ Len(temps[p]) = at[p] - 1
<1>1. Len(temps[p]) = at[p] - 1 /\ pid[p] \in Pid
    BY DEF TInv, TempsCounted, JobFits
<1>2. at[p] \in 1..Changes(p) /\ Changes(p) \in 1..MaxChanges
    BY ChangeTyped DEF Changing
<1>3. Len(temps[p]) \in 0..MaxChanges
    BY <1>1, <1>2, BoundAssumption
<1> QED BY <1>1, <1>3 DEF TempName, Temp

LEMMA StartTyped ==
    ASSUME TInv, NEW p \in Proc, NEW j \in Jobs, NEW i \in Pid, Start(p, j, i)
    PROVE  TInv'
<1> USE DEF TInv, TypeOK, Start, Goto
<1>1. j \in Job /\ p \notin {None} /\ j # None
    BY JobAssumption, NamesAssumption
<1>2. TypeOK'
    <2>1. owner' \in [Lock -> Proc \cup {None, Abandoned}]
        OBVIOUS
    <2>2. runs' \in 0..MaxRuns
        BY BoundAssumption
    <2>3. pc' \in [Proc -> Steps]
        BY DEF Steps
    <2> QED BY <1>1, <2>1, <2>2, <2>3
<1>3. /\ pc[p] = "idle" /\ job'[p] = j /\ pid'[p] = i /\ at'[p] = 1 /\ temps'[p] = <<>>
      /\ pc'[p] = CASE j.op = "create" -> "make"
                    [] j.op = "commit" /\ j.changes = <<>> -> "move"
                    [] OTHER -> "mode"
      /\ \A q \in Proc \ {p} : /\ pc'[q] = pc[q] /\ job'[q] = job[q] /\ pid'[q] = pid[q]
                               /\ at'[q] = at[q] /\ temps'[q] = temps[q]
    BY DEF JobFits
<1>4. pc'[p] = "mode" => j.op # "create" /\ 1 \in 1..Len(j.changes)
    <2> SUFFICES ASSUME pc'[p] = "mode" PROVE j.op # "create" /\ 1 \in 1..Len(j.changes)
        OBVIOUS
    <2>1. j.op # "create" /\ ~(j.op = "commit" /\ j.changes = <<>>)
        BY <1>3
    <2> HIDE DEF TInv, TypeOK, Start, Goto
    <2>2. j.changes \in Seq(Change) /\ j.op \in {"replace", "commit"}
        BY <2>1, JobFacts
    <2>3. CASE j.op = "replace"
        <3>1. Len(j.changes) = 1
            BY <2>3, JobFacts
        <3> QED BY <2>1, <3>1
    <2>4. CASE j.op = "commit"
        <3>1. j.changes # <<>>
            BY <2>1, <2>4
        <3>2. Len(j.changes) \in Nat /\ Len(j.changes) # 0
            BY <2>2, <3>1
        <3> QED BY <2>1, <3>2
    <2> QED BY <2>2, <2>3, <2>4
<1>5. JobFits'
    BY <1>3, <1>4, JobFacts DEF JobFits, Changing, Making
<1>6. TempsCounted'
    BY <1>3, <1>4 DEF TempsCounted, Changing, Changes
<1> QED BY <1>2, <1>5, <1>6

\* A step that changes nothing but where p is and what is in a file.
LEMMA GotoTyped ==
    ASSUME TInv, NEW p \in Proc, pc[p] # "idle", NEW step \in Steps \ {"idle"}, Goto(p, step),
           file' \in [Name -> File \cup {None}],
           UNCHANGED <<owner, job, pid, temps, windows, runs>>,
           at' \in [Proc -> 1..MaxChanges + 1], \A q \in Proc \ {p} : at'[q] = at[q],
           carried' \in [Proc -> Access \cup {None}], stuck' \in [Proc -> BOOLEAN],
           step \in Changing \cup {"tidy"} => job[p].op \in {"replace", "commit"},
           step = "move" => job[p].op = "commit",
           step \in Making => job[p].op = "create",
           step \in Changing => at'[p] \in 1..Changes(p),
           step \in {"mode", "temp"} => Len(temps[p]) = at'[p] - 1,
           step \in {"access", "write", "some"} => Len(temps[p]) = at'[p],
           step = "rename" => Len(temps[p]) = Changes(p),
           step = "tidy" => Len(temps[p]) \in 1..Changes(p)
    PROVE  TInv'
<1>1. pc'[p] = step /\ \A q \in Proc \ {p} : pc'[q] = pc[q]
    BY DEF TInv, TypeOK, Goto
<1>2. TypeOK'
    BY DEF TInv, TypeOK, Goto
<1>3. JobFits'
    BY <1>1 DEF TInv, JobFits
<1>4. TempsCounted'
    BY <1>1 DEF TInv, TempsCounted, Changes
<1> QED BY <1>2, <1>3, <1>4 DEF TInv

LEMMA EndsTyped ==
    ASSUME TInv, NEW p \in Proc, Unlock(p) \/ Crash(p)
    PROVE  TInv'
<1> USE DEF TInv, TypeOK, Ends
<1>1. Ends(p) /\ owner' \in [Lock -> Proc \cup {None, Abandoned}]
    BY DEF Unlock, Crash
<1>2. TypeOK'
    BY <1>1, BoundAssumption DEF Steps
<1>3. /\ pc'[p] = "idle" /\ temps'[p] = <<>> /\ pid'[p] = None /\ at'[p] = 1
      /\ \A q \in Proc \ {p} : /\ pc'[q] = pc[q] /\ job'[q] = job[q] /\ pid'[q] = pid[q]
                               /\ at'[q] = at[q] /\ temps'[q] = temps[q]
    BY <1>1
<1> HIDE DEF TypeOK, Ends
<1>4. JobFits'
    <2> SUFFICES ASSUME NEW q \in Proc PROVE JobFits!(q)'
        BY DEF JobFits
    <2> QED BY <1>3 DEF JobFits, Changing, Making
<1>5. TempsCounted'
    <2>1. \A q \in Proc \ {p} : Changes(q)' = Changes(q)
        BY <1>3 DEF Changes
    <2> QED BY <1>3, <2>1 DEF TempsCounted, Changing
<1> QED BY <1>2, <1>4, <1>5

LEMMA MovedTyped ==
    ASSUME TInv, NEW from \in Name, NEW to \in Name, file[from] # None
    PROVE  Moved(from, to) \in [Name -> File \cup {None}]
<1>1. file[from] \in File
    BY DEF TInv, TypeOK
<1>2. AccessAfter(to, from) \in Access
    BY <1>1 DEF TInv, TypeOK, AccessAfter, File
<1>3. [file[from] EXCEPT !.access = AccessAfter(to, from)] \in File
    BY <1>1, <1>2, FileTyped
<1> QED BY <1>3 DEF Moved, TInv, TypeOK

\* The temp file that is renamed next.
LEMMA NextTempTyped ==
    ASSUME TInv, NEW p \in Proc, pc[p] = "rename", NEW i \in at[p]..Changes(p)
    PROVE  temps[p][i] \in Temp /\ i \in 1..Len(temps[p])
<1>1. at[p] \in 1..Changes(p) /\ Changes(p) \in Nat /\ Len(temps[p]) = Changes(p)
    BY ChangeTyped DEF TInv, TempsCounted, Changing
<1> QED BY <1>1 DEF TInv, TypeOK

LEMMA StepTyped ==
    ASSUME FileInv, NEW p \in Proc, Step(p)
    PROVE  TInv'
<1>1. TInv /\ file \in [Name -> File \cup {None}] /\ at \in [Proc -> 1..MaxChanges + 1]
      /\ carried \in [Proc -> Access \cup {None}] /\ stuck \in [Proc -> BOOLEAN]
    BY DEF FileInv, TInv, TypeOK
<1>2. ASSUME NEW j \in Jobs, NEW i \in Pid, Start(p, j, i)
      PROVE  TInv'
    BY <1>1, <1>2, StartTyped
<1>3. CASE Unlock(p) \/ Crash(p)
    BY <1>1, <1>3, EndsTyped
<1> USE DEF Keep
<1>4. pc[p] \in Changing => /\ Changes(p) \in Nat /\ Changes(p) \in 1..MaxChanges
                            /\ at[p] \in 1..Changes(p)
                            /\ job[p].op \in {"replace", "commit"}
                            /\ job[p].changes[at[p]].text \in Version
                            /\ Target(p) \in Path
    BY <1>1, ChangeTyped
<1>5. CASE ReadMode(p)
    <2>1. Target(p) \in Name /\ file[Target(p)] # None => file[Target(p)].access \in Access
        BY <1>1, <1>4, <1>5 DEF ReadMode, Changing, Name, File
    <2>2. carried' \in [Proc -> Access \cup {None}]
        BY <1>1, <1>4, <1>5, <2>1 DEF ReadMode, Changing, Name
    <2>3. /\ pc[p] = "mode" /\ "temp" \in Steps /\ Goto(p, "temp") /\ at' = at
          /\ Len(temps[p]) = at[p] - 1
        BY <1>1, <1>5 DEF ReadMode, Steps, TInv, TempsCounted
    <2> QED BY <1>1, <1>4, <1>5, <2>2, <2>3, GotoTyped DEF ReadMode, Changing, Making
<1>6. ASSUME NEW d \in Draw, CreateTemp(p, d)
      PROVE  TInv'
    <2>1. /\ pc[p] = "temp" /\ TempName(p, d) \in Temp /\ Len(temps[p]) = at[p] - 1
          /\ pc' = [pc EXCEPT ![p] = "access"] /\ at' = at /\ job' = job
        BY <1>1, <1>6, TempNameTyped DEF CreateTemp, Goto
    <2>2. file' \in [Name -> File \cup {None}]
        <3>1. [text |-> job[p].changes[at[p]].text, part |-> "none", access |-> Default] \in File
            BY <1>4, <2>1, FileTyped DEF Changing
        <3> QED BY <1>1, <1>6, <3>1 DEF CreateTemp
    <2>3. /\ temps' \in [Proc -> Seq(Temp)] /\ Len(temps'[p]) = Len(temps[p]) + 1
          /\ \A q \in Proc \ {p} : temps'[q] = temps[q]
        BY <1>1, <1>6, <2>1 DEF CreateTemp, TInv, TypeOK
    <2>4. Len(temps'[p]) = at[p]
        BY <1>1, <1>4, <2>1, <2>3 DEF Changing
    <2>5. TypeOK'
        BY <1>1, <1>6, <2>1, <2>2, <2>3 DEF CreateTemp, TInv, TypeOK, Steps
    <2>6. pc'[p] = "access" /\ \A q \in Proc \ {p} : pc'[q] = pc[q]
        BY <1>1, <2>1 DEF TInv, TypeOK
    <2>7. JobFits'
        BY <1>1, <1>4, <1>6, <2>1, <2>3, <2>6 DEF CreateTemp, TInv, JobFits, Changing, Making
    <2>8. TempsCounted'
        BY <1>1, <1>4, <2>1, <2>3, <2>4, <2>6 DEF TInv, TempsCounted, Changing, Changes
    <2> QED BY <2>5, <2>7, <2>8 DEF TInv
<1>7. ASSUME pc[p] \in {"access", "write", "some"}
      PROVE  /\ LastTemp(p) \in Name /\ file[LastTemp(p)] \in File
             /\ Len(temps[p]) = at[p] /\ pc[p] \in Changing
    <2>1. LastTemp(p) \in Name /\ Len(temps[p]) = at[p] /\ pc[p] \in Changing
        BY <1>1, <1>7, LastTempTyped DEF TInv, TempsCounted, Changing
    <2>2. Written(p, at[p], "none") \/ Written(p, at[p], "some")
        BY <1>7 DEF FileInv, Prepared
    <2>3. file[LastTemp(p)] # None
        BY <2>1, <2>2 DEF Written, LastTemp
    <2> QED BY <1>1, <2>1, <2>3
<1>8. CASE SetAccess(p)
    <2>1. pc[p] = "access" /\ LastTemp(p) \in Name /\ file[LastTemp(p)] \in File
          /\ Len(temps[p]) = at[p] /\ pc[p] \in Changing /\ "write" \in Steps
          /\ Goto(p, "write")
        BY <1>7, <1>8 DEF SetAccess, Steps
    <2>2. carried[p] # None => [file[LastTemp(p)] EXCEPT !.access = carried[p]] \in File
        BY <1>1, <2>1, FileTyped
    <2>3. file' \in [Name -> File \cup {None}]
        BY <1>1, <1>8, <2>1, <2>2 DEF SetAccess
    <2> QED BY <1>1, <1>4, <1>8, <2>1, <2>3, GotoTyped DEF SetAccess, Changing, Making
<1>9. CASE WriteSome(p)
    <2>1. pc[p] = "write" /\ LastTemp(p) \in Name /\ file[LastTemp(p)] \in File
          /\ Len(temps[p]) = at[p] /\ pc[p] \in Changing /\ "some" \in Steps
          /\ Goto(p, "some")
        BY <1>7, <1>9 DEF WriteSome, Steps
    <2>2. [file[LastTemp(p)] EXCEPT !.part = "some"] \in File
        BY <2>1, FileTyped
    <2>3. file' \in [Name -> File \cup {None}]
        BY <1>1, <1>9, <2>1, <2>2 DEF WriteSome
    <2> QED BY <1>1, <1>4, <1>9, <2>1, <2>3, GotoTyped DEF WriteSome, Changing, Making
<1>10. CASE WriteRest(p)
    <2>1. pc[p] = "some" /\ LastTemp(p) \in Name /\ file[LastTemp(p)] \in File
          /\ Len(temps[p]) = at[p] /\ pc[p] \in Changing /\ {"mode", "rename"} \subseteq Steps
        BY <1>7, <1>10 DEF WriteRest, Steps
    <2>2. [file[LastTemp(p)] EXCEPT !.part = "all"] \in File
        BY <2>1, FileTyped
    <2>3. file' \in [Name -> File \cup {None}]
        BY <1>1, <1>10, <2>1, <2>2 DEF WriteRest
    <2>4. CASE at[p] < Changes(p)
        <3>1. at[p] + 1 \in 1..Changes(p) /\ at[p] + 1 \in 1..MaxChanges + 1
            BY <1>4, <2>1, <2>4, BoundAssumption
        <3>2. /\ at' = [at EXCEPT ![p] = at[p] + 1] /\ Goto(p, "mode")
              /\ UNCHANGED <<owner, job, pid, temps, windows, runs, carried, stuck>>
            BY <1>10, <2>4 DEF WriteRest, Changes
        <3>3. /\ at'[p] = at[p] + 1 /\ \A q \in Proc \ {p} : at'[q] = at[q]
              /\ at' \in [Proc -> 1..MaxChanges + 1] /\ Len(temps[p]) = at'[p] - 1
            BY <1>1, <1>4, <2>1, <3>1, <3>2
        <3> QED BY <1>1, <1>4, <2>1, <2>3, <3>1, <3>2, <3>3, GotoTyped DEF Changing, Making
    <2>5. CASE ~(at[p] < Changes(p))
        <3>1. at[p] = Changes(p) /\ 1 \in 1..Changes(p) /\ 1 \in 1..MaxChanges + 1
            BY <1>4, <2>1, <2>5, BoundAssumption
        <3>2. /\ at' = [at EXCEPT ![p] = 1] /\ Goto(p, "rename")
              /\ UNCHANGED <<owner, job, pid, temps, windows, runs, carried, stuck>>
            BY <1>10, <2>5 DEF WriteRest, Changes
        <3>3. /\ at'[p] = 1 /\ \A q \in Proc \ {p} : at'[q] = at[q]
              /\ at' \in [Proc -> 1..MaxChanges + 1]
            BY <1>1, <3>1, <3>2
        <3> QED BY <1>1, <1>4, <2>1, <2>3, <3>1, <3>2, <3>3, GotoTyped DEF Changing, Making
    <2> QED BY <2>4, <2>5
<1>11. CASE Rename(p)
    <2>1. /\ pc[p] = "rename" /\ pc[p] \in Changing /\ at[p] \in at[p]..Changes(p)
          /\ Len(temps[p]) = Changes(p)
        BY <1>1, <1>4, <1>11 DEF Rename, Changing, TInv, TempsCounted
    <2>2. temps[p][at[p]] \in Name /\ file[temps[p][at[p]]] # None
        BY <1>1, <2>1, NextTempTyped DEF FileInv, Prepared, Written, Name
    <2>3. file' \in [Name -> File \cup {None}]
        BY <1>1, <1>4, <1>11, <2>1, <2>2, MovedTyped DEF Rename, Name
    <2>4. /\ at'[p] = at[p] + 1 /\ at' \in [Proc -> 1..MaxChanges + 1]
          /\ \A q \in Proc \ {p} : at'[q] = at[q]
        BY <1>1, <1>4, <1>11, <2>1, BoundAssumption DEF Rename
    <2>5. /\ UNCHANGED <<owner, job, pid, temps, windows, runs, carried, stuck>>
          /\ pc[p] # "idle"
        BY <1>11 DEF Rename
    <2>6. CASE at[p] < Changes(p)
        <3>1. Goto(p, "rename") /\ "rename" \in Steps
            BY <1>11, <2>6 DEF Rename, Changes, Steps
        <3>2. at'[p] \in 1..Changes(p)
            BY <1>4, <2>1, <2>4, <2>6
        <3> QED BY <1>1, <1>4, <2>1, <2>3, <2>4, <2>5, <3>1, <3>2, GotoTyped
                DEF Changing, Making
    <2>7. CASE ~(at[p] < Changes(p)) /\ job[p].op = "commit"
        <3>1. Goto(p, "move") /\ "move" \in Steps
            BY <1>11, <2>7 DEF Rename, Changes, Steps
        <3> QED BY <1>1, <1>4, <2>1, <2>3, <2>4, <2>5, <2>7, <3>1, GotoTyped DEF Changing, Making
    <2>8. CASE ~(at[p] < Changes(p)) /\ job[p].op # "commit"
        <3>1. Goto(p, "ok") /\ "ok" \in Steps
            BY <1>11, <2>8 DEF Rename, Changes, Steps
        <3> QED BY <1>1, <1>4, <2>1, <2>3, <2>4, <2>5, <3>1, GotoTyped DEF Changing, Making
    <2> QED BY <2>6, <2>7, <2>8
<1>12. CASE MoveDocument(p)
    <2>1. job[p] \in Jobs /\ job[p].op = "commit" /\ file[job[p].from] # None /\ pc[p] = "move"
        BY <1>12 DEF MoveDocument, FileInv, Documents, TInv, JobFits
    <2>2. file' \in [Name -> File \cup {None}]
        BY <1>1, <1>12, <2>1, JobFacts, MovedTyped DEF MoveDocument, Name
    <2>3. "ok" \in Steps /\ Goto(p, "ok")
        BY <1>12 DEF MoveDocument, Steps
    <2> QED BY <1>1, <1>12, <2>1, <2>2, <2>3, GotoTyped DEF MoveDocument, Changing, Making
<1>13. ASSUME pc[p] \in Making
       PROVE  job[p] \in Jobs /\ job[p].op = "create" /\ job[p].path \in Name
              /\ job[p].text \in Version
    <2>1. job[p] \in Jobs /\ job[p].op = "create"
        BY <1>1, <1>13 DEF TInv, JobFits, Making
    <2> QED BY <2>1, JobFacts DEF Name
<1>14. CASE Make(p)
    <2>1. pc[p] \in Making /\ Goto(p, "fill") /\ "fill" \in Steps
        BY <1>14 DEF Make, Making, Steps
    <2>2. [text |-> job[p].text, part |-> "none", access |-> Default] \in File
        BY <1>13, <2>1, FileTyped
    <2>3. file' \in [Name -> File \cup {None}]
        BY <1>1, <1>13, <1>14, <2>1, <2>2 DEF Make
    <2> QED BY <1>1, <1>13, <1>14, <2>1, <2>3, GotoTyped DEF Make, Changing, Making
<1>15. CASE Fill(p)
    <2>1. PICK step \in {"fillrest", "ok"} : Goto(p, step)
        BY <1>15 DEF Fill
    <2>2. pc[p] \in Making /\ file[job[p].path] # None /\ step \in Steps
        BY <1>15 DEF Fill, Making, Steps, FileInv, Documents
    <2>3. file[job[p].path] \in File
        BY <1>1, <1>13, <2>2
    <2>4. \A s \in {"some", "all"} : [file[job[p].path] EXCEPT !.part = s] \in File
        BY <2>3, FileTyped
    <2>5. file' \in [Name -> File \cup {None}]
        BY <1>1, <1>13, <1>15, <2>2, <2>4 DEF Fill
    <2> QED BY <1>1, <1>13, <1>15, <2>1, <2>2, <2>5, GotoTyped DEF Fill, Changing, Making
<1>16. CASE Fail(p)
    <2>1. PICK step \in {"tidy", "undo", "failed"} :
              /\ Goto(p, step)
              /\ step = "undo" => pc[p] \in {"fill", "fillrest"}
              /\ step = "tidy" => \/ pc[p] \in {"access", "write", "some"}
                                  \/ pc[p] = "rename" /\ job[p].op = "replace"
        BY <1>16 DEF Fail, AfterFailure
    <2>2. step = "tidy" => Len(temps[p]) \in 1..Changes(p) /\ job[p].op \in {"replace", "commit"}
        BY <1>1, <1>4, <2>1 DEF Changing, TInv, TempsCounted
    <2>3. step = "undo" => job[p].op = "create"
        BY <1>13, <2>1 DEF Making
    <2>4. pc[p] # "idle" /\ step \in Steps \ {"idle"}
        BY <1>16 DEF Fail, Steps
    <2> QED BY <1>1, <1>16, <2>1, <2>2, <2>3, <2>4, GotoTyped DEF Fail, Changing, Making
<1>17. CASE Remove(p)
    <2>1. file' \in [Name -> File \cup {None}]
        BY <1>1, <1>17 DEF Remove
    <2>2. pc[p] # "idle" /\ "failed" \in Steps /\ Goto(p, "failed")
        BY <1>17 DEF Remove, Steps
    <2> QED BY <1>1, <1>17, <2>1, <2>2, GotoTyped DEF Remove, Changing, Making
<1>18. CASE RemoveFails(p)
    <2>1. stuck' \in [Proc -> BOOLEAN]
        BY <1>1, <1>18 DEF RemoveFails
    <2>2. pc[p] # "idle" /\ "failed" \in Steps /\ Goto(p, "failed")
        BY <1>18 DEF RemoveFails, Steps
    <2> QED BY <1>1, <1>18, <2>1, <2>2, GotoTyped DEF RemoveFails, Changing, Making
<1> QED BY <1>2, <1>3, <1>5, <1>6, <1>8, <1>9, <1>10, <1>11, <1>12, <1>14, <1>15,
           <1>16, <1>17, <1>18 DEF Step

-----------------------------------------------------------------------------
(* Each process has files of its own: no step of another touches them.     *)

Owns(p, n) ==
    /\ pc[p] # "idle"
    /\ (n \in Temp /\ n[1] = pid[p]) \/ n \in Touched(job[p])

LEMMA OwnFiles ==
    ASSUME FileInv, NEW p \in Proc, pc[p] # "idle"
    PROVE  /\ \A i \in 1..Len(temps[p]) : temps[p][i] \in Temp /\ Owns(p, temps[p][i])
           /\ \A n \in Touched(job[p]) : n \in Path /\ Owns(p, n)
           /\ pc[p] \in {"access", "write", "some", "tidy"} => Owns(p, LastTemp(p))
           /\ pc[p] \in Changing => Owns(p, Target(p))
           /\ pc[p] = "temp" => \A d \in Draw : Owns(p, TempName(p, d))
<1>1. TInv /\ NamesApart /\ job[p] \in Jobs /\ temps[p] \in Seq(Temp)
    BY DEF FileInv, TInv, TypeOK, JobFits
<1>2. \A i \in 1..Len(temps[p]) : temps[p][i] \in Temp /\ Owns(p, temps[p][i])
    BY <1>1 DEF NamesApart, Owns
<1>3. \A n \in Touched(job[p]) : n \in Path /\ Owns(p, n)
    BY <1>1, TouchedFacts DEF Owns
<1>4. ASSUME pc[p] \in {"access", "write", "some", "tidy"} PROVE Owns(p, LastTemp(p))
    BY <1>1, <1>2, <1>4, LastTempTyped DEF LastTemp
<1>5. ASSUME pc[p] \in Changing PROVE Owns(p, Target(p))
    BY <1>1, <1>3, <1>5, ChangeTyped
<1>6. ASSUME pc[p] = "temp", NEW d \in Draw PROVE Owns(p, TempName(p, d))
    BY <1>1, <1>6, TempNameTyped DEF Owns
<1> QED BY <1>2, <1>3, <1>4, <1>5, <1>6

LEMMA FilesApart ==
    ASSUME FileInv, NEW p \in Proc, NEW q \in Proc, p # q, NEW n, Owns(p, n)
    PROVE  ~Owns(q, n)
<1> SUFFICES ASSUME Owns(q, n) PROVE FALSE
    OBVIOUS
<1>1. /\ pc[p] # "idle" /\ pc[q] # "idle" /\ pid[p] \in Pid /\ None \notin Pid
      /\ job[p] \in Jobs /\ job[q] \in Jobs
    BY NamesAssumption DEF Owns, FileInv, TInv, JobFits
<1>2. CASE n \in Temp
    <2>1. n \notin Touched(job[p]) /\ n \notin Touched(job[q])
        BY <1>1, <1>2, TouchedFacts, NamesAssumption
    <2> QED BY <1>1, <2>1 DEF Owns, FileInv, NamesApart
<1>3. CASE n \notin Temp
    <2>1. n \in Touched(job[p]) /\ n \in Touched(job[q])
        BY <1>3 DEF Owns
    <2> QED BY <1>1, <2>1 DEF FileInv, Locked
<1> QED BY <1>2, <1>3

LEMMA StepsOnOwn ==
    ASSUME FileInv, NEW p \in Proc, Step(p), NEW n \in Name, ~Owns(p, n)
    PROVE  file'[n] = file[n]
<1>1. TInv /\ file \in [Name -> File \cup {None}]
    BY DEF FileInv, TInv, TypeOK
<1>2. pc[p] \in Changing => at[p] \in at[p]..Changes(p)
    BY <1>1, ChangeTyped
<1>3. pc[p] = "rename" => Owns(p, temps[p][at[p]]) /\ Owns(p, Target(p))
    BY <1>1, <1>2, OwnFiles, NextTempTyped DEF Changing
<1>4. ASSUME NEW from, NEW to, Owns(p, from), Owns(p, to), file' = Moved(from, to)
      PROVE  file'[n] = file[n]
    BY <1>1, <1>4 DEF Moved
<1>5. CASE Rename(p)
    BY <1>3, <1>4, <1>5 DEF Rename
<1>6. CASE MoveDocument(p)
    <2>1. pc[p] = "move" /\ job[p] \in Jobs /\ job[p].op = "commit"
        BY <1>1, <1>6 DEF MoveDocument, TInv, JobFits
    <2>2. Owns(p, job[p].from) /\ Owns(p, job[p].to)
        BY <2>1, OwnFiles, TouchedFacts
    <2> QED BY <1>4, <1>6, <2>2 DEF MoveDocument
<1>7. ASSUME pc[p] \in Making PROVE Owns(p, job[p].path)
    <2>1. pc[p] # "idle" /\ job[p] \in Jobs /\ job[p].op = "create"
        BY <1>1, <1>7 DEF TInv, JobFits, Making
    <2> QED BY <2>1, OwnFiles, TouchedFacts
<1>8. CASE Make(p) \/ Fill(p)
    BY <1>1, <1>7, <1>8 DEF Make, Fill, Making
<1>9. CASE Remove(p)
    BY <1>1, <1>7, <1>9, OwnFiles DEF Remove, Making
<1>10. CASE SetAccess(p) \/ WriteSome(p) \/ WriteRest(p)
    BY <1>1, <1>10, OwnFiles DEF SetAccess, WriteSome, WriteRest
<1>11. ASSUME NEW d \in Draw, CreateTemp(p, d) PROVE file'[n] = file[n]
    BY <1>1, <1>11, OwnFiles DEF CreateTemp
<1>12. ASSUME \/ \E j \in Jobs, i \in Pid : Start(p, j, i)
              \/ ReadMode(p) \/ Fail(p) \/ RemoveFails(p) \/ Unlock(p) \/ Crash(p)
       PROVE  file'[n] = file[n]
    BY <1>12 DEF Start, ReadMode, Fail, RemoveFails, Unlock, Crash, Ends
<1> QED BY <1>5, <1>6, <1>8, <1>9, <1>10, <1>11, <1>12 DEF Step

\* A step of p leaves where another process is, what it knows, and its files.
LEMMA OthersStay ==
    ASSUME FileInv, NEW p \in Proc, Step(p), NEW q \in Proc, p # q
    PROVE  /\ pc'[q] = pc[q] /\ job'[q] = job[q] /\ pid'[q] = pid[q] /\ at'[q] = at[q]
           /\ carried'[q] = carried[q] /\ temps'[q] = temps[q] /\ stuck'[q] = stuck[q]
           /\ windows' = windows
           /\ pc[q] # "idle" =>
                /\ \A i \in 1..Len(temps[q]) : file'[temps[q][i]] = file[temps[q][i]]
                /\ \A n \in Touched(job[q]) : file'[n] = file[n] /\ n \in Path
<1>1. TypeOK
    BY DEF FileInv, TInv
<1>2. /\ pc'[q] = pc[q] /\ job'[q] = job[q] /\ pid'[q] = pid[q] /\ at'[q] = at[q]
      /\ carried'[q] = carried[q] /\ temps'[q] = temps[q] /\ stuck'[q] = stuck[q]
      /\ windows' = windows
    <2> USE <1>1 DEF TypeOK, Goto, Keep
    <2>1. ASSUME NEW j \in Jobs, NEW i \in Pid, Start(p, j, i) PROVE <1>2
        BY <2>1 DEF Start
    <2>2. ASSUME NEW d \in Draw, CreateTemp(p, d) PROVE <1>2
        BY <2>2 DEF CreateTemp
    <2>3. CASE ReadMode(p) \/ SetAccess(p) \/ WriteSome(p) \/ WriteRest(p)
        BY <2>3 DEF ReadMode, SetAccess, WriteSome, WriteRest
    <2>4. CASE Rename(p) \/ MoveDocument(p) \/ Make(p) \/ Fill(p)
        BY <2>4 DEF Rename, MoveDocument, Make, Fill
    <2>5. CASE Fail(p) \/ Remove(p) \/ RemoveFails(p)
        BY <2>5 DEF Fail, Remove, RemoveFails
    <2>6. CASE Unlock(p) \/ Crash(p)
        BY <2>6 DEF Unlock, Crash, Ends
    <2> QED BY <2>1, <2>2, <2>3, <2>4, <2>5, <2>6 DEF Step
<1>3. ASSUME pc[q] # "idle", NEW i \in 1..Len(temps[q])
      PROVE  file'[temps[q][i]] = file[temps[q][i]]
    <2>1. temps[q][i] \in Name /\ Owns(q, temps[q][i])
        BY <1>3, OwnFiles DEF Name
    <2> QED BY <2>1, FilesApart, StepsOnOwn
<1>4. ASSUME pc[q] # "idle", NEW n \in Touched(job[q])
      PROVE  file'[n] = file[n] /\ n \in Path
    <2>1. n \in Name /\ n \in Path /\ Owns(q, n)
        BY <1>4, OwnFiles DEF Name
    <2> QED BY <2>1, FilesApart, StepsOnOwn
<1> QED BY <1>2, <1>3, <1>4

\* What is known of the files of another process stays true.
LEMMA OthersKeep ==
    ASSUME FileInv, NEW p \in Proc, Step(p), NEW q \in Proc, p # q
    PROVE  Prepared(q)' /\ Cleared(q)' /\ Documents(q)'
<1>1. /\ pc'[q] = pc[q] /\ job'[q] = job[q] /\ at'[q] = at[q]
      /\ temps'[q] = temps[q] /\ stuck'[q] = stuck[q]
      /\ pc[q] # "idle" =>
            /\ \A i \in 1..Len(temps[q]) : file'[temps[q][i]] = file[temps[q][i]]
            /\ \A n \in Touched(job[q]) : file'[n] = file[n]
    BY OthersStay
<1>2. TInv /\ Prepared(q) /\ Cleared(q) /\ Documents(q)
    BY DEF FileInv
<1>3. Changes(q)' = Changes(q)
    BY <1>1 DEF Changes
<1>4. Len(temps[q]) \in Nat /\ at[q] \in Nat
    BY <1>2, BoundAssumption DEF TInv, TypeOK
<1>5. ASSUME NEW i \in 1..Len(temps[q]), NEW part, pc[q] # "idle", Written(q, i, part)
      PROVE  Written(q, i, part)'
    BY <1>1, <1>5 DEF Written
<1>6. Prepared(q)'
    <2>1. CASE pc[q] \in {"mode", "temp"}
        <3>1. Len(temps[q]) = at[q] - 1
            BY <1>2, <2>1 DEF TInv, TempsCounted
        <3> QED BY <1>1, <1>2, <1>5, <2>1, <3>1 DEF Prepared
    <2>2. CASE pc[q] \in {"access", "write", "some"}
        <3>1. Len(temps[q]) = at[q] /\ pc[q] \in Changing
            BY <1>2, <2>2 DEF TInv, TempsCounted, Changing
        <3>2. at[q] \in 1..Len(temps[q]) /\ \A i \in 1..at[q] - 1 : i \in 1..Len(temps[q])
            BY <1>2, <1>4, <3>1, ChangeTyped
        <3> QED BY <1>1, <1>2, <1>5, <2>2, <3>2 DEF Prepared
    <2>3. CASE pc[q] = "rename"
        <3>1. \A i \in at[q]..Changes(q) : i \in 1..Len(temps[q])
            BY <1>2, <2>3, NextTempTyped
        <3> QED BY <1>1, <1>2, <1>3, <1>5, <2>3, <3>1 DEF Prepared
    <2> QED BY <1>1, <2>1, <2>2, <2>3 DEF Prepared
<1>7. Cleared(q)'
    <2>1. ASSUME pc[q] = "rename", NEW i \in 1..at[q] - 1 PROVE i \in 1..Len(temps[q])
        <3>1. Len(temps[q]) = Changes(q) /\ at[q] \in 1..Changes(q) /\ Changes(q) \in Nat
            BY <1>2, <2>1, ChangeTyped DEF TInv, TempsCounted, Changing
        <3> QED BY <1>4, <3>1
    <2> QED BY <1>1, <1>2, <2>1 DEF Cleared
<1>8. Documents(q)'
    <2>1. pc[q] # "idle" => job[q] \in Jobs
        BY <1>2 DEF TInv, JobFits
    <2>2. pc[q] \in Making => job[q].op = "create"
        BY <1>2 DEF TInv, JobFits
    <2> QED BY <1>1, <1>2, <2>1, <2>2, TouchedFacts DEF Documents, Changing, Making
<1> QED BY <1>6, <1>7, <1>8

-----------------------------------------------------------------------------
(* Names and locks.                                                        *)

LEMMA StepNames ==
    ASSUME FileInv, NEW p \in Proc, Step(p)
    PROVE  NamesApart'
<1>1. TypeOK /\ TInv /\ NamesApart
    BY DEF FileInv, TInv
<1> USE <1>1 DEF TypeOK
<1>2. ASSUME NEW j \in Jobs, NEW i \in Pid, Start(p, j, i) PROVE NamesApart'
    <2>1. temps' = temps /\ temps[p] = <<>> /\ pid' = [pid EXCEPT ![p] = i]
          /\ \A q \in Proc : pid[q] # i
        BY <1>2 DEF Start, TInv, JobFits
    <2> QED BY <2>1 DEF NamesApart
<1>3. ASSUME NEW d \in Draw, CreateTemp(p, d) PROVE NamesApart'
    <2>1. /\ pid' = pid /\ temps' = [temps EXCEPT ![p] = Append(@, TempName(p, d))]
          /\ TempName(p, d)[1] = pid[p] /\ TempName(p, d)[3] = Len(temps[p])
          /\ temps[p] \in Seq(Temp) /\ TempName(p, d) \in Temp
        BY <1>3, TempNameTyped DEF CreateTemp, Keep
    <2>2. Len(temps[p]) \in Nat /\ Len(temps'[p]) = Len(temps[p]) + 1
        BY <2>1
    <2>3. ASSUME NEW k \in 1..Len(temps'[p])
          PROVE  temps'[p][k][1] = pid'[p] /\ temps'[p][k][3] = k - 1
        <3>1. CASE k = Len(temps[p]) + 1
            BY <2>1, <2>2, <3>1
        <3>2. CASE k # Len(temps[p]) + 1
            <4>1. k \in 1..Len(temps[p]) /\ temps'[p][k] = temps[p][k]
                BY <2>1, <2>2, <3>2
            <4> QED BY <2>1, <4>1 DEF NamesApart
        <3> QED BY <3>1, <3>2
    <2>4. \A q \in Proc : q # p => temps'[q] = temps[q]
        BY <2>1
    <2> QED BY <2>1, <2>3, <2>4 DEF NamesApart
<1>4. CASE Unlock(p) \/ Crash(p)
    <2>1. /\ \A q \in Proc : q # p => temps'[q] = temps[q] /\ pid'[q] = pid[q]
          /\ temps'[p] = <<>> /\ pid'[p] = None
        BY <1>4 DEF Unlock, Crash, Ends
    <2>2. \A i \in 1..Len(temps'[p]) : FALSE
        BY <2>1
    <2>3. ASSUME NEW q \in Proc, NEW r \in Proc, pid'[q] # None, pid'[q] = pid'[r] PROVE q = r
        <3>1. q # p /\ r # p
            BY <2>1, <2>3
        <3>2. pid[q] # None /\ pid[q] = pid[r]
            BY <2>1, <2>3, <3>1
        <3> QED BY <3>2 DEF NamesApart
    <2>4. ASSUME NEW q \in Proc, NEW i \in 1..Len(temps'[q])
          PROVE  temps'[q][i][1] = pid'[q] /\ temps'[q][i][3] = i - 1
        <3>1. q # p
            BY <2>2, <2>4
        <3> QED BY <2>1, <2>4, <3>1 DEF NamesApart
    <2> QED BY <2>3, <2>4 DEF NamesApart
<1>5. ASSUME UNCHANGED <<pid, temps>> PROVE NamesApart'
    BY <1>5 DEF NamesApart
<1>6. ASSUME \/ ReadMode(p) \/ SetAccess(p) \/ WriteSome(p) \/ WriteRest(p) \/ Rename(p)
             \/ MoveDocument(p) \/ Make(p) \/ Fill(p) \/ Fail(p) \/ Remove(p) \/ RemoveFails(p)
      PROVE  UNCHANGED <<pid, temps>>
    BY <1>6 DEF Keep, ReadMode, SetAccess, WriteSome, WriteRest,
        Rename, MoveDocument, Make, Fill, Fail, Remove, RemoveFails
<1> QED BY <1>2, <1>3, <1>4, <1>5, <1>6 DEF Step

LEMMA StepLocked ==
    ASSUME FileInv, NEW p \in Proc, Step(p)
    PROVE  Locked'
<1>1. TypeOK /\ TInv /\ Locked
    BY DEF FileInv, TInv
<1>2. ASSUME NEW q \in Proc, pc[q] # "idle" PROVE Touched(job[q]) \subseteq Path /\ job[q] \in Jobs
    BY <1>1, <1>2, TouchedFacts DEF TInv, JobFits
<1> USE <1>1 DEF TypeOK
<1>3. ASSUME NEW j \in Jobs, NEW i \in Pid, Start(p, j, i) PROVE Locked'
    <2>1. /\ job' = [job EXCEPT ![p] = j] /\ \A q \in Proc : q # p => pc'[q] = pc[q]
          /\ owner' = [l \in Lock |-> IF \E x \in Touched(j) : LockOf[x] = l THEN p ELSE owner[l]]
          /\ \A x \in Touched(j) : owner[LockOf[x]] = None
        BY <1>3 DEF Start, Goto
    <2>2. \A x \in Touched(j) : x \in Path /\ LockOf[x] \in Lock
        BY TouchedFacts DEF Lock
    <2>3. \A x \in Touched(job'[p]) : owner'[LockOf[x]] = p
        BY <2>1, <2>2
    <2>4. ASSUME NEW q \in Proc, q # p, pc'[q] # "idle", NEW x \in Touched(job'[q])
          PROVE  owner'[LockOf[x]] = q
        <3>1. job'[q] = job[q] /\ pc[q] # "idle" /\ x \in Touched(job[q])
            BY <2>1, <2>4
        <3>2. owner[LockOf[x]] = q /\ LockOf[x] \in Lock /\ q # None
            BY <1>2, <3>1, NamesAssumption DEF Locked, Lock
        <3> QED BY <2>1, <3>2
    <2> QED BY <2>3, <2>4 DEF Locked
<1>4. CASE Unlock(p) \/ Crash(p)
    <2>1. /\ \A q \in Proc : q # p => pc'[q] = pc[q] /\ job'[q] = job[q]
          /\ pc'[p] = "idle"
          /\ \A l \in Lock : owner[l] # p => owner'[l] = owner[l]
        BY <1>4 DEF Unlock, Crash, Ends
    <2>2. ASSUME NEW q \in Proc, pc'[q] # "idle", NEW x \in Touched(job'[q])
          PROVE  owner'[LockOf[x]] = q
        <3>1. q # p /\ job'[q] = job[q] /\ pc[q] # "idle" /\ x \in Touched(job[q])
            BY <2>1, <2>2
        <3>2. owner[LockOf[x]] = q /\ LockOf[x] \in Lock
            BY <1>2, <3>1 DEF Locked, Lock
        <3> QED BY <2>1, <3>1, <3>2
    <2> QED BY <2>2 DEF Locked
<1>5. ASSUME UNCHANGED <<owner, job>>, pc[p] # "idle", NEW step, Goto(p, step)
      PROVE  Locked'
    BY <1>5 DEF Locked, Goto
<1>6. CASE WriteRest(p)
    BY <1>5, <1>6 DEF WriteRest, Keep
<1> QED BY <1>3, <1>4, <1>5, <1>6 DEF Step, Keep, ReadMode, CreateTemp, SetAccess, WriteSome,
        Rename, MoveDocument, Make, Fill, Fail, Remove, RemoveFails

-----------------------------------------------------------------------------
(* The files of the process that takes the step.                           *)

LEMMA TempsDistinct ==
    ASSUME FileInv, NEW p \in Proc
    PROVE  /\ \A i, k \in 1..Len(temps[p]) : i # k => temps[p][i] # temps[p][k]
           /\ \A i \in 1..Len(temps[p]) : temps[p][i] \in Name /\ temps[p][i] \notin Path
           /\ pc[p] = "temp" => \A d \in Draw :
                 /\ TempName(p, d) \in Name /\ TempName(p, d) \notin Path
                 /\ \A i \in 1..Len(temps[p]) : temps[p][i] # TempName(p, d)
<1>1. TInv /\ NamesApart /\ temps[p] \in Seq(Temp) /\ Len(temps[p]) \in Nat
    BY DEF FileInv, TInv, TypeOK
<1>2. \A i \in 1..Len(temps[p]) : temps[p][i] \in Temp /\ temps[p][i][3] = i - 1
    BY <1>1 DEF NamesApart
<1>3. \A i, k \in 1..Len(temps[p]) : i # k => temps[p][i] # temps[p][k]
    <2> SUFFICES ASSUME NEW i \in 1..Len(temps[p]), NEW k \in 1..Len(temps[p]), i # k
                 PROVE  temps[p][i] # temps[p][k]
        OBVIOUS
    <2>1. i - 1 # k - 1
        BY <1>1
    <2> QED BY <1>2, <2>1
<1>4. ASSUME pc[p] = "temp", NEW d \in Draw
      PROVE  /\ TempName(p, d) \in Name /\ TempName(p, d) \notin Path
             /\ \A i \in 1..Len(temps[p]) : temps[p][i] # TempName(p, d)
    <2>1. TempName(p, d) \in Temp /\ TempName(p, d)[3] = Len(temps[p])
        BY <1>1, <1>4, TempNameTyped
    <2>2. \A i \in 1..Len(temps[p]) : i - 1 # Len(temps[p])
        BY <1>1
    <2> QED BY <1>2, <2>1, <2>2, NamesAssumption DEF Name
<1> QED BY <1>2, <1>3, <1>4, NamesAssumption DEF Name

\* The documents of a commit are in the folder, and none of its changes is of
\* the destination.
LEMMA DocumentsTyped ==
    ASSUME FileInv, NEW p \in Proc, pc[p] \in Changing \cup {"move"}, job[p].op = "commit"
    PROVE  /\ job[p].from \in Path /\ job[p].to \in Path /\ job[p].from # job[p].to
           /\ pc[p] \in Changing => Target(p) # job[p].to
           /\ file[job[p].from] # None /\ file[job[p].to] = None
<1>1. TInv /\ pc[p] # "idle" /\ job[p] \in Jobs
    BY DEF FileInv, TInv, JobFits, Changing
<1>2. pc[p] \in Changing => at[p] \in 1..Changes(p)
    BY <1>1, ChangeTyped
<1>3. file[job[p].from] # None /\ file[job[p].to] = None
    BY DEF FileInv, Documents
<1> QED BY <1>1, <1>2, <1>3, JobFacts DEF Target, Changes

InHand(p) == Prepared(p) /\ Cleared(p) /\ Documents(p)

LEMMA OwnStart ==
    ASSUME FileInv, NEW p \in Proc, NEW j \in Jobs, NEW i \in Pid, Start(p, j, i)
    PROVE  InHand(p)'
<1>1. TypeOK /\ TInv
    BY DEF FileInv, TInv
<1>2. /\ job'[p] = j /\ file' = file /\ at'[p] = 1 /\ temps'[p] = <<>>
      /\ pc'[p] = CASE j.op = "create" -> "make"
                    [] j.op = "commit" /\ j.changes = <<>> -> "move"
                    [] OTHER -> "mode"
      /\ j.op = "commit" => file[j.from] # None /\ file[j.to] = None
    BY <1>1 DEF Start, Goto, TypeOK, TInv, JobFits
<1>3. \A k \in 1..Len(temps'[p]) : FALSE
    BY <1>2
<1>4. \A k \in 1..at'[p] - 1 : FALSE
    BY <1>2
<1>5. pc'[p] \in {"make", "move", "mode"}
    BY <1>2
<1>6. Prepared(p)' /\ Cleared(p)'
    BY <1>3, <1>4, <1>5 DEF Prepared, Cleared
<1>7. Documents(p)'
    BY <1>2, <1>5 DEF Documents
<1> QED BY <1>6, <1>7 DEF InHand

\* A step that changes no file and neither its job nor its temp files.
LEMMA OwnSame ==
    ASSUME FileInv, NEW p \in Proc, ReadMode(p) \/ Fail(p) \/ RemoveFails(p)
    PROVE  InHand(p)'
<1>1. TypeOK /\ TInv /\ Prepared(p) /\ Cleared(p) /\ Documents(p)
    BY DEF FileInv, TInv
<1>2. UNCHANGED <<file, job, at, temps>>
    BY DEF ReadMode, Fail, RemoveFails, Keep
<1>3. CASE ReadMode(p)
    <2>1. pc[p] = "mode" /\ pc'[p] = "temp"
        BY <1>1, <1>3 DEF ReadMode, Goto, TypeOK
    <2>2. ASSUME NEW k, NEW part, Written(p, k, part) PROVE Written(p, k, part)'
        BY <1>2, <2>2 DEF Written
    <2> QED BY <1>1, <1>2, <2>1, <2>2 DEF InHand, Prepared, Cleared, Documents, Changing
<1>4. CASE RemoveFails(p)
    <2>1. pc'[p] = "failed" /\ stuck'[p] = TRUE
        BY <1>1, <1>4 DEF RemoveFails, Goto, TypeOK
    <2> QED BY <2>1 DEF InHand, Prepared, Cleared, Documents, Changing
<1>5. CASE Fail(p)
    <2>1. /\ pc'[p] \in {"tidy", "undo", "failed"}
          /\ pc'[p] = "undo" => pc[p] \in {"fill", "fillrest"}
          /\ pc'[p] = "failed" => \/ pc[p] \in {"mode", "temp", "move", "make"}
                                  \/ pc[p] = "rename" /\ job[p].op # "replace"
        BY <1>1, <1>5 DEF Fail, AfterFailure, Goto, TypeOK
    <2>2. pc'[p] = "failed" /\ job[p].op # "commit" => temps[p] = <<>>
        <3> SUFFICES ASSUME pc'[p] = "failed", job[p].op # "commit" PROVE temps[p] = <<>>
            OBVIOUS
        <3>1. CASE pc[p] \in {"mode", "temp"}
            <4>1. job[p].op = "replace" /\ Changes(p) = 1 /\ at[p] \in 1..Changes(p)
                BY <1>1, <3>1, ChangeTyped, JobFacts DEF Changing, Changes
            <4>2. Len(temps[p]) = at[p] - 1 /\ temps[p] \in Seq(Temp)
                BY <1>1, <3>1 DEF TInv, TempsCounted, TypeOK
            <4>3. at[p] = 1 /\ Len(temps[p]) = 0
                BY <4>1, <4>2
            <4> QED BY <4>2, <4>3
        <3>2. CASE pc[p] = "move"
            BY <1>1, <3>2 DEF TInv, JobFits
        <3>3. CASE pc[p] = "make"
            BY <1>1, <3>3 DEF TInv, JobFits, TempsCounted, Making
        <3>4. CASE pc[p] = "rename" /\ job[p].op # "replace"
            BY <1>1, <3>4 DEF TInv, JobFits, Changing
        <3> QED BY <2>1, <3>1, <3>2, <3>3, <3>4
    <2>3. \A k \in 1..Len(<<>>) : FALSE
        OBVIOUS
    <2>4. Prepared(p)'
        BY <2>1 DEF Prepared
    <2>5. Cleared(p)'
        BY <1>2, <2>1, <2>2, <2>3 DEF Cleared
    <2>6. Documents(p)'
        BY <1>1, <1>2, <2>1 DEF Documents, Changing
    <2> QED BY <2>4, <2>5, <2>6 DEF InHand
<1> QED BY <1>3, <1>4, <1>5

\* A step that writes one temp file, which has the last place.
LEMMA OwnCreateTemp ==
    ASSUME FileInv, NEW p \in Proc, NEW d \in Draw, CreateTemp(p, d)
    PROVE  InHand(p)'
<1>1. TypeOK /\ TInv /\ Prepared(p) /\ Documents(p) /\ pc[p] = "temp"
    BY DEF FileInv, TInv, CreateTemp
<1>2. /\ pc'[p] = "access" /\ at' = at /\ job' = job
      /\ file' = [file EXCEPT ![TempName(p, d)] =
             [text |-> job[p].changes[at[p]].text, part |-> "none", access |-> Default]]
      /\ temps'[p] = Append(temps[p], TempName(p, d))
      /\ TempName(p, d) \in Name
    BY <1>1, TempsDistinct DEF CreateTemp, Goto, Keep, TypeOK
<1>3. /\ temps[p] \in Seq(Temp) /\ TempName(p, d) \in Temp /\ Len(temps[p]) = at[p] - 1
      /\ at[p] \in 1..Changes(p) /\ Changes(p) \in Nat
    BY <1>1, TempNameTyped, ChangeTyped DEF TypeOK, Changing
<1>4. /\ temps'[p][at[p]] = TempName(p, d)
      /\ \A k \in 1..at[p] - 1 : temps'[p][k] = temps[p][k] /\ k \in 1..Len(temps[p])
    BY <1>2, <1>3
<1>5. Written(p, at[p], "none")'
    <2>1. [text |-> job[p].changes[at[p]].text, part |-> "none", access |-> Default] # None
        <3>1. job[p].changes[at[p]].text \in Version
            BY <1>1, ChangeTyped DEF Changing
        <3> QED BY <3>1, FileTyped, NamesAssumption
    <2> QED BY <1>1, <1>2, <1>4, <2>1 DEF Written, TypeOK
<1>6. ASSUME NEW k \in 1..at[p] - 1 PROVE Written(p, k, "all")'
    <2>1. file'[temps[p][k]] = file[temps[p][k]]
        BY <1>1, <1>2, <1>4, TempsDistinct DEF TypeOK
    <2> QED BY <1>1, <1>2, <1>4, <2>1 DEF Prepared, Written
<1>7. Documents(p)'
    <2> SUFFICES ASSUME job[p].op = "commit"
                 PROVE  file'[job[p].from] # None /\ file'[job[p].to] = None
        BY <1>2 DEF Documents
    <2>1. /\ job[p].from \in Name /\ job[p].to \in Name
          /\ job[p].from # TempName(p, d) /\ job[p].to # TempName(p, d)
          /\ file[job[p].from] # None /\ file[job[p].to] = None
        BY <1>1, DocumentsTyped, TempsDistinct DEF Changing, Name
    <2> QED BY <1>1, <1>2, <2>1 DEF TypeOK
<1> QED BY <1>2, <1>5, <1>6, <1>7 DEF InHand, Prepared, Cleared

\* A step that gives the temp file in hand another access or more of its text.
LEMMA LastWritten ==
    ASSUME FileInv, NEW p \in Proc, pc[p] \in {"access", "write", "some"},
           NEW f \in File, f.text = file[LastTemp(p)].text,
           file' = [file EXCEPT ![LastTemp(p)] = f], UNCHANGED <<job, temps>>,
           NEW last, last = at[p]
    PROVE  /\ Written(p, last, f.part)'
           /\ \A k \in 1..last - 1 : Written(p, k, "all")'
           /\ job[p].op = "commit" => file'[job[p].from] # None /\ file'[job[p].to] = None
<1>1. TypeOK /\ TInv /\ Prepared(p) /\ pc[p] \in Changing
    BY DEF FileInv, TInv, Changing
<1>2. /\ Len(temps[p]) = at[p] /\ at[p] \in 1..Changes(p) /\ Changes(p) \in Nat
      /\ LastTemp(p) \in Name /\ LastTemp(p) = temps[p][at[p]]
    BY <1>1, LastTempTyped, ChangeTyped DEF TInv, TempsCounted, LastTemp
<1>3. /\ file'[LastTemp(p)] = f /\ f # None
      /\ \A n \in Name : n # LastTemp(p) => file'[n] = file[n]
    BY <1>1, <1>2, NamesAssumption DEF TypeOK
<1>4. Written(p, last, f.part)'
    <2>1. f.text = job[p].changes[last].text
        BY <1>1, <1>2 DEF Prepared, Written
    <2>2. file'[temps'[p][last]] = f /\ job' = job
        BY <1>2, <1>3
    <2> QED BY <1>3, <2>1, <2>2 DEF Written
<1>6. ASSUME NEW k \in 1..last - 1 PROVE Written(p, k, "all")'
    <2>1. k \in 1..Len(temps[p]) /\ last \in 1..Len(temps[p]) /\ k # last
        BY <1>2
    <2>2. file'[temps[p][k]] = file[temps[p][k]]
        BY <1>2, <1>3, <2>1, TempsDistinct
    <2>3. Written(p, k, "all")
        BY <1>1 DEF Prepared
    <2> QED BY <2>2, <2>3 DEF Written
<1>5. ASSUME job[p].op = "commit"
      PROVE  file'[job[p].from] # None /\ file'[job[p].to] = None
    <2>1. LastTemp(p) \notin Path
        BY <1>1, <1>2, TempsDistinct
    <2> QED BY <1>1, <1>3, <1>5, <2>1, DocumentsTyped DEF Name
<1> QED BY <1>4, <1>5, <1>6

\* The file such a step writes.
LEMMA FileWritten ==
    ASSUME FileInv, NEW p \in Proc, SetAccess(p) \/ WriteSome(p) \/ WriteRest(p)
    PROVE  /\ LastTemp(p) \in Name /\ file[LastTemp(p)] \in File
           /\ \E f \in File :
                 /\ f.text = file[LastTemp(p)].text
                 /\ f.part = IF SetAccess(p) THEN "none" ELSE IF WriteSome(p) THEN "some" ELSE "all"
                 /\ f.access = IF SetAccess(p) /\ carried[p] # None /\ ~windows
                               THEN carried[p] ELSE file[LastTemp(p)].access
                 /\ file' = [file EXCEPT ![LastTemp(p)] = f]
<1>1. TypeOK /\ TInv /\ Prepared(p) /\ pc[p] \in {"access", "write", "some"} /\ pc[p] \in Changing
    BY DEF FileInv, TInv, SetAccess, WriteSome, WriteRest, Changing
<1>2. /\ Len(temps[p]) = at[p] /\ at[p] \in 1..Changes(p) /\ Changes(p) \in Nat
      /\ LastTemp(p) \in Name
    BY <1>1, LastTempTyped, ChangeTyped DEF TInv, TempsCounted
<1>3. file[LastTemp(p)] \in File
    <2>1. Written(p, at[p], "none") \/ Written(p, at[p], "some")
        BY <1>1 DEF Prepared
    <2>2. file[LastTemp(p)] # None
        BY <1>2, <2>1 DEF Written, LastTemp
    <2> QED BY <1>1, <1>2, <2>2 DEF TypeOK
<1>4. ASSUME SetAccess(p)
      PROVE  \E f \in File :
                 /\ f.text = file[LastTemp(p)].text /\ f.part = "none"
                 /\ f.access = IF carried[p] # None /\ ~windows
                               THEN carried[p] ELSE file[LastTemp(p)].access
                 /\ file' = [file EXCEPT ![LastTemp(p)] = f]
    <2>1. file[LastTemp(p)].part = "none" /\ pc[p] = "access"
        BY <1>1, <1>2, <1>4 DEF SetAccess, Prepared, Written, LastTemp
    <2>2. CASE carried[p] = None \/ windows
        <3>1. file' = [file EXCEPT ![LastTemp(p)] = file[LastTemp(p)]]
            BY <1>1, <1>2, <1>4, <2>2 DEF SetAccess, TypeOK
        <3> QED BY <1>3, <2>1, <2>2, <3>1
    <2>3. CASE ~(carried[p] = None \/ windows)
        <3>1. file' = [file EXCEPT ![LastTemp(p)] =
                          [file[LastTemp(p)] EXCEPT !.access = carried[p]]]
            BY <1>1, <1>2, <1>4, <2>3 DEF SetAccess, TypeOK
        <3>2. [file[LastTemp(p)] EXCEPT !.access = carried[p]] \in File
            BY <1>1, <1>3, <2>3, FileTyped DEF TypeOK
        <3>3. /\ [file[LastTemp(p)] EXCEPT !.access = carried[p]].text = file[LastTemp(p)].text
              /\ [file[LastTemp(p)] EXCEPT !.access = carried[p]].part = file[LastTemp(p)].part
              /\ [file[LastTemp(p)] EXCEPT !.access = carried[p]].access = carried[p]
            BY <1>3 DEF File
        <3> QED BY <2>1, <2>3, <3>1, <3>2, <3>3
    <2> QED BY <2>2, <2>3
<1>5. ASSUME NEW s \in {"some", "all"}, file' = [file EXCEPT ![LastTemp(p)].part = s]
      PROVE  \E g \in File : /\ g.text = file[LastTemp(p)].text /\ g.part = s
                             /\ g.access = file[LastTemp(p)].access
                             /\ file' = [file EXCEPT ![LastTemp(p)] = g]
    <2>1. file' = [file EXCEPT ![LastTemp(p)] = [file[LastTemp(p)] EXCEPT !.part = s]]
        BY <1>1, <1>2, <1>5 DEF TypeOK
    <2>2. /\ [file[LastTemp(p)] EXCEPT !.part = s] \in File
          /\ [file[LastTemp(p)] EXCEPT !.part = s].text = file[LastTemp(p)].text
          /\ [file[LastTemp(p)] EXCEPT !.part = s].part = s
          /\ [file[LastTemp(p)] EXCEPT !.part = s].access = file[LastTemp(p)].access
        BY <1>3, FileTyped DEF File
    <2> QED BY <2>1, <2>2
<1>6. CASE WriteSome(p)
    <2>1. ~SetAccess(p) /\ file' = [file EXCEPT ![LastTemp(p)].part = "some"]
        BY <1>6 DEF WriteSome, SetAccess
    <2> QED BY <1>2, <1>3, <1>5, <1>6, <2>1
<1>7. CASE WriteRest(p)
    <2>1. ~SetAccess(p) /\ ~WriteSome(p) /\ file' = [file EXCEPT ![LastTemp(p)].part = "all"]
        BY <1>7 DEF WriteRest, WriteSome, SetAccess
    <2> QED BY <1>2, <1>3, <1>5, <2>1
<1>8. CASE SetAccess(p)
    BY <1>2, <1>3, <1>4, <1>8
<1> QED BY <1>6, <1>7, <1>8

LEMMA OwnWrites ==
    ASSUME FileInv, NEW p \in Proc, SetAccess(p) \/ WriteSome(p) \/ WriteRest(p)
    PROVE  InHand(p)'
<1>1. TypeOK /\ TInv /\ Prepared(p) /\ pc[p] \in {"access", "write", "some"} /\ pc[p] \in Changing
      /\ pc[p] # "idle"
    BY DEF FileInv, TInv, SetAccess, WriteSome, WriteRest, Changing
<1>2. Len(temps[p]) = at[p] /\ at[p] \in 1..Changes(p) /\ Changes(p) \in Nat
    BY <1>1, ChangeTyped DEF TInv, TempsCounted
<1>4. UNCHANGED <<job, temps>>
    BY DEF SetAccess, WriteSome, WriteRest, Keep
<1>5. PICK f \in File :
          /\ f.text = file[LastTemp(p)].text
          /\ f.part = IF SetAccess(p) THEN "none" ELSE IF WriteSome(p) THEN "some" ELSE "all"
          /\ file' = [file EXCEPT ![LastTemp(p)] = f]
    BY FileWritten
<1>6. PICK last : last = at[p]
    OBVIOUS
<1>10. Written(p, last, f.part)' /\ \A k \in 1..last - 1 : Written(p, k, "all")'
    BY <1>1, <1>4, <1>5, <1>6, LastWritten
<1>7. Documents(p)'
    <2>1. pc'[p] \in {"write", "some", "mode", "rename"}
        BY <1>1 DEF SetAccess, WriteSome, WriteRest, Goto, TypeOK
    <2>2. job[p].op = "commit" => file'[job[p].from] # None /\ file'[job[p].to] = None
        BY <1>1, <1>4, <1>5, LastWritten
    <2> QED BY <1>4, <2>1, <2>2 DEF Documents
<1>8. CASE SetAccess(p) \/ WriteSome(p)
    <2>1. at' = at
        BY <1>8 DEF SetAccess, WriteSome
    <2>2. \/ pc'[p] = "write" /\ f.part = "none"
          \/ pc'[p] = "some" /\ f.part = "some"
        BY <1>1, <1>5, <1>8 DEF SetAccess, WriteSome, Goto, TypeOK
    <2> QED BY <1>6, <1>7, <1>10, <2>1, <2>2 DEF InHand, Prepared, Cleared
<1>9. CASE WriteRest(p)
    <2>1. f.part = "all"
        BY <1>1, <1>5, <1>9 DEF WriteRest, SetAccess, WriteSome
    <2>2. \A k \in 1..last : Written(p, k, "all")'
        BY <1>2, <1>6, <1>10, <2>1
    <2>3. CASE at[p] < Changes(p)
        <3>1. pc'[p] = "mode" /\ at'[p] = at[p] + 1
            BY <1>1, <1>9, <2>3 DEF WriteRest, Changes, Goto, TypeOK
        <3>2. \A k \in 1..at'[p] - 1 : k \in 1..last
            BY <1>2, <1>6, <3>1
        <3> QED BY <1>7, <2>2, <3>1, <3>2 DEF InHand, Prepared, Cleared
    <2>4. CASE ~(at[p] < Changes(p))
        <3>1. pc'[p] = "rename" /\ at'[p] = 1 /\ Changes(p)' = Changes(p) /\ last = Changes(p)
            BY <1>1, <1>2, <1>4, <1>6, <1>9, <2>4 DEF WriteRest, Changes, Goto, TypeOK
        <3>2. \A k \in 1..at'[p] - 1 : FALSE
            BY <3>1
        <3> QED BY <1>7, <2>2, <3>1, <3>2 DEF InHand, Prepared, Cleared
    <2> QED BY <2>3, <2>4
<1> QED BY <1>8, <1>9

\* What Moved makes of the two names, and of the others.
LEMMA MovedFacts ==
    ASSUME TInv, NEW from \in Name, NEW to \in Name, from # to, file[from] # None
    PROVE  /\ Moved(from, to)[from] = None
           /\ Moved(from, to)[to] \in File
           /\ Moved(from, to)[to].text = file[from].text
           /\ Moved(from, to)[to].part = file[from].part
           /\ Moved(from, to)[to].access = AccessAfter(to, from)
           /\ \A n \in Name : n # from /\ n # to => Moved(from, to)[n] = file[n]
<1>1. file \in [Name -> File \cup {None}] /\ file[from] \in File
    BY DEF TInv, TypeOK
<1>2. AccessAfter(to, from) \in Access
    BY <1>1 DEF AccessAfter, File
<1>3. Moved(from, to)[to] = [file[from] EXCEPT !.access = AccessAfter(to, from)]
    BY <1>1 DEF Moved
<1>4. /\ [file[from] EXCEPT !.access = AccessAfter(to, from)] \in File
      /\ [file[from] EXCEPT !.access = AccessAfter(to, from)].text = file[from].text
      /\ [file[from] EXCEPT !.access = AccessAfter(to, from)].part = file[from].part
      /\ [file[from] EXCEPT !.access = AccessAfter(to, from)].access = AccessAfter(to, from)
    BY <1>1, <1>2, FileTyped DEF File
<1>5. /\ Moved(from, to)[from] = None
      /\ \A n \in Name : n # from /\ n # to => Moved(from, to)[n] = file[n]
    BY <1>1 DEF Moved
<1> QED BY <1>3, <1>4, <1>5

LEMMA RenameFacts ==
    ASSUME FileInv, NEW p \in Proc, Rename(p)
    PROVE  /\ pc[p] = "rename" /\ at[p] \in 1..Changes(p) /\ Changes(p) \in 1..MaxChanges
           /\ Len(temps[p]) = Changes(p) /\ at[p] \in 1..Len(temps[p])
           /\ temps[p][at[p]] \in Name /\ temps[p][at[p]] \notin Path
           /\ Target(p) \in Path /\ Target(p) \in Name
           /\ Written(p, at[p], "all")
           /\ file' = Moved(temps[p][at[p]], Target(p))
           /\ at'[p] = at[p] + 1 /\ UNCHANGED <<job, temps>>
           /\ pc'[p] = IF at[p] < Changes(p) THEN "rename"
                       ELSE IF job[p].op = "commit" THEN "move" ELSE "ok"
<1>1. TypeOK /\ TInv /\ Prepared(p) /\ pc[p] = "rename" /\ pc[p] \in Changing
    BY DEF FileInv, TInv, Rename, Changing
<1>2. /\ at[p] \in 1..Changes(p) /\ Changes(p) \in 1..MaxChanges /\ Len(temps[p]) = Changes(p)
      /\ Target(p) \in Path /\ Target(p) \in Name
    BY <1>1, ChangeTyped DEF TInv, TempsCounted, Name
<1>3. at[p] \in at[p]..Changes(p)
    BY <1>2
<1>4. temps[p][at[p]] \in Name /\ temps[p][at[p]] \notin Path
    BY <1>1, <1>2, TempsDistinct
<1>5. Written(p, at[p], "all")
    BY <1>1, <1>3 DEF Prepared
<1>6. /\ file' = Moved(temps[p][at[p]], Target(p))
      /\ at'[p] = at[p] + 1 /\ UNCHANGED <<job, temps>>
      /\ pc'[p] = IF at[p] < Changes(p) THEN "rename"
                  ELSE IF job[p].op = "commit" THEN "move" ELSE "ok"
    BY <1>1 DEF Rename, Goto, Keep, TypeOK, Changes
<1> QED BY <1>1, <1>2, <1>4, <1>5, <1>6

LEMMA OwnRename ==
    ASSUME FileInv, NEW p \in Proc, Rename(p)
    PROVE  InHand(p)'
<1>1. TypeOK /\ TInv /\ Prepared(p) /\ Cleared(p)
    BY DEF FileInv, TInv
<1>2. PICK from, to : from = temps[p][at[p]] /\ to = Target(p)
    OBVIOUS
<1>3. /\ from \in Name /\ from \notin Path /\ to \in Name /\ to \in Path
      /\ file[from] # None /\ file' = Moved(from, to)
    BY <1>2, RenameFacts DEF Written
<1>4. /\ file'[from] = None /\ file'[to] # None
      /\ \A n \in Name : n # from /\ n # to => file'[n] = file[n]
    BY <1>1, <1>3, MovedFacts, NamesAssumption
<1>5. /\ at[p] \in 1..Changes(p) /\ Changes(p) \in Nat /\ Len(temps[p]) = Changes(p)
      /\ at'[p] = at[p] + 1 /\ UNCHANGED <<job, temps>> /\ pc[p] = "rename"
      /\ pc'[p] = IF at[p] < Changes(p) THEN "rename"
                  ELSE IF job[p].op = "commit" THEN "move" ELSE "ok"
    BY RenameFacts, BoundAssumption
<1>6. ASSUME NEW k \in 1..Len(temps[p]), k # at[p] PROVE file'[temps[p][k]] = file[temps[p][k]]
    <2>1. temps[p][k] \in Name /\ temps[p][k] # from /\ temps[p][k] # to
        BY <1>2, <1>3, <1>5, <1>6, TempsDistinct
    <2> QED BY <1>4, <2>1
<1>7. Prepared(p)'
    <2>1. ASSUME NEW k \in at'[p]..Changes(p) PROVE Written(p, k, "all")'
        <3>1. k \in at[p]..Changes(p) /\ k \in 1..Len(temps[p]) /\ k # at[p]
            BY <1>5, <2>1
        <3>2. Written(p, k, "all")
            BY <1>1, <1>5, <3>1 DEF Prepared
        <3> QED BY <1>5, <1>6, <3>1, <3>2 DEF Written
    <2>2. Changes(p)' = Changes(p)
        BY <1>5 DEF Changes
    <2> QED BY <1>5, <2>1, <2>2 DEF Prepared
<1>8. Cleared(p)'
    <2>1. ASSUME NEW k \in 1..at'[p] - 1 PROVE file'[temps[p][k]] = None
        <3>1. CASE k = at[p]
            BY <1>2, <1>4, <3>1
        <3>2. CASE k # at[p]
            <4>1. k \in 1..at[p] - 1 /\ k \in 1..Len(temps[p])
                BY <1>5, <2>1, <3>2
            <4> QED BY <1>1, <1>5, <1>6, <3>2, <4>1 DEF Cleared
        <3> QED BY <3>1, <3>2
    <2>2. pc'[p] # "rename" => \A k \in 1..Len(temps[p]) : k \in 1..at'[p] - 1
        BY <1>5
    <2> QED BY <1>5, <2>1, <2>2 DEF Cleared
<1>9. Documents(p)'
    <2>1. job[p].op = "commit" => file'[job[p].from] # None /\ file'[job[p].to] = None
        <3> SUFFICES ASSUME job[p].op = "commit"
                     PROVE  file'[job[p].from] # None /\ file'[job[p].to] = None
            OBVIOUS
        <3>1. /\ job[p].from \in Path /\ job[p].to \in Path /\ to # job[p].to
              /\ file[job[p].from] # None /\ file[job[p].to] = None
            BY <1>2, <1>5, DocumentsTyped DEF Changing
        <3> QED BY <1>3, <1>4, <3>1 DEF Name
    <2> QED BY <1>5, <2>1 DEF Documents
<1> QED BY <1>7, <1>8, <1>9 DEF InHand

LEMMA OwnMoveDocument ==
    ASSUME FileInv, NEW p \in Proc, MoveDocument(p)
    PROVE  InHand(p)'
<1>1. TypeOK /\ TInv /\ Cleared(p) /\ pc[p] = "move" /\ job[p].op = "commit"
    BY DEF FileInv, TInv, MoveDocument, JobFits
<1>2. /\ job[p].from \in Path /\ job[p].to \in Path /\ job[p].from # job[p].to
      /\ file[job[p].from] # None
    BY <1>1, DocumentsTyped
<1>3. pc'[p] = "ok" /\ UNCHANGED <<job, temps>> /\ file' = Moved(job[p].from, job[p].to)
    BY <1>1 DEF MoveDocument, Goto, Keep, TypeOK
<1>4. ASSUME NEW k \in 1..Len(temps[p]) PROVE file'[temps[p][k]] = None
    <2>1. file[temps[p][k]] = None
        BY <1>1 DEF Cleared
    <2>2. temps[p][k] \in Name /\ temps[p][k] \notin Path
        BY TempsDistinct
    <2> QED BY <1>1, <1>2, <1>3, <2>1, <2>2, MovedFacts DEF Name
<1>5. Prepared(p)'
    BY <1>3 DEF Prepared
<1>6. Cleared(p)'
    BY <1>3, <1>4 DEF Cleared
<1>7. Documents(p)'
    BY <1>3 DEF Documents, Changing
<1> QED BY <1>5, <1>6, <1>7 DEF InHand

LEMMA OwnMaking ==
    ASSUME FileInv, NEW p \in Proc, Make(p) \/ Fill(p)
    PROVE  InHand(p)'
<1>1. TypeOK /\ TInv /\ Documents(p) /\ pc[p] \in Making /\ pc[p] # "idle"
    BY DEF FileInv, TInv, Make, Fill, Making
<1>2. /\ job[p] \in Jobs /\ job[p].op = "create" /\ job[p].path \in Name
      /\ job[p].text \in Version /\ temps[p] = <<>>
    BY <1>1, JobFacts DEF TInv, JobFits, TempsCounted, Name
<1>3. UNCHANGED <<job, temps>> /\ pc'[p] \in {"fill", "fillrest", "ok"}
    BY <1>1 DEF Make, Fill, Goto, Keep, TypeOK
<1>4. \A k \in 1..Len(temps'[p]) : FALSE
    BY <1>2, <1>3
<1>5. Prepared(p)' /\ Cleared(p)'
    BY <1>3, <1>4 DEF Prepared, Cleared
<1>6. CASE Make(p)
    <2>1. PICK f : f = [text |-> job[p].text, part |-> "none", access |-> Default]
        OBVIOUS
    <2>2. f \in File /\ f # None /\ f.text = job[p].text /\ f.part = "none"
        BY <1>2, <2>1, FileTyped, NamesAssumption
    <2>3. file'[job[p].path] = f
        BY <1>1, <1>2, <1>6, <2>1 DEF Make, TypeOK
    <2>4. Documents(p)'
        BY <1>2, <1>3, <2>2, <2>3 DEF Documents, Changing
    <2> QED BY <1>5, <2>4 DEF InHand
<1>7. CASE Fill(p)
    <2>1. pc[p] \in {"fill", "fillrest"} /\ pc'[p] = IF pc[p] = "fill" THEN "fillrest" ELSE "ok"
        BY <1>1, <1>7 DEF Fill, Goto, TypeOK
    <2>2. file[job[p].path] # None /\ file[job[p].path] \in File /\ file[job[p].path].text = job[p].text
        BY <1>1, <1>2, <2>1 DEF Documents, TypeOK
    <2>3. pc[p] = "fill" => file' = [file EXCEPT ![job[p].path] =
                                        [file[job[p].path] EXCEPT !.part = "some"]]
        BY <1>1, <1>2, <1>7 DEF Fill, TypeOK
    <2>4. PICK f : f = [file[job[p].path] EXCEPT !.part = "some"]
        OBVIOUS
    <2>5. f \in File /\ f # None /\ f.text = job[p].text /\ f.part = "some"
        BY <2>2, <2>4, FileTyped, NamesAssumption DEF File
    <2>6. pc[p] = "fill" => file'[job[p].path] = f
        BY <1>1, <1>2, <2>3, <2>4 DEF TypeOK
    <2>7. Documents(p)'
        BY <1>2, <1>3, <2>1, <2>5, <2>6 DEF Documents, Changing
    <2> QED BY <1>5, <2>7 DEF InHand
<1> QED BY <1>6, <1>7

LEMMA OwnRemove ==
    ASSUME FileInv, NEW p \in Proc, Remove(p)
    PROVE  InHand(p)'
<1>1. TypeOK /\ TInv /\ pc[p] \in {"tidy", "undo"} /\ pc[p] # "idle"
    BY DEF FileInv, TInv, Remove
<1>2. pc'[p] = "failed" /\ UNCHANGED <<job, temps>>
      /\ file' = [file EXCEPT ![IF pc[p] = "tidy" THEN LastTemp(p) ELSE job[p].path] = None]
    BY <1>1 DEF Remove, Goto, Keep, TypeOK
<1>3. ASSUME job[p].op # "commit", NEW k \in 1..Len(temps[p]) PROVE file'[temps[p][k]] = None
    <2>1. CASE pc[p] = "tidy"
        <3>1. job[p] \in Jobs /\ job[p].op = "replace" /\ Len(temps[p]) \in 1..Changes(p)
            BY <1>1, <1>3, <2>1 DEF TInv, JobFits, TempsCounted
        <3>2. Changes(p) = 1
            BY <3>1, JobFacts DEF Changes
        <3>3. k = Len(temps[p])
            <4>1. Len(temps[p]) = 1
                BY <3>1, <3>2
            <4>2. k \in 1..1
                BY <4>1
            <4> QED BY <4>1, <4>2
        <3>4. LastTemp(p) \in Name
            BY <1>1, <2>1, LastTempTyped
        <3> QED BY <1>1, <1>2, <2>1, <3>3, <3>4 DEF LastTemp, TypeOK
    <2>2. CASE pc[p] = "undo"
        BY <1>1, <2>2 DEF TInv, JobFits, TempsCounted, Making
    <2> QED BY <1>1, <2>1, <2>2
<1>4. Prepared(p)' /\ Cleared(p)' /\ Documents(p)'
    BY <1>2, <1>3 DEF Prepared, Cleared, Documents, Changing
<1> QED BY <1>4 DEF InHand

LEMMA OwnEnds ==
    ASSUME FileInv, NEW p \in Proc, Unlock(p) \/ Crash(p)
    PROVE  InHand(p)'
<1>1. pc'[p] = "idle"
    BY DEF Unlock, Crash, Ends, FileInv, TInv, TypeOK
<1> QED BY <1>1 DEF InHand, Prepared, Cleared, Documents, Changing

-----------------------------------------------------------------------------
(* The invariant.                                                          *)

LEMMA FileInvInit == Init => FileInv
<1> SUFFICES ASSUME Init PROVE FileInv
    OBVIOUS
<1>1. TInv
    BY TInvInit
<1>2. \A p \in Proc : pc[p] = "idle" /\ temps[p] = <<>> /\ pid[p] = None
    BY DEF Init
<1>3. NamesApart
    BY <1>2 DEF NamesApart
<1>4. Locked
    BY <1>2 DEF Locked
<1>5. \A p \in Proc : Prepared(p) /\ Cleared(p) /\ Documents(p)
    BY <1>2 DEF Prepared, Cleared, Documents, Changing
<1> QED BY <1>1, <1>3, <1>4, <1>5 DEF FileInv

LEMMA FileInvStep ==
    ASSUME FileInv, NEW p \in Proc, Step(p)
    PROVE  FileInv'
<1>1. TInv' /\ NamesApart' /\ Locked'
    BY StepTyped, StepNames, StepLocked
<1>2. InHand(p)'
    BY OwnStart, OwnSame, OwnCreateTemp, OwnWrites, OwnRename, OwnMoveDocument, OwnMaking,
       OwnRemove, OwnEnds DEF Step
<1>3. \A q \in Proc : q # p => Prepared(q)' /\ Cleared(q)' /\ Documents(q)'
    BY OthersKeep
<1> QED BY <1>1, <1>2, <1>3 DEF FileInv, InHand

\* Somebody deletes an abandoned lock, or nothing changes at all.
LEMMA FileInvRest ==
    ASSUME FileInv, (\E l \in Lock : ClearLock(l)) \/ UNCHANGED vars
    PROVE  FileInv'
<1>1. UNCHANGED <<file, procVars, windows, runs>>
    BY DEF ClearLock, vars
<1>2. owner' \in [Lock -> Proc \cup {None, Abandoned}]
    BY DEF ClearLock, vars, FileInv, TInv, TypeOK
<1>3. TInv'
    BY <1>1, <1>2 DEF FileInv, TInv, TypeOK, JobFits, TempsCounted, Changes, procVars
<1>4. NamesApart'
    BY <1>1 DEF FileInv, NamesApart, procVars
<1>5. Locked'
    <2> SUFFICES ASSUME NEW p \in Proc, pc'[p] # "idle", NEW q \in Touched(job'[p])
                 PROVE  owner'[LockOf[q]] = p
        BY DEF Locked
    <2>1. job[p] \in Jobs /\ q \in Touched(job[p]) /\ owner[LockOf[q]] = p
        BY <1>1 DEF FileInv, TInv, JobFits, Locked, procVars
    <2>2. LockOf[q] \in Lock /\ p # Abandoned
        BY <2>1, TouchedFacts, NamesAssumption DEF Lock
    <2> QED BY <2>1, <2>2 DEF ClearLock, vars, FileInv, TInv, TypeOK
<1>6. ASSUME NEW p \in Proc PROVE Prepared(p)' /\ Cleared(p)' /\ Documents(p)'
    <2>1. Prepared(p) /\ Cleared(p) /\ Documents(p)
        BY DEF FileInv
    <2>2. Prepared(p)'
        BY <1>1, <2>1 DEF Prepared, Written, Changes, procVars
    <2>3. Cleared(p)'
        BY <1>1, <2>1 DEF Cleared, procVars
    <2>4. Documents(p)'
        BY <1>1, <2>1 DEF Documents, procVars
    <2> QED BY <2>2, <2>3, <2>4
<1> QED BY <1>3, <1>4, <1>5, <1>6 DEF FileInv

\* In every reachable state the temp files a run has in hand are its own, are
\* whole once they wait for their rename, and are there or gone as the run's
\* position says.
THEOREM FileInvHolds == Spec => []FileInv
<1>1. FileInv /\ [Next]_vars => FileInv'
    BY FileInvStep, FileInvRest DEF Next
<1> QED BY FileInvInit, <1>1, PTL DEF Spec

\* Every reachable state has variables of the types given.
THEOREM TypeCorrect == Spec => []TypeOK
<1>1. FileInv => TypeOK
    BY DEF FileInv, TInv
<1> QED BY FileInvHolds, <1>1, PTL

\* A run that ends by itself leaves no temp file behind, unless the removal
\* failed or it was a `commit` that failed.
THEOREM NoTempLeft == Spec => []LeavesNoTemp
<1>1. FileInv => LeavesNoTemp
    <2> SUFFICES ASSUME FileInv, NEW p \in Proc,
                        pc[p] = "ok" \/ (pc[p] = "failed" /\ ~stuck[p] /\ job[p].op # "commit"),
                        NEW i \in DOMAIN temps[p]
                 PROVE  file[temps[p][i]] = None
        BY DEF LeavesNoTemp
    <2>1. Cleared(p) /\ temps[p] \in Seq(Temp)
        BY DEF FileInv, TInv, TypeOK
    <2>2. i \in 1..Len(temps[p])
        BY <2>1
    <2> QED BY <2>1, <2>2 DEF Cleared
<1> QED BY FileInvHolds, <1>1, PTL

-----------------------------------------------------------------------------
(* The access of a document that is replaced.                              *)

LEMMA OthersCarry ==
    ASSUME FileInv, NEW p \in Proc, Step(p), NEW q \in Proc, p # q, Carries(q)
    PROVE  Carries(q)'
<1>1. /\ pc'[q] = pc[q] /\ job'[q] = job[q] /\ at'[q] = at[q] /\ carried'[q] = carried[q]
      /\ temps'[q] = temps[q] /\ windows' = windows
      /\ pc[q] # "idle" =>
            /\ \A i \in 1..Len(temps[q]) : file'[temps[q][i]] = file[temps[q][i]]
            /\ \A n \in Touched(job[q]) : file'[n] = file[n]
    BY OthersStay
<1>2. CASE pc[q] \notin Changing
    BY <1>1, <1>2 DEF Carries, Changing
<1>3. CASE pc[q] \in Changing
    <2>1. TInv /\ job[q] \in Jobs /\ job[q].op # "create" /\ at[q] \in 1..Changes(q)
          /\ Changes(q) \in Nat /\ Target(q) \in Touched(job[q]) /\ pc[q] # "idle"
        BY <1>3, ChangeTyped, BoundAssumption DEF FileInv, Changing
    <2>2. \A i \in 1..Changes(q) : job[q].changes[i].path \in Touched(job[q])
        BY <2>1, TouchedFacts DEF Changes
    <2>3. \A i \in 1..Changes(q) :
              AccessOf(job[q].changes[i].path)' = AccessOf(job[q].changes[i].path)
        BY <1>1, <2>1, <2>2 DEF AccessOf
    <2>4. Target(q)' = Target(q) /\ LastTemp(q)' = LastTemp(q) /\ Changes(q)' = Changes(q)
        BY <1>1 DEF Target, LastTemp, Changes
    <2>5. file'[Target(q)] = file[Target(q)]
        BY <1>1, <2>1
    <2>6. pc[q] \in {"access", "write", "some"} => file'[LastTemp(q)] = file[LastTemp(q)]
        BY <1>1, <2>1, LastTempTyped DEF LastTemp
    <2>7. AccessOf(Target(q))' = AccessOf(Target(q))
        BY <2>4, <2>5 DEF AccessOf
    <2>8. /\ pc[q] = "rename" => Len(temps[q]) = Changes(q)
          /\ pc[q] \in {"mode", "temp"} => Len(temps[q]) = at[q] - 1
          /\ pc[q] \in {"access", "write", "some"} => Len(temps[q]) = at[q]
        BY <2>1 DEF TInv, TempsCounted
    <2>9. ASSUME pc[q] \in {"mode", "temp", "access", "write", "some"}, NEW i \in 1..at[q] - 1
          PROVE  file'[temps[q][i]].access = AccessOf(job[q].changes[i].path)'
        <3>1. i \in 1..Len(temps[q]) /\ i \in 1..Changes(q)
            BY <2>1, <2>8, <2>9
        <3> QED BY <1>1, <2>1, <2>3, <2>9, <3>1 DEF Carries
    <2>10. ASSUME pc[q] = "rename", NEW i \in at[q]..Changes(q)
           PROVE  file'[temps[q][i]].access = AccessOf(job[q].changes[i].path)'
        <3>1. i \in 1..Len(temps[q]) /\ i \in 1..Changes(q)
            BY <2>1, <2>8, <2>10
        <3> QED BY <1>1, <2>1, <2>3, <2>10, <3>1 DEF Carries
    <2> QED BY <1>1, <2>4, <2>5, <2>6, <2>7, <2>9, <2>10 DEF Carries
<1> QED BY <1>2, <1>3

\* While temp files are written the documents keep their access.
LEMMA CreateCarries ==
    ASSUME FileInv, NEW p \in Proc, Carries(p), NEW d \in Draw, CreateTemp(p, d)
    PROVE  Carries(p)'
<1>1. TypeOK /\ TInv /\ pc[p] = "temp" /\ pc[p] \in Changing
    BY DEF FileInv, TInv, CreateTemp, Changing
<1>2. /\ pc'[p] = "access" /\ UNCHANGED <<at, job, carried>>
      /\ temps'[p] = Append(temps[p], TempName(p, d))
      /\ TempName(p, d) \in Name /\ TempName(p, d) \notin Path
    BY <1>1, TempsDistinct DEF CreateTemp, Goto, Keep, TypeOK
<1>3. PICK f : f = [text |-> job[p].changes[at[p]].text, part |-> "none", access |-> Default]
    OBVIOUS
<1>4. /\ file'[TempName(p, d)] = f /\ f.access = Default
      /\ \A n \in Name : n # TempName(p, d) => file'[n] = file[n]
    BY <1>1, <1>2, <1>3 DEF CreateTemp, TypeOK
<1>5. /\ temps[p] \in Seq(Temp) /\ TempName(p, d) \in Temp /\ Len(temps[p]) = at[p] - 1
      /\ at[p] \in 1..Changes(p) /\ Changes(p) \in Nat /\ job[p] \in Jobs /\ job[p].op # "create"
      /\ Target(p) \in Path
    <2>1. /\ at[p] \in 1..Changes(p) /\ Changes(p) \in 1..MaxChanges /\ Target(p) \in Path
          /\ job[p] \in Jobs /\ job[p].op # "create"
        BY <1>1, ChangeTyped
    <2>2. TempName(p, d) \in Temp /\ Len(temps[p]) = at[p] - 1 /\ temps[p] \in Seq(Temp)
        BY <1>1, TempNameTyped DEF TypeOK
    <2> QED BY <2>1, <2>2, BoundAssumption
<1>6. /\ LastTemp(p)' = TempName(p, d) /\ Target(p)' = Target(p)
      /\ \A k \in 1..at[p] - 1 : temps'[p][k] = temps[p][k] /\ k \in 1..Len(temps[p])
    BY <1>2, <1>5 DEF LastTemp, Target
<1>7. \A q \in Path : file'[q] = file[q] /\ AccessOf(q)' = AccessOf(q)
    BY <1>2, <1>4 DEF AccessOf, Name
<1>8. ASSUME NEW k \in 1..at'[p] - 1
      PROVE  file'[temps'[p][k]].access = AccessOf(job[p].changes[k].path)'
    <2>1. k \in 1..at[p] - 1 /\ k \in 1..Changes(p)
        BY <1>2, <1>5, <1>8
    <2>2. temps'[p][k] = temps[p][k] /\ file'[temps[p][k]] = file[temps[p][k]]
        BY <1>1, <1>4, <1>6, <2>1, TempsDistinct
    <2>3. job[p].changes[k].path \in Path
        BY <1>5, <2>1, JobFacts DEF Changes
    <2>4. AccessOf(job[p].changes[k].path)' = AccessOf(job[p].changes[k].path)
        BY <1>2, <1>7, <2>3 DEF AccessOf
    <2>5. file[temps[p][k]].access = AccessOf(job[p].changes[k].path)
        BY <1>1, <2>1 DEF Carries
    <2> QED BY <2>2, <2>4, <2>5
<1>9. carried'[p] = IF file'[Target(p)'] = None THEN None ELSE file'[Target(p)'].access
    BY <1>1, <1>2, <1>5, <1>6, <1>7 DEF Carries
<1>10. file'[LastTemp(p)'].access = Default
    BY <1>4, <1>6
<1> QED BY <1>2, <1>8, <1>9, <1>10 DEF Carries

LEMMA WriteCarries ==
    ASSUME FileInv, ~windows, NEW p \in Proc, Carries(p),
           SetAccess(p) \/ WriteSome(p) \/ WriteRest(p)
    PROVE  Carries(p)'
<1>1. TypeOK /\ TInv /\ pc[p] \in {"access", "write", "some"} /\ pc[p] \in Changing
    BY DEF FileInv, TInv, SetAccess, WriteSome, WriteRest, Changing
<1>2. /\ Len(temps[p]) = at[p] /\ at[p] \in 1..Changes(p) /\ Changes(p) \in Nat
      /\ at[p] \in 1..Len(temps[p]) /\ job[p] \in Jobs /\ job[p].op # "create"
      /\ Target(p) \in Path
    BY <1>1, ChangeTyped, BoundAssumption DEF TInv, TempsCounted
<1>3. UNCHANGED <<job, temps, carried>>
    BY DEF SetAccess, WriteSome, WriteRest, Keep
<1>4. PICK f \in File :
          /\ f.access = IF SetAccess(p) /\ carried[p] # None /\ ~windows
                        THEN carried[p] ELSE file[LastTemp(p)].access
          /\ file' = [file EXCEPT ![LastTemp(p)] = f]
    BY FileWritten
<1>5. /\ LastTemp(p) \in Name /\ LastTemp(p) \notin Path /\ LastTemp(p) = temps[p][at[p]]
      /\ file'[LastTemp(p)] = f /\ \A n \in Name : n # LastTemp(p) => file'[n] = file[n]
    BY <1>1, <1>2, <1>4, TempsDistinct DEF LastTemp, TypeOK
<1>6. f.access = AccessOf(Target(p))
    <2>1. CASE SetAccess(p)
        <3>1. /\ pc[p] = "access" /\ file[LastTemp(p)].access = Default
              /\ carried[p] = IF file[Target(p)] = None THEN None ELSE file[Target(p)].access
            BY <2>1 DEF SetAccess, Carries
        <3>2. file[Target(p)] # None => file[Target(p)].access # None
            BY <1>1, <1>2, NamesAssumption DEF TypeOK, Name, File
        <3> QED BY <1>4, <2>1, <3>1, <3>2 DEF AccessOf
    <2>2. CASE ~SetAccess(p)
        BY <1>4, <2>2 DEF WriteSome, WriteRest, Carries
    <2> QED BY <2>1, <2>2
<1>7. \A q \in Path : AccessOf(q)' = AccessOf(q)
    BY <1>5 DEF AccessOf, Name
<1>8. ASSUME NEW k \in 1..at[p]
      PROVE  /\ file'[temps[p][k]].access = AccessOf(job[p].changes[k].path)
             /\ AccessOf(job[p].changes[k].path)' = AccessOf(job[p].changes[k].path)
    <2>1. k \in 1..Changes(p) /\ k \in 1..Len(temps[p])
        BY <1>2, <1>8
    <2>2. AccessOf(job[p].changes[k].path)' = AccessOf(job[p].changes[k].path)
        BY <1>2, <1>3, <1>7, <2>1, JobFacts DEF Changes, AccessOf
    <2>3. CASE k = at[p]
        BY <1>5, <1>6, <2>2, <2>3 DEF Target
    <2>4. CASE k # at[p]
        <3>1. k \in 1..at[p] - 1
            BY <1>2, <1>8, <2>4
        <3>2. file'[temps[p][k]] = file[temps[p][k]]
            BY <1>2, <1>5, <2>1, <2>4, TempsDistinct
        <3> QED BY <1>1, <2>2, <3>1, <3>2 DEF Carries
    <2> QED BY <2>3, <2>4
<1>9. CASE SetAccess(p) \/ WriteSome(p)
    <2>1. at' = at /\ pc'[p] \in {"write", "some"}
        BY <1>1, <1>9 DEF SetAccess, WriteSome, Goto, TypeOK
    <2>2. LastTemp(p)' = LastTemp(p) /\ Target(p)' = Target(p)
        BY <1>3, <2>1 DEF LastTemp, Target
    <2>3. AccessOf(Target(p))' = AccessOf(Target(p))
        BY <1>2, <1>7, <2>2 DEF AccessOf
    <2>4. \A k \in 1..at'[p] - 1 : k \in 1..at[p]
        BY <1>2, <2>1
    <2> QED BY <1>3, <1>5, <1>6, <1>8, <2>1, <2>2, <2>3, <2>4 DEF Carries
<1>10. CASE WriteRest(p)
    <2>1. CASE at[p] < Changes(p)
        <3>1. pc'[p] = "mode" /\ at'[p] = at[p] + 1
            BY <1>1, <1>10, <2>1 DEF WriteRest, Changes, Goto, TypeOK
        <3>2. \A k \in 1..at'[p] - 1 : k \in 1..at[p]
            BY <1>2, <3>1
        <3> QED BY <1>3, <1>8, <3>1, <3>2 DEF Carries
    <2>2. CASE ~(at[p] < Changes(p))
        <3>1. pc'[p] = "rename" /\ at'[p] = 1 /\ Changes(p)' = Changes(p) /\ at[p] = Changes(p)
            BY <1>1, <1>2, <1>3, <1>10, <2>2 DEF WriteRest, Changes, Goto, TypeOK
        <3> QED BY <1>3, <1>8, <3>1 DEF Carries
    <2> QED BY <2>1, <2>2
<1> QED BY <1>9, <1>10

LEMMA RenameCarries ==
    ASSUME FileInv, ~windows, NEW p \in Proc, Carries(p), Rename(p)
    PROVE  Carries(p)'
<1>1. TypeOK /\ TInv
    BY DEF FileInv, TInv
<1>2. PICK from, to : from = temps[p][at[p]] /\ to = Target(p)
    OBVIOUS
<1>3. /\ from \in Name /\ from \notin Path /\ to \in Name /\ to \in Path
      /\ file[from] # None /\ file' = Moved(from, to)
      /\ pc[p] = "rename" /\ at[p] \in 1..Changes(p) /\ Changes(p) \in Nat
      /\ Len(temps[p]) = Changes(p) /\ at'[p] = at[p] + 1 /\ UNCHANGED <<job, temps>>
      /\ pc'[p] \in {"rename", "move", "ok"}
    BY <1>2, RenameFacts, BoundAssumption DEF Written
<1>4. job[p] \in Jobs /\ job[p].op # "create"
    BY <1>1, <1>3, ChangeTyped DEF Changing
<1>5. /\ file'[to] \in File /\ file'[to].access = file[from].access
      /\ \A n \in Name : n # from /\ n # to => file'[n] = file[n]
    BY <1>1, <1>3, MovedFacts DEF AccessAfter
<1>6. file[from].access = AccessOf(to)
    <2>1. at[p] \in at[p]..Changes(p)
        BY <1>3
    <2> QED BY <1>2, <1>3, <2>1 DEF Carries, Target
<1>7. \A q \in Path : AccessOf(q)' = AccessOf(q)
    BY <1>3, <1>5, <1>6, NamesAssumption DEF AccessOf, Name
<1>8. ASSUME NEW k \in at'[p]..Changes(p)
      PROVE  file'[temps[p][k]].access = AccessOf(job[p].changes[k].path)'
    <2>1. k \in at[p]..Changes(p) /\ k \in 1..Changes(p) /\ k # at[p] /\ k \in 1..Len(temps[p])
          /\ at[p] \in 1..Len(temps[p])
        BY <1>3
    <2>2. file'[temps[p][k]] = file[temps[p][k]]
        <3>1. temps[p][k] \in Name /\ temps[p][k] # from /\ temps[p][k] # to
            BY <1>2, <1>3, <2>1, TempsDistinct
        <3> QED BY <1>5, <3>1
    <2>3. AccessOf(job[p].changes[k].path)' = AccessOf(job[p].changes[k].path)
        BY <1>3, <1>4, <1>7, <2>1, JobFacts DEF Changes, AccessOf
    <2> QED BY <1>3, <2>1, <2>2, <2>3 DEF Carries
<1>9. Changes(p)' = Changes(p)
    BY <1>3 DEF Changes
<1> QED BY <1>3, <1>8, <1>9 DEF Carries

LEMMA StepCarries ==
    ASSUME FileInv, CarryInv, NEW p \in Proc, Step(p)
    PROVE  CarryInv'
<1> SUFFICES ASSUME ~windows', NEW q \in Proc PROVE Carries(q)'
    BY DEF CarryInv
<1>1. TypeOK
    BY DEF FileInv, TInv
<1>2. windows' = windows
    BY DEF Step, Start, Keep, ReadMode, CreateTemp, SetAccess, WriteSome, WriteRest, Rename,
           MoveDocument, Make, Fill, Fail, Remove, RemoveFails, Unlock, Crash, Ends
<1>3. ~windows /\ Carries(p) /\ Carries(q)
    BY <1>2 DEF CarryInv
<1>4. CASE q # p
    BY <1>3, <1>4, OthersCarry
<1>5. ASSUME NEW j \in Jobs, NEW i \in Pid, Start(p, j, i) PROVE Carries(p)'
    <2>1. pc'[p] \in {"make", "move", "mode"} /\ at'[p] = 1
        BY <1>1, <1>5 DEF Start, Goto, TypeOK, FileInv, TInv, JobFits
    <2>2. \A k \in 1..at'[p] - 1 : FALSE
        BY <2>1
    <2> QED BY <2>1, <2>2 DEF Carries
<1>6. ASSUME ReadMode(p) PROVE Carries(p)'
    <2>1. /\ pc[p] = "mode" /\ pc'[p] = "temp" /\ UNCHANGED <<file, at, temps, job>>
          /\ carried'[p] = IF file[Target(p)] = None THEN None ELSE file[Target(p)].access
        BY <1>1, <1>6 DEF ReadMode, Goto, Keep, TypeOK
    <2>2. Target(p)' = Target(p)
        BY <2>1 DEF Target
    <2> QED BY <1>3, <2>1, <2>2 DEF Carries, AccessOf
<1>7. ASSUME MoveDocument(p) \/ Make(p) \/ Fill(p) \/ Fail(p) \/ Remove(p) \/ RemoveFails(p)
             \/ Unlock(p) \/ Crash(p)
      PROVE  Carries(p)'
    <2>1. pc'[p] \in {"idle", "ok", "fill", "fillrest", "tidy", "undo", "failed"}
        BY <1>1, <1>7 DEF MoveDocument, Make, Fill, Fail, AfterFailure, Remove, RemoveFails,
                          Unlock, Crash, Ends, Goto, TypeOK
    <2> QED BY <2>1 DEF Carries
<1> QED BY <1>3, <1>4, <1>5, <1>6, <1>7, CreateCarries, WriteCarries, RenameCarries DEF Step

LEMMA CarryInvHolds == Spec => [](FileInv /\ CarryInv)
<1>1. Init => CarryInv
    BY DEF Init, CarryInv, Carries
<1>2. FileInv /\ CarryInv /\ [Next]_vars => CarryInv'
    <2> SUFFICES ASSUME FileInv, CarryInv, [Next]_vars PROVE CarryInv'
        OBVIOUS
    <2>1. CASE (\E l \in Lock : ClearLock(l)) \/ UNCHANGED vars
        <3>1. UNCHANGED <<file, procVars, windows>>
            BY <2>1 DEF ClearLock, vars
        <3> QED BY <3>1 DEF CarryInv, Carries, procVars, Target, LastTemp, Changes, AccessOf
    <2> QED BY <2>1, StepCarries DEF Next
<1> QED BY <1>1, <1>2, FileInvHolds, PTL DEF Spec

\* What a step does to the access of a document that stays.
LEMMA StepKeepsAccess ==
    ASSUME FileInv, CarryInv, NEW p \in Proc, Step(p), NEW q \in Path,
           file[q] # None, file'[q] # None
    PROVE  file'[q].access = file[q].access
<1>1. TypeOK /\ TInv /\ q \in Name
    BY DEF FileInv, TInv, Name
<1>2. CASE ~Owns(p, q)
    BY <1>1, <1>2, StepsOnOwn
<1>3. CASE Rename(p)
    <2>1. PICK from, to : from = temps[p][at[p]] /\ to = Target(p)
        OBVIOUS
    <2>2. /\ from \in Name /\ from \notin Path /\ to \in Name /\ to \in Path
          /\ file[from] # None /\ file' = Moved(from, to)
          /\ pc[p] = "rename" /\ at[p] \in 1..Changes(p) /\ Changes(p) \in Nat
        BY <1>3, <2>1, RenameFacts, BoundAssumption DEF Written
    <2>3. at[p] \in at[p]..Changes(p)
        BY <2>2
    <2>4. ~windows => file[from].access = AccessOf(to)
        BY <2>1, <2>2, <2>3 DEF CarryInv, Carries, Target
    <2>5. q # to => file'[q] = file[q]
        BY <1>1, <2>2, MovedFacts
    <2>6. file'[to].access = AccessAfter(to, from)
        BY <1>1, <2>2, MovedFacts
    <2> QED BY <2>4, <2>5, <2>6 DEF AccessAfter, AccessOf
<1>4. CASE MoveDocument(p)
    <2>1. pc[p] = "move" /\ job[p].op = "commit" /\ file' = Moved(job[p].from, job[p].to)
        BY <1>1, <1>4 DEF MoveDocument, TInv, JobFits
    <2>2. /\ job[p].from \in Name /\ job[p].to \in Name /\ job[p].from # job[p].to
          /\ file[job[p].from] # None /\ file[job[p].to] = None
        BY <2>1, DocumentsTyped DEF Name
    <2>3. q # job[p].from /\ q # job[p].to
        BY <1>1, <2>1, <2>2, MovedFacts
    <2> QED BY <1>1, <2>1, <2>2, <2>3, MovedFacts
<1>5. CASE Make(p) \/ Fill(p)
    <2>1. CASE q # job[p].path
        BY <1>1, <1>5, <2>1 DEF Make, Fill, TypeOK
    <2>2. CASE q = job[p].path
        <3>1. PICK s \in {"some", "all"} : file' = [file EXCEPT ![q].part = s]
            BY <1>5, <2>2 DEF Make, Fill
        <3>2. file'[q] = [file[q] EXCEPT !.part = s] /\ file[q] \in File
            BY <1>1, <3>1 DEF TypeOK
        <3> QED BY <3>2 DEF File
    <2> QED BY <2>1, <2>2
<1>6. CASE Remove(p)
    BY <1>1, <1>6 DEF Remove, TypeOK
<1>7. CASE SetAccess(p) \/ WriteSome(p) \/ WriteRest(p)
    <2>1. pc[p] \in {"access", "write", "some"}
        BY <1>7 DEF SetAccess, WriteSome, WriteRest
    <2>2. LastTemp(p) \in Temp
        BY <1>1, <2>1, LastTempTyped
    <2>3. q # LastTemp(p)
        BY <2>2, NamesAssumption
    <2> QED BY <1>1, <1>7, <2>3 DEF SetAccess, WriteSome, WriteRest, TypeOK
<1>8. ASSUME NEW d \in Draw, CreateTemp(p, d) PROVE file'[q] = file[q]
    <2>1. TempName(p, d) # q
        BY <1>8, TempsDistinct DEF CreateTemp
    <2> QED BY <1>1, <1>8, <2>1 DEF CreateTemp, TypeOK
<1>9. ASSUME \/ \E j \in Jobs, i \in Pid : Start(p, j, i)
             \/ ReadMode(p) \/ Fail(p) \/ RemoveFails(p) \/ Unlock(p) \/ Crash(p)
      PROVE  file'[q] = file[q]
    BY <1>9 DEF Start, ReadMode, Fail, RemoveFails, Unlock, Crash, Ends
<1> QED BY <1>3, <1>4, <1>5, <1>6, <1>7, <1>8, <1>9 DEF Step

\* A document that is replaced stays readable to the same people: the mode is
\* carried into the temp file on Unix, the DACL at the rename on Windows.
THEOREM AccessCarried == Spec => AccessKept
<1>1. FileInv /\ CarryInv /\ [Next]_vars =>
          [\A q \in Path : file[q] # None /\ file'[q] # None =>
              file'[q].access = file[q].access]_vars
    <2> SUFFICES ASSUME FileInv, CarryInv, Next, NEW q \in Path, file[q] # None, file'[q] # None
                 PROVE  file'[q].access = file[q].access
        OBVIOUS
    <2>1. ASSUME NEW l \in Lock, ClearLock(l) PROVE file' = file
        BY <2>1 DEF ClearLock
    <2> QED BY <2>1, StepKeepsAccess DEF Next
<1> QED BY <1>1, CarryInvHolds, PTL DEF Spec, AccessKept

-----------------------------------------------------------------------------
(* Secret texts.                                                           *)

\* A file that shows no secret to others.
Private(f) == f # None /\ f.text \in Secret /\ f.part # "none" => f.access = "private"

LEMMA StepShowsNothing ==
    ASSUME FileInv, SecretInv, ~windows, NEW p \in Proc, Step(p), NEW n \in Name
    PROVE  Private(file'[n])
<1>1. TypeOK /\ TInv /\ SecretCarried(p) /\ \A m \in Name : Private(file[m])
    BY DEF FileInv, TInv, SecretInv, SecretStaysPrivate, Private
<1>2. CASE SetAccess(p) \/ WriteSome(p) \/ WriteRest(p)
    <2>1. PICK f \in File :
              /\ f.text = file[LastTemp(p)].text
              /\ f.part = IF SetAccess(p) THEN "none" ELSE IF WriteSome(p) THEN "some" ELSE "all"
              /\ f.access = IF SetAccess(p) /\ carried[p] # None /\ ~windows
                            THEN carried[p] ELSE file[LastTemp(p)].access
              /\ file' = [file EXCEPT ![LastTemp(p)] = f]
        BY <1>2, FileWritten
    <2>2. pc[p] \in {"access", "write", "some"} /\ Len(temps[p]) = at[p] /\ LastTemp(p) \in Name
        BY <1>1, <1>2, LastTempTyped DEF SetAccess, WriteSome, WriteRest, TInv, TempsCounted
    <2>3. file[LastTemp(p)].text = job[p].changes[at[p]].text
        BY <2>2 DEF FileInv, Prepared, Written, LastTemp
    <2>4. CASE SetAccess(p)
        BY <1>1, <2>1, <2>2, <2>4 DEF Private, TypeOK
    <2>5. CASE WriteSome(p) \/ WriteRest(p)
        <3>1. pc[p] \in {"write", "some"} /\ f.access = file[LastTemp(p)].access
            BY <2>1, <2>5 DEF WriteSome, WriteRest, SetAccess
        <3>2. Private(f)
            BY <1>1, <2>1, <2>3, <3>1 DEF SecretCarried, Private
        <3> QED BY <1>1, <2>1, <2>2, <3>2 DEF TypeOK
    <2> QED BY <1>2, <2>4, <2>5
<1>3. ASSUME NEW from \in Name, NEW to \in Name, from # to, file[from] # None,
             file' = Moved(from, to)
      PROVE  Private(file'[n])
    <2>1. file'[to].access = file[from].access
        BY <1>1, <1>3, MovedFacts DEF AccessAfter
    <2>2. Private(file'[to])
        BY <1>1, <1>3, <2>1, MovedFacts DEF Private
    <2>3. Private(file'[from])
        BY <1>1, <1>3, MovedFacts DEF Private
    <2> QED BY <1>1, <1>3, <2>2, <2>3, MovedFacts
<1>4. CASE Rename(p)
    <2>1. /\ temps[p][at[p]] \in Name /\ Target(p) \in Name /\ temps[p][at[p]] # Target(p)
          /\ file[temps[p][at[p]]] # None /\ file' = Moved(temps[p][at[p]], Target(p))
        BY <1>4, RenameFacts DEF Written
    <2> QED BY <1>3, <2>1
<1>5. CASE MoveDocument(p)
    <2>1. pc[p] = "move" /\ job[p].op = "commit" /\ file' = Moved(job[p].from, job[p].to)
        BY <1>1, <1>5 DEF MoveDocument, TInv, JobFits
    <2>2. /\ job[p].from \in Name /\ job[p].to \in Name /\ job[p].from # job[p].to
          /\ file[job[p].from] # None
        BY <2>1, DocumentsTyped DEF Name
    <2> QED BY <1>3, <2>1, <2>2
<1>6. ASSUME pc[p] \in Making PROVE job[p].path \in Name /\ job[p].text \notin Secret
    <2>1. job[p] \in Jobs /\ job[p].op = "create"
        BY <1>1, <1>6 DEF TInv, JobFits, Making
    <2> QED BY <2>1, JobFacts DEF Name
<1>7. CASE Make(p)
    <2>1. PICK f : f = [text |-> job[p].text, part |-> "none", access |-> Default]
        OBVIOUS
    <2>2. Private(f) /\ file' = [file EXCEPT ![job[p].path] = f]
        BY <1>7, <2>1 DEF Make, Private
    <2> QED BY <1>1, <2>2 DEF TypeOK
<1>8. CASE Fill(p)
    <2>1. PICK s \in {"some", "all"} : file' = [file EXCEPT ![job[p].path].part = s]
        BY <1>8 DEF Fill
    <2>2. /\ job[p].path \in Name /\ job[p].text \notin Secret
          /\ file[job[p].path] \in File /\ file[job[p].path].text = job[p].text
        BY <1>1, <1>6, <1>8 DEF Fill, Making, FileInv, Documents, TypeOK
    <2>3. PICK f : f = [file[job[p].path] EXCEPT !.part = s]
        OBVIOUS
    <2>4. Private(f) /\ file' = [file EXCEPT ![job[p].path] = f]
        BY <1>1, <2>1, <2>2, <2>3 DEF Private, File, TypeOK
    <2> QED BY <1>1, <2>4 DEF TypeOK
<1>9. CASE Remove(p)
    <2>1. file'[n] = None \/ file'[n] = file[n]
        BY <1>1, <1>9 DEF Remove, TypeOK
    <2> QED BY <1>1, <2>1 DEF Private
<1>10. ASSUME NEW d \in Draw, CreateTemp(p, d) PROVE Private(file'[n])
    <2>1. PICK f : f = [text |-> job[p].changes[at[p]].text, part |-> "none", access |-> Default]
        OBVIOUS
    <2>2. Private(f) /\ file' = [file EXCEPT ![TempName(p, d)] = f]
        BY <1>10, <2>1 DEF CreateTemp, Private
    <2> QED BY <1>1, <2>2 DEF TypeOK
<1>11. ASSUME \/ \E j \in Jobs, i \in Pid : Start(p, j, i)
              \/ ReadMode(p) \/ Fail(p) \/ RemoveFails(p) \/ Unlock(p) \/ Crash(p)
       PROVE  file' = file
    BY <1>11 DEF Start, ReadMode, Fail, RemoveFails, Unlock, Crash, Ends
<1> QED BY <1>1, <1>2, <1>4, <1>5, <1>7, <1>8, <1>9, <1>10, <1>11 DEF Step

LEMMA StepCarriesSecret ==
    ASSUME FileInv, SecretInv, ~windows, SecretsReplacePrivate, NEW p \in Proc, Step(p)
    PROVE  SecretCarried(p)'
<1>1. TypeOK /\ TInv /\ SecretCarried(p)
    BY DEF FileInv, TInv, SecretInv
<1>2. CASE ReadMode(p)
    <2>1. /\ pc[p] = "mode" /\ pc'[p] = "temp" /\ UNCHANGED <<job, at>>
          /\ carried'[p] = IF file[Target(p)] = None THEN None ELSE file[Target(p)].access
        BY <1>1, <1>2 DEF ReadMode, Goto, Keep, TypeOK
    <2> QED BY <2>1 DEF SecretCarried, SecretsReplacePrivate
<1>3. ASSUME NEW d \in Draw, CreateTemp(p, d) PROVE SecretCarried(p)'
    <2>1. pc[p] = "temp" /\ pc'[p] = "access" /\ UNCHANGED <<job, at, carried>>
        BY <1>1, <1>3 DEF CreateTemp, Goto, Keep, TypeOK
    <2> QED BY <1>1, <2>1 DEF SecretCarried
<1>4. CASE SetAccess(p) \/ WriteSome(p)
    <2>1. PICK f \in File :
              /\ f.access = IF SetAccess(p) /\ carried[p] # None /\ ~windows
                            THEN carried[p] ELSE file[LastTemp(p)].access
              /\ file' = [file EXCEPT ![LastTemp(p)] = f]
        BY <1>4, FileWritten
    <2>2. /\ pc'[p] \in {"write", "some"} /\ UNCHANGED <<job, at, carried, temps>>
          /\ pc[p] = IF SetAccess(p) THEN "access" ELSE "write"
        BY <1>1, <1>4 DEF SetAccess, WriteSome, Goto, Keep, TypeOK
    <2>3. LastTemp(p)' = LastTemp(p) /\ file'[LastTemp(p)] = f
        BY <1>1, <1>4, <2>1, <2>2, FileWritten DEF LastTemp, TypeOK
    <2>4. "private" # None
        BY NamesAssumption DEF Access
    <2> QED BY <1>1, <2>1, <2>2, <2>3, <2>4 DEF SecretCarried
<1>5. ASSUME \/ \E j \in Jobs, i \in Pid : Start(p, j, i)
             \/ WriteRest(p) \/ Rename(p) \/ MoveDocument(p) \/ Make(p) \/ Fill(p)
             \/ Fail(p) \/ Remove(p) \/ RemoveFails(p) \/ Unlock(p) \/ Crash(p)
      PROVE  SecretCarried(p)'
    <2>1. pc'[p] \notin {"temp", "access", "write", "some"}
        BY <1>1, <1>5 DEF Start, WriteRest, Rename, MoveDocument, Make, Fill, Fail, AfterFailure,
                          Remove, RemoveFails, Unlock, Crash, Ends, Goto, TypeOK
    <2> QED BY <2>1 DEF SecretCarried
<1> QED BY <1>2, <1>3, <1>4, <1>5 DEF Step

LEMMA StepKeepsSecrets ==
    ASSUME FileInv, SecretInv, SecretsReplacePrivate, NEW p \in Proc, Step(p)
    PROVE  SecretInv'
<1> SUFFICES ASSUME ~windows'
             PROVE  SecretStaysPrivate' /\ \A q \in Proc : SecretCarried(q)'
    BY DEF SecretInv
<1>1. ~windows
    BY DEF Step, Start, Keep, ReadMode, CreateTemp, SetAccess, WriteSome, WriteRest, Rename,
           MoveDocument, Make, Fill, Fail, Remove, RemoveFails, Unlock, Crash, Ends
<1>2. SecretStaysPrivate'
    BY <1>1, StepShowsNothing DEF SecretStaysPrivate, Private
<1>3. ASSUME NEW q \in Proc, q # p PROVE SecretCarried(q)'
    <2>1. /\ pc'[q] = pc[q] /\ job'[q] = job[q] /\ at'[q] = at[q] /\ carried'[q] = carried[q]
          /\ temps'[q] = temps[q]
          /\ pc[q] # "idle" =>
                \A i \in 1..Len(temps[q]) : file'[temps[q][i]] = file[temps[q][i]]
        BY <1>3, OthersStay
    <2>2. SecretCarried(q) /\ TInv
        BY <1>1 DEF SecretInv, FileInv
    <2>3. pc[q] \in {"write", "some"} => LastTemp(q)' = LastTemp(q)
                                        /\ file'[LastTemp(q)] = file[LastTemp(q)]
        BY <2>1, <2>2, LastTempTyped DEF LastTemp
    <2> QED BY <2>1, <2>2, <2>3 DEF SecretCarried
<1> QED BY <1>1, <1>2, <1>3, StepCarriesSecret

\* On Unix a secret text is never where others may read it, in a document or in
\* any temp file, provided that such a text is only written over documents that
\* are private: what a file may show is settled before a byte is in it.
THEOREM SecretsKept == Spec /\ []SecretsReplacePrivate => []SecretStaysPrivate
<1>1. Init => SecretInv
    <2> SUFFICES ASSUME Init PROVE SecretInv
        OBVIOUS
    <2>1. PICK f \in Initial : file = [n \in Name |-> IF n \in Path THEN f[n] ELSE None]
        BY DEF Init
    <2>2. SecretStaysPrivate
        BY <2>1, SecretAssumption DEF SecretStaysPrivate, Name
    <2> QED BY <2>2 DEF Init, SecretInv, SecretCarried
<1>2. FileInv /\ SecretInv /\ SecretsReplacePrivate /\ [Next]_vars => SecretInv'
    <2> SUFFICES ASSUME FileInv, SecretInv, SecretsReplacePrivate, [Next]_vars
                 PROVE  SecretInv'
        OBVIOUS
    <2>1. CASE (\E l \in Lock : ClearLock(l)) \/ UNCHANGED vars
        <3>1. UNCHANGED <<file, procVars, windows>>
            BY <2>1 DEF ClearLock, vars
        <3> QED BY <3>1 DEF SecretInv, SecretStaysPrivate, SecretCarried, procVars, LastTemp
    <2> QED BY <2>1, StepKeepsSecrets DEF Next
<1>3. SecretInv => SecretStaysPrivate
    BY DEF SecretInv, SecretStaysPrivate
<1> QED BY <1>1, <1>2, <1>3, FileInvHolds, PTL DEF Spec

\* The documents that a secret text is written over.
SecretPaths == {q \in Path :
    \E j \in Jobs : j.op # "create" /\
        \E i \in 1..Len(j.changes) : j.changes[i].path = q /\ j.changes[i].text \in Secret}

\* They are private to start with, and no job makes or moves them.
SecretsStay ==
    /\ \A f \in Initial, q \in SecretPaths : f[q] # None /\ f[q].access = "private"
    /\ \A j \in Jobs : /\ j.op = "create" => j.path \notin SecretPaths
                       /\ j.op = "commit" => j.from \notin SecretPaths

\* On Unix a secret text is never where others may read it, in a document or in
\* any temp file, if the documents that such texts are written over are private
\* to start with and no job makes or moves them.
THEOREM SecretsKeptInPlace == SecretsStay => (Spec => []SecretStaysPrivate)
<1> DEFINE There == \A q \in SecretPaths : file[q] # None /\ file[q].access = "private"
<1> SUFFICES ASSUME SecretsStay PROVE Spec => []SecretStaysPrivate
    OBVIOUS
<1>1. Init => There
    <2> SUFFICES ASSUME Init PROVE There
        OBVIOUS
    <2>1. PICK f \in Initial : file = [n \in Name |-> IF n \in Path THEN f[n] ELSE None]
        BY DEF Init
    <2> QED BY <2>1 DEF SecretsStay, SecretPaths, Name
<1>2. FileInv /\ CarryInv /\ There /\ [Next]_vars => There'
    <2> SUFFICES ASSUME FileInv, CarryInv, There, [Next]_vars, NEW q \in SecretPaths
                 PROVE  file'[q] # None /\ file'[q].access = "private"
        OBVIOUS
    <2>1. q \in Path /\ q \in Name /\ file[q] # None /\ file[q].access = "private"
        BY DEF SecretPaths, Name
    <2>2. CASE (\E l \in Lock : ClearLock(l)) \/ UNCHANGED vars
        BY <2>1, <2>2 DEF ClearLock, vars
    <2>3. ASSUME NEW p \in Proc, Step(p), file'[q] = None PROVE FALSE
        <3>1. TypeOK /\ TInv
            BY DEF FileInv, TInv
        <3>2. CASE Rename(p)
            <4>1. /\ temps[p][at[p]] \in Name /\ temps[p][at[p]] \notin Path /\ Target(p) \in Name
                  /\ temps[p][at[p]] # Target(p) /\ file[temps[p][at[p]]] # None
                  /\ file' = Moved(temps[p][at[p]], Target(p))
                BY <3>2, RenameFacts DEF Written
            <4> QED BY <2>1, <2>3, <3>1, <4>1, MovedFacts, NamesAssumption
        <3>3. CASE MoveDocument(p)
            <4>1. /\ pc[p] = "move" /\ job[p] \in Jobs /\ job[p].op = "commit"
                  /\ file' = Moved(job[p].from, job[p].to)
                BY <3>1, <3>3 DEF MoveDocument, TInv, JobFits
            <4>2. /\ job[p].from \in Name /\ job[p].to \in Name /\ job[p].from # job[p].to
                  /\ file[job[p].from] # None /\ q # job[p].from
                BY <4>1, DocumentsTyped DEF Name, SecretsStay
            <4> QED BY <2>1, <2>3, <3>1, <4>1, <4>2, MovedFacts, NamesAssumption
        <3>4. CASE Make(p) \/ Fill(p) \/ Remove(p)
            <4>1. CASE pc[p] = "tidy"
                <5>1. LastTemp(p) # q
                    BY <2>1, <3>1, <4>1, LastTempTyped, NamesAssumption
                <5> QED BY <2>1, <2>3, <3>1, <3>4, <4>1, <5>1 DEF Make, Fill, Remove, TypeOK
            <4>2. CASE pc[p] # "tidy"
                <5>1. pc[p] \in Making
                    BY <3>4, <4>2 DEF Make, Fill, Remove, Making
                <5>2. job[p] \in Jobs /\ job[p].op = "create"
                    BY <3>1, <5>1 DEF TInv, JobFits, Making
                <5>3. job[p].path # q
                    BY <5>2 DEF SecretsStay
                <5> QED BY <2>1, <2>3, <3>1, <3>4, <4>2, <5>3 DEF Make, Fill, Remove, TypeOK
            <4> QED BY <4>1, <4>2
        <3>5. CASE SetAccess(p) \/ WriteSome(p) \/ WriteRest(p)
            <4>1. pc[p] \in {"access", "write", "some"}
                BY <3>5 DEF SetAccess, WriteSome, WriteRest
            <4>2. q # LastTemp(p)
                BY <2>1, <3>1, <4>1, LastTempTyped, NamesAssumption
            <4> QED BY <2>1, <2>3, <3>1, <3>5, <4>2 DEF SetAccess, WriteSome, WriteRest, TypeOK
        <3>6. ASSUME NEW d \in Draw, CreateTemp(p, d) PROVE FALSE
            <4>1. TempName(p, d) # q
                BY <2>1, <3>6, TempsDistinct DEF CreateTemp
            <4> QED BY <2>1, <2>3, <3>1, <3>6, <4>1 DEF CreateTemp, TypeOK
        <3>7. ASSUME \/ \E j \in Jobs, i \in Pid : Start(p, j, i)
                     \/ ReadMode(p) \/ Fail(p) \/ RemoveFails(p) \/ Unlock(p) \/ Crash(p)
              PROVE  file' = file
            BY <3>7 DEF Start, ReadMode, Fail, RemoveFails, Unlock, Crash, Ends
        <3> QED BY <2>1, <2>3, <3>2, <3>3, <3>4, <3>5, <3>6, <3>7 DEF Step
    <2> QED BY <2>1, <2>2, <2>3, StepKeepsAccess DEF Next
<1>3. FileInv /\ There => SecretsReplacePrivate
    <2> SUFFICES ASSUME FileInv, There, NEW p \in Proc, pc[p] = "mode",
                        job[p].changes[at[p]].text \in Secret
                 PROVE  file[Target(p)] # None /\ file[Target(p)].access = "private"
        BY DEF SecretsReplacePrivate
    <2>1. /\ job[p] \in Jobs /\ job[p].op # "create" /\ at[p] \in 1..Changes(p) /\ Target(p) \in Path
        BY ChangeTyped DEF FileInv, Changing
    <2>2. Target(p) \in SecretPaths
        BY <2>1 DEF SecretPaths, Target, Changes
    <2> QED BY <2>2
<1> HIDE DEF There
<1> QED BY <1>1, <1>2, <1>3, CarryInvHolds, SecretsKept, PTL DEF Spec

-----------------------------------------------------------------------------
(* The documents as a reader sees them.                                    *)

Seen == [q \in Path |-> ValueOf(q)]

LEMMA ValueFacts ==
    ASSUME TInv, NEW q \in Path
    PROVE  /\ ValueOf(q) \in Version \cup {None, "torn"}
           /\ ValueOf(q) = None <=> file[q] = None
           /\ file[q] # None /\ file[q].part = "all" => ValueOf(q) = file[q].text
           /\ file[q] # None /\ file[q].part # "all" => ValueOf(q) = "torn"
<1>1. file[q] \in File \cup {None}
    BY DEF TInv, TypeOK, Name
<1> QED BY <1>1, NamesAssumption DEF ValueOf, Whole, File

\* A file's value follows from what is in it.
LEMMA SameValue ==
    ASSUME NEW q \in Path, file'[q] = file[q]
    PROVE  ValueOf(q)' = ValueOf(q)
BY DEF ValueOf, Whole

LEMMA OthersSame ==
    ASSUME NEW q \in Path, \A r \in Path : r # q => file'[r] = file[r]
    PROVE  Seen' = [Seen EXCEPT ![q] = ValueOf(q)']
<1>1. \A r \in Path : r # q => ValueOf(r)' = ValueOf(r)
    BY SameValue
<1> QED BY <1>1 DEF Seen

LEMMA StepRefines ==
    ASSUME FileInv, NEW p \in Proc, Step(p), TInv'
    PROVE  Store!Next \/ Seen' = Seen
<1>1. TypeOK /\ TInv /\ Path \subseteq Name
    BY DEF FileInv, TInv, Name
<1>2. ASSUME \A q \in Path : file'[q] = file[q] PROVE Seen' = Seen
    BY <1>2, SameValue DEF Seen
<1>3. CASE Rename(p)
    <2>1. PICK from, to : from = temps[p][at[p]] /\ to = Target(p)
        OBVIOUS
    <2>2. /\ from \in Name /\ from \notin Path /\ to \in Name /\ to \in Path
          /\ file[from] # None /\ file[from].part = "all" /\ file' = Moved(from, to)
        BY <1>3, <2>1, RenameFacts DEF Written
    <2>3. /\ file'[to] # None /\ file'[to].part = "all" /\ file'[to].text \in Version
          /\ \A r \in Path : r # to => file'[r] = file[r]
        BY <1>1, <2>2, MovedFacts, NamesAssumption DEF File
    <2>4. ValueOf(to)' \in Version
        BY <2>2, <2>3 DEF ValueOf, Whole
    <2>5. Seen' = [Seen EXCEPT ![to] = ValueOf(to)']
        BY <2>2, <2>3, OthersSame
    <2>6. Store!Replace(to, ValueOf(to)')
        BY <2>5 DEF Store!Replace, Seen
    <2> QED BY <2>2, <2>4, <2>6 DEF Store!Next
<1>4. CASE MoveDocument(p)
    <2>1. PICK from, to : from = job[p].from /\ to = job[p].to
        OBVIOUS
    <2>2. /\ from \in Path /\ to \in Path /\ from # to /\ file[from] # None /\ file[to] = None
          /\ file' = Moved(from, to)
        <3>1. pc[p] = "move" /\ job[p].op = "commit"
            BY <1>1, <1>4 DEF MoveDocument, TInv, JobFits
        <3> QED BY <1>4, <2>1, <3>1, DocumentsTyped DEF MoveDocument
    <2>3. /\ file'[from] = None /\ file'[to] # None
          /\ file'[to].text = file[from].text /\ file'[to].part = file[from].part
          /\ \A r \in Path : r # to /\ r # from => file'[r] = file[r]
        BY <1>1, <2>2, MovedFacts, NamesAssumption
    <2>4. ValueOf(from)' = None /\ ValueOf(to)' = ValueOf(from)
        BY <2>2, <2>3 DEF ValueOf, Whole
    <2>5. \A r \in Path : r # to /\ r # from => ValueOf(r)' = ValueOf(r)
        BY <2>3, SameValue
    <2>6. Seen' = [Seen EXCEPT ![to] = Seen[from], ![from] = None]
        BY <2>2, <2>4, <2>5 DEF Seen
    <2>7. Seen[from] # None /\ Seen[to] = None
        BY <1>1, <2>2, ValueFacts DEF Seen
    <2>8. Store!Move(from, to)
        BY <2>6, <2>7 DEF Store!Move, Seen
    <2> QED BY <2>2, <2>8 DEF Store!Next
<1>5. ASSUME pc[p] \in Making PROVE job[p].path \in Path /\ job[p].text \in Version
    <2>1. job[p] \in Jobs /\ job[p].op = "create"
        BY <1>1, <1>5 DEF TInv, JobFits, Making
    <2> QED BY <2>1, JobFacts
<1>6. CASE Make(p)
    <2>1. PICK q, f : q = job[p].path
                      /\ f = [text |-> job[p].text, part |-> "none", access |-> Default]
        OBVIOUS
    <2>2. /\ q \in Path /\ file[q] = None /\ file' = [file EXCEPT ![q] = f]
          /\ f \in File /\ f # None /\ f.part = "none"
        BY <1>5, <1>6, <2>1, FileTyped, NamesAssumption DEF Make, Making
    <2>3. file'[q] = f /\ \A r \in Path : r # q => file'[r] = file[r]
        BY <1>1, <2>2 DEF TypeOK
    <2>4. ValueOf(q)' = "torn"
        BY <2>2, <2>3 DEF ValueOf, Whole
    <2>5. Seen' = [Seen EXCEPT ![q] = "torn"] /\ Seen[q] = None
        BY <2>2, <2>3, <2>4, OthersSame DEF Seen, ValueOf
    <2>6. Store!Begin(q)
        BY <2>5 DEF Store!Begin, Seen
    <2> QED BY <2>2, <2>6 DEF Store!Next
<1>7. CASE Fill(p)
    <2>1. PICK q, s : q = job[p].path /\ s = IF pc[p] = "fill" THEN "some" ELSE "all"
        OBVIOUS
    <2>2. /\ q \in Path /\ file[q] \in File /\ file[q].text \in Version /\ file[q].part # "all"
          /\ file' = [file EXCEPT ![q].part = s]
        BY <1>1, <1>5, <1>7, <2>1 DEF Fill, Making, FileInv, Documents, TypeOK
    <2>3. file'[q] = [file[q] EXCEPT !.part = s] /\ \A r \in Path : r # q => file'[r] = file[r]
        BY <1>1, <2>2 DEF TypeOK
    <2>4. file'[q].part = s /\ file'[q].text \in Version /\ file'[q] \in File
        BY <2>1, <2>2, <2>3, FileTyped DEF File
    <2>5. file'[q] # None /\ file[q] # None
        BY <2>2, <2>4, NamesAssumption
    <2>6. Seen' = [Seen EXCEPT ![q] = ValueOf(q)']
        BY <2>2, <2>3, OthersSame
    <2>7. CASE s = "all"
        <3>1. ValueOf(q)' \in Version
            BY <2>4, <2>5, <2>7 DEF ValueOf, Whole
        <3>2. Store!Replace(q, ValueOf(q)')
            BY <2>6 DEF Store!Replace, Seen
        <3> QED BY <2>2, <3>1, <3>2 DEF Store!Next
    <2>8. CASE s = "some"
        <3>1. ValueOf(q)' = "torn" /\ ValueOf(q) = "torn"
            BY <2>2, <2>4, <2>5, <2>8 DEF ValueOf, Whole
        <3> QED BY <2>2, <2>6, <3>1 DEF Seen
    <2> QED BY <2>1, <2>7, <2>8
<1>8. CASE Remove(p)
    <2>1. CASE pc[p] = "tidy"
        <3>1. LastTemp(p) \notin Path
            BY <1>1, <2>1, LastTempTyped, NamesAssumption
        <3> QED BY <1>1, <1>2, <1>8, <2>1, <3>1 DEF Remove, TypeOK
    <2>2. CASE pc[p] = "undo"
        <3>1. PICK q : q = job[p].path
            OBVIOUS
        <3>2. /\ q \in Path /\ file[q] # None /\ file[q].part # "all"
              /\ file' = [file EXCEPT ![q] = None]
            BY <1>5, <1>8, <2>2, <3>1 DEF Remove, Making, FileInv, Documents
        <3>3. file'[q] = None /\ \A r \in Path : r # q => file'[r] = file[r]
            BY <1>1, <3>2 DEF TypeOK
        <3>4. ValueOf(q)' = None /\ ValueOf(q) = "torn"
            BY <3>2, <3>3 DEF ValueOf, Whole
        <3>5. Seen' = [Seen EXCEPT ![q] = None] /\ Seen[q] = "torn"
            BY <3>2, <3>3, <3>4, OthersSame DEF Seen
        <3>6. Store!Undo(q)
            BY <3>5 DEF Store!Undo, Seen
        <3> QED BY <3>2, <3>6 DEF Store!Next
    <2> QED BY <1>8, <2>1, <2>2 DEF Remove
<1>9. CASE SetAccess(p) \/ WriteSome(p) \/ WriteRest(p)
    <2>1. pc[p] \in {"access", "write", "some"}
        BY <1>9 DEF SetAccess, WriteSome, WriteRest
    <2>2. LastTemp(p) \notin Path
        BY <1>1, <2>1, LastTempTyped, NamesAssumption
    <2> QED BY <1>1, <1>2, <1>9, <2>2 DEF SetAccess, WriteSome, WriteRest, TypeOK
<1>10. ASSUME NEW d \in Draw, CreateTemp(p, d) PROVE Seen' = Seen
    <2>1. TempName(p, d) \notin Path
        BY <1>10, TempsDistinct DEF CreateTemp
    <2> QED BY <1>1, <1>2, <1>10, <2>1 DEF CreateTemp, TypeOK
<1>11. ASSUME \/ \E j \in Jobs, i \in Pid : Start(p, j, i)
              \/ ReadMode(p) \/ Fail(p) \/ RemoveFails(p) \/ Unlock(p) \/ Crash(p)
       PROVE  file' = file
    BY <1>11 DEF Start, ReadMode, Fail, RemoveFails, Unlock, Crash, Ends
<1> QED BY <1>2, <1>3, <1>4, <1>6, <1>7, <1>8, <1>9, <1>10, <1>11 DEF Step

\* The documents change as FileStore says, on both platforms, through failures
\* and kills: one that was there goes from a whole text to a whole text.
THEOREM StoreImplemented == Spec => ImplementsFileStore
<1>1. Init => Store!Init
    <2> SUFFICES ASSUME Init PROVE Store!Init
        OBVIOUS
    <2>1. PICK f \in Initial : file = [n \in Name |-> IF n \in Path THEN f[n] ELSE None]
        BY DEF Init
    <2>2. \A q \in Path : file[q] = f[q] /\ f[q] \in File \cup {None}
                          /\ (f[q] # None => f[q].part = "all")
        BY <2>1, InitialAssumption DEF Name
    <2>3. \A q \in Path : ValueOf(q) \in Version \cup {None}
        BY <2>2 DEF ValueOf, Whole, File
    <2> QED BY <2>3 DEF Store!Init
<1>2. FileInv /\ FileInv' /\ [Next]_vars => [Store!Next]_([q \in Path |-> ValueOf(q)])
    <2> SUFFICES ASSUME FileInv, FileInv', [Next]_vars PROVE Store!Next \/ Seen' = Seen
        BY DEF Seen
    <2>1. CASE (\E l \in Lock : ClearLock(l)) \/ UNCHANGED vars
        <3>1. file' = file
            BY <2>1 DEF ClearLock, vars
        <3> QED BY <3>1, SameValue DEF Seen
    <2>2. TInv'
        BY DEF FileInv
    <2> QED BY <2>1, <2>2, StepRefines DEF Next
<1> QED BY <1>1, <1>2, FileInvHolds, PTL DEF Spec, ImplementsFileStore, Store!Spec
=============================================================================
