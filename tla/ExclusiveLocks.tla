--------------------------- MODULE ExclusiveLocks ---------------------------
(***************************************************************************)
(* What the lock files promise, without files: a lock is free, held by one *)
(* process, or abandoned by one that ended while holding it. A process is  *)
(* inside a set of locks only while it holds every one of them.            *)
(***************************************************************************)
CONSTANTS Proc, Lock

VARIABLES
    holder,  \* "free", "abandoned" or the process that holds each lock
    inside   \* the locks each process is working under

vars == <<holder, inside>>

Init ==
    /\ holder = [l \in Lock |-> "free"]
    /\ inside = [p \in Proc |-> {}]

Grab(p, l) ==
    /\ holder[l] = "free"
    /\ holder' = [holder EXCEPT ![l] = p]
    /\ UNCHANGED inside

Enter(p, L) ==
    /\ inside[p] = {}
    /\ \A l \in L : holder[l] = p
    /\ inside' = [inside EXCEPT ![p] = L]
    /\ UNCHANGED holder

Leave(p) ==
    /\ inside' = [inside EXCEPT ![p] = {}]
    /\ UNCHANGED holder

GiveBack(p, l) ==
    /\ holder[l] = p
    /\ l \notin inside[p]
    /\ holder' = [holder EXCEPT ![l] = "free"]
    /\ UNCHANGED inside

Abandon(p) ==
    /\ holder' = [l \in Lock |-> IF holder[l] = p THEN "abandoned" ELSE holder[l]]
    /\ inside' = [inside EXCEPT ![p] = {}]

Clear(l) ==
    /\ holder[l] = "abandoned"
    /\ holder' = [holder EXCEPT ![l] = "free"]
    /\ UNCHANGED inside

Next ==
    \/ \E p \in Proc, l \in Lock : Grab(p, l) \/ GiveBack(p, l)
    \/ \E p \in Proc, L \in SUBSET Lock : Enter(p, L)
    \/ \E p \in Proc : Leave(p) \/ Abandon(p)
    \/ \E l \in Lock : Clear(l)

Spec == Init /\ [][Next]_vars
=============================================================================
