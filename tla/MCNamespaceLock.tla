-------------------------- MODULE MCNamespaceLock --------------------------
(* NamespaceLock for TLC: processes on two machines that know their names, *)
(* and two lock files.                                                     *)
EXTENDS NamespaceLock, TLC

CONSTANTS p1, p2, p3, l1, l2, here, there

MCRank == (l1 :> 1 @@ l2 :> 2)

\* One namespace or the two of them; and, for the longest of the runs, no
\* command that takes the first lock alone.
AnyWanted == SUBSET Lock \ {{}}
SomeWanted == {{l2}, {l1, l2}}

\* p1 and p2 share a machine, p3 is on another one.
MCHostName == [p \in Proc |-> IF p = p3 THEN there ELSE here]
=============================================================================
