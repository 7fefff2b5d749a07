--------------------------- MODULE MCAtomicWrite ---------------------------
(* AtomicWrite for TLC: a private document q1, one that others may read, a *)
(* place for a new one, a loose file under another lock, and a state file  *)
(* that is not there yet.                                                  *)
EXTENDS AtomicWrite, TLC

CONSTANTS p1, p2, q1, q2, q3, q4, q5, docs, loose, v1, v2, v3, v4

MCLockOf == q1 :> docs @@ q2 :> docs @@ q3 :> docs @@ q4 :> loose @@ q5 :> docs

Held(v, a) == [text |-> v, part |-> "all", access |-> a]
MCInitial == {q1 :> Held(v1, "private") @@ q2 :> Held(v2, "shared")
                 @@ q3 :> None @@ q4 :> Held(v2, "shared") @@ q5 :> None}

To(q, v) == [path |-> q, text |-> v]
\* `set` of the private document, of the loose file, the state file's first
\* write, a `new`, and a move with two changes.
MCJobs == {[op |-> "replace", changes |-> <<To(q1, v3)>>],
           [op |-> "replace", changes |-> <<To(q4, v4)>>],
           [op |-> "replace", changes |-> <<To(q5, v2)>>],
           [op |-> "create", path |-> q3, text |-> v4],
           [op |-> "commit", changes |-> <<To(q1, v3), To(q2, v4)>>, from |-> q2, to |-> q3]}
=============================================================================
