---------------------------- MODULE MCNumbering ----------------------------
(* Numbering for TLC.                                                      *)
EXTENDS Numbering, TLC

CONSTANTS p1, p2, a, b, d1, d2, plain

\* Every file is named by its key alone, so that two documents under one key
\* would meet at one path.
MCSlugOf == [d \in Doc |-> plain]

RunSymmetry == Permutations(Proc) \cup Permutations(Doc) \cup Permutations(Namespace)
=============================================================================
