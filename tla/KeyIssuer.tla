----------------------------- MODULE KeyIssuer -----------------------------
(***************************************************************************)
(* What numbering promises (SPC-8), without files, locks or processes: a   *)
(* namespace claims a number above every number it has claimed before, and *)
(* a claimed number goes to one document or to none.                       *)
(***************************************************************************)
EXTENDS Naturals

CONSTANTS
    Namespace,
    Number     \* the numbers there are, a set of natural numbers

VARIABLES
    top,      \* the highest number claimed, or recorded to begin with
    claimed,  \* numbers claimed and not yet used or given up
    issued    \* numbers that went to a document

vars == <<top, claimed, issued>>

Init ==
    /\ top \in [Namespace -> Number]
    /\ claimed = [ns \in Namespace |-> {}]
    /\ issued = [ns \in Namespace |-> {}]

Claim(ns, n) ==
    /\ n > top[ns]
    /\ top' = [top EXCEPT ![ns] = n]
    /\ claimed' = [claimed EXCEPT ![ns] = @ \cup {n}]
    /\ UNCHANGED issued

Issue(ns, n) ==
    /\ n \in claimed[ns]
    /\ claimed' = [claimed EXCEPT ![ns] = @ \ {n}]
    /\ issued' = [issued EXCEPT ![ns] = @ \cup {n}]
    /\ UNCHANGED top

Skip(ns, n) ==
    /\ n \in claimed[ns]
    /\ claimed' = [claimed EXCEPT ![ns] = @ \ {n}]
    /\ UNCHANGED <<top, issued>>

Next == \E ns \in Namespace :
    \/ \E n \in Number : Claim(ns, n)
    \/ \E n \in claimed[ns] : Issue(ns, n) \/ Skip(ns, n)

Spec == Init /\ [][Next]_vars
=============================================================================
