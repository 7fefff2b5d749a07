----------------------------- MODULE FileStore -----------------------------
(***************************************************************************)
(* What the functions of fs.rs promise of the documents: one that is there *)
(* goes from one whole text to the next or moves as a whole, a new one is  *)
(* put where nothing was, and only that one may be seen, and be left, half *)
(* written.                                                                *)
(***************************************************************************)
CONSTANTS Path, Version, None, Torn

VARIABLE value  \* what a reader of each path gets: None, Torn or a version

Init == value \in [Path -> Version \cup {None}]

Replace(q, v) == value' = [value EXCEPT ![q] = v]

Begin(q) ==
    /\ value[q] = None
    /\ value' = [value EXCEPT ![q] = Torn]

Undo(q) ==
    /\ value[q] = Torn
    /\ value' = [value EXCEPT ![q] = None]

Move(q, r) ==
    /\ value[q] # None /\ value[r] = None
    /\ value' = [value EXCEPT ![r] = value[q], ![q] = None]

Next ==
    \/ \E q \in Path, v \in Version : Replace(q, v)
    \/ \E q \in Path : Begin(q) \/ Undo(q)
    \/ \E q, r \in Path : Move(q, r)

Spec == Init /\ [][Next]_value
=============================================================================
