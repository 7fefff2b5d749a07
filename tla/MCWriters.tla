----------------------------- MODULE MCWriters -----------------------------
(* Writers for TLC: two namespaces with two paths each, and a place for    *)
(* coded documents.                                                        *)
EXTENDS Writers, TLC

CONSTANTS p1, p2, a, b, a1, a2, b1, b2, k1, k2, k3, open, done

MCNsOf == a1 :> a @@ a2 :> a @@ b1 :> b @@ b2 :> b @@ k1 :> a @@ k2 :> b @@ k3 :> b
MCRank == a1 :> 1 @@ a2 :> 2 @@ b1 :> 3 @@ b2 :> 4 @@ k1 :> 5 @@ k2 :> 6 @@ k3 :> 7

Doc(d, refs, link) == [doc |-> d, status |-> open, refs |-> refs, link |-> link, moves |-> <<>>]
Files(some) == some @@ [q \in Path |-> None]

Set(q, v) == [op |-> "set", path |-> q, field |-> "status", value |-> v, when |-> None]
SetIf(q, v, w) == [op |-> "set", path |-> q, field |-> "status", value |-> v, when |-> w]
New(q) == [op |-> "new", path |-> q]
Mv(q, r) == [op |-> "mv", path |-> q, to |-> r]
Renumber(q, ns) == [op |-> "renumber", path |-> q, ns |-> ns]

\* The document that moves has a holder in the other namespace, also where both
\* ends of the move are in one, or moves itself with a ref, or has a holder that
\* holds refs to two documents; a coded document has a holder too.
Lists == {Files(a1 :> Doc(a1, {}, None) @@ b1 :> Doc(b1, {a1, k1}, None) @@ k1 :> Doc(k1, {}, None)),
          Files(a1 :> Doc(a1, {b1}, None) @@ a2 :> Doc(a2, {a1, b1}, None) @@ b1 :> Doc(b1, {}, None))}
Both == {Files(a1 :> Doc(a1, {}, None) @@ a2 :> Doc(a2, {b1, a1}, None) @@ b1 :> Doc(b1, {a1}, a1))}
Selfish == {Files(a1 :> Doc(a1, {a1}, None))}
CodedFiles == {Files(k1 :> Doc(k1, {}, None) @@ a2 :> Doc(a2, {k1}, None))}
Apart == {Files(a1 :> Doc(a1, {}, None) @@ b1 :> Doc(b1, {}, None))}

\* A conditional `set` of the moved document and of a holder, two moves that
\* want one destination, a `new` and a `set` there, and a coded document that
\* changes its namespace.
EveryCommand == {SetIf(a1, done, open), SetIf(b1, done, open), Mv(a1, b2), Mv(b1, b2),
                 New(b2), SetIf(b2, done, open), Renumber(k1, b)}
OneMove == {Mv(a1, b2)}
MoveAndSet == {Mv(a1, b2), Set(a1, done)}
OneRenumber == {Renumber(k1, b)}
=============================================================================
