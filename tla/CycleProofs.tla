----------------------------- MODULE CycleProofs -----------------------------
(***************************************************************************)
(* Proofs about the refs of a project, for any project: no command closes  *)
(* a loop of `acyclic` refs (CommandsFormNoCycle of Checking), and refs,   *)
(* validate and mv never differ on one ref (ReportsAgree).                 *)
(*                                                                         *)
(* Loops: the search for cycles finds a ring wherever there is one         *)
(* (SearchFinds). Where a write closes a loop, every ring goes through the *)
(* document that is written; so the ring the search finds does, and        *)
(* refuses the write.                                                      *)
(*                                                                         *)
(* Reports: every finding of an audit is traced to the field, the link,    *)
(* the definition or the mention it is about (the lemmas on the checks),   *)
(* and every ref to the finding that it must have. The one thing that      *)
(* depends on the steps is that the bodies on disk are bodies.             *)
(***************************************************************************)
EXTENDS Checking, TLAPS, FiniteSetTheorems, SequenceTheorems, WellFoundedInduction

-----------------------------------------------------------------------------
(* Induction over the numbers, with the property as a set.                 *)

LEMMA LeastNat ==
    ASSUME NEW T, T \subseteq Nat, T # {}
    PROVE  \E m \in T : \A k \in T : m <= k
<1> DEFINE R == OpToRel(<, Nat)
<1>1. IsWellFoundedOn(R, Nat)
  BY NatLessThanWellFounded
<1>2. \A x, y \in Nat : <<y, x>> \in R <=> y < x
  BY DEF OpToRel
<1> HIDE DEF R
<1>3. PICK x \in T : \A y \in T : ~(<<y, x>> \in R)
  BY <1>1, WFMin, Zenon
<1>4. ASSUME NEW y \in T PROVE x <= y
  <2>1. ~(<<y, x>> \in R)
    BY <1>3
  <2>2. x \in Nat /\ y \in Nat
    BY <1>4
  <2>3. ~(y < x)
    BY <1>2, <2>1, <2>2
  <2> QED
    BY <2>2, <2>3
<1> QED
  BY <1>4

LEMMA ByNat ==
    ASSUME NEW S, 0 \in S, \A n \in Nat : n \in S => n + 1 \in S
    PROVE  Nat \subseteq S
<1> SUFFICES ASSUME Nat \ S # {} PROVE FALSE
  OBVIOUS
<1>1. PICK m \in Nat \ S : \A k \in Nat \ S : m <= k
  BY LeastNat
<1>2. m - 1 \in Nat /\ m - 1 \in S
  BY <1>1
<1> QED
  BY <1>1, <1>2

LEMMA MinNat ==
    ASSUME NEW T, T \subseteq Nat, T # {}
    PROVE  Min(T) \in T /\ \A k \in T : Min(T) <= k
BY LeastNat DEF Min

-----------------------------------------------------------------------------
(* The order of texts, and the first of some.                              *)

Texts_ == Seq(ToSet(Alphabet))

LEMMA ByteFacts ==
    /\ \A c \in ToSet(Alphabet) : Byte[c] \in Nat
    /\ \A c, d \in ToSet(Alphabet) : Byte[c] = Byte[d] => c = d
<1>1. ASSUME NEW c \in ToSet(Alphabet) PROVE Byte[c] \in 1 .. Len(Alphabet) /\ Alphabet[Byte[c]] = c
  <2> DEFINE I == {i \in 1 .. Len(Alphabet) : Alphabet[i] = c}
  <2>1. Len(Alphabet) \in Nat /\ DOMAIN Alphabet = 1 .. Len(Alphabet)
    BY PathAssumption, LenProperties
  <2>2. I # {} /\ I \subseteq Nat
    BY <2>1 DEF ToSet
  <2>3. Byte[c] = Min(I)
    BY <2>2 DEF Byte, SelectInSeq
  <2>4. Min(I) \in I
    BY <2>2, MinNat
  <2> QED
    BY <2>3, <2>4
<1> QED
  BY <1>1

\* Two texts part after n characters, and the first of them is before the second.
PartAfter(n, a, b) ==
    /\ n <= Len(a) /\ n <= Len(b)
    /\ \A i \in 1 .. n : a[i] = b[i]
    /\ \/ n = Len(a) /\ n < Len(b)
       \/ n < Len(a) /\ n < Len(b) /\ Byte[a[n + 1]] < Byte[b[n + 1]]

LEMMA BeforeParts ==
    ASSUME NEW a \in Texts_, NEW b \in Texts_
    PROVE  TextBefore(a, b) <=> \E n \in Nat : PartAfter(n, a, b)
<1> DEFINE shorter == IF Len(a) <= Len(b) THEN Len(a) ELSE Len(b)
           differ == {i \in 1 .. Min({Len(a), Len(b)}) : a[i] # b[i]}
<1>1. Len(a) \in Nat /\ Len(b) \in Nat
  BY LenProperties DEF Texts_
<1>2. Min({Len(a), Len(b)}) = shorter
  <2>1. Min({Len(a), Len(b)}) \in {Len(a), Len(b)} /\ \A k \in {Len(a), Len(b)} : Min({Len(a), Len(b)}) <= k
    BY <1>1, MinNat
  <2> QED
    BY <1>1, <2>1
<1>3. TextBefore(a, b) <=> IF differ = {} THEN Len(a) < Len(b) ELSE Byte[a[Min(differ)]] < Byte[b[Min(differ)]]
  BY DEF TextBefore
<1>4. differ = {i \in 1 .. shorter : a[i] # b[i]}
  BY <1>2
<1>5. \A i \in 1 .. Len(a) : a[i] \in ToSet(Alphabet) /\ Byte[a[i]] \in Nat
  BY ByteFacts, ElementOfSeq DEF Texts_
<1>6. \A i \in 1 .. Len(b) : b[i] \in ToSet(Alphabet) /\ Byte[b[i]] \in Nat
  BY ByteFacts, ElementOfSeq DEF Texts_
<1> HIDE DEF differ
<1>7. CASE differ = {}
  <2>1. \A i \in 1 .. shorter : a[i] = b[i]
    BY <1>4, <1>7
  <2>2. Len(a) < Len(b) => PartAfter(Len(a), a, b)
    BY <1>1, <2>1 DEF PartAfter
  <2>3. ASSUME NEW n \in Nat, PartAfter(n, a, b) PROVE Len(a) < Len(b)
    BY <1>1, <1>5, <2>1, <2>3 DEF PartAfter
  <2> QED
    BY <1>1, <1>3, <1>7, <2>2, <2>3
<1>8. CASE differ # {}
  <2>1. Min(differ) \in differ /\ \A k \in differ : Min(differ) <= k
    <3>1. differ \subseteq Nat
      BY <1>1, <1>4
    <3> QED
      BY <1>8, <3>1, MinNat
  <2> DEFINE m == Min(differ)
  <2>2. m \in 1 .. shorter /\ a[m] # b[m] /\ \A i \in 1 .. m - 1 : a[i] = b[i]
    <3>1. m \in 1 .. shorter /\ a[m] # b[m]
      BY <1>4, <2>1
    <3>2. ASSUME NEW i \in 1 .. m - 1, a[i] # b[i] PROVE FALSE
      <4>1. i \in differ
        BY <1>1, <1>4, <3>1, <3>2
      <4>2. m <= i
        BY <2>1, <4>1
      <4> QED
        BY <1>1, <3>1, <4>2
    <3> QED
      BY <3>1, <3>2
  <2> HIDE DEF m
  <2>3. Byte[a[m]] < Byte[b[m]] => PartAfter(m - 1, a, b) /\ m - 1 \in Nat
    BY <1>1, <2>2 DEF PartAfter
  <2>4. ASSUME NEW n \in Nat, PartAfter(n, a, b) PROVE Byte[a[m]] < Byte[b[m]]
    <3>1. n + 1 <= m
      BY <1>1, <2>2, <2>4 DEF PartAfter
    <3>2. n < Len(a) /\ n < Len(b) /\ Byte[a[n + 1]] < Byte[b[n + 1]]
      BY <1>1, <2>2, <2>4, <3>1 DEF PartAfter
    <3>3. n + 1 = m
      BY <1>1, <1>5, <2>2, <3>1, <3>2
    <3> QED
      BY <3>2, <3>3
  <2> QED
    BY <1>3, <1>8, <2>3, <2>4 DEF m
<1> QED
  BY <1>7, <1>8

LEMMA BeforeIsOrder ==
    /\ \A a, b \in Texts_ : TextBefore(a, b) \/ TextBefore(b, a) \/ a = b
    /\ \A a, b \in Texts_ : ~(TextBefore(a, b) /\ TextBefore(b, a))
    /\ \A a, b, c \in Texts_ : TextBefore(a, b) /\ TextBefore(b, c) => TextBefore(a, c)
<1>1. \A a \in Texts_ : /\ Len(a) \in Nat /\ a = [i \in 1 .. Len(a) |-> a[i]]
                        /\ \A i \in 1 .. Len(a) : a[i] \in ToSet(Alphabet) /\ Byte[a[i]] \in Nat
  BY ByteFacts, ElementOfSeq, LenProperties DEF Texts_
<1>2. ASSUME NEW a \in Texts_, NEW b \in Texts_ PROVE TextBefore(a, b) \/ TextBefore(b, a) \/ a = b
  <2> DEFINE Same(n) == n <= Len(a) /\ n <= Len(b) /\ \A i \in 1 .. n : a[i] = b[i]
             ends == {n \in Nat : ~Same(n + 1)}
  <2>1. Same(0)
    BY <1>1
  <2>2. Len(a) \in ends
    BY <1>1
  <2>3. PICK n \in ends : \A k \in ends : n <= k
    <3> HIDE DEF ends
    <3>1. ends \subseteq Nat
      BY DEF ends
    <3> QED
      BY <2>2, <3>1, LeastNat
  <2>4. Same(n)
    <3>1. CASE n = 0
      BY <2>1, <3>1
    <3>2. CASE n # 0
      <4>1. n - 1 \in Nat /\ ~(n - 1 \in ends)
        BY <2>3, <3>2
      <4>2. Same((n - 1) + 1)
        BY <4>1
      <4> QED
        BY <2>3, <4>2
    <3> QED
      BY <3>1, <3>2
  <2>5. n \in Nat /\ ~Same(n + 1)
    BY <2>3
  <2>6. CASE n = Len(a) /\ n = Len(b)
    <3>1. a = [i \in 1 .. n |-> a[i]] /\ b = [i \in 1 .. n |-> b[i]]
      BY <1>1, <2>6
    <3>2. \A i \in 1 .. n : a[i] = b[i]
      BY <2>4
    <3>3. [i \in 1 .. n |-> a[i]] = [i \in 1 .. n |-> b[i]]
      BY <3>2
    <3> QED
      BY <3>1, <3>3
  <2>7. CASE n = Len(a) /\ n # Len(b)
    <3>1. PartAfter(n, a, b)
      BY <1>1, <2>4, <2>7 DEF PartAfter
    <3> QED
      BY <2>5, <3>1, BeforeParts
  <2>8. CASE n # Len(a) /\ n = Len(b)
    <3>1. PartAfter(n, b, a)
      BY <1>1, <2>4, <2>8 DEF PartAfter
    <3> QED
      BY <2>5, <3>1, BeforeParts
  <2>9. CASE n # Len(a) /\ n # Len(b)
    <3>1. n < Len(a) /\ n < Len(b)
      BY <1>1, <2>4, <2>9
    <3>2. a[n + 1] # b[n + 1]
      BY <1>1, <2>4, <2>5, <3>1
    <3>3. Byte[a[n + 1]] # Byte[b[n + 1]] /\ Byte[a[n + 1]] \in Nat /\ Byte[b[n + 1]] \in Nat
      BY <1>1, <2>5, <3>1, <3>2, ByteFacts
    <3>4. PartAfter(n, a, b) \/ PartAfter(n, b, a)
      BY <2>4, <3>1, <3>3 DEF PartAfter
    <3> QED
      BY <2>5, <3>4, BeforeParts
  <2> QED
    BY <2>6, <2>7, <2>8, <2>9
<1>3. ASSUME NEW a \in Texts_, NEW b \in Texts_, TextBefore(a, b), TextBefore(b, a) PROVE FALSE
  <2>1. PICK n \in Nat : PartAfter(n, a, b)
    BY <1>3, BeforeParts
  <2>2. PICK m \in Nat : PartAfter(m, b, a)
    BY <1>3, BeforeParts
  <2>3. \A i \in 1 .. Len(a) : Byte[a[i]] \in Nat
    BY <1>1
  <2>4. \A i \in 1 .. Len(b) : Byte[b[i]] \in Nat
    BY <1>1
  <2>5. Len(a) \in Nat /\ Len(b) \in Nat
    BY <1>1
  <2>6. CASE n < m
    <3>1. n + 1 \in 1 .. Len(a) /\ n + 1 \in 1 .. Len(b) /\ a[n + 1] = b[n + 1]
      BY <2>1, <2>2, <2>5, <2>6 DEF PartAfter
    <3>2. Byte[a[n + 1]] \in Nat /\ Byte[b[n + 1]] \in Nat
      BY <2>3, <2>4, <3>1
    <3> QED
      BY <2>1, <2>2, <2>5, <3>1, <3>2 DEF PartAfter
  <2>7. CASE m < n
    <3>1. m + 1 \in 1 .. Len(a) /\ m + 1 \in 1 .. Len(b) /\ a[m + 1] = b[m + 1]
      BY <2>1, <2>2, <2>5, <2>7 DEF PartAfter
    <3>2. Byte[a[m + 1]] \in Nat /\ Byte[b[m + 1]] \in Nat
      BY <2>3, <2>4, <3>1
    <3> QED
      BY <2>1, <2>2, <2>5, <3>1, <3>2 DEF PartAfter
  <2>8. CASE n = m
    <3>1. n + 1 \in 1 .. Len(a) /\ n + 1 \in 1 .. Len(b)
      BY <2>1, <2>2, <2>5, <2>8 DEF PartAfter
    <3>2. Byte[a[n + 1]] \in Nat /\ Byte[b[n + 1]] \in Nat
      BY <2>3, <2>4, <3>1
    <3>3. Byte[a[n + 1]] < Byte[b[n + 1]] /\ Byte[b[n + 1]] < Byte[a[n + 1]]
      BY <2>1, <2>2, <2>5, <2>8, <3>1 DEF PartAfter
    <3> QED
      BY <3>2, <3>3
  <2> QED
    BY <2>6, <2>7, <2>8
<1>4. ASSUME NEW a \in Texts_, NEW b \in Texts_, NEW c \in Texts_, TextBefore(a, b), TextBefore(b, c)
      PROVE  TextBefore(a, c)
  <2>1. PICK n \in Nat : PartAfter(n, a, b)
    BY <1>4, BeforeParts
  <2>2. PICK m \in Nat : PartAfter(m, b, c)
    BY <1>4, BeforeParts
  <2>3. /\ \A i \in 1 .. Len(a) : Byte[a[i]] \in Nat
        /\ \A i \in 1 .. Len(b) : Byte[b[i]] \in Nat
        /\ \A i \in 1 .. Len(c) : Byte[c[i]] \in Nat
    BY <1>1
  <2>4. Len(a) \in Nat /\ Len(b) \in Nat /\ Len(c) \in Nat
    BY <1>1
  <2>5. CASE n < m
    <3>1. PartAfter(n, a, c)
      BY <2>1, <2>2, <2>4, <2>5 DEF PartAfter
    <3> QED
      BY <3>1, BeforeParts
  <2>6. CASE m <= n
    <3> SUFFICES PartAfter(m, a, c)
      BY BeforeParts
    <3>1. /\ m <= n /\ m <= Len(b) /\ m <= Len(c) /\ n <= Len(a)
          /\ \A i \in 1 .. n : a[i] = b[i]
          /\ \A i \in 1 .. m : b[i] = c[i]
      BY <2>1, <2>2, <2>4, <2>6 DEF PartAfter
    <3>2. m <= Len(a) /\ \A i \in 1 .. m : i \in 1 .. n /\ a[i] = c[i]
      BY <2>4, <3>1
    <3>3. CASE m = Len(b)
      <4>1. m < Len(c) /\ m = n
        BY <2>1, <2>2, <2>4, <3>1, <3>3 DEF PartAfter
      <4>2. m = Len(a) \/ n < Len(b)
        BY <2>1, <4>1 DEF PartAfter
      <4> QED
        BY <2>4, <3>1, <3>2, <3>3, <4>1, <4>2 DEF PartAfter
    <3>4. CASE m # Len(b)
      <4>1. m < Len(b) /\ m < Len(c) /\ Byte[b[m + 1]] < Byte[c[m + 1]]
        BY <2>2, <3>4 DEF PartAfter
      <4>2. m + 1 \in 1 .. Len(b) /\ m + 1 \in 1 .. Len(c)
        BY <2>4, <4>1
      <4>3. CASE m < n
        <5>1. m < Len(a) /\ a[m + 1] = b[m + 1]
          BY <2>4, <3>1, <4>3
        <5> QED
          BY <3>1, <3>2, <4>1, <5>1 DEF PartAfter
      <4>4. CASE m = n /\ n = Len(a)
        BY <3>1, <3>2, <4>1, <4>4 DEF PartAfter
      <4>5. CASE m = n /\ n # Len(a)
        <5>1. m < Len(a) /\ Byte[a[m + 1]] < Byte[b[m + 1]]
          BY <2>1, <4>5 DEF PartAfter
        <5>2. m + 1 \in 1 .. Len(a)
          BY <2>4, <5>1
        <5>3. Byte[a[m + 1]] < Byte[c[m + 1]]
          BY <2>3, <4>1, <4>2, <5>1, <5>2
        <5> QED
          BY <3>1, <3>2, <4>1, <5>1, <5>3 DEF PartAfter
      <4> QED
        BY <3>1, <4>3, <4>4, <4>5
    <3> QED
      BY <3>3, <3>4
  <2> QED
    BY <2>5, <2>6
<1> QED
  BY <1>2, <1>3, <1>4

IsFirst(t, X) == t \in X /\ \A u \in X \ {t} : TextBefore(t, u)
LEMMA FirstExists ==
    ASSUME NEW X \in SUBSET Texts_, IsFiniteSet(X), X # {}
    PROVE  \E t : IsFirst(t, X)
<1> DEFINE Have(n) == \A Y \in SUBSET Texts_ : IsFiniteSet(Y) /\ Cardinality(Y) = n + 1 => \E t : IsFirst(t, Y)
           S == {n \in Nat : Have(n)}
<1>1. Have(0)
  <2> SUFFICES ASSUME NEW Y \in SUBSET Texts_, IsFiniteSet(Y), Cardinality(Y) = 1 PROVE \E t : IsFirst(t, Y)
    OBVIOUS
  <2>1. PICK t : Y = {t}
    BY FS_Singleton
  <2> QED
    BY <2>1 DEF IsFirst
<1>2. ASSUME NEW n \in Nat, Have(n) PROVE Have(n + 1)
  <2> SUFFICES ASSUME NEW Y \in SUBSET Texts_, IsFiniteSet(Y), Cardinality(Y) = n + 2 PROVE \E t : IsFirst(t, Y)
    OBVIOUS
  <2>1. PICK x \in Y : TRUE
    BY FS_EmptySet
  <2>2. IsFiniteSet(Y \ {x}) /\ Cardinality(Y \ {x}) = n + 1
    BY FS_RemoveElement
  <2>3. PICK t : IsFirst(t, Y \ {x})
    BY <1>2, <2>2
  <2>4. t \in Texts_ /\ x \in Texts_ /\ t # x
    BY <2>3 DEF IsFirst
  <2>5. CASE TextBefore(t, x)
    BY <2>3, <2>5 DEF IsFirst
  <2>6. CASE TextBefore(x, t)
    <3>1. \A u \in Y \ {x} : TextBefore(x, u)
      BY <2>3, <2>4, <2>6, BeforeIsOrder DEF IsFirst
    <3> QED
      BY <2>1, <3>1 DEF IsFirst
  <2> QED
    BY <2>4, <2>5, <2>6, BeforeIsOrder
<1> HIDE DEF Have
<1>3. Nat \subseteq S
  <2>1. 0 \in S /\ \A n \in Nat : n \in S => n + 1 \in S
    BY <1>1, <1>2
  <2> HIDE DEF S
  <2> QED
    BY <2>1, ByNat
<1>4. Cardinality(X) \in Nat /\ Cardinality(X) # 0
  BY FS_CardinalityType, FS_EmptySet
<1>5. Have(Cardinality(X) - 1)
  BY <1>3, <1>4
<1> QED
  BY <1>4, <1>5 DEF Have

LEMMA FirstIs ==
    ASSUME NEW X \in SUBSET Texts_, IsFiniteSet(X), X # {}
    PROVE  /\ IsFirst(FirstText(X), X)
           /\ \A t : IsFirst(t, X) => t = FirstText(X)
<1>1. \E t : IsFirst(t, X)
  BY FirstExists
<1>2. IsFirst(FirstText(X), X)
  BY <1>1 DEF IsFirst, FirstText
<1> QED
  BY <1>2, BeforeIsOrder DEF IsFirst

-----------------------------------------------------------------------------
(* The search. A ring of edges: nodes each of which has a child among them. *)

RingOf(ring, out) ==
    ring # {} /\ \A p \in ring : \E n \in 1 .. Len(Children(out, p)) : Children(out, p)[n] \in ring

GraphOK(out) ==
    /\ IsFiniteSet(Nodes(out)) /\ Nodes(out) \subseteq Texts_
    /\ \A p \in Nodes(out) : Children(out, p) \in Seq(Nodes(out))

Frame(node, next) == [node |-> node, next |-> next]
SearchType(out) ==
    [frames : Seq([node : Nodes(out), next : Nat]), done : SUBSET Nodes(out), cyclic : SUBSET Nodes(out)]

\* The frames are a path: each is of the child that the one below it looked at last.
OnPath(f, d, out) ==
    /\ \A i \in 1 .. Len(f) : f[i].next \in 1 .. Len(Children(out, f[i].node)) + 1
    /\ \A i \in 1 .. Len(f) - 1 : f[i].next > 1 /\ Children(out, f[i].node)[f[i].next - 1] = f[i + 1].node
    /\ \A i, j \in 1 .. Len(f) : f[i].node = f[j].node => i = j
    /\ \A i \in 1 .. Len(f) : f[i].node \notin d

\* While no cycle has been found, what is done leads to what is done, and holds no ring.
Clear(f, d, out) ==
    /\ \A q \in d : \A n \in 1 .. Len(Children(out, q)) : Children(out, q)[n] \in d
    /\ \A i \in 1 .. Len(f) : \A n \in 1 .. f[i].next - 1 :
         Children(out, f[i].node)[n] \in d \/ (i < Len(f) /\ n = f[i].next - 1)
    /\ \A ring \in SUBSET d : ~RingOf(ring, out)

SearchInv(s, out) ==
    /\ s \in SearchType(out)
    /\ OnPath(s.frames, s.done, out)
    /\ s.cyclic = {} => Clear(s.frames, s.done, out)
    /\ s.cyclic # {} => \E ring \in SUBSET s.cyclic : RingOf(ring, out)

\* The turns there are.
Search(frames, done, cyclic) == [frames |-> frames, done |-> done, cyclic |-> cyclic]
Over(s, out) == s.frames = <<>> /\ Nodes(out) \subseteq s.done
Opens(s, t, out) ==
    /\ s.frames = <<>>
    /\ \E x \in Nodes(out) \ s.done : t = Search(<<Frame(x, 1)>>, s.done, s.cyclic)
Closes(s, t, out) ==
    LET depth == Len(s.frames)
        top == s.frames[depth]
    IN  /\ depth > 0 /\ top.next = Len(Children(out, top.node)) + 1
        /\ t = Search(Front(s.frames), s.done \cup {top.node}, s.cyclic)
Moved(s) == [s.frames EXCEPT ![Len(s.frames)] = Frame(s.frames[Len(s.frames)].node, s.frames[Len(s.frames)].next + 1)]
Looks(s, child, out) ==
    LET depth == Len(s.frames)
        top == s.frames[depth]
    IN  depth > 0 /\ top.next <= Len(Children(out, top.node)) /\ child = Children(out, top.node)[top.next]
Finds(s, t, out) ==
    \E child \in Nodes(out), k \in 1 .. Len(s.frames) :
      /\ Looks(s, child, out) /\ s.frames[k].node = child
      /\ t = Search(Moved(s), s.done, s.cyclic \cup {s.frames[i].node : i \in k .. Len(s.frames)})
Skips(s, t, out) ==
    \E child \in s.done : Looks(s, child, out) /\ t = Search(Moved(s), s.done, s.cyclic)
Enters(s, t, out) ==
    \E child \in Nodes(out) \ s.done :
      /\ Looks(s, child, out) /\ \A k \in 1 .. Len(s.frames) : s.frames[k].node # child
      /\ t = Search(Append(Moved(s), Frame(child, 1)), s.done, s.cyclic)

LEMMA TurnIs ==
    ASSUME NEW out, GraphOK(out), NEW s, SearchInv(s, out)
    PROVE  LET t == turn(s, out)
           IN  \/ Over(s, out) /\ t = s
               \/ Opens(s, t, out) \/ Closes(s, t, out)
               \/ Finds(s, t, out) \/ Skips(s, t, out) \/ Enters(s, t, out)
<1> DEFINE N == Nodes(out)
           depth == Len(s.frames)
           top == s.frames[depth]
           kids == Children(out, top.node)
           t == turn(s, out)
<1> SUFFICES \/ Over(s, out) /\ t = s
             \/ Opens(s, t, out) \/ Closes(s, t, out)
             \/ Finds(s, t, out) \/ Skips(s, t, out) \/ Enters(s, t, out)
  OBVIOUS
<1>1. /\ s = Search(s.frames, s.done, s.cyclic)
      /\ s.frames \in Seq([node : N, next : Nat]) /\ s.done \subseteq N
      /\ depth \in Nat
  BY LenProperties DEF SearchInv, SearchType, Search
<1>2. CASE depth = 0
  <2>1. s.frames = <<>>
    BY <1>1, <1>2, EmptySeq
  <2>2. t = Begin(s, out)
    BY <1>2 DEF turn
  <2>3. CASE N \subseteq s.done
    BY <2>1, <2>2, <2>3 DEF Begin, Over
  <2>4. CASE ~(N \subseteq s.done)
    <3>1. N \ s.done # {} /\ N \ s.done \in SUBSET Texts_ /\ IsFiniteSet(N \ s.done)
      BY <2>4, FS_Subset DEF GraphOK
    <3>2. FirstText(N \ s.done) \in N \ s.done
      BY <3>1, FirstIs DEF IsFirst
    <3>3. t = Push(s, FirstText(N \ s.done))
      BY <2>2, <2>4 DEF Begin
    <3>4. t = Search(<<Frame(FirstText(N \ s.done), 1)>>, s.done, s.cyclic)
      BY <1>1, <2>1, <3>3 DEF Push, Search, Frame
    <3> QED
      BY <2>1, <3>2, <3>4 DEF Opens
  <2> QED
    BY <2>3, <2>4
<1>3. CASE depth # 0
  <2>1. depth \in 1 .. Len(s.frames) /\ top \in [node : N, next : Nat]
    <3>1. depth \in 1 .. depth
      BY <1>1, <1>3
    <3>2. \A i \in 1 .. Len(s.frames) : s.frames[i] \in [node : N, next : Nat]
      BY <1>1, ElementOfSeq
    <3> QED
      BY <3>1, <3>2
  <2>2. top.node \in N /\ top.next \in Nat /\ kids \in Seq(N) /\ Len(kids) \in Nat
    BY <2>1, LenProperties DEF GraphOK
  <2>3. top.next \in 1 .. Len(kids) + 1
    BY <2>1 DEF SearchInv, OnPath
  <2>4. Last(s.frames) = top
    BY DEF Last
  <2> DEFINE child == kids[top.next]
             on == [s EXCEPT !.frames[depth].next = @ + 1]
  <2>5. CASE top.next > Len(kids)
    <3>1. t = Pop(s)
      BY <1>3, <2>4, <2>5 DEF turn
    <3>2. t = Search(Front(s.frames), s.done \cup {top.node}, s.cyclic)
      BY <1>1, <2>4, <3>1 DEF Pop, Search
    <3>3. top.next = Len(kids) + 1
      BY <2>2, <2>3, <2>5
    <3> QED
      BY <1>1, <1>3, <3>2, <3>3 DEF Closes
  <2>6. CASE ~(top.next > Len(kids))
    <3>1. child \in N
      BY <2>2, <2>3, <2>6, ElementOfSeq
    <3>2. Looks(s, child, out)
      BY <1>1, <1>3, <2>2, <2>6 DEF Looks
    <3>3. on = Search(Moved(s), s.done, s.cyclic)
      <4>1. [top EXCEPT !.next = @ + 1] = Frame(top.node, top.next + 1)
        BY <2>1 DEF Frame
      <4>2. on = [s EXCEPT !.frames = [s.frames EXCEPT ![depth] = [top EXCEPT !.next = @ + 1]]]
        OBVIOUS
      <4>3. on = [s EXCEPT !.frames = Moved(s)]
        BY <4>1, <4>2 DEF Moved
      <4>4. [Search(s.frames, s.done, s.cyclic) EXCEPT !.frames = Moved(s)] = Search(Moved(s), s.done, s.cyclic)
        BY DEF Search
      <4> QED
        BY <1>1, <4>3, <4>4
    <3>4. t = IF Gray(s, child) # {} THEN [on EXCEPT !.cyclic = @ \cup CycleFrom(s, child)]
              ELSE IF child \in s.done THEN on ELSE Push(on, child)
      BY <1>3, <2>4, <2>6 DEF turn
    <3> HIDE DEF on, child, t
    <3>5. Gray(s, child) = {i \in 1 .. depth : s.frames[i].node = child}
      BY <1>1, LenProperties DEF Gray
    <3>6. CASE Gray(s, child) # {}
      <4>1. Min(Gray(s, child)) \in Gray(s, child)
        <5>1. Gray(s, child) \subseteq Nat
          BY <1>1, <3>5
        <5> QED
          BY <3>6, <5>1, MinNat
      <4>2. t = Search(Moved(s), s.done, s.cyclic \cup CycleFrom(s, child))
        BY <3>3, <3>4, <3>6 DEF Search
      <4> QED
        BY <3>1, <3>2, <3>5, <4>1, <4>2 DEF Finds, CycleFrom
    <3>7. CASE Gray(s, child) = {} /\ child \in s.done
      BY <3>2, <3>3, <3>4, <3>7 DEF Skips
    <3>8. CASE Gray(s, child) = {} /\ child \notin s.done
      <4>1. t = Search(Append(Moved(s), Frame(child, 1)), s.done, s.cyclic)
        BY <3>3, <3>4, <3>8 DEF Push, Search, Frame
      <4> QED
        BY <3>1, <3>2, <3>5, <3>8, <4>1 DEF Enters
    <3> QED
      BY <3>6, <3>7, <3>8 DEF t
  <2> QED
    BY <2>5, <2>6
<1> QED
  BY <1>2, <1>3

LEMMA InvFacts ==
    ASSUME NEW out, GraphOK(out), NEW s, SearchInv(s, out)
    PROVE  /\ s = Search(s.frames, s.done, s.cyclic)
           /\ s.frames \in Seq([node : Nodes(out), next : Nat]) /\ Len(s.frames) \in Nat
           /\ s.done \subseteq Nodes(out) /\ s.cyclic \subseteq Nodes(out)
           /\ \A i \in 1 .. Len(s.frames) :
                /\ s.frames[i].node \in Nodes(out) /\ s.frames[i].next \in Nat
                /\ s.frames[i] = Frame(s.frames[i].node, s.frames[i].next)
           /\ \A p \in Nodes(out) :
                /\ Len(Children(out, p)) \in Nat
                /\ \A n \in 1 .. Len(Children(out, p)) : Children(out, p)[n] \in Nodes(out)
<1>1. /\ s = Search(s.frames, s.done, s.cyclic)
      /\ s.frames \in Seq([node : Nodes(out), next : Nat]) /\ Len(s.frames) \in Nat
      /\ s.done \subseteq Nodes(out) /\ s.cyclic \subseteq Nodes(out)
  BY LenProperties DEF SearchInv, SearchType, Search
<1>2. \A i \in 1 .. Len(s.frames) : s.frames[i] \in [node : Nodes(out), next : Nat]
  BY <1>1, ElementOfSeq
<1>3. \A p \in Nodes(out) : /\ Len(Children(out, p)) \in Nat
                            /\ \A n \in 1 .. Len(Children(out, p)) : Children(out, p)[n] \in Nodes(out)
  BY LenProperties, ElementOfSeq DEF GraphOK
<1> QED
  BY <1>1, <1>2, <1>3 DEF Frame

LEMMA FrameFacts == \A node, next : Frame(node, next).node = node /\ Frame(node, next).next = next
BY DEF Frame

LEMMA MovedIs ==
    ASSUME NEW out, GraphOK(out), NEW s, SearchInv(s, out), Len(s.frames) > 0
    PROVE  /\ Moved(s) \in Seq([node : Nodes(out), next : Nat])
           /\ Len(Moved(s)) = Len(s.frames)
           /\ \A i \in 1 .. Len(s.frames) :
                /\ Moved(s)[i].node = s.frames[i].node
                /\ Moved(s)[i].next = IF i = Len(s.frames) THEN s.frames[i].next + 1 ELSE s.frames[i].next
<1> DEFINE depth == Len(s.frames)
           moved == Frame(s.frames[depth].node, s.frames[depth].next + 1)
<1>1. depth \in 1 .. depth /\ s.frames \in Seq([node : Nodes(out), next : Nat]) /\ depth \in Nat
  <2>1. s.frames \in Seq([node : Nodes(out), next : Nat]) /\ depth \in Nat
    BY InvFacts
  <2>2. depth > 0
    OBVIOUS
  <2> HIDE DEF depth
  <2> QED
    BY <2>1, <2>2
<1>2. moved \in [node : Nodes(out), next : Nat]
  <2>1. s.frames[depth].node \in Nodes(out) /\ s.frames[depth].next \in Nat
    BY <1>1, InvFacts
  <2>2. s.frames[depth].next + 1 \in Nat
    BY <2>1
  <2> QED
    BY <2>1, <2>2 DEF Frame
<1>3. moved.node = s.frames[depth].node /\ moved.next = s.frames[depth].next + 1
  BY FrameFacts
<1>4. Moved(s) = [s.frames EXCEPT ![depth] = moved]
  BY DEF Moved
<1> HIDE DEF moved
<1>5. /\ Moved(s) \in Seq([node : Nodes(out), next : Nat]) /\ Len(Moved(s)) = depth
      /\ \A i \in 1 .. depth : Moved(s)[i] = IF i = depth THEN moved ELSE s.frames[i]
  BY <1>1, <1>2, <1>4, ExceptSeq
<1> QED
  BY <1>1, <1>3, <1>5

LEMMA SearchFacts ==
    \A f, d, c : /\ Search(f, d, c).frames = f /\ Search(f, d, c).done = d /\ Search(f, d, c).cyclic = c
BY DEF Search

LEMMA SearchIs ==
    ASSUME NEW out, NEW f \in Seq([node : Nodes(out), next : Nat]), NEW d \in SUBSET Nodes(out), NEW c \in SUBSET Nodes(out)
    PROVE  Search(f, d, c) \in SearchType(out)
BY DEF SearchType, Search

LEMMA OpensKeeps ==
    ASSUME NEW out, GraphOK(out), NEW s, SearchInv(s, out), NEW t, Opens(s, t, out)
    PROVE  SearchInv(t, out)
<1>1. PICK x \in Nodes(out) \ s.done : t = Search(<<Frame(x, 1)>>, s.done, s.cyclic)
  BY DEF Opens
<1>2. t.frames = <<Frame(x, 1)>> /\ t.done = s.done /\ t.cyclic = s.cyclic
  BY <1>1, SearchFacts
<1>3. /\ Len(t.frames) = 1 /\ t.frames[1].node = x /\ t.frames[1].next = 1
      /\ t.frames \in Seq([node : Nodes(out), next : Nat])
  BY <1>2, FrameFacts DEF Frame
<1>4. t \in SearchType(out)
  BY <1>1, <1>2, <1>3, InvFacts DEF SearchType, Search
<1>5. OnPath(t.frames, t.done, out)
  BY <1>2, <1>3, InvFacts DEF OnPath
<1>6. t.cyclic = {} => Clear(t.frames, t.done, out)
  BY <1>2, <1>3 DEF Clear, SearchInv
<1> QED
  BY <1>2, <1>4, <1>5, <1>6 DEF SearchInv

LEMMA ClosesKeeps ==
    ASSUME NEW out, GraphOK(out), NEW s, SearchInv(s, out), NEW t, Closes(s, t, out)
    PROVE  SearchInv(t, out)
<1> DEFINE depth == Len(s.frames)
           v == s.frames[depth].node
           K(p) == Children(out, p)
<1>1. /\ t.frames = Front(s.frames) /\ t.done = s.done \cup {v} /\ t.cyclic = s.cyclic
      /\ t = Search(t.frames, t.done, t.cyclic)
  BY SearchFacts DEF Closes
<1>2. depth \in Nat /\ depth > 0 /\ s.frames[depth].next = Len(K(v)) + 1
  BY InvFacts DEF Closes
<1>3. /\ t.frames \in Seq([node : Nodes(out), next : Nat]) /\ Len(t.frames) = depth - 1
      /\ \A i \in 1 .. depth - 1 : t.frames[i] = s.frames[i]
  <2>1. Front(s.frames) = SubSeq(s.frames, 1, depth - 1)
    BY DEF Front
  <2>2. /\ SubSeq(s.frames, 1, depth - 1) \in Seq([node : Nodes(out), next : Nat])
        /\ Len(SubSeq(s.frames, 1, depth - 1)) = depth - 1
        /\ \A i \in 1 .. depth - 1 : SubSeq(s.frames, 1, depth - 1)[i] = s.frames[i]
    <3>1. 1 \in Int /\ depth - 1 \in Int
      BY <1>2
    <3>2. \A i \in 1 .. depth - 1 : i \in 1 .. depth
      BY <1>2
    <3>3. \A i \in 1 .. depth : s.frames[i] \in [node : Nodes(out), next : Nat]
      BY InvFacts, ElementOfSeq
    <3>4. \A i \in 1 .. depth - 1 : s.frames[i] \in [node : Nodes(out), next : Nat]
      BY <3>2, <3>3
    <3> HIDE DEF depth
    <3>5. /\ SubSeq(s.frames, 1, depth - 1) \in Seq([node : Nodes(out), next : Nat])
          /\ Len(SubSeq(s.frames, 1, depth - 1)) = IF 1 <= depth - 1 THEN (depth - 1) - 1 + 1 ELSE 0
          /\ \A i \in 1 .. (depth - 1) - 1 + 1 : SubSeq(s.frames, 1, depth - 1)[i] = s.frames[1 + i - 1]
      BY <3>1, <3>4, SubSeqProperties
    <3>6. \A i \in 1 .. depth - 1 : i \in 1 .. (depth - 1) - 1 + 1 /\ 1 + i - 1 = i
      BY <1>2
    <3> QED
      BY <1>2, <3>5, <3>6
  <2> QED
    BY <1>1, <2>1, <2>2
<1>4. /\ OnPath(s.frames, s.done, out) /\ depth \in 1 .. depth
      /\ v \in Nodes(out) /\ v \notin s.done /\ Len(K(v)) \in Nat
  <2>1. OnPath(s.frames, s.done, out) /\ depth \in 1 .. depth
    BY <1>2 DEF SearchInv
  <2>2. v \in Nodes(out) /\ v \notin s.done
    BY <2>1, InvFacts DEF OnPath
  <2> QED
    BY <2>1, <2>2, InvFacts
<1>5. t \in SearchType(out)
  BY <1>1, <1>3, <1>4, InvFacts DEF SearchType, Search
<1>6. OnPath(t.frames, t.done, out)
  <2>1. \A i \in 1 .. depth - 1 : i \in 1 .. depth /\ i # depth
    BY <1>2
  <2>2. \A i \in 1 .. depth - 1 : s.frames[i].node # v
    BY <1>4, <2>1 DEF OnPath
  <2>3. \A i \in 1 .. Len(t.frames) - 1 : i \in 1 .. depth - 1 /\ i + 1 \in 1 .. depth - 1 /\ i \in 1 .. depth - 1
    BY <1>2, <1>3
  <2>4. \A i \in 1 .. Len(t.frames) - 1 :
          t.frames[i].next > 1 /\ K(t.frames[i].node)[t.frames[i].next - 1] = t.frames[i + 1].node
    BY <1>3, <1>4, <2>3 DEF OnPath
  <2>5. \A i \in 1 .. Len(t.frames) : t.frames[i] = s.frames[i] /\ i \in 1 .. depth /\ i \in 1 .. depth - 1
    BY <1>3, <2>1
  <2>6. /\ \A i \in 1 .. Len(t.frames) : t.frames[i].next \in 1 .. Len(K(t.frames[i].node)) + 1
        /\ \A i, j \in 1 .. Len(t.frames) : t.frames[i].node = t.frames[j].node => i = j
        /\ \A i \in 1 .. Len(t.frames) : t.frames[i].node \notin t.done
    BY <1>1, <1>4, <2>2, <2>5 DEF OnPath
  <2> QED
    BY <2>4, <2>6 DEF OnPath
<1>7. ASSUME s.cyclic = {} PROVE Clear(t.frames, t.done, out)
  <2>1. Clear(s.frames, s.done, out)
    BY <1>7 DEF SearchInv
  <2>2. \A n \in 1 .. Len(K(v)) : K(v)[n] \in s.done
    BY <1>2, <1>4, <2>1 DEF Clear
  <2>3. \A q \in t.done : \A n \in 1 .. Len(K(q)) : K(q)[n] \in t.done
    BY <1>1, <2>1, <2>2 DEF Clear
  <2>4. ASSUME NEW i \in 1 .. Len(t.frames), NEW n \in 1 .. t.frames[i].next - 1
        PROVE  K(t.frames[i].node)[n] \in t.done \/ (i < Len(t.frames) /\ n = t.frames[i].next - 1)
    <3>1. i \in 1 .. depth /\ i < depth /\ t.frames[i] = s.frames[i]
      <4>1. Len(t.frames) = depth - 1 /\ depth \in Nat
        BY <1>2, <1>3
      <4> HIDE DEF depth
      <4>2. i \in 1 .. depth /\ i < depth /\ i \in 1 .. Len(t.frames)
        BY <4>1
      <4> QED
        BY <1>3, <4>2
    <3>2. K(s.frames[i].node)[n] \in s.done \/ n = s.frames[i].next - 1
      BY <2>1, <2>4, <3>1 DEF Clear
    <3>3. i = depth - 1 => K(s.frames[i].node)[s.frames[i].next - 1] = v
      <4>1. i \in 1 .. depth - 1 /\ (i = depth - 1 => i + 1 = depth)
        BY <1>2, <3>1
      <4> QED
        BY <1>4, <4>1 DEF OnPath
    <3> QED
      BY <1>1, <1>2, <1>3, <3>1, <3>2, <3>3
  <2>5. ASSUME NEW ring \in SUBSET t.done, RingOf(ring, out) PROVE FALSE
    <3>1. ~RingOf(ring, out) \/ v \in ring
      BY <1>1, <2>1 DEF Clear
    <3>2. PICK n \in 1 .. Len(K(v)) : K(v)[n] \in ring
      BY <2>5, <3>1 DEF RingOf
    <3>3. ring \ {v} # {}
      BY <1>4, <2>2, <3>2
    <3>4. \A p \in ring \ {v} : p \in s.done /\ \E m \in 1 .. Len(K(p)) : K(p)[m] \in ring /\ K(p)[m] \in s.done
      BY <1>1, <2>1, <2>5 DEF RingOf, Clear
    <3>5. RingOf(ring \ {v}, out)
      BY <1>4, <3>3, <3>4 DEF RingOf
    <3> QED
      BY <1>1, <2>1, <3>5 DEF Clear
  <2> QED
    BY <2>3, <2>4, <2>5 DEF Clear
<1> QED
  BY <1>1, <1>5, <1>6, <1>7 DEF SearchInv
LEMMA LooksMoved ==
    ASSUME NEW out, GraphOK(out), NEW s, SearchInv(s, out), NEW child, Looks(s, child, out)
    PROVE  /\ Len(s.frames) \in Nat /\ Len(s.frames) \in 1 .. Len(s.frames) /\ child \in Nodes(out)
           /\ s.frames[Len(s.frames)].next \in 1 .. Len(Children(out, s.frames[Len(s.frames)].node))
           /\ child = Children(out, s.frames[Len(s.frames)].node)[s.frames[Len(s.frames)].next]
           /\ OnPath(s.frames, s.done, out) /\ OnPath(Moved(s), s.done, out)
<1> DEFINE depth == Len(s.frames)
           top == s.frames[depth]
           K(p) == Children(out, p)
<1>1. depth \in Nat /\ depth > 0 /\ depth \in 1 .. depth /\ OnPath(s.frames, s.done, out)
  BY InvFacts DEF Looks, SearchInv
<1>2. top.node \in Nodes(out) /\ top.next \in Nat /\ Len(K(top.node)) \in Nat
  BY <1>1, InvFacts
<1>3. top.next \in 1 .. Len(K(top.node)) /\ child = K(top.node)[top.next]
  <2>1. top.next \in 1 .. Len(K(top.node)) + 1
    BY <1>1 DEF OnPath
  <2> QED
    BY <1>2, <2>1 DEF Looks
<1>4. child \in Nodes(out)
  BY <1>2, <1>3, InvFacts
<1>5. /\ Len(Moved(s)) = depth
      /\ \A i \in 1 .. depth : /\ Moved(s)[i].node = s.frames[i].node
                               /\ Moved(s)[i].next = IF i = depth THEN top.next + 1 ELSE s.frames[i].next
  BY <1>1, MovedIs
<1>6. OnPath(Moved(s), s.done, out)
  <2>1. \A i \in 1 .. depth : Moved(s)[i].next \in 1 .. Len(K(Moved(s)[i].node)) + 1
    <3>1. top.next + 1 \in 1 .. Len(K(top.node)) + 1
      BY <1>2, <1>3
    <3> QED
      BY <1>1, <1>5, <3>1 DEF OnPath
  <2>2. \A i \in 1 .. depth - 1 : i \in 1 .. depth /\ i + 1 \in 1 .. depth /\ i # depth
    BY <1>1
  <2>3. \A i \in 1 .. depth - 1 : Moved(s)[i].next > 1 /\ K(Moved(s)[i].node)[Moved(s)[i].next - 1] = Moved(s)[i + 1].node
    BY <1>1, <1>5, <2>2 DEF OnPath
  <2>4. /\ \A i, j \in 1 .. depth : Moved(s)[i].node = Moved(s)[j].node => i = j
        /\ \A i \in 1 .. depth : Moved(s)[i].node \notin s.done
    BY <1>1, <1>5 DEF OnPath
  <2> QED
    BY <1>5, <2>1, <2>3, <2>4 DEF OnPath
<1> QED
  BY <1>1, <1>3, <1>4, <1>6

LEMMA FindsKeeps ==
    ASSUME NEW out, GraphOK(out), NEW s, SearchInv(s, out), NEW t, Finds(s, t, out)
    PROVE  SearchInv(t, out)
<1> DEFINE depth == Len(s.frames)
           K(p) == Children(out, p)
<1>1. PICK child \in Nodes(out), k \in 1 .. depth :
        /\ Looks(s, child, out) /\ s.frames[k].node = child
        /\ t = Search(Moved(s), s.done, s.cyclic \cup {s.frames[i].node : i \in k .. depth})
  BY DEF Finds
<1> DEFINE ring == {s.frames[i].node : i \in k .. depth}
<1>2. t.frames = Moved(s) /\ t.done = s.done /\ t.cyclic = s.cyclic \cup ring /\ t = Search(t.frames, t.done, t.cyclic)
  BY <1>1, SearchFacts
<1>3. /\ depth \in Nat /\ depth \in 1 .. depth
      /\ s.frames[depth].next \in 1 .. Len(K(s.frames[depth].node))
      /\ child = K(s.frames[depth].node)[s.frames[depth].next]
      /\ OnPath(s.frames, s.done, out) /\ OnPath(Moved(s), s.done, out)
  BY <1>1, LooksMoved
<1>4. \A i \in k .. depth : i \in 1 .. depth
  BY <1>1, <1>3
<1>5. ring # {} /\ ring \subseteq Nodes(out)
  <2>1. depth \in k .. depth
    BY <1>1, <1>3
  <2>2. \A i \in 1 .. depth : s.frames[i].node \in Nodes(out)
    BY InvFacts
  <2> QED
    BY <1>4, <2>1, <2>2
<1>6. RingOf(ring, out)
  <2>1. ASSUME NEW i \in k .. depth PROVE \E n \in 1 .. Len(K(s.frames[i].node)) : K(s.frames[i].node)[n] \in ring
    <3>1. CASE i = depth
      <4>1. s.frames[k].node \in ring
        <5>1. k \in k .. depth
          <6> HIDE DEF depth
          <6> QED
            BY <1>1, <1>3
        <5> QED
          BY <5>1
      <4> QED
        BY <1>1, <1>3, <3>1, <4>1
    <3>2. CASE i # depth
      <4>1. i \in 1 .. depth - 1 /\ i \in 1 .. depth /\ i + 1 \in k .. depth
        BY <1>1, <1>3, <3>2
      <4>2. s.frames[i].next > 1 /\ K(s.frames[i].node)[s.frames[i].next - 1] = s.frames[i + 1].node
        BY <1>3, <4>1 DEF OnPath
      <4>3. s.frames[i].next \in 1 .. Len(K(s.frames[i].node)) + 1 /\ Len(K(s.frames[i].node)) \in Nat
        BY <1>3, <4>1, InvFacts DEF OnPath
      <4>4. s.frames[i].next - 1 \in 1 .. Len(K(s.frames[i].node))
        <5>1. \A a, b \in Int : a > 1 /\ a \in 1 .. b + 1 => a - 1 \in 1 .. b
          OBVIOUS
        <5>2. s.frames[i].next \in Int /\ Len(K(s.frames[i].node)) \in Int
          BY <4>3
        <5> QED
          BY <4>2, <4>3, <5>1, <5>2, Zenon
      <4>5. s.frames[i + 1].node \in ring
        BY <4>1
      <4> QED
        BY <4>2, <4>4, <4>5
    <3> QED
      BY <3>1, <3>2
  <2> QED
    BY <1>5, <2>1 DEF RingOf
<1>7. t \in SearchType(out)
  <2>1. depth > 0
    BY <1>3
  <2>2. Moved(s) \in Seq([node : Nodes(out), next : Nat])
    BY <2>1, MovedIs
  <2> QED
    BY <1>2, <1>5, <2>2, InvFacts DEF SearchType, Search
<1> QED
  BY <1>2, <1>3, <1>5, <1>6, <1>7 DEF SearchInv

LEMMA SkipsKeeps ==
    ASSUME NEW out, GraphOK(out), NEW s, SearchInv(s, out), NEW t, Skips(s, t, out)
    PROVE  SearchInv(t, out)
<1> DEFINE depth == Len(s.frames)
           K(p) == Children(out, p)
<1>1. PICK child \in s.done : Looks(s, child, out) /\ t = Search(Moved(s), s.done, s.cyclic)
  BY DEF Skips
<1>2. t.frames = Moved(s) /\ t.done = s.done /\ t.cyclic = s.cyclic /\ t = Search(t.frames, t.done, t.cyclic)
  BY <1>1, SearchFacts
<1>3. /\ depth \in Nat /\ depth \in 1 .. depth
      /\ s.frames[depth].next \in 1 .. Len(K(s.frames[depth].node))
      /\ child = K(s.frames[depth].node)[s.frames[depth].next]
      /\ OnPath(s.frames, s.done, out) /\ OnPath(Moved(s), s.done, out)
  BY <1>1, LooksMoved
<1>4. /\ Moved(s) \in Seq([node : Nodes(out), next : Nat])
      /\ Len(Moved(s)) = depth
      /\ \A i \in 1 .. depth :
           /\ Moved(s)[i].node = s.frames[i].node
           /\ Moved(s)[i].next = IF i = depth THEN s.frames[i].next + 1 ELSE s.frames[i].next
  <2>1. depth > 0
    BY <1>3
  <2> QED
    BY <2>1, MovedIs
<1>5. t \in SearchType(out)
  BY <1>2, <1>4, InvFacts DEF SearchType, Search
<1>6. ASSUME s.cyclic = {} PROVE Clear(t.frames, t.done, out)
  <2>1. Clear(s.frames, s.done, out)
    BY <1>6 DEF SearchInv
  <2>2. ASSUME NEW i \in 1 .. depth, NEW n \in 1 .. Moved(s)[i].next - 1
        PROVE  K(s.frames[i].node)[n] \in s.done \/ (i < depth /\ n = Moved(s)[i].next - 1)
    <3>1. CASE i # depth
      BY <1>4, <2>1, <2>2, <3>1 DEF Clear
    <3>2. CASE i = depth /\ n = s.frames[depth].next
      BY <1>1, <1>3, <3>2
    <3>3. CASE i = depth /\ n # s.frames[depth].next
      <4>1. n \in 1 .. s.frames[depth].next - 1
        <5>1. Moved(s)[i].next = s.frames[depth].next + 1 /\ s.frames[depth].next \in Nat
          BY <1>3, <1>4, <2>2, <3>3
        <5>2. n \in 1 .. (s.frames[depth].next + 1) - 1
          BY <2>2, <5>1
        <5> QED
          BY <3>3, <5>1, <5>2
      <4>2. ~(depth < depth)
        BY <1>3
      <4> QED
        BY <1>3, <2>1, <3>3, <4>1, <4>2 DEF Clear
    <3> QED
      BY <3>1, <3>2, <3>3
  <2>3. \A i \in 1 .. Len(t.frames) : \A n \in 1 .. t.frames[i].next - 1 :
          K(t.frames[i].node)[n] \in t.done \/ (i < Len(t.frames) /\ n = t.frames[i].next - 1)
    BY <1>2, <1>4, <2>2
  <2> QED
    BY <1>2, <2>1, <2>3 DEF Clear
<1> QED
  BY <1>2, <1>3, <1>5, <1>6 DEF SearchInv

LEMMA EntersKeeps ==
    ASSUME NEW out, GraphOK(out), NEW s, SearchInv(s, out), NEW t, Enters(s, t, out)
    PROVE  SearchInv(t, out)
<1> DEFINE depth == Len(s.frames)
           K(p) == Children(out, p)
           f == t.frames
<1>1. PICK child \in Nodes(out) \ s.done :
        /\ Looks(s, child, out) /\ \A k \in 1 .. depth : s.frames[k].node # child
        /\ t = Search(Append(Moved(s), Frame(child, 1)), s.done, s.cyclic)
  BY DEF Enters
<1>2. f = Append(Moved(s), Frame(child, 1)) /\ t.done = s.done /\ t.cyclic = s.cyclic /\ t = Search(f, t.done, t.cyclic)
  <2>1. t = Search(Append(Moved(s), Frame(child, 1)), s.done, s.cyclic)
    BY <1>1
  <2>2. f = Append(Moved(s), Frame(child, 1)) /\ t.done = s.done /\ t.cyclic = s.cyclic
    BY <2>1 DEF Search
  <2> QED
    BY <2>1, <2>2
<1>3. /\ depth \in Nat /\ depth \in 1 .. depth
      /\ s.frames[depth].next \in 1 .. Len(K(s.frames[depth].node))
      /\ child = K(s.frames[depth].node)[s.frames[depth].next]
      /\ OnPath(s.frames, s.done, out) /\ OnPath(Moved(s), s.done, out)
  BY <1>1, LooksMoved
<1>4. /\ Moved(s) \in Seq([node : Nodes(out), next : Nat])
      /\ Len(Moved(s)) = depth
      /\ \A i \in 1 .. depth :
           /\ Moved(s)[i].node = s.frames[i].node
           /\ Moved(s)[i].next = IF i = depth THEN s.frames[i].next + 1 ELSE s.frames[i].next
  <2>1. depth > 0
    BY <1>3
  <2> QED
    BY <2>1, MovedIs
<1>5. Frame(child, 1) \in [node : Nodes(out), next : Nat]
  BY <1>1 DEF Frame
<1>6. /\ f \in Seq([node : Nodes(out), next : Nat]) /\ Len(f) = depth + 1
      /\ \A i \in 1 .. depth : f[i] = Moved(s)[i]
      /\ f[depth + 1].node = child /\ f[depth + 1].next = 1
  BY <1>2, <1>4, <1>5, AppendProperties, FrameFacts
<1> HIDE DEF f
<1>7. t \in SearchType(out)
  <2>1. t.done \subseteq Nodes(out) /\ t.cyclic \subseteq Nodes(out)
    BY <1>2, InvFacts
  <2> QED
    <3>1. f \in Seq([node : Nodes(out), next : Nat])
      BY <1>6
    <3>2. Search(f, t.done, t.cyclic) \in SearchType(out)
      BY <2>1, <3>1, SearchIs
    <3> QED
      BY <1>2, <3>2, Zenon
<1>8. /\ \A i \in 1 .. Len(f) : i \in 1 .. depth \/ i = depth + 1
      /\ \A i \in 1 .. depth : i \in 1 .. Len(f) /\ i # depth + 1
      /\ depth + 1 \in 1 .. Len(f)
  BY <1>3, <1>6
<1>9. OnPath(f, t.done, out)
  <2>1. \A i \in 1 .. Len(f) : f[i].next \in 1 .. Len(K(f[i].node)) + 1
    <3>1. Len(K(child)) \in Nat
      BY <1>1, InvFacts
    <3>2. f[depth + 1].next \in 1 .. Len(K(f[depth + 1].node)) + 1
      BY <1>6, <3>1
    <3> QED
      BY <1>3, <1>4, <1>6, <1>8, <3>2 DEF OnPath
  <2>2. ASSUME NEW i \in 1 .. Len(f) - 1 PROVE f[i].next > 1 /\ K(f[i].node)[f[i].next - 1] = f[i + 1].node
    <3>1. CASE i = depth
      <4>1. f[depth].next = s.frames[depth].next + 1 /\ f[depth].node = s.frames[depth].node
        BY <1>3, <1>4, <1>6
      <4>2. f[depth].next > 1 /\ f[depth].next - 1 = s.frames[depth].next
        BY <1>3, <4>1
      <4> QED
        BY <1>3, <1>6, <3>1, <4>1, <4>2
    <3>2. CASE i # depth
      <4>1. i \in 1 .. depth - 1 /\ i \in 1 .. depth /\ i + 1 \in 1 .. depth
        BY <1>3, <1>6, <2>2, <3>2
      <4> QED
        BY <1>3, <1>4, <1>6, <4>1 DEF OnPath
    <3> QED
      BY <3>1, <3>2
  <2>3. \A i \in 1 .. depth : f[i].node # child /\ f[i].node = s.frames[i].node
    BY <1>1, <1>4, <1>6
  <2>4. \A i, j \in 1 .. Len(f) : f[i].node = f[j].node => i = j
    <3>1. \A i, j \in 1 .. depth : f[i].node = f[j].node => i = j
      BY <1>3, <2>3 DEF OnPath
    <3> QED
      BY <1>6, <1>8, <2>3, <3>1, Zenon
  <2>5. \A i \in 1 .. Len(f) : f[i].node \notin t.done
    <3>1. \A i \in 1 .. depth : s.frames[i].node \notin s.done
      BY <1>3 DEF OnPath
    <3>2. \A i \in 1 .. depth : f[i].node \notin t.done
      BY <1>2, <2>3, <3>1
    <3>3. f[depth + 1].node \notin t.done
      BY <1>1, <1>2, <1>6
    <3> QED
      BY <1>8, <3>2, <3>3
  <2> QED
    BY <2>1, <2>2, <2>4, <2>5 DEF OnPath
<1>10. ASSUME s.cyclic = {} PROVE Clear(f, t.done, out)
  <2>1. Clear(s.frames, s.done, out)
    BY <1>10 DEF SearchInv
  <2>2. ASSUME NEW i \in 1 .. Len(f), NEW n \in 1 .. f[i].next - 1
        PROVE  K(f[i].node)[n] \in s.done \/ (i < Len(f) /\ n = f[i].next - 1)
    <3>1. CASE i = depth + 1
      BY <1>6, <2>2, <3>1
    <3>2. CASE i = depth
      <4>1. f[depth].next = s.frames[depth].next + 1 /\ f[depth].node = s.frames[depth].node
        BY <1>3, <1>4, <1>6
      <4>2. n = s.frames[depth].next \/ n \in 1 .. s.frames[depth].next - 1
        BY <1>3, <2>2, <3>2, <4>1
      <4>3. ~(depth < depth) /\ depth < Len(f) /\ f[depth].next - 1 = s.frames[depth].next
        <5>1. \A a \in Int : ~(a < a) /\ a < a + 1 /\ (a + 1) - 1 = a
          OBVIOUS
        <5>2. depth \in Int /\ s.frames[depth].next \in Int
          BY <1>3
        <5> QED
          BY <1>6, <4>1, <5>1, <5>2, Zenon
      <4> QED
        BY <1>3, <2>1, <3>2, <4>1, <4>2, <4>3 DEF Clear
    <3>3. CASE i \in 1 .. depth /\ i # depth
      <4>1. f[i].node = s.frames[i].node /\ f[i].next = s.frames[i].next
        BY <1>4, <1>6, <3>3
      <4>2. i < Len(f) /\ i < depth
        BY <1>3, <1>6, <3>3
      <4> QED
        BY <2>1, <2>2, <3>3, <4>1, <4>2 DEF Clear
    <3> QED
      BY <1>8, <3>1, <3>2, <3>3
  <2> QED
    BY <1>2, <2>1, <2>2 DEF Clear
<1> QED
  BY <1>2, <1>7, <1>9, <1>10 DEF SearchInv, f

LEMMA TurnKeeps ==
    ASSUME NEW out, GraphOK(out), NEW s, SearchInv(s, out)
    PROVE  SearchInv(turn(s, out), out)
<1> DEFINE t == turn(s, out)
<1>1. \/ Over(s, out) /\ t = s
      \/ Opens(s, t, out) \/ Closes(s, t, out)
      \/ Finds(s, t, out) \/ Skips(s, t, out) \/ Enters(s, t, out)
  BY TurnIs
<1> HIDE DEF t
<1> QED
  BY <1>1, OpensKeeps, ClosesKeeps, FindsKeeps, SkipsKeeps, EntersKeeps DEF t
-----------------------------------------------------------------------------
(* The search ends. W counts what there is to do: to enter each node, to look *)
(* at each of its children and to leave it. Each turn does one of them.       *)

W(out) == UNION {{p} \X (0 .. Len(Children(out, p)) + 1) : p \in Nodes(out)}
Used(s, out) ==
    {w \in W(out) : w[1] \in s.done \/ \E i \in 1 .. Len(s.frames) : s.frames[i].node = w[1] /\ w[2] < s.frames[i].next}

LEMMA WIs ==
    ASSUME NEW out, GraphOK(out)
    PROVE  /\ IsFiniteSet(W(out))
           /\ \A p \in Nodes(out), n \in Nat : <<p, n>> \in W(out) <=> n <= Len(Children(out, p)) + 1
           /\ \A w \in W(out) : w[1] \in Nodes(out) /\ w[2] \in Nat
<1> DEFINE K(p) == Children(out, p)
           Row(p) == {p} \X (0 .. Len(K(p)) + 1)
<1>1. \A p \in Nodes(out) : Len(K(p)) \in Nat
  BY LenProperties DEF GraphOK
<1>2. ASSUME NEW p \in Nodes(out) PROVE IsFiniteSet(Row(p))
  <2>1. IsFiniteSet({p}) /\ IsFiniteSet(0 .. Len(K(p)) + 1)
    <3>1. 0 \in Int /\ Len(K(p)) + 1 \in Int
      BY <1>1
    <3>2. IsFiniteSet(0 .. Len(K(p)) + 1)
      BY <3>1, FS_Interval
    <3> QED
      BY <3>2, FS_Singleton
  <2> QED
    BY <2>1, FS_Product
<1>3. IsFiniteSet({Row(p) : p \in Nodes(out)})
  <2> DEFINE f == [p \in Nodes(out) |-> Row(p)]
             R == {Row(p) : p \in Nodes(out)}
  <2>1. f \in Surjection(Nodes(out), R)
    BY DEF Surjection
  <2> QED
    BY <2>1, FS_Surjection DEF GraphOK
<1>4. IsFiniteSet(W(out))
  BY <1>2, <1>3, FS_UNION DEF W
<1>5. \A p \in Nodes(out), n \in Nat : <<p, n>> \in W(out) <=> n <= Len(K(p)) + 1
  BY <1>1 DEF W
<1>6. \A w \in W(out) : w[1] \in Nodes(out) /\ w[2] \in Nat
  BY <1>1 DEF W
<1> QED
  BY <1>4, <1>5, <1>6

LEMMA TurnUses ==
    ASSUME NEW out, GraphOK(out), NEW s, SearchInv(s, out), ~Over(s, out)
    PROVE  Used(s, out) \subseteq Used(turn(s, out), out) /\ Used(turn(s, out), out) # Used(s, out)
<1> DEFINE t == turn(s, out)
           depth == Len(s.frames)
           top == s.frames[depth]
           K(p) == Children(out, p)
<1> SUFFICES Used(s, out) \subseteq Used(t, out) /\ Used(t, out) # Used(s, out)
  OBVIOUS
<1>1. Opens(s, t, out) \/ Closes(s, t, out) \/ Finds(s, t, out) \/ Skips(s, t, out) \/ Enters(s, t, out)
  BY TurnIs
<1>2. SearchInv(t, out)
  BY TurnKeeps
<1>3. /\ \A i \in 1 .. depth : s.frames[i].node \in Nodes(out) /\ s.frames[i].next \in Nat
      /\ \A p \in Nodes(out) : Len(K(p)) \in Nat
      /\ depth \in Nat
  BY InvFacts
<1>4. OnPath(s.frames, s.done, out)
  BY DEF SearchInv
<1> HIDE DEF t
<1>5. CASE Opens(s, t, out)
  <2>1. PICK x \in Nodes(out) \ s.done : t = Search(<<Frame(x, 1)>>, s.done, s.cyclic)
    BY <1>5 DEF Opens
  <2>2. t.frames = <<Frame(x, 1)>> /\ t.done = s.done /\ depth = 0
    BY <1>5, <2>1, SearchFacts DEF Opens
  <2>3. Len(t.frames) = 1 /\ t.frames[1].node = x /\ t.frames[1].next = 1
    BY <2>2, FrameFacts
  <2>4. <<x, 0>> \in W(out)
    BY <1>3, WIs
  <2>5. <<x, 0>> \in Used(t, out)
    BY <2>3, <2>4 DEF Used
  <2>6. <<x, 0>> \notin Used(s, out)
    BY <2>1, <2>2 DEF Used
  <2>7. Used(s, out) \subseteq Used(t, out)
    BY <2>2 DEF Used
  <2> QED
    BY <2>5, <2>6, <2>7
<1>6. CASE Closes(s, t, out)
  <2>1. /\ t.frames = Front(s.frames) /\ t.done = s.done \cup {top.node}
        /\ depth > 0 /\ depth \in 1 .. depth /\ top.next = Len(K(top.node)) + 1
    BY <1>3, <1>6, SearchFacts DEF Closes
  <2>2. Len(t.frames) = depth - 1 /\ \A i \in 1 .. depth - 1 : t.frames[i] = s.frames[i]
    <3>1. Front(s.frames) = [i \in 1 .. depth - 1 |-> s.frames[i]]
      BY <1>3, <2>1 DEF Front
    <3> QED
      BY <1>3, <2>1, <3>1
  <2>3. top.node \in Nodes(out) /\ top.node \notin s.done /\ Len(K(top.node)) + 1 \in Nat
    BY <1>3, <1>4, <2>1 DEF OnPath
  <2> DEFINE w == <<top.node, Len(K(top.node)) + 1>>
  <2>4. w \in W(out)
    BY <2>3, WIs
  <2>5. w \in Used(t, out)
    BY <2>1, <2>4 DEF Used
  <2>6. w \notin Used(s, out)
    <3>1. \A i \in 1 .. depth : s.frames[i].node = top.node => i = depth
      BY <1>4, <2>1 DEF OnPath
    <3>2. ~(Len(K(top.node)) + 1 < top.next)
      BY <2>1, <2>3
    <3> QED
      BY <2>3, <3>1, <3>2 DEF Used
  <2>7. ASSUME NEW u \in Used(s, out) PROVE u \in Used(t, out)
    <3>1. u \in W(out)
      BY DEF Used
    <3>2. CASE u[1] \in s.done
      BY <2>1, <3>1, <3>2 DEF Used
    <3>3. CASE \E i \in 1 .. depth : s.frames[i].node = u[1] /\ u[2] < s.frames[i].next
      <4>1. PICK i \in 1 .. depth : s.frames[i].node = u[1] /\ u[2] < s.frames[i].next
        BY <3>3
      <4>2. CASE i = depth
        BY <2>1, <3>1, <4>1, <4>2 DEF Used
      <4>3. CASE i # depth
        <5>1. i \in 1 .. depth - 1 /\ i \in 1 .. Len(t.frames)
          BY <1>3, <2>2, <4>3
        <5> QED
          BY <2>2, <3>1, <4>1, <5>1 DEF Used
      <4> QED
        BY <4>2, <4>3
    <3> QED
      BY <3>2, <3>3 DEF Used
  <2> QED
    BY <2>5, <2>6, <2>7
<1>7. CASE Finds(s, t, out) \/ Skips(s, t, out) \/ Enters(s, t, out)
  <2>1. PICK child : Looks(s, child, out)
    BY <1>7 DEF Finds, Skips, Enters
  <2>2. depth \in 1 .. depth /\ top.next \in 1 .. Len(K(top.node)) /\ depth > 0
    BY <1>3, <2>1, LooksMoved
  <2>3. /\ Moved(s) \in Seq([node : Nodes(out), next : Nat]) /\ Len(Moved(s)) = depth
        /\ \A i \in 1 .. depth :
             /\ Moved(s)[i].node = s.frames[i].node
             /\ Moved(s)[i].next = IF i = depth THEN s.frames[i].next + 1 ELSE s.frames[i].next
    BY <2>2, MovedIs
  <2>4. /\ t.done = s.done /\ Len(t.frames) \in Nat /\ Len(t.frames) >= depth
        /\ \A i \in 1 .. depth : t.frames[i] = Moved(s)[i]
    <3>1. CASE Finds(s, t, out) \/ Skips(s, t, out)
      <4>1. \E c : t = Search(Moved(s), s.done, c)
        BY <3>1 DEF Finds, Skips
      <4>2. t.done = s.done /\ t.frames = Moved(s)
        BY <4>1 DEF Search
      <4> QED
        BY <1>3, <2>3, <4>2
    <3>2. CASE Enters(s, t, out)
      <4>1. PICK c \in Nodes(out) : t = Search(Append(Moved(s), Frame(c, 1)), s.done, s.cyclic)
        BY <3>2 DEF Enters
      <4>2. t.done = s.done /\ t.frames = Append(Moved(s), Frame(c, 1))
        BY <4>1 DEF Search
      <4>3. Frame(c, 1) \in [node : Nodes(out), next : Nat]
        BY DEF Frame
      <4>4. Len(t.frames) = depth + 1 /\ \A i \in 1 .. depth : t.frames[i] = Moved(s)[i]
        BY <2>3, <4>2, <4>3, AppendProperties
      <4> QED
        BY <1>3, <4>2, <4>4
    <3> QED
      BY <1>7, <3>1, <3>2
  <2>5. /\ \A i \in 1 .. depth : i \in 1 .. Len(t.frames) /\ t.frames[i].node = s.frames[i].node
        /\ \A i \in 1 .. depth : \A n \in Nat : n < s.frames[i].next => n < t.frames[i].next
        /\ top.next < t.frames[depth].next /\ top.next \in Nat
    <3>1. \A i \in 1 .. depth : i \in 1 .. Len(t.frames)
      BY <1>3, <2>4
    <3>2. \A i \in 1 .. depth :
            /\ t.frames[i].node = s.frames[i].node /\ s.frames[i].next \in Nat
            /\ t.frames[i].next = IF i = depth THEN s.frames[i].next + 1 ELSE s.frames[i].next
      BY <1>3, <2>3, <2>4
    <3>3. \A a, n \in Nat : n < a => n < a + 1
      OBVIOUS
    <3>4. \A i \in 1 .. depth : \A n \in Nat : n < s.frames[i].next => n < t.frames[i].next
      BY <3>2, <3>3
    <3>5. top.next \in Nat /\ top.next < t.frames[depth].next
      BY <2>2, <3>2
    <3> QED
      BY <3>1, <3>2, <3>4, <3>5
  <2> DEFINE w == <<top.node, top.next>>
  <2>6. w \in W(out)
    <3>1. top.node \in Nodes(out) /\ Len(K(top.node)) \in Nat
      BY <1>3, <2>2
    <3>2. top.next <= Len(K(top.node)) + 1
      BY <2>2, <3>1
    <3> QED
      BY <2>5, <3>1, <3>2, WIs
  <2>7. w \in Used(t, out)
    BY <2>2, <2>5, <2>6 DEF Used
  <2>8. w \notin Used(s, out)
    <3>1. \A i \in 1 .. depth : s.frames[i].node = top.node => i = depth
      BY <1>4, <2>2 DEF OnPath
    <3>2. ~(top.next < top.next) /\ top.node \notin s.done
      BY <1>4, <2>2, <2>5 DEF OnPath
    <3> QED
      BY <3>1, <3>2 DEF Used
  <2>9. ASSUME NEW u \in Used(s, out) PROVE u \in Used(t, out)
    <3>1. u \in W(out) /\ u[2] \in Nat
      BY WIs DEF Used
    <3>2. CASE u[1] \in s.done
      BY <2>4, <3>1, <3>2 DEF Used
    <3>3. CASE \E i \in 1 .. depth : s.frames[i].node = u[1] /\ u[2] < s.frames[i].next
      BY <2>5, <3>1, <3>3 DEF Used
    <3> QED
      BY <3>2, <3>3 DEF Used
  <2> QED
    BY <2>7, <2>8, <2>9
<1> QED
  BY <1>1, <1>5, <1>6, <1>7
Begun == Search(<<>>, {}, {})
LEMMA BegunHolds == ASSUME NEW out, GraphOK(out) PROVE SearchInv(Begun, out)
<1>1. /\ Begun = Search(<<>>, {}, {})
      /\ Begun.frames = <<>> /\ Begun.done = {} /\ Begun.cyclic = {} /\ Len(Begun.frames) = 0
  BY SearchFacts DEF Begun
<1>2. Begun \in SearchType(out)
  <2>1. <<>> \in Seq([node : Nodes(out), next : Nat]) /\ {} \in SUBSET Nodes(out)
    OBVIOUS
  <2> QED
    BY <1>1, <2>1, SearchIs
<1>3. OnPath(Begun.frames, Begun.done, out) /\ Clear(Begun.frames, Begun.done, out)
  BY <1>1 DEF OnPath, Clear, RingOf
<1> QED
  BY <1>1, <1>2, <1>3 DEF SearchInv

LEMMA OverStays ==
    ASSUME NEW out, GraphOK(out), NEW s, SearchInv(s, out), Over(s, out)
    PROVE  turn(s, out) = s
<1> DEFINE t == turn(s, out)
<1>1. \/ Over(s, out) /\ t = s
      \/ Opens(s, t, out) \/ Closes(s, t, out)
      \/ Finds(s, t, out) \/ Skips(s, t, out) \/ Enters(s, t, out)
  BY TurnIs
<1>2. Len(s.frames) = 0 /\ Nodes(out) \ s.done = {}
  BY DEF Over
<1> HIDE DEF t
<1>3. ~Opens(s, t, out)
  BY <1>2 DEF Opens
<1>4. ~Closes(s, t, out)
  BY <1>2 DEF Closes
<1>5. ~Finds(s, t, out) /\ ~Skips(s, t, out) /\ ~Enters(s, t, out)
  BY <1>2 DEF Finds, Skips, Enters, Looks
<1> QED
  BY <1>1, <1>3, <1>4, <1>5 DEF t

LEMMA AllUsed ==
    ASSUME NEW out, GraphOK(out), NEW s, SearchInv(s, out), Used(s, out) = W(out)
    PROVE  Over(s, out)
<1> DEFINE K(p) == Children(out, p)
<1>1. /\ \A i \in 1 .. Len(s.frames) : s.frames[i].node \in Nodes(out)
      /\ \A p \in Nodes(out) : Len(K(p)) \in Nat
      /\ Len(s.frames) \in Nat /\ s.frames \in Seq([node : Nodes(out), next : Nat])
      /\ OnPath(s.frames, s.done, out)
  BY InvFacts DEF SearchInv
<1>2. ASSUME NEW p \in Nodes(out) PROVE p \in s.done
  <2>1. Len(K(p)) + 1 \in Nat
    BY <1>1
  <2>2. <<p, Len(K(p)) + 1>> \in Used(s, out)
    BY <2>1, WIs
  <2>3. ASSUME NEW i \in 1 .. Len(s.frames), s.frames[i].node = p, Len(K(p)) + 1 < s.frames[i].next PROVE FALSE
    <3>1. s.frames[i].next \in 1 .. Len(K(p)) + 1
      BY <1>1, <2>3 DEF OnPath
    <3> QED
      BY <2>1, <2>3, <3>1
  <2> QED
    BY <2>2, <2>3 DEF Used
<1>3. Len(s.frames) = 0
  <2>1. ASSUME NEW i \in 1 .. Len(s.frames) PROVE FALSE
    BY <1>1, <1>2 DEF OnPath
  <2> QED
    BY <1>1, <2>1
<1>4. s.frames = <<>>
  BY <1>1, <1>3, EmptySeq
<1> QED
  BY <1>2, <1>4 DEF Over

LEMMA RunExists ==
    ASSUME NEW out, NEW m \in Nat
    PROVE  \E f : f = [n \in 0 .. m |-> IF n = 0 THEN Begun ELSE turn(f[n - 1], out)]
<1> DEFINE Is(f, k) == f = [n \in 0 .. k |-> IF n = 0 THEN Begun ELSE turn(f[n - 1], out)]
           S == {k \in Nat : \E f : Is(f, k)}
<1>1. 0 \in S
  <2> DEFINE f == [n \in 0 .. 0 |-> Begun]
  <2>1. \A n \in 0 .. 0 : n = 0
    OBVIOUS
  <2>2. Is(f, 0)
    BY <2>1
  <2> QED
    BY <2>2
<1>2. ASSUME NEW k \in Nat, k \in S PROVE k + 1 \in S
  <2>1. PICK f : Is(f, k)
    BY <1>2
  <2> DEFINE g == [n \in 0 .. k + 1 |-> IF n = k + 1 THEN turn(f[k], out) ELSE f[n]]
  <2>2. \A n \in 0 .. k : f[n] = IF n = 0 THEN Begun ELSE turn(f[n - 1], out)
    BY <2>1
  <2>3. ASSUME NEW n \in 0 .. k + 1 PROVE g[n] = IF n = 0 THEN Begun ELSE turn(g[n - 1], out)
    <3>1. CASE n = k + 1
      <4>1. n # 0 /\ n - 1 = k /\ k \in 0 .. k + 1 /\ k # k + 1
        BY <1>2, <3>1
      <4>2. g[k] = f[k] /\ g[n] = turn(f[k], out)
        BY <3>1, <4>1
      <4> QED
        BY <4>1, <4>2
    <3>2. CASE n # k + 1 /\ n # 0
      <4>1. n \in 0 .. k /\ n - 1 \in 0 .. k + 1 /\ n - 1 # k + 1
        BY <1>2, <3>2
      <4>2. g[n] = f[n] /\ g[n - 1] = f[n - 1]
        BY <3>2, <4>1
      <4> QED
        BY <2>2, <3>2, <4>1, <4>2
    <3>3. CASE n # k + 1 /\ n = 0
      <4>1. n \in 0 .. k
        BY <1>2, <3>3
      <4>2. g[n] = f[n]
        BY <3>3
      <4> QED
        BY <2>2, <3>3, <4>1, <4>2
    <3> QED
      BY <3>1, <3>2, <3>3
  <2>4. g = [n \in 0 .. k + 1 |-> g[n]]
    OBVIOUS
  <2>5. Is(g, k + 1)
    <3> HIDE DEF g
    <3> QED
      BY <2>3, <2>4
  <2>6. k + 1 \in Nat /\ \E f_ : Is(f_, k + 1)
    <3> HIDE DEF Is, g
    <3> QED
      BY <2>5
  <2> QED
    BY <2>6
<1>3. Nat \subseteq S
  <2> HIDE DEF S
  <2> QED
    BY <1>1, <1>2, ByNat
<1> QED
  BY <1>3

\* What the search found, and that it was over by then.
LEMMA SearchEnds ==
    ASSUME NEW out, GraphOK(out)
    PROVE  \E s : SearchInv(s, out) /\ Over(s, out) /\ s.cyclic = cyclic_nodes(out)
<1> DEFINE turns == Turns(out)
           search == CHOOSE f : f = [n \in 0 .. turns |->
                       IF n = 0 THEN [frames |-> <<>>, done |-> {}, cyclic |-> {}] ELSE turn(f[n - 1], out)]
<1>1. turns = Cardinality(W(out)) /\ turns \in Nat /\ IsFiniteSet(W(out))
  BY WIs, FS_CardinalityType DEF Turns, W
<1>2. cyclic_nodes(out) = search[turns].cyclic
  BY DEF cyclic_nodes
<1> HIDE DEF turns
<1>3. search = [n \in 0 .. turns |-> IF n = 0 THEN Begun ELSE turn(search[n - 1], out)]
  <2>1. \E f : f = [n \in 0 .. turns |-> IF n = 0 THEN [frames |-> <<>>, done |-> {}, cyclic |-> {}] ELSE turn(f[n - 1], out)]
    BY <1>1, RunExists DEF Begun, Search
  <2>2. search = [n \in 0 .. turns |-> IF n = 0 THEN [frames |-> <<>>, done |-> {}, cyclic |-> {}] ELSE turn(search[n - 1], out)]
    BY <2>1, Zenon
  <2> HIDE DEF search
  <2> QED
    BY <2>2 DEF Begun, Search
<1> HIDE DEF search
<1>4. search[0] = Begun /\ \A n \in 1 .. turns : search[n] = turn(search[n - 1], out)
  <2>1. 0 \in 0 .. turns /\ \A n \in 1 .. turns : n \in 0 .. turns /\ n # 0
    BY <1>1
  <2> QED
    BY <1>3, <2>1
<1> DEFINE Good(n) == n <= turns => /\ SearchInv(search[n], out)
                                    /\ Over(search[n], out) \/ Cardinality(Used(search[n], out)) >= n
           S == {n \in Nat : Good(n)}
<1>5. \A s : IsFiniteSet(Used(s, out)) /\ Cardinality(Used(s, out)) \in Nat
  <2>1. \A s : Used(s, out) \in SUBSET W(out)
    BY DEF Used
  <2> QED
    BY <1>1, <2>1, FS_Subset, FS_CardinalityType
<1>6. Good(0)
  BY <1>4, <1>5, BegunHolds
<1>7. ASSUME NEW n \in Nat, Good(n) PROVE Good(n + 1)
  <2> SUFFICES ASSUME n + 1 <= turns
               PROVE  /\ SearchInv(search[n + 1], out)
                      /\ Over(search[n + 1], out) \/ Cardinality(Used(search[n + 1], out)) >= n + 1
    OBVIOUS
  <2> DEFINE s == search[n]
             t == search[n + 1]
  <2>1. t = turn(s, out)
    <3>1. n + 1 \in 1 .. turns /\ (n + 1) - 1 = n
      BY <1>1
    <3>2. search[n + 1] = turn(search[(n + 1) - 1], out)
      BY <1>4, <3>1
    <3> QED
      BY <3>1, <3>2
  <2>2. SearchInv(s, out) /\ (Over(s, out) \/ Cardinality(Used(s, out)) >= n)
    BY <1>1, <1>7
  <2> HIDE DEF s, t
  <2>3. SearchInv(t, out)
    BY <2>1, <2>2, TurnKeeps
  <2>4. CASE Over(s, out)
    BY <2>1, <2>2, <2>3, <2>4, OverStays DEF t
  <2>5. CASE ~Over(s, out)
    <3>1. Used(s, out) \subseteq Used(t, out) /\ Used(t, out) # Used(s, out)
      BY <2>1, <2>2, <2>5, TurnUses
    <3>2. Used(s, out) \in SUBSET Used(t, out)
      BY <3>1
    <3>3. /\ Cardinality(Used(s, out)) <= Cardinality(Used(t, out))
          /\ Cardinality(Used(t, out)) # Cardinality(Used(s, out))
      BY <1>5, <3>1, <3>2, FS_Subset
    <3>4. /\ Cardinality(Used(s, out)) \in Nat /\ Cardinality(Used(t, out)) \in Nat
          /\ Cardinality(Used(s, out)) >= n
      BY <1>5, <2>2, <2>5
    <3>5. Cardinality(Used(t, out)) >= n + 1
      BY <3>3, <3>4
    <3> QED
      BY <2>3, <3>5 DEF t
  <2> QED
    BY <2>4, <2>5
<1> HIDE DEF Good
<1>8. Nat \subseteq S
  <2>1. 0 \in S /\ \A n \in Nat : n \in S => n + 1 \in S
    BY <1>6, <1>7
  <2> HIDE DEF S
  <2> QED
    BY <2>1, ByNat
<1>9. Good(turns)
  BY <1>1, <1>8
<1> DEFINE s == search[turns]
<1>10. SearchInv(s, out) /\ (Over(s, out) \/ Cardinality(Used(s, out)) >= turns)
  BY <1>1, <1>9 DEF Good
<1> HIDE DEF s
<1>11. Over(s, out)
  <2>1. ASSUME Cardinality(Used(s, out)) >= turns PROVE Over(s, out)
    <3>1. Used(s, out) \in SUBSET W(out)
      BY DEF Used
    <3>2. Cardinality(Used(s, out)) <= Cardinality(W(out))
      BY <1>1, <3>1, FS_Subset
    <3>3. Cardinality(W(out)) = Cardinality(Used(s, out))
      BY <1>1, <1>5, <2>1, <3>2
    <3>4. Used(s, out) = W(out)
      BY <1>1, <3>1, <3>3, FS_Subset
    <3> QED
      BY <1>10, <3>4, AllUsed
  <2> QED
    BY <1>10, <2>1
<1> QED
  BY <1>2, <1>10, <1>11 DEF s

\* Where there is a ring, the search finds one.
LEMMA SearchFinds ==
    ASSUME NEW out, GraphOK(out), NEW R, RingOf(R, out)
    PROVE  \E ring \in SUBSET cyclic_nodes(out) : RingOf(ring, out)
<1>1. PICK s : SearchInv(s, out) /\ Over(s, out) /\ s.cyclic = cyclic_nodes(out)
  BY SearchEnds
<1>2. CASE s.cyclic # {}
  BY <1>1, <1>2 DEF SearchInv
<1>3. CASE s.cyclic = {}
  <2>1. \A p \in R : p \in DOMAIN out /\ p \in Nodes(out)
    <3>1. ASSUME NEW p \in R PROVE p \in DOMAIN out /\ out[p] # <<>>
      <4>1. PICK n \in 1 .. Len(Children(out, p)) : Children(out, p)[n] \in R
        BY DEF RingOf
      <4>2. Children(out, p) # <<>>
        BY <4>1
      <4> QED
        BY <4>2 DEF Children
    <3> QED
      BY <3>1 DEF Nodes
  <2>2. R \in SUBSET s.done
    BY <1>1, <2>1 DEF Over
  <2> QED
    BY <1>1, <1>3, <2>2 DEF SearchInv, Clear
<1> QED
  BY <1>2, <1>3
-----------------------------------------------------------------------------
(* The edges the search is given.                                          *)

EndsRun(f, ends, m) ==
    f = [n \in 0 .. m |-> IF n = 0 THEN <<>> ELSE IF ends[n].found THEN Append(f[n - 1], ends[n].path) ELSE f[n - 1]]
LEMMA EndsExists ==
    ASSUME NEW ends, NEW m \in Nat
    PROVE  \E f : EndsRun(f, ends, m)
<1> DEFINE Next_(x, n) == IF ends[n].found THEN Append(x, ends[n].path) ELSE x
           Is(f, k) == f = [n \in 0 .. k |-> IF n = 0 THEN <<>> ELSE Next_(f[n - 1], n)]
           S == {k \in Nat : \E f : Is(f, k)}
<1> HIDE DEF Next_
<1>1. 0 \in S
  <2> DEFINE f == [n \in 0 .. 0 |-> <<>>]
  <2>1. \A n \in 0 .. 0 : n = 0
    OBVIOUS
  <2>2. Is(f, 0)
    BY <2>1
  <2> QED
    BY <2>2
<1>2. ASSUME NEW k \in Nat, k \in S PROVE k + 1 \in S
  <2>1. PICK f : Is(f, k)
    BY <1>2
  <2> DEFINE g == [n \in 0 .. k + 1 |-> IF n = k + 1 THEN Next_(f[k], n) ELSE f[n]]
  <2>2. \A n \in 0 .. k : f[n] = IF n = 0 THEN <<>> ELSE Next_(f[n - 1], n)
    BY <2>1
  <2>3. ASSUME NEW n \in 0 .. k + 1 PROVE g[n] = IF n = 0 THEN <<>> ELSE Next_(g[n - 1], n)
    <3>1. CASE n = k + 1
      <4>1. n # 0 /\ n - 1 = k /\ k \in 0 .. k + 1 /\ k # k + 1
        BY <1>2, <3>1
      <4>2. g[k] = f[k] /\ g[n] = Next_(f[k], n)
        BY <3>1, <4>1
      <4> QED
        BY <4>1, <4>2
    <3>2. CASE n # k + 1 /\ n # 0
      <4>1. n \in 0 .. k /\ n - 1 \in 0 .. k + 1 /\ n - 1 # k + 1
        BY <1>2, <3>2
      <4>2. g[n] = f[n] /\ g[n - 1] = f[n - 1]
        BY <3>2, <4>1
      <4> QED
        BY <2>2, <3>2, <4>1, <4>2
    <3>3. CASE n # k + 1 /\ n = 0
      <4>1. n \in 0 .. k
        BY <1>2, <3>3
      <4>2. g[n] = f[n]
        BY <3>3
      <4> QED
        BY <2>2, <3>3, <4>1, <4>2
    <3> QED
      BY <3>1, <3>2, <3>3
  <2>4. g = [n \in 0 .. k + 1 |-> g[n]]
    OBVIOUS
  <2>5. Is(g, k + 1)
    <3> HIDE DEF g
    <3> QED
      BY <2>3, <2>4
  <2>6. k + 1 \in Nat /\ \E f_ : Is(f_, k + 1)
    <3> HIDE DEF Is, g
    <3> QED
      BY <2>5
  <2> QED
    BY <2>6
<1>3. Nat \subseteq S
  <2> HIDE DEF S
  <2> QED
    BY <1>1, <1>2, ByNat
<1> QED
  BY <1>3 DEF Next_, EndsRun

LEMMA EndsIs ==
    ASSUME NEW ends, NEW m \in Nat, Len(ends) = m, NEW T,
           \A n \in 1 .. m : ends[n].found => ends[n].path \in T
    PROVE  /\ Ends(ends) \in Seq(T)
           /\ \A q : (\E j \in 1 .. Len(Ends(ends)) : Ends(ends)[j] = q)
                     <=> \E n \in 1 .. m : ends[n].found /\ ends[n].path = q
<1> DEFINE found == CHOOSE f : f = [n \in 0 .. Len(ends) |-> IF n = 0 THEN <<>>
                      ELSE IF ends[n].found THEN Append(f[n - 1], ends[n].path) ELSE f[n - 1]]
<1>1. Ends(ends) = found[m]
  BY DEF Ends
<1>2. found = [n \in 0 .. m |-> IF n = 0 THEN <<>>
                 ELSE IF ends[n].found THEN Append(found[n - 1], ends[n].path) ELSE found[n - 1]]
  <2>1. \E f : f = [n \in 0 .. Len(ends) |-> IF n = 0 THEN <<>>
                      ELSE IF ends[n].found THEN Append(f[n - 1], ends[n].path) ELSE f[n - 1]]
    <3>1. Len(ends) \in Nat
      OBVIOUS
    <3>2. \E f : EndsRun(f, ends, Len(ends))
      BY <3>1, EndsExists
    <3> QED
      BY <3>2 DEF EndsRun
  <2>2. found = [n \in 0 .. Len(ends) |-> IF n = 0 THEN <<>>
                   ELSE IF ends[n].found THEN Append(found[n - 1], ends[n].path) ELSE found[n - 1]]
    BY <2>1, Zenon
  <2> HIDE DEF found
  <2> QED
    BY <2>2
<1> HIDE DEF found
<1>3. /\ found[0] = <<>>
      /\ \A n \in 1 .. m : found[n] = IF ends[n].found THEN Append(found[n - 1], ends[n].path) ELSE found[n - 1]
  <2>1. 0 \in 0 .. m /\ \A n \in 1 .. m : n \in 0 .. m /\ n # 0
    OBVIOUS
  <2> QED
    BY <1>2, <2>1
<1> DEFINE In_(q, x) == \E j \in 1 .. Len(x) : x[j] = q
           Up(q, n) == \E k \in 1 .. n : ends[k].found /\ ends[k].path = q
<1>a. \A q : ~In_(q, <<>>) /\ ~Up(q, 0)
  OBVIOUS
<1>b. \A q, n : n \in Nat => (Up(q, n + 1) <=> Up(q, n) \/ (ends[n + 1].found /\ ends[n + 1].path = q))
  <2>1. \A k, n : n \in Nat => (k \in 1 .. n + 1 <=> k \in 1 .. n \/ k = n + 1)
    OBVIOUS
  <2> QED
    BY <2>1, Zenon
<1>c. ASSUME NEW x \in Seq(T), NEW e \in T PROVE \A q : In_(q, Append(x, e)) <=> In_(q, x) \/ e = q
  <2> DEFINE y == Append(x, e)
  <2>1. /\ Len(y) = Len(x) + 1 /\ (\A i \in 1 .. Len(x) : y[i] = x[i]) /\ y[Len(x) + 1] = e
        /\ Len(x) \in Nat
    BY AppendProperties, LenProperties
  <2> HIDE DEF y
  <2>2. \A k : k \in 1 .. Len(y) <=> k \in 1 .. Len(x) \/ k = Len(x) + 1
    BY <2>1
  <2>3. \A q : In_(q, y) <=> In_(q, x) \/ e = q
    BY <2>1, <2>2
  <2> QED
    BY <2>3 DEF y
<1> HIDE DEF In_, Up
<1> DEFINE Good(n) == n <= m => found[n] \in Seq(T) /\ \A q : In_(q, found[n]) <=> Up(q, n)
           S == {n \in Nat : Good(n)}
<1>4. Good(0)
  BY <1>3, <1>a
<1>5. ASSUME NEW n \in Nat, Good(n) PROVE Good(n + 1)
  <2> SUFFICES ASSUME n + 1 <= m
               PROVE  found[n + 1] \in Seq(T) /\ \A q : In_(q, found[n + 1]) <=> Up(q, n + 1)
    OBVIOUS
  <2>1. n + 1 \in 1 .. m /\ (n + 1) - 1 = n /\ n <= m
    OBVIOUS
  <2>2. found[n] \in Seq(T) /\ \A q : In_(q, found[n]) <=> Up(q, n)
    BY <1>5, <2>1
  <2>3. \A q : Up(q, n + 1) <=> Up(q, n) \/ (ends[n + 1].found /\ ends[n + 1].path = q)
    BY <1>b
  <2>4. CASE ~ends[n + 1].found
    <3>1. found[n + 1] = found[n]
      BY <1>3, <2>1, <2>4
    <3> QED
      BY <2>2, <2>3, <2>4, <3>1
  <2>5. CASE ends[n + 1].found
    <3>1. found[n + 1] = Append(found[n], ends[n + 1].path)
      BY <1>3, <2>1, <2>5
    <3>2. ends[n + 1].path \in T
      BY <2>1, <2>5
    <3>3. /\ Append(found[n], ends[n + 1].path) \in Seq(T)
          /\ \A q : In_(q, Append(found[n], ends[n + 1].path)) <=> In_(q, found[n]) \/ ends[n + 1].path = q
      BY <1>c, <2>2, <3>2, AppendProperties
    <3> QED
      BY <2>2, <2>3, <2>5, <3>1, <3>3, Zenon
  <2> QED
    BY <2>4, <2>5
<1> HIDE DEF Good
<1>6. Nat \subseteq S
  <2>1. 0 \in S /\ \A n \in Nat : n \in S => n + 1 \in S
    BY <1>4, <1>5
  <2> HIDE DEF S
  <2> QED
    BY <2>1, ByNat
<1>7. Good(m)
  BY <1>6
<1>8. found[m] \in Seq(T) /\ \A q : In_(q, found[m]) <=> Up(q, m)
  BY <1>7 DEF Good
<1>9. Ends(ends) \in Seq(T) /\ \A q : In_(q, Ends(ends)) <=> Up(q, m)
  BY <1>1, <1>8
<1> QED
  BY <1>9, Zenon DEF In_, Up

LEMMA GraphIs ==
    ASSUME NEW out, IsFiniteSet(DOMAIN out), DOMAIN out \subseteq Texts_,
           \A p \in DOMAIN out : out[p] \in Seq(Texts_)
    PROVE  GraphOK(out)
<1> DEFINE N == Nodes(out)
           Sets == {ToSet(out[p]) : p \in DOMAIN out}
<1>1. \A p \in DOMAIN out : Len(out[p]) \in Nat /\ DOMAIN out[p] = 1 .. Len(out[p])
  BY LenProperties
<1>2. ASSUME NEW p \in DOMAIN out PROVE IsFiniteSet(ToSet(out[p])) /\ ToSet(out[p]) \subseteq Texts_
  <2>1. IsFiniteSet(1 .. Len(out[p]))
    <3>1. 1 \in Int /\ Len(out[p]) \in Int
      BY <1>1
    <3> QED
      BY <3>1, FS_Interval
  <2> DEFINE f == [n \in 1 .. Len(out[p]) |-> out[p][n]]
  <2>2. f \in Surjection(1 .. Len(out[p]), ToSet(out[p]))
    BY <1>1 DEF Surjection, ToSet
  <2>3. IsFiniteSet(ToSet(out[p]))
    BY <2>1, <2>2, FS_Surjection
  <2>4. ToSet(out[p]) \subseteq Texts_
    BY <1>1, ElementOfSeq DEF ToSet
  <2> QED
    BY <2>3, <2>4
<1>3. IsFiniteSet(Sets)
  <2> DEFINE f == [p \in DOMAIN out |-> ToSet(out[p])]
  <2>1. f \in Surjection(DOMAIN out, Sets)
    BY DEF Surjection
  <2> QED
    BY <2>1, FS_Surjection
<1>4. IsFiniteSet(UNION Sets) /\ IsFiniteSet({p \in DOMAIN out : out[p] # <<>>})
  <2>1. {p \in DOMAIN out : out[p] # <<>>} \in SUBSET DOMAIN out
    OBVIOUS
  <2> QED
    <3>1. \A X \in Sets : IsFiniteSet(X)
      BY <1>2
    <3> HIDE DEF Sets
    <3> QED
      BY <1>3, <2>1, <3>1, FS_UNION, FS_Subset
<1>5. N = {p \in DOMAIN out : out[p] # <<>>} \cup (UNION Sets)
  BY DEF Nodes
<1>6. IsFiniteSet(N) /\ N \subseteq Texts_
  <2>1. IsFiniteSet(N)
    <3> HIDE DEF N, Sets
    <3>1. IsFiniteSet({p \in DOMAIN out : out[p] # <<>>} \cup (UNION Sets))
      BY <1>4, FS_Union
    <3> QED
      BY <1>5, <3>1
  <2> QED
    BY <1>2, <1>5, <2>1
<1>7. ASSUME NEW p \in N PROVE Children(out, p) \in Seq(N)
  <2>1. CASE p \notin DOMAIN out
    <3>1. Children(out, p) = <<>>
      BY <2>1 DEF Children
    <3> HIDE DEF N
    <3> QED
      BY <3>1
  <2>2. CASE p \in DOMAIN out
    <3>1. Children(out, p) = out[p]
      BY <2>2 DEF Children
    <3>2. \A i \in 1 .. Len(out[p]) : out[p][i] \in N
      BY <1>1, <1>5, <2>2 DEF ToSet
    <3>3. out[p] = [i \in 1 .. Len(out[p]) |-> out[p][i]]
      BY <2>2, LenProperties
    <3> HIDE DEF N
    <3>4. out[p] \in Seq(N)
      BY <1>1, <2>2, <3>2, <3>3, IsASeq
    <3> QED
      BY <3>1, <3>4
  <2> QED
    BY <2>1, <2>2
<1> QED
  BY <1>6, <1>7 DEF GraphOK
\* The names a file writes in the field.
NamesIn(file, schema) ==
    IF Readable(file) /\ Declares(schema, RefField)
    THEN UNION {ToSet(e.items) : e \in {x \in ToSet(file.entries) : x.name = RefField /\ x.shape = "list"}} ELSE {}

LEMMA FileFacts ==
    ASSUME NEW file, FileType(file)
    PROVE  /\ Len(file.entries) \in Nat /\ DOMAIN file.entries = 1 .. Len(file.entries)
           /\ \A i \in 1 .. Len(file.entries) :
                LET e == file.entries[i]
                IN  /\ e \in EntryType /\ e.items \in Seq(Written) /\ e.name \in STRING
                    /\ Len(e.items) \in Nat /\ DOMAIN e.items = 1 .. Len(e.items)
                    /\ \A n \in 1 .. Len(e.items) : e.items[n] \in Written
<1>1. file.entries \in Seq(EntryType)
  BY DEF FileType
<1>2. Len(file.entries) \in Nat /\ DOMAIN file.entries = 1 .. Len(file.entries)
  BY <1>1, LenProperties
<1>3. \A i \in 1 .. Len(file.entries) : file.entries[i] \in EntryType
  BY <1>1, ElementOfSeq
<1>4. ASSUME NEW e \in EntryType
      PROVE  /\ e.items \in Seq(Written) /\ e.name \in STRING
             /\ Len(e.items) \in Nat /\ DOMAIN e.items = 1 .. Len(e.items)
             /\ \A n \in 1 .. Len(e.items) : e.items[n] \in Written
  <2>1. e.items \in Seq(Written) /\ e.name \in STRING
    BY DEF EntryType
  <2> QED
    BY <2>1, LenProperties, ElementOfSeq
<1> QED
  BY <1>2, <1>3, <1>4

LEMMA FieldAtIs ==
    ASSUME NEW fields, NEW n \in Nat, DOMAIN fields = 1 .. n, NEW i \in 1 .. n,
           \A j \in 1 .. n : fields[j].name = fields[i].name => j = i
    PROVE  FieldAt(fields, fields[i].name) = i
<1> DEFINE at == {j \in DOMAIN fields : fields[j].name = fields[i].name}
<1>1. at = {i}
  OBVIOUS
<1>2. Min(at) = i
  BY <1>1 DEF Min
<1> QED
  BY <1>1, <1>2 DEF FieldAt

\* What a readable file says of the field.
LEMMA FieldIs ==
    ASSUME NEW file, FileType(file), Readable(file), NEW schema, Declares(schema, RefField),
           Declared(schema, RefField).kind = "ref[]"
    PROVE  LET fields == ReadFields(file, schema)
           IN  /\ HasField(fields, RefField) <=> \E i \in 1 .. Len(file.entries) : file.entries[i].name = RefField
               /\ \A i \in 1 .. Len(file.entries) :
                    file.entries[i].name = RefField =>
                      /\ FieldAt(fields, RefField) = i
                      /\ FieldValue(fields, RefField) = ShapeValue(file.entries[i])
                      /\ \A j \in 1 .. Len(file.entries) : file.entries[j].name = RefField => j = i
<1> DEFINE fields == ReadFields(file, schema)
           m == Len(file.entries)
<1>1. m \in Nat /\ DOMAIN file.entries = 1 .. m
  BY FileFacts
<1>2. DOMAIN fields = 1 .. m /\ \A i \in 1 .. m : fields[i].name = file.entries[i].name
  BY <1>1 DEF ReadFields
<1>3. ASSUME NEW i \in 1 .. m, file.entries[i].name = RefField
      PROVE  /\ FieldAt(fields, RefField) = i
             /\ FieldValue(fields, RefField) = ShapeValue(file.entries[i])
             /\ \A j \in 1 .. m : file.entries[j].name = RefField => j = i
  <2>1. \A j \in 1 .. m : file.entries[j].name = RefField => j = i
    <3>1. \A k \in 1 .. m : \A j \in 1 .. k - 1 : file.entries[j].name # file.entries[k].name
      BY <1>1 DEF Readable
    <3>2. ASSUME NEW j \in 1 .. m, file.entries[j].name = RefField PROVE j = i
      <4>1. ~(j < i)
        BY <1>1, <1>3, <3>1, <3>2
      <4>2. ~(i < j)
        BY <1>1, <1>3, <3>1, <3>2
      <4> QED
        BY <1>1, <4>1, <4>2
    <3> QED
      BY <3>2
  <2> HIDE DEF fields, m
  <2>2. fields[i].name = RefField /\ \A j \in 1 .. m : fields[j].name = fields[i].name => j = i
    BY <1>2, <1>3, <2>1
  <2>3. FieldAt(fields, RefField) = i
    <3>1. FieldAt(fields, fields[i].name) = i
      BY <1>1, <1>2, <2>2, FieldAtIs
    <3> QED
      BY <2>2, <3>1
  <2>4. FieldValue(fields, RefField) = coerce("ref[]", ShapeValue(file.entries[i]))
    <3>1. FieldValue(fields, RefField) = fields[i].value
      BY <2>3 DEF FieldValue
    <3>2. fields[i].value = coerce(Declared(schema, RefField).kind, ShapeValue(file.entries[i]))
      BY <1>1, <1>3 DEF fields, m, ReadFields
    <3> QED
      BY <3>1, <3>2
  <2>5. coerce("ref[]", ShapeValue(file.entries[i])) = ShapeValue(file.entries[i])
    BY DEF coerce
  <2> QED
    BY <2>1, <2>3, <2>4, <2>5
<1>4. HasField(fields, RefField) <=> \E i \in 1 .. m : file.entries[i].name = RefField
  <2>1. ASSUME ~\E i \in 1 .. m : file.entries[i].name = RefField PROVE FieldAt(fields, RefField) = 0
    BY <1>2, <2>1 DEF FieldAt
  <2>2. ASSUME NEW i \in 1 .. m, file.entries[i].name = RefField PROVE FieldAt(fields, RefField) # 0
    BY <1>1, <1>3, <2>2
  <2> QED
    BY <2>1, <2>2 DEF HasField
<1> QED
  BY <1>3, <1>4

LEMMA ShapeIs ==
    ASSUME NEW e \in EntryType
    PROVE  /\ e.shape = "list" => ShapeValue(e) = ListValue(e.items)
           /\ e.shape # "list" => ShapeValue(e).type # "List"
<1>1. e.shape = "list" => ShapeValue(e) = ListValue(e.items)
  BY DEF ShapeValue
<1>2. e.shape # "list" => ShapeValue(e).type # "List"
  BY DEF ShapeValue, EmptyValue, TextValue
<1> QED
  BY <1>1, <1>2

LEMMA ListFacts ==
    \A x : /\ ListValue(x).type = "List" /\ ListValue(x).items = x /\ ref_values(ListValue(x)) = x
           /\ \A y : ListValue(x) = ListValue(y) => x = y
BY DEF ListValue, ref_values

LEMMA OutgoingIs ==
    ASSUME NEW texts, NEW p \in DOMAIN texts, p \in DOMAIN Entries, FileType(texts[p]), NEW candidate,
           \A name \in Written : resolve_one_for_candidate(name, p, candidate).found =>
                                   resolve_one_for_candidate(name, p, candidate).path \in Texts_
    PROVE  LET kids == Outgoing(texts, RefField, candidate)[p]
           IN  /\ kids \in Seq(Texts_)
               /\ \A q : (\E j \in 1 .. Len(kids) : kids[j] = q) <=>
                         \E name \in NamesIn(texts[p], SchemaOf(p)) :
                           /\ resolve_one_for_candidate(name, p, candidate).found
                           /\ resolve_one_for_candidate(name, p, candidate).path = q
<1> DEFINE file == texts[p]
           schema == SchemaOf(p)
           fields == ReadFields(file, schema)
           value == FieldValue(fields, RefField)
           r(name) == resolve_one_for_candidate(name, p, candidate)
           ends == [n \in DOMAIN ref_values(value) |-> r(ref_values(value)[n])]
           kids == Outgoing(texts, RefField, candidate)[p]
           names == NamesIn(file, schema)
<1> SUFFICES /\ kids \in Seq(Texts_)
             /\ \A q : (\E j \in 1 .. Len(kids) : kids[j] = q) <=> \E name \in names : r(name).found /\ r(name).path = q
  OBVIOUS
<1>1. kids = IF /\ Readable(file) /\ HasField(fields, RefField)
                /\ IsRefField(schema, RefField, value) /\ Declared(schema, RefField).acyclic
             THEN Ends(ends) ELSE <<>>
  BY DEF Outgoing
<1>2. Declares(schema, RefField) => Declared(schema, RefField).kind = "ref[]" /\ Declared(schema, RefField).acyclic
  BY RefFieldAssumption, IndexAssumption DEF SchemaOf, CollectionOf, CollectionNames
<1>3. FileType(file)
  OBVIOUS
<1>4. \A name \in Written : r(name).found => r(name).path \in Texts_
  OBVIOUS
<1> HIDE DEF kids, r, schema, file
<1>5. ASSUME kids = <<>>, names = {}
      PROVE  /\ kids \in Seq(Texts_)
             /\ \A q : (\E j \in 1 .. Len(kids) : kids[j] = q) <=> \E name \in names : r(name).found /\ r(name).path = q
  <2> HIDE DEF names
  <2>1. kids \in Seq(Texts_) /\ Len(kids) = 0
    BY <1>5
  <2> QED
    BY <1>5, <2>1
<1>6. CASE ~Readable(file) \/ ~Declares(schema, RefField)
  <2>1. names = {}
    BY <1>6 DEF NamesIn
  <2>2. kids = <<>>
    BY <1>1, <1>6 DEF IsRefField
  <2> QED
    BY <1>5, <2>1, <2>2
<1>7. CASE Readable(file) /\ Declares(schema, RefField)
  <2>1. /\ HasField(fields, RefField) <=> \E i \in 1 .. Len(file.entries) : file.entries[i].name = RefField
        /\ \A i \in 1 .. Len(file.entries) :
             file.entries[i].name = RefField =>
               /\ value = ShapeValue(file.entries[i])
               /\ \A j \in 1 .. Len(file.entries) : file.entries[j].name = RefField => j = i
    BY <1>2, <1>3, <1>7, FieldIs
  <2>2. names = UNION {ToSet(e.items) : e \in {x \in ToSet(file.entries) : x.name = RefField /\ x.shape = "list"}}
    BY <1>7 DEF NamesIn
  <2>3. Len(file.entries) \in Nat /\ DOMAIN file.entries = 1 .. Len(file.entries)
    BY <1>3, FileFacts
  <2> HIDE DEF value, fields, names
  <2>4. CASE ~HasField(fields, RefField)
    <3>1. names = {}
      BY <2>1, <2>2, <2>3, <2>4 DEF ToSet
    <3> QED
      BY <1>1, <1>5, <2>4, <3>1
  <2>5. CASE HasField(fields, RefField)
    <3>1. PICK i \in 1 .. Len(file.entries) : file.entries[i].name = RefField
      BY <2>1, <2>5
    <3> DEFINE e == file.entries[i]
    <3>2. value = ShapeValue(e) /\ \A j \in 1 .. Len(file.entries) : file.entries[j].name = RefField => j = i
      BY <2>1, <3>1
    <3>3. names = IF e.shape = "list" THEN ToSet(e.items) ELSE {}
      <4>1. {x \in ToSet(file.entries) : x.name = RefField /\ x.shape = "list"} = IF e.shape = "list" THEN {e} ELSE {}
        BY <2>3, <3>1, <3>2 DEF ToSet
      <4> QED
        BY <2>2, <4>1
    <3>4. /\ e \in EntryType /\ Len(e.items) \in Nat /\ DOMAIN e.items = 1 .. Len(e.items)
          /\ \A n \in 1 .. Len(e.items) : e.items[n] \in Written
      BY <1>3, FileFacts
    <3> HIDE DEF e
    <3>5. CASE e.shape # "list"
      <4>1. value.type # "List"
        BY <3>2, <3>4, <3>5, ShapeIs
      <4>2. ~IsRefField(schema, RefField, value)
        BY <1>2, <1>7, <4>1 DEF IsRefField, fits, TextTypes, ListTypes
      <4> QED
        BY <1>1, <1>5, <3>3, <3>5, <4>2
    <3>6. CASE e.shape = "list"
      <4>1. value = ListValue(e.items)
        BY <3>2, <3>4, <3>6, ShapeIs
      <4>2. value.type = "List" /\ ref_values(value) = e.items
        BY <4>1, ListFacts
      <4>3. IsRefField(schema, RefField, value)
        BY <1>2, <1>7, <4>2 DEF IsRefField, fits, ListTypes, RefTypes
      <4>4. ends = [n \in 1 .. Len(e.items) |-> r(e.items[n])]
        BY <3>4, <4>2
      <4>5. kids = Ends(ends)
        BY <1>1, <1>2, <1>7, <2>5, <4>3
      <4> HIDE DEF ends
      <4> DEFINE m == Len(e.items)
      <4>6. Len(ends) = m /\ m \in Nat /\ \A n \in 1 .. m : ends[n] = r(e.items[n])
        BY <3>4, <4>4
      <4>7. \A n \in 1 .. m : ends[n].found => ends[n].path \in Texts_
        BY <1>4, <3>4, <4>6
      <4> HIDE DEF m
      <4>8. /\ Ends(ends) \in Seq(Texts_)
            /\ \A q : (\E j \in 1 .. Len(Ends(ends)) : Ends(ends)[j] = q)
                      <=> \E n \in 1 .. m : ends[n].found /\ ends[n].path = q
        BY <4>6, <4>7, EndsIs, Zenon
      <4>9. names = {e.items[n] : n \in 1 .. m}
        BY <3>3, <3>4, <3>6 DEF ToSet, m
      <4>10. \A q : (\E n \in 1 .. m : ends[n].found /\ ends[n].path = q) <=> \E name \in names : r(name).found /\ r(name).path = q
        BY <4>6, <4>9
      <4> QED
        BY <4>5, <4>8, <4>10
    <3> QED
      BY <3>5, <3>6
  <2> QED
    BY <2>4, <2>5
<1> QED
  BY <1>6, <1>7
-----------------------------------------------------------------------------
(* Where names lead, before and after a write.                             *)

DiskTyped == disk = [p \in DOMAIN Entries |-> disk[p]] /\ \A p \in DOMAIN Entries : FileType(disk[p])

LEMMA PathFacts ==
    /\ IsFiniteSet(DOMAIN Entries) /\ NoCandidate \notin DOMAIN Entries
    /\ DOMAIN Entries \subseteq Texts_ /\ DOMAIN Loose \subseteq Texts_
    /\ \A alias \in DOMAIN Imports : DOMAIN Imports[alias].entries \subseteq Texts_ /\ Imports[alias].files \subseteq Texts_
BY PathAssumption DEF Texts_

LEMMA GroupIs ==
    ASSUME NEW ns, NEW key
    PROVE  KeyGroup(ns, key) \in SUBSET Texts_ /\ IsFiniteSet(KeyGroup(ns, key))
<1>1. KeyGroup(ns, key) \in SUBSET DOMAIN Entries
  BY DEF KeyGroup, Documents
<1> QED
  BY <1>1, PathFacts, FS_Subset

LEMMA ResolvedFacts ==
    /\ \A reason : Unresolved(reason).found = FALSE
    /\ \A project, path, info, via, stale :
         /\ Resolved(project, path, info, via, stale).found = TRUE
         /\ Resolved(project, path, info, via, stale).path = path
         /\ Resolved(project, path, info, via, stale).project = project
BY DEF Unresolved, Resolved

LEMMA ResolvedIn ==
    ASSUME NEW p \in DOMAIN Entries, NEW name \in Written, NEW candidate \in DOMAIN Entries,
           resolve_one_for_candidate(name, p, candidate).found
    PROVE  resolve_one_for_candidate(name, p, candidate).path \in Texts_
<1> DEFINE r == Reads(name, p, "ref")
<1>1. CASE IsCandidate(r, candidate)
  <2>1. resolve_one_for_candidate(name, p, candidate).path = candidate
    BY <1>1 DEF resolve_one_for_candidate, Resolved
  <2> QED
    BY <2>1, PathFacts
<1>2. CASE ~IsCandidate(r, candidate)
  <2>1. resolve_one_for_candidate(name, p, candidate) = Resolve(r)
    BY <1>2 DEF resolve_one_for_candidate
  <2>2. r.is = "import" => r.alias \in DOMAIN Imports
    BY PathAssumption
  <2> HIDE DEF r
  <2> SUFFICES ASSUME Resolve(r).found PROVE Resolve(r).path \in Texts_
    BY <2>1
  <2>3. CASE r.is = "key"
    <3> DEFINE group == KeyGroup(r.ns, r.key)
    <3>1. Resolve(r) = resolve_key(r)
      BY <2>3 DEF Resolve
    <3>2. group # {}
      BY <3>1, ResolvedFacts DEF resolve_key
    <3>3. Resolve(r).path = FirstText(group)
      BY <3>1, <3>2, ResolvedFacts DEF resolve_key
    <3>4. group \in SUBSET Texts_ /\ IsFiniteSet(group)
      BY GroupIs
    <3> HIDE DEF group
    <3>5. FirstText(group) \in group
      BY <3>2, <3>4, FirstIs DEF IsFirst
    <3> QED
      BY <3>3, <3>4, <3>5
  <2>4. CASE r.is = "path"
    <3>1. Resolve(r) = resolve_path(r.path)
      BY <2>4 DEF Resolve
    <3>2. r.path \in DOMAIN Entries \cup DOMAIN Loose /\ Resolve(r).path = r.path
      BY <3>1 DEF resolve_path, Indexed, Resolved, Unresolved
    <3> QED
      BY <3>2, PathFacts
  <2>5. CASE r.is = "import"
    <3> DEFINE there == Imports[r.alias]
               named_ == {q \in DOMAIN there.entries :
                            IF r.rest.is = "key" THEN there.entries[q].key = r.rest.key ELSE q = r.rest.path}
    <3>1. Resolve(r) = resolve_in_import(r.alias, r.rest)
      BY <2>5 DEF Resolve
    <3>2. there.loaded
      BY <3>1, ResolvedFacts DEF resolve_in_import
    <3>3. DOMAIN there.entries \subseteq Texts_ /\ there.files \subseteq Texts_
      BY <2>2, <2>5, PathFacts
    <3>4. CASE named_ # {}
      <4> DEFINE c == CHOOSE q \in named_ : TRUE
      <4>0. resolve_in_import(r.alias, r.rest) =
              Resolved(r.alias, c, Info(there.entries[c]), r.rest.is, r.rest.is = "key" /\ Stale(r.rest.slug, there.entries[c]))
        BY <3>2, <3>4 DEF resolve_in_import
      <4>1. Resolve(r).path = c
        <5> HIDE DEF c, there
        <5> QED
          BY <3>1, <4>0 DEF Resolved
      <4>2. (CHOOSE q \in named_ : TRUE) \in named_
        BY <3>4
      <4> QED
        BY <3>3, <4>1, <4>2
    <3>5. CASE named_ = {}
      <4>0. resolve_in_import(r.alias, r.rest) =
              IF r.rest.is = "path" /\ r.rest.path \in there.files
              THEN Resolved(r.alias, r.rest.path, NoInfo, "path", FALSE) ELSE Unresolved("not-found")
        BY <3>2, <3>5 DEF resolve_in_import
      <4>1. r.rest.path \in there.files /\ Resolve(r).path = r.rest.path
        <5> HIDE DEF there, named_
        <5> QED
          BY <3>1, <4>0 DEF Resolved, Unresolved
      <4> QED
        BY <3>3, <4>1
    <3> QED
      BY <3>4, <3>5
  <2>6. CASE r.is \notin {"key", "path", "import"}
    BY <2>6, ResolvedFacts DEF Resolve
  <2> QED
    BY <2>3, <2>4, <2>5, <2>6
<1> QED
  BY <1>1, <1>2

\* A name that leads elsewhere than to the document written, led there before; so did one that is
\* not the document's own.
LEMMA ResolveAfter ==
    ASSUME DiskTyped, NEW path \in DOMAIN Entries, NEW file, file # Absent, disk' = [disk EXCEPT ![path] = file], NEW r
    PROVE  /\ Documents' = Documents \cup {path}
           /\ Resolve(r)'.found /\ Resolve(r)'.path # path => Resolve(r)' = Resolve(r)
           /\ ~IsCandidate(r, path) => Resolve(r)' = Resolve(r)
<1>1. \A q \in DOMAIN Entries : disk'[q] = IF q = path THEN file ELSE disk[q]
  BY DEF DiskTyped
<1>2. Documents' = Documents \cup {path}
  BY <1>1 DEF Documents
<1>3. \A q : q # path => (Indexed(q)' <=> Indexed(q))
  BY <1>1 DEF Indexed
<1>4. path # NoCandidate
  BY PathFacts
<1>5. CASE r.is = "key"
  <2> DEFINE group == KeyGroup(r.ns, r.key)
  <2>1. Resolve(r) = resolve_key(r) /\ Resolve(r)' = resolve_key(r)'
    BY <1>5 DEF Resolve
  <2>2. group \subseteq group' /\ group' \subseteq group \cup {path}
    BY <1>2 DEF KeyGroup
  <2>3. ~IsCandidate(r, path) => group' = group
    BY <1>2, <1>4, <1>5 DEF KeyGroup, IsCandidate
  <2>4. resolve_key(r) = IF group = {} THEN Unresolved("not-found")
                         ELSE Resolved(Home, FirstText(group), Info(CollectionOf(FirstText(group))), "key",
                                       Stale(r.slug, Entries[FirstText(group)]))
    BY DEF resolve_key
  <2>5. resolve_key(r)' = IF group' = {} THEN Unresolved("not-found")
                          ELSE Resolved(Home, FirstText(group'), Info(CollectionOf(FirstText(group'))), "key",
                                        Stale(r.slug, Entries[FirstText(group')]))
    BY DEF resolve_key, CollectionOf
  <2>6. group \in SUBSET Texts_ /\ IsFiniteSet(group)
    BY GroupIs
  <2>7. group' \in SUBSET Texts_ /\ IsFiniteSet(group')
    <3>1. IsFiniteSet(group \cup {path})
      BY <2>6, FS_AddElement
    <3>2. group' \in SUBSET (group \cup {path})
      BY <2>2
    <3>3. IsFiniteSet(group')
      BY <3>1, <3>2, FS_Subset
    <3> QED
      BY <2>2, <2>6, <3>3, PathFacts
  <2> HIDE DEF group
  <2>8. ASSUME Resolve(r)'.found, Resolve(r)'.path # path PROVE Resolve(r)' = Resolve(r)
    <3>1. group' # {} /\ FirstText(group') # path
      BY <2>1, <2>5, <2>8, ResolvedFacts
    <3>2. IsFirst(FirstText(group'), group')
      BY <2>7, <3>1, FirstIs
    <3>3. IsFirst(FirstText(group'), group)
      BY <2>2, <3>1, <3>2 DEF IsFirst
    <3>4. group # {}
      BY <3>3 DEF IsFirst
    <3>5. FirstText(group') = FirstText(group)
      BY <2>6, <3>3, <3>4, FirstIs
    <3> QED
      BY <2>1, <2>4, <2>5, <3>1, <3>4, <3>5
  <2>9. ASSUME ~IsCandidate(r, path) PROVE Resolve(r)' = Resolve(r)
    BY <2>1, <2>3, <2>4, <2>5, <2>9
  <2> QED
    BY <1>2, <2>8, <2>9
<1>6. CASE r.is = "path"
  <2>1. Resolve(r) = resolve_path(r.path) /\ Resolve(r)' = resolve_path(r.path)'
    BY <1>6 DEF Resolve
  <2>2. Resolve(r)'.found => Resolve(r)'.path = r.path
    BY <2>1 DEF resolve_path, Resolved, Unresolved
  <2>3. r.path # path => resolve_path(r.path)' = resolve_path(r.path)
    BY <1>3 DEF resolve_path, CollectionOf
  <2>4. ~IsCandidate(r, path) => r.path # path
    BY <1>4, <1>6 DEF IsCandidate
  <2> QED
    BY <1>2, <2>1, <2>2, <2>3, <2>4
<1>7. CASE r.is \notin {"key", "path"}
  <2>1. resolve_in_import(r.alias, r.rest)' = resolve_in_import(r.alias, r.rest)
    BY DEF resolve_in_import, Resolved, Unresolved, Info, NoInfo, Stale
  <2>2. Resolve(r) = CASE r.is = "import" -> resolve_in_import(r.alias, r.rest)
                       [] r.is = "absolute" -> Unresolved("absolute")
                       [] r.is = "notARef" -> Unresolved("not-found")
                       [] OTHER -> Unresolved("bad-prefix")
    BY <1>7 DEF Resolve
  <2>3. Resolve(r)' = CASE r.is = "import" -> resolve_in_import(r.alias, r.rest)'
                        [] r.is = "absolute" -> Unresolved("absolute")
                        [] r.is = "notARef" -> Unresolved("not-found")
                        [] OTHER -> Unresolved("bad-prefix")
    BY <1>7 DEF Resolve
  <2> QED
    BY <1>2, <2>1, <2>2, <2>3
<1> QED
  BY <1>5, <1>6, <1>7
-----------------------------------------------------------------------------
(* The steps from document to document, and what a write makes of them.    *)

\* No ref leads into an import to a path where this project may have a document.
ImportsApart == \A e \in Edges : e[2].found /\ e[2].project # Home => e[2].path \notin DOMAIN Entries

Leads(p, q) ==
    /\ p \in Listing
    /\ \E name \in Listed(p) :
         resolve_one(name, p).found /\ resolve_one(name, p).project = Home /\ resolve_one(name, p).path = q

LEMMA StepIs ==
    /\ \A p, q : <<p, q>> \in Within(Edges) <=> Leads(p, q)
    /\ \A p, q : <<p, q>> \in Within(Edges)' <=> Leads(p, q)'
<1>1. ASSUME NEW p, NEW q PROVE <<p, q>> \in Within(Edges) <=> Leads(p, q)
  <2>1. \A e : e \in Edges <=> \E a \in Listing : \E name \in Listed(a) : e = <<a, resolve_one(name, a)>>
    BY DEF Edges
  <2>2. <<p, q>> \in Within(Edges) <=>
        \E e \in Edges : e[2].found /\ e[2].project = Home /\ <<p, q>> = <<e[1], e[2].path>>
    BY DEF Within
  <2>3. ASSUME <<p, q>> \in Within(Edges) PROVE Leads(p, q)
    <3>1. PICK e \in Edges : e[2].found /\ e[2].project = Home /\ <<p, q>> = <<e[1], e[2].path>>
      BY <2>2, <2>3
    <3>2. PICK a \in Listing : \E name \in Listed(a) : e = <<a, resolve_one(name, a)>>
      BY <2>1, <3>1
    <3>3. PICK name \in Listed(a) : e = <<a, resolve_one(name, a)>>
      BY <3>2
    <3>4. a = p /\ e[2] = resolve_one(name, p) /\ q = e[2].path
      BY <3>1, <3>3
    <3> QED
      BY <3>1, <3>2, <3>3, <3>4 DEF Leads
  <2>4. ASSUME Leads(p, q) PROVE <<p, q>> \in Within(Edges)
    <3>1. p \in Listing
      BY <2>4 DEF Leads
    <3>2. PICK name \in Listed(p) : /\ resolve_one(name, p).found /\ resolve_one(name, p).project = Home
                                       /\ resolve_one(name, p).path = q
      BY <2>4 DEF Leads
    <3> DEFINE e == <<p, resolve_one(name, p)>>
    <3>3. e \in Edges /\ e[1] = p /\ e[2] = resolve_one(name, p)
      BY <2>1, <3>1, <3>2
    <3> QED
      BY <2>2, <3>2, <3>3
  <2> QED
    BY <2>3, <2>4
<1>2. ASSUME NEW p, NEW q PROVE <<p, q>> \in Within(Edges)' <=> Leads(p, q)'
  <2>1. \A e : e \in Edges' <=> \E a \in Listing' : \E name \in Listed(a)' : e = <<a, resolve_one(name, a)'>>
    BY DEF Edges
  <2>2. <<p, q>> \in Within(Edges)' <=>
        \E e \in Edges' : e[2].found /\ e[2].project = Home /\ <<p, q>> = <<e[1], e[2].path>>
    BY DEF Within
  <2>3. ASSUME <<p, q>> \in Within(Edges)' PROVE Leads(p, q)'
    <3>1. PICK e \in Edges' : e[2].found /\ e[2].project = Home /\ <<p, q>> = <<e[1], e[2].path>>
      BY <2>2, <2>3
    <3>2. PICK a \in Listing' : \E name \in Listed(a)' : e = <<a, resolve_one(name, a)'>>
      BY <2>1, <3>1
    <3>3. PICK name \in Listed(a)' : e = <<a, resolve_one(name, a)'>>
      BY <3>2
    <3>4. a = p /\ e[2] = resolve_one(name, p)' /\ q = e[2].path
      BY <3>1, <3>3
    <3> QED
      BY <3>1, <3>2, <3>3, <3>4 DEF Leads
  <2>4. ASSUME Leads(p, q)' PROVE <<p, q>> \in Within(Edges)'
    <3>1. p \in Listing'
      BY <2>4 DEF Leads
    <3>2. PICK name \in Listed(p)' : /\ resolve_one(name, p)'.found /\ resolve_one(name, p)'.project = Home
                                       /\ resolve_one(name, p)'.path = q
      BY <2>4 DEF Leads
    <3> DEFINE e == <<p, resolve_one(name, p)'>>
    <3>3. e \in Edges' /\ e[1] = p /\ e[2] = resolve_one(name, p)'
      BY <2>1, <3>1, <3>2
    <3> QED
      BY <2>2, <3>2, <3>3
  <2> QED
    BY <2>3, <2>4
<1> QED
  BY <1>1, <1>2

LEMMA RingsAre ==
    /\ Acyclic => \A C \in SUBSET Documents : C # {} => \E p \in C : \A q \in C : ~Leads(p, q)
    /\ ~Acyclic' => \E R \in SUBSET Documents' : R # {} /\ \A p \in R : \E q \in R : Leads(p, q)'
<1>1. Acyclic <=> \A ring \in SUBSET Documents : ~IsRing(ring, Within(Edges))
  BY DEF Acyclic
<1>2. Acyclic' <=> \A ring \in SUBSET Documents' : ~IsRing(ring, Within(Edges)')
  BY DEF Acyclic, IsRing
<1>3. ASSUME Acyclic PROVE \A C \in SUBSET Documents : C # {} => \E p \in C : \A q \in C : ~Leads(p, q)
  <2>1. \A C \in SUBSET Documents : C # {} => \E p \in C : \A q \in C : <<p, q>> \notin Within(Edges)
    BY <1>1, <1>3 DEF IsRing
  <2> QED
    BY <2>1, StepIs
<1>4. ASSUME ~Acyclic' PROVE \E R \in SUBSET Documents' : R # {} /\ \A p \in R : \E q \in R : Leads(p, q)'
  <2>1. \E R \in SUBSET Documents' : R # {} /\ \A p \in R : \E q \in R : <<p, q>> \in Within(Edges)'
    BY <1>2, <1>4 DEF IsRing
  <2> QED
    BY <2>1, StepIs
<1> QED
  BY <1>3, <1>4

LEMMA NamesFacts ==
    ASSUME NEW file, FileType(file), NEW schema
    PROVE  /\ NamesIn(file, schema) \subseteq Written
           /\ \A name \in NamesIn(file, schema) : Readable(file) /\ Declares(schema, RefField) /\ file.block = "closed"
<1>1. Len(file.entries) \in Nat /\ DOMAIN file.entries = 1 .. Len(file.entries)
  BY FileFacts
<1>2. \A i \in 1 .. Len(file.entries) : \A n \in DOMAIN file.entries[i].items : file.entries[i].items[n] \in Written
  BY FileFacts
<1>3. NamesIn(file, schema) \subseteq Written
  BY <1>1, <1>2 DEF NamesIn, ToSet
<1>4. ASSUME NEW name \in NamesIn(file, schema) PROVE Readable(file) /\ Declares(schema, RefField) /\ file.block = "closed"
  <2>1. Readable(file) /\ Declares(schema, RefField)
    BY DEF NamesIn
  <2>2. ToSet(file.entries) # {}
    BY <2>1 DEF NamesIn
  <2>3. file.entries # <<>>
    BY <2>2 DEF ToSet
  <2> QED
    BY <2>1, <2>3 DEF FileType
<1> QED
  BY <1>3, <1>4

LEMMA LeadsIs ==
    ASSUME DiskTyped, NEW p, NEW q
    PROVE  Leads(p, q) <=> /\ p \in Documents
                           /\ \E name \in NamesIn(disk[p], SchemaOf(p)) :
                                /\ resolve_one(name, p).found /\ resolve_one(name, p).project = Home
                                /\ resolve_one(name, p).path = q
<1>1. ASSUME p \in Listing PROVE p \in Documents /\ NamesIn(disk[p], SchemaOf(p)) = Listed(p)
  BY <1>1 DEF Listing, HasFields, NamesIn, Listed
<1>2. ASSUME p \in Documents, NEW name \in NamesIn(disk[p], SchemaOf(p)) PROVE p \in Listing
  <2>1. FileType(disk[p])
    BY <1>2 DEF Documents, DiskTyped
  <2>2. Readable(disk[p]) /\ Declares(SchemaOf(p), RefField) /\ disk[p].block = "closed"
    BY <2>1, NamesFacts
  <2> QED
    BY <1>2, <2>2 DEF Listing, HasFields
<1> QED
  BY <1>1, <1>2 DEF Leads

Arrives(name, p, q) ==
    resolve_one(name, p).found /\ resolve_one(name, p).project = Home /\ resolve_one(name, p).path = q
FileWith(p, path, file) == IF p = path THEN file ELSE disk[p]
LEMMA LeadsAfter ==
    ASSUME DiskTyped, NEW path \in DOMAIN Entries, NEW file, disk' = [disk EXCEPT ![path] = file],
           NEW p, NEW q, Leads(p, q)'
    PROVE  /\ p \in Documents'
           /\ \E name \in NamesIn(FileWith(p, path, file), SchemaOf(p)) : Arrives(name, p, q)'
<1>1. p \in Listing' /\ \E name \in Listed(p)' :
        /\ resolve_one(name, p)'.found /\ resolve_one(name, p)'.project = Home
        /\ resolve_one(name, p)'.path = q
  BY DEF Leads
<1>2. /\ p \in Documents' /\ p \in DOMAIN Entries
      /\ Readable(disk'[p]) /\ Declares(SchemaOf(p), RefField)
  BY <1>1 DEF Listing, HasFields, Documents, SchemaOf, CollectionOf, Readable, Splits, Declares
<1>3. disk'[p] = IF p = path THEN file ELSE disk[p]
  BY <1>2 DEF DiskTyped
<1>4. Listed(p)' = NamesIn(disk'[p], SchemaOf(p))
  BY <1>2 DEF Listed, NamesIn
<1> QED
  BY <1>1, <1>2, <1>3, <1>4 DEF FileWith, Arrives
\* Where writing a file closes a loop, the prescan of its write finds the document on one.
LEMMA LoopFound ==
    ASSUME DiskTyped, ImportsApart, Acyclic, ~Acyclic',
           NEW path \in DOMAIN Entries, NEW file, FileType(file), file # Absent, disk' = [disk EXCEPT ![path] = file]
    PROVE  path \in cyclic_nodes(Outgoing(TextsWith(path, file), RefField, path))
<1> DEFINE texts == TextsWith(path, file)
           H == Outgoing(texts, RefField, path)
           FileOf(p) == FileWith(p, path, file)
           Names_(p) == NamesIn(FileOf(p), SchemaOf(p))
           at(name, p) == resolve_one_for_candidate(name, p, path)
           r(name, p) == Reads(name, p, "ref")
           Kid(p, q) == \E j \in 1 .. Len(Children(H, p)) : Children(H, p)[j] = q
<1>1. /\ DOMAIN texts = Documents \cup {path} /\ \A p \in DOMAIN texts : texts[p] = FileOf(p)
      /\ Documents' = Documents \cup {path} /\ Documents \subseteq DOMAIN Entries
  BY PathFacts, ResolveAfter DEF TextsWith, Documents, FileWith
<1>2. \A p \in DOMAIN texts : p \in DOMAIN Entries /\ FileType(texts[p])
  BY <1>1 DEF DiskTyped, FileWith
<1>3. \A p \in DOMAIN Entries : \A name \in Written : at(name, p).found => at(name, p).path \in Texts_
  BY ResolvedIn
<1>4. DOMAIN H = DOMAIN texts
  BY DEF Outgoing
<1> HIDE DEF texts, H
<1>5. ASSUME NEW p \in DOMAIN texts
      PROVE  /\ H[p] \in Seq(Texts_) /\ Children(H, p) = H[p]
             /\ \A q : Kid(p, q) <=> \E name \in Names_(p) : at(name, p).found /\ at(name, p).path = q
  <2>1. Children(H, p) = H[p]
    BY <1>4 DEF Children
  <2>2. /\ H[p] \in Seq(Texts_)
        /\ \A q : (\E j \in 1 .. Len(H[p]) : H[p][j] = q) <=>
                  \E name \in NamesIn(texts[p], SchemaOf(p)) : at(name, p).found /\ at(name, p).path = q
    BY <1>2, <1>3, OutgoingIs DEF H
  <2>3. NamesIn(texts[p], SchemaOf(p)) = Names_(p)
    BY <1>1
  <2> HIDE DEF at, Names_
  <2>4. \A q : Kid(p, q) <=> \E j \in 1 .. Len(H[p]) : H[p][j] = q
    BY <2>1
  <2> HIDE DEF Kid
  <2> QED
    BY <2>1, <2>2, <2>3, <2>4
<1>6. \A p : p \notin DOMAIN texts => Children(H, p) = <<>>
  BY <1>4 DEF Children
<1>7. GraphOK(H)
  <2>1. IsFiniteSet(DOMAIN texts) /\ DOMAIN texts \subseteq Texts_
    <3>1. DOMAIN texts \in SUBSET DOMAIN Entries
      BY <1>2
    <3> QED
      BY <3>1, PathFacts, FS_Subset
  <2> QED
    BY <1>4, <1>5, <2>1, GraphIs
<1>8. \A p \in DOMAIN Entries : p \in Documents => FileType(disk[p])
  BY DEF DiskTyped
<1> HIDE DEF Kid, at
<1>9. PICK R \in SUBSET (Documents \cup {path}) : R # {} /\ \A p \in R : \E q \in R : Leads(p, q)'
  BY <1>1, RingsAre
<1>10. ASSUME NEW p, NEW q, Leads(p, q)'
       PROVE  /\ p \in DOMAIN texts
              /\ \E name \in Names_(p) :
                   Resolve(r(name, p))'.found /\ Resolve(r(name, p))'.project = Home /\ Resolve(r(name, p))'.path = q
  <2>1. p \in Documents'
    BY <1>10, LeadsAfter
  <2>2. \E name \in Names_(p) : Arrives(name, p, q)'
    BY <1>10, LeadsAfter
  <2>3. \A name : Arrives(name, p, q)' => Resolve(r(name, p))'.found /\ Resolve(r(name, p))'.project = Home /\ Resolve(r(name, p))'.path = q
    BY DEF Arrives, resolve_one
  <2> QED
    BY <1>1, <2>1, <2>2, <2>3
<1>11. \A rd : /\ Resolve(rd)'.found /\ Resolve(rd)'.path # path => Resolve(rd)' = Resolve(rd)
               /\ ~IsCandidate(rd, path) => Resolve(rd)' = Resolve(rd)
  BY ResolveAfter
<1>12. \A name, p : /\ IsCandidate(r(name, p), path) => at(name, p).found /\ at(name, p).path = path
                    /\ ~IsCandidate(r(name, p), path) => at(name, p) = Resolve(r(name, p))
  BY DEF resolve_one_for_candidate, at, Resolved
<1>13. path \in R
  <2> SUFFICES ASSUME path \notin R PROVE FALSE
    OBVIOUS
  <2>1. R \in SUBSET Documents
    BY <1>9
  <2>2. ASSUME NEW p \in R PROVE \E q \in R : Leads(p, q)
    <3>1. PICK q \in R : Leads(p, q)'
      BY <1>9
    <3>2. p # path /\ q # path
      OBVIOUS
    <3>3. PICK name \in Names_(p) :
            Resolve(r(name, p))'.found /\ Resolve(r(name, p))'.project = Home /\ Resolve(r(name, p))'.path = q
      BY <1>10, <3>1
    <3>4. Resolve(r(name, p))' = Resolve(r(name, p))
      BY <1>11, <3>2, <3>3
    <3>5. p \in Documents /\ name \in NamesIn(disk[p], SchemaOf(p))
      BY <2>1, <3>2 DEF FileWith
    <3>6. resolve_one(name, p).found /\ resolve_one(name, p).project = Home /\ resolve_one(name, p).path = q
      BY <3>3, <3>4 DEF resolve_one
    <3> QED
      BY <3>5, <3>6, LeadsIs
  <2> QED
    BY <1>9, <2>1, <2>2, RingsAre
<1>14. RingOf(R, H)
  <2>1. ASSUME NEW p \in R PROVE \E q \in R : Kid(p, q)
    <3>1. PICK q \in R : Leads(p, q)'
      BY <1>9
    <3>2. PICK name \in Names_(p) :
            Resolve(r(name, p))'.found /\ Resolve(r(name, p))'.project = Home /\ Resolve(r(name, p))'.path = q
      BY <1>10, <3>1
    <3>3. p \in DOMAIN texts
      BY <1>10, <3>1
    <3>4. CASE IsCandidate(r(name, p), path)
      <4>1. Kid(p, path)
        BY <1>5, <1>12, <3>2, <3>3, <3>4
      <4> QED
        BY <1>13, <4>1
    <3>5. CASE ~IsCandidate(r(name, p), path)
      <4>1. at(name, p).found /\ at(name, p).path = q
        BY <1>11, <1>12, <3>2, <3>5
      <4>2. Kid(p, q)
        BY <1>5, <3>2, <3>3, <4>1
      <4> QED
        BY <4>2
    <3> QED
      BY <3>4, <3>5
  <2> QED
    BY <1>9, <2>1 DEF RingOf, Kid
<1>15. PICK C \in SUBSET cyclic_nodes(H) : RingOf(C, H)
  BY <1>7, <1>14, SearchFinds
<1>16. path \in C
  <2> SUFFICES ASSUME path \notin C PROVE FALSE
    OBVIOUS
  <2>1. \A p \in C : \E q \in C : Kid(p, q)
    BY <1>15 DEF RingOf, Kid
  <2>2. \A p \in C : p \in DOMAIN texts
    <3>1. \A p, q : Kid(p, q) => p \in DOMAIN texts
      BY <1>6 DEF Kid
    <3> QED
      BY <2>1, <3>1
  <2>3. C \in SUBSET Documents /\ C # {}
    BY <1>1, <1>15, <2>2 DEF RingOf
  <2>4. ASSUME NEW p \in C PROVE \E q \in C : Leads(p, q)
    <3>1. PICK q \in C : Kid(p, q)
      BY <2>1
    <3>2. p # path /\ q # path /\ p \in DOMAIN texts /\ p \in Documents /\ q \in DOMAIN Entries
      BY <1>1, <2>2, <2>3
    <3>3. PICK name \in Names_(p) : at(name, p).found /\ at(name, p).path = q
      BY <1>5, <3>1, <3>2
    <3>4. at(name, p) = Resolve(r(name, p))
      BY <1>12, <3>2, <3>3
    <3>5. name \in NamesIn(disk[p], SchemaOf(p)) /\ resolve_one(name, p).found /\ resolve_one(name, p).path = q
      BY <3>2, <3>3, <3>4 DEF resolve_one, FileWith
    <3>6. resolve_one(name, p).project = Home
      <4>1. Readable(disk[p]) /\ Declares(SchemaOf(p), RefField) /\ disk[p].block = "closed"
        BY <1>1, <1>8, <3>2, <3>5, NamesFacts
      <4>2. p \in Listing /\ name \in Listed(p)
        BY <3>2, <3>5, <4>1 DEF Listing, HasFields, NamesIn, Listed
      <4>3. <<p, resolve_one(name, p)>> \in Edges
        BY <4>2 DEF Edges
      <4> QED
        BY <3>2, <3>5, <4>3 DEF ImportsApart
    <3> QED
      BY <3>2, <3>5, <3>6, LeadsIs
  <2> QED
    BY <2>3, <2>4, RingsAre
<1> QED
  BY <1>15, <1>16 DEF H, texts

\* Then a write that hears of the field is refused.
LEMMA RefFieldAcyclic ==
    ASSUME NEW path \in DOMAIN Entries, Declares(SchemaOf(path), RefField)
    PROVE  RefField \in AcyclicFields
<1> DEFINE schema == SchemaOf(path)
<1>1. Declared(schema, RefField).kind = "ref[]" /\ Declared(schema, RefField).acyclic
  BY RefFieldAssumption, IndexAssumption DEF SchemaOf, CollectionOf, CollectionNames
<1>2. Declared(schema, RefField) \in ToSet(schema.fields) /\ Declared(schema, RefField).name = RefField
  BY DEF Declared, Declares, ToSet
<1> QED
  BY <1>1, <1>2 DEF AcyclicFields, RefTypes

LEMMA LoopRefused ==
    ASSUME NEW path \in DOMAIN Entries, NEW file, NEW ofCycles, RefField \in ofCycles,
           Declares(SchemaOf(path), RefField),
           path \in cyclic_nodes(Outgoing(TextsWith(path, file), RefField, path))
    PROVE  Refused(CandidateFindings(path, file, ofCycles))
<1> DEFINE f == Finding("error", "refs.acyclic", RefField)
           g == <<path, f>>
           outgoing == Outgoing(TextsWith(path, file), RefField, path)
           all == acyclic_findings(TextsWith(path, file), path)
<1>1. RefField \in AcyclicFields
  BY RefFieldAcyclic
<1>2. path \in DOMAIN TextsWith(path, file)
  BY PathFacts DEF TextsWith
<1>3. g \in all
  <2> DEFINE edges == [field |-> RefField, outgoing |-> outgoing]
             Of(x) == {<<p, Finding("error", "refs.acyclic", x.field)>> : p \in cyclic_nodes(x.outgoing) \cap DOMAIN TextsWith(path, file)}
             X == {[field |-> field, outgoing |-> Outgoing(TextsWith(path, file), field, path)] : field \in AcyclicFields}
  <2>1. edges \in X
    BY <1>1
  <2>2. edges.field = RefField /\ edges.outgoing = outgoing
    OBVIOUS
  <2>3. g \in Of(edges)
    BY <1>2, <2>2
  <2>4. all = UNION {Of(x) : x \in X}
    BY DEF acyclic_findings
  <2> HIDE DEF edges, X, Of
  <2> QED
    BY <2>1, <2>3, <2>4
<1>4. f.level = "error" /\ f.field = RefField /\ g[1] = path /\ g[2] = f
  BY DEF Finding
<1> HIDE DEF f, g, all
<1>5. f \in CandidateFindings(path, file, ofCycles)
  BY <1>3, <1>4 DEF CandidateFindings, all
<1> QED
  BY <1>4, <1>5 DEF Refused
-----------------------------------------------------------------------------
(* What the commands write.                                                *)

ValueTypes == {"Text", "Empty", "List", "Number", "Bool", "Date", "Datetime"}
FieldSet ==
    {f \in [name : STRING, value : [type : ValueTypes, items : Seq(Written)]] :
       f.value.type \notin {"List", "Empty"} => f.value.items # <<>>}

LEMMA ReadTyped ==
    ASSUME NEW file, FileType(file), Readable(file), NEW schema
    PROVE  ReadFields(file, schema) \in Seq(FieldSet)
<1> DEFINE fields == ReadFields(file, schema)
           m == Len(file.entries)
<1>1. m \in Nat /\ DOMAIN file.entries = 1 .. m
  BY FileFacts
<1>2. ASSUME NEW i \in 1 .. m PROVE fields[i] \in FieldSet
  <2> DEFINE e == file.entries[i]
             shaped == ShapeValue(e)
             value == IF Declares(schema, e.name) THEN coerce(Declared(schema, e.name).kind, shaped) ELSE shaped
  <2>1. fields[i] = [name |-> e.name, value |-> value]
    BY <1>1 DEF ReadFields
  <2>2. /\ e \in EntryType /\ e.items \in Seq(Written) /\ e.name \in STRING
        /\ Len(e.items) \in Nat /\ \A n \in 1 .. Len(e.items) : e.items[n] \in Written
    BY FileFacts
  <2>3. e.shape # "mapping" /\ (e.shape \in {"scalar", "null"} => e.items # <<>>)
    BY <1>1 DEF Readable, FileType
  <2> HIDE DEF e
  <2>4. e.shape # "list" => e.items[1] \in Written
    <3>1. e.shape # "list" => e.items # <<>>
      BY <2>2, <2>3 DEF EntryType
    <3>2. e.items # <<>> => 1 \in 1 .. Len(e.items)
      BY <2>2, EmptySeq
    <3> QED
      BY <2>2, <3>1, <3>2
  <2> DEFINE Fine(v) == /\ v \in [type : ValueTypes, items : Seq(Written)]
                        /\ v.type \notin {"List", "Empty"} => v.items # <<>>
  <2>5. Fine(shaped)
    <3>1. CASE e.shape = "list"
      <4>1. shaped = [type |-> "List", items |-> e.items]
        BY <3>1 DEF ShapeValue, ListValue
      <4> HIDE DEF shaped
      <4> QED
        BY <2>2, <4>1 DEF ValueTypes
    <3>2. CASE e.shape = "null" /\ e.items[1] = NoText
      <4>1. shaped = [type |-> "Empty", items |-> <<>>]
        BY <3>2 DEF ShapeValue, EmptyValue
      <4>2. <<>> \in Seq(Written)
        OBVIOUS
      <4> HIDE DEF shaped
      <4> QED
        BY <4>1, <4>2 DEF ValueTypes
    <3>3. CASE e.shape # "list" /\ ~(e.shape = "null" /\ e.items[1] = NoText)
      <4>1. shaped = [type |-> "Text", items |-> <<e.items[1]>>]
        BY <3>3 DEF ShapeValue, TextValue
      <4>2. <<e.items[1]>> \in Seq(Written) /\ <<e.items[1]>> # <<>>
        BY <2>4, <3>3
      <4> DEFINE texts == <<e.items[1]>>
      <4> HIDE DEF shaped, texts
      <4>3. shaped = [type |-> "Text", items |-> texts] /\ texts \in Seq(Written) /\ texts # <<>>
        BY <4>1, <4>2 DEF texts
      <4> QED
        BY <4>3 DEF ValueTypes
    <3> QED
      BY <3>1, <3>2, <3>3
  <2> HIDE DEF shaped
  <2>6. Fine(value)
    <3>1. ASSUME NEW kind PROVE Fine(coerce(kind, shaped))
      <4>1. \/ coerce(kind, shaped) = shaped
            \/ /\ shaped.type = "Text"
               /\ \E type \in {"Number", "Bool", "Date", "Datetime"} : coerce(kind, shaped) = [shaped EXCEPT !.type = type]
        <5> DEFINE text == shaped.items[1]
        <5>1. CASE shaped.type # "Text"
          BY <5>1 DEF coerce
        <5>2. CASE shaped.type = "Text"
          <6>1. coerce(kind, shaped) =
                  CASE kind = "number" /\ IsNumber(text) -> [shaped EXCEPT !.type = "Number"]
                    [] kind = "bool" /\ text \in {<<"true">>, <<"false">>} -> [shaped EXCEPT !.type = "Bool"]
                    [] kind = "date" /\ date(text) -> [shaped EXCEPT !.type = "Date"]
                    [] kind = "datetime" /\ datetime(text) -> [shaped EXCEPT !.type = "Datetime"]
                    [] OTHER -> shaped
            BY <5>2 DEF coerce
          <6> HIDE DEF text
          <6>2. CASE kind \notin {"number", "bool", "date", "datetime"}
            BY <6>1, <6>2
          <6>3. CASE kind = "number"
            BY <5>2, <6>1, <6>3
          <6>4. CASE kind = "bool"
            BY <5>2, <6>1, <6>4
          <6>5. CASE kind = "date"
            BY <5>2, <6>1, <6>5
          <6>6. CASE kind = "datetime"
            BY <5>2, <6>1, <6>6
          <6> QED
            BY <6>2, <6>3, <6>4, <6>5, <6>6
        <5> QED
          BY <5>1, <5>2
      <4>2. ASSUME NEW type \in {"Number", "Bool", "Date", "Datetime"}, shaped.type = "Text" PROVE Fine([shaped EXCEPT !.type = type])
        BY <2>5, <4>2 DEF ValueTypes
      <4> HIDE DEF Fine
      <4> QED
        BY <2>5, <4>1, <4>2
    <3> HIDE DEF Fine
    <3> QED
      BY <2>5, <3>1
  <2> HIDE DEF value
  <2> QED
    BY <2>1, <2>2, <2>6 DEF FieldSet
<1>3. fields = [i \in 1 .. m |-> fields[i]]
  BY <1>1 DEF ReadFields
<1> HIDE DEF fields, m
<1> QED
  BY <1>1, <1>2, <1>3, IsASeq DEF fields

LEMMA SetTyped ==
    ASSUME NEW fields \in Seq(FieldSet), NEW names \in RefLists
    PROVE  set_list(fields, RefField, names) \in Seq(FieldSet)
<1> DEFINE value == ListValue(names)
<1>1. value \in [type : ValueTypes, items : Seq(Written)] /\ value.type = "List"
  <2>1. names \in Seq(Written) /\ value = [type |-> "List", items |-> names]
    BY FileAssumption DEF ListValue
  <2> HIDE DEF value
  <2> QED
    BY <2>1 DEF ValueTypes
<1>2. Len(fields) \in Nat /\ DOMAIN fields = 1 .. Len(fields) /\ \A i \in 1 .. Len(fields) : fields[i] \in FieldSet
  BY LenProperties, ElementOfSeq
<1>3. set_list(fields, RefField, names) = Put(fields, RefField, value)
  BY DEF set_list
<1> HIDE DEF value
<1>4. CASE HasField(fields, RefField)
  <2> DEFINE k == FieldAt(fields, RefField)
             at == {i \in DOMAIN fields : fields[i].name = RefField}
  <2>1. at # {} /\ k = Min(at) /\ at \subseteq Nat
    BY <1>2, <1>4 DEF HasField, FieldAt
  <2>2. k \in 1 .. Len(fields)
    BY <1>2, <2>1, MinNat
  <2> HIDE DEF k
  <2>3. [fields[k] EXCEPT !.value = value] \in FieldSet
    BY <1>1, <1>2, <2>2 DEF FieldSet
  <2>4. Put(fields, RefField, value) = [fields EXCEPT ![k] = [fields[k] EXCEPT !.value = value]]
    BY <1>4 DEF Put, k
  <2> QED
    BY <1>3, <2>2, <2>3, <2>4, ExceptSeq
<1>5. CASE ~HasField(fields, RefField)
  <2>1. [name |-> RefField, value |-> value] \in FieldSet
    BY <1>1, FileAssumption DEF FieldSet
  <2>2. Put(fields, RefField, value) = Append(fields, [name |-> RefField, value |-> value])
    BY <1>5 DEF Put
  <2> QED
    BY <1>3, <2>1, <2>2, AppendProperties
<1> QED
  BY <1>4, <1>5

LEMMA FinishTyped ==
    ASSUME NEW fields \in Seq(FieldSet), NEW body
    PROVE  FileType(splice(finish(fields), body)) /\ splice(finish(fields), body) # Absent
<1> DEFINE m == Len(fields)
           entries == finish(fields)
<1>1. m \in Nat /\ DOMAIN fields = 1 .. m /\ \A i \in 1 .. m : fields[i] \in FieldSet
  BY LenProperties, ElementOfSeq
<1>2. ASSUME NEW i \in 1 .. m
      PROVE  entries[i] \in EntryType /\ entries[i].items \in Seq(Written) /\ (entries[i].shape # "list" => entries[i].items # <<>>)
  <2> DEFINE f == fields[i]
             v == f.value
  <2>1. f.name \in STRING /\ v.items \in Seq(Written) /\ (v.type \notin {"List", "Empty"} => v.items # <<>>)
    BY <1>1 DEF FieldSet
  <2>2. entries[i] = CASE v.type = "List" -> Items(f.name, v.items)
                       [] v.type = "Empty" -> Null(f.name, NoText)
                       [] OTHER -> Scalar(f.name, v.items[1])
    BY <1>1 DEF finish
  <2> HIDE DEF f, v
  <2>3. CASE v.type = "List"
    <3>1. entries[i] = [name |-> f.name, shape |-> "list", items |-> v.items]
      BY <2>2, <2>3 DEF Items
    <3> QED
      BY <2>1, <3>1 DEF EntryType
  <2>4. CASE v.type = "Empty"
    <3>1. entries[i] = [name |-> f.name, shape |-> "null", items |-> <<NoText>>]
      BY <2>2, <2>4 DEF Null
    <3>2. <<NoText>> \in Seq(Written) /\ <<NoText>> # <<>>
      BY DEF Written
    <3> QED
      BY <2>1, <3>1, <3>2 DEF EntryType
  <2>5. CASE v.type \notin {"List", "Empty"}
    <3>1. entries[i] = [name |-> f.name, shape |-> "scalar", items |-> <<v.items[1]>>]
      BY <2>2, <2>5 DEF Scalar
    <3>2. v.items[1] \in Written
      <4>1. 1 \in 1 .. Len(v.items)
        BY <2>1, <2>5, EmptySeq, LenProperties
      <4> QED
        BY <2>1, <4>1, ElementOfSeq
    <3>3. <<v.items[1]>> \in Seq(Written) /\ <<v.items[1]>> # <<>>
      BY <3>2
    <3> QED
      BY <2>1, <3>1, <3>3 DEF EntryType
  <2> QED
    BY <2>3, <2>4, <2>5
<1>3. entries = [i \in 1 .. m |-> entries[i]] /\ DOMAIN entries = 1 .. m
  BY <1>1 DEF finish
<1> HIDE DEF entries, m
<1>4. entries \in Seq(EntryType)
  <2>1. m \in Nat /\ \A i \in 1 .. m : entries[i] \in EntryType
    BY <1>1, <1>2
  <2>2. [i \in 1 .. m |-> entries[i]] \in Seq(EntryType)
    BY <2>1, IsASeq
  <2> QED
    BY <1>3, <2>2, Zenon
<1> DEFINE file == splice(finish(fields), body)
<1>5. file.entries = entries /\ file.block = "closed" /\ Absent.block = "absent"
  BY DEF splice, Closed, entries, Absent
<1> HIDE DEF file
<1>6. FileType(file)
  BY <1>2, <1>3, <1>4, <1>5 DEF FileType
<1>7. file # Absent
  BY <1>5
<1> QED
  BY <1>6, <1>7 DEF file

LEMMA StaysTyped ==
    /\ Init => DiskTyped
    /\ DiskTyped /\ [Next]_vars => DiskTyped'
<1>1. Init => DiskTyped
  BY FileAssumption DEF Init, DiskTyped
<1>2. ASSUME DiskTyped, NEW path \in DOMAIN Entries, NEW file, FileType(file), disk' = [disk EXCEPT ![path] = file]
      PROVE  DiskTyped'
  <2>1. \A p \in DOMAIN Entries : disk'[p] = IF p = path THEN file ELSE disk[p]
    BY <1>2 DEF DiskTyped
  <2>2. disk' = [p \in DOMAIN Entries |-> disk'[p]]
    BY <1>2 DEF DiskTyped
  <2>3. \A p \in DOMAIN Entries : FileType(disk'[p])
    BY <1>2, <2>1 DEF DiskTyped
  <2>4. DiskTyped' <=> disk' = [p \in DOMAIN Entries |-> disk'[p]] /\ \A p \in DOMAIN Entries : FileType(disk'[p])
    BY DEF DiskTyped, FileType
  <2> QED
    BY <2>2, <2>3, <2>4
<1>3. ASSUME DiskTyped, NEW path \in DOMAIN Entries, NEW names \in RefLists, set(path, names) PROVE DiskTyped'
  <2> DEFINE file == splice(finish(set_list(FieldsOf(path), RefField, names)), disk[path].body)
  <2>1. Readable(disk[path]) /\ disk' = [disk EXCEPT ![path] = file]
    BY <1>3 DEF set, Write
  <2>2. FieldsOf(path) \in Seq(FieldSet)
    BY <1>3, <2>1, ReadTyped DEF FieldsOf, DiskTyped
  <2>3. FileType(file)
    BY <2>2, SetTyped, FinishTyped
  <2> HIDE DEF file
  <2> QED
    BY <1>2, <1>3, <2>1, <2>3
<1>4. ASSUME DiskTyped, NEW path \in DOMAIN Entries, NEW names \in RefLists, new(path, names) PROVE DiskTyped'
  <2> DEFINE file == splice(finish(set_list(<<>>, RefField, names)), <<>>)
  <2>1. disk' = [disk EXCEPT ![path] = file]
    BY <1>4 DEF new, Write
  <2>2. <<>> \in Seq(FieldSet)
    OBVIOUS
  <2>3. FileType(file)
    BY <2>2, SetTyped, FinishTyped
  <2> HIDE DEF file
  <2> QED
    BY <1>2, <1>4, <2>1, <2>3
<1>5. ASSUME DiskTyped, NEW path \in DOMAIN Entries, SaveByHand(path) PROVE DiskTyped'
  <2>1. PICK file \in HandFiles[path] : disk' = [disk EXCEPT ![path] = file]
    BY <1>5 DEF SaveByHand, Write
  <2> QED
    BY <1>2, <1>5, <2>1, FileAssumption
<1>6. ASSUME DiskTyped, UNCHANGED vars PROVE DiskTyped'
  BY <1>6 DEF vars, DiskTyped
<1> QED
  BY <1>1, <1>3, <1>4, <1>5, <1>6 DEF Next
\* Where a document that is there already is written, every name leads where it did.
LEMMA ResolveSame ==
    ASSUME DiskTyped, NEW path \in Documents, NEW file, file # Absent, disk' = [disk EXCEPT ![path] = file], NEW r
    PROVE  Documents' = Documents /\ Resolve(r)' = Resolve(r)
<1>0. path \in DOMAIN Entries
  BY DEF Documents
<1>1. \A q \in DOMAIN Entries : disk'[q] = IF q = path THEN file ELSE disk[q]
  BY <1>0 DEF DiskTyped
<1>2. Documents' = Documents
  BY <1>1 DEF Documents
<1>3. \A q : Indexed(q)' <=> Indexed(q)
  BY <1>1 DEF Indexed, Documents
<1>4. CASE r.is = "key"
  <2>1. Resolve(r) = resolve_key(r) /\ Resolve(r)' = resolve_key(r)'
    BY <1>4 DEF Resolve
  <2>2. KeyGroup(r.ns, r.key)' = KeyGroup(r.ns, r.key)
    BY <1>2 DEF KeyGroup
  <2>3. resolve_key(r)' = resolve_key(r)
    BY <2>2 DEF resolve_key, CollectionOf
  <2> QED
    BY <1>2, <2>1, <2>3
<1>5. CASE r.is = "path"
  <2>1. Resolve(r) = resolve_path(r.path) /\ Resolve(r)' = resolve_path(r.path)'
    BY <1>5 DEF Resolve
  <2>2. resolve_path(r.path)' = resolve_path(r.path)
    BY <1>3 DEF resolve_path, CollectionOf
  <2> QED
    BY <1>2, <2>1, <2>2
<1>6. CASE r.is \notin {"key", "path"}
  <2>1. ~IsCandidate(r, path)
    BY <1>6 DEF IsCandidate
  <2>2. Resolve(r)' = Resolve(r)
    BY <1>0, <2>1, ResolveAfter
  <2> QED
    BY <1>2, <2>2
<1> QED
  BY <1>4, <1>5, <1>6

\* Where `set` writes the list that the field has, the file writes no new name.
LEMMA NamesKept ==
    ASSUME NEW old, FileType(old), Readable(old), NEW schema, Declares(schema, RefField),
           Declared(schema, RefField).kind = "ref[]", NEW names, NEW body,
           HasField(ReadFields(old, schema), RefField),
           FieldValue(ReadFields(old, schema), RefField) = ListValue(names)
    PROVE  NamesIn(splice(finish(set_list(ReadFields(old, schema), RefField, names)), body), schema)
             \subseteq NamesIn(old, schema)
<1> DEFINE before == ReadFields(old, schema)
           after == set_list(before, RefField, names)
           file == splice(finish(after), body)
           m == Len(old.entries)
<1>1. m \in Nat /\ DOMAIN old.entries = 1 .. m
  BY FileFacts
<1>2. DOMAIN before = 1 .. m /\ \A i \in 1 .. m : before[i].name = old.entries[i].name /\ before[i] = [name |-> before[i].name, value |-> before[i].value]
  BY <1>1 DEF ReadFields
<1> HIDE DEF before
<1>3. PICK k \in 1 .. m : old.entries[k].name = RefField
  BY FieldIs DEF before
<1>4. /\ FieldAt(before, RefField) = k /\ ShapeValue(old.entries[k]) = ListValue(names)
      /\ \A j \in 1 .. m : old.entries[j].name = RefField => j = k
  BY <1>3, FieldIs DEF before
<1>5. old.entries[k].shape = "list" /\ old.entries[k].items = names
  <2>1. old.entries[k] \in EntryType
    BY <1>3, FileFacts
  <2> QED
    BY <1>4, <2>1, ShapeIs, ListFacts
<1>6. DOMAIN after = 1 .. m /\ after[k].value = ListValue(names) /\ \A j \in 1 .. m : after[j].name = old.entries[j].name
  <2>1. after = [before EXCEPT ![k] = [before[k] EXCEPT !.value = ListValue(names)]]
    BY <1>4 DEF set_list, Put, before
  <2>2. [before[k] EXCEPT !.value = ListValue(names)] = [name |-> old.entries[k].name, value |-> ListValue(names)]
    <3>1. before[k] = [name |-> before[k].name, value |-> before[k].value]
      BY <1>2, <1>3
    <3>2. before[k].name = old.entries[k].name
      BY <1>2, <1>3
    <3> QED
      BY <3>1, <3>2
  <2> HIDE DEF after
  <2>3. after[k] = [name |-> old.entries[k].name, value |-> ListValue(names)]
    BY <1>2, <1>3, <2>1, <2>2
  <2>4. \A j \in 1 .. m : j # k => after[j] = before[j]
    BY <1>2, <2>1
  <2>5. \A j \in 1 .. m : before[j].name = old.entries[j].name
    BY <1>2
  <2> QED
    BY <1>2, <2>1, <2>3, <2>4, <2>5
<1> HIDE DEF after
<1>7. file.entries = finish(after)
  BY DEF splice, Closed
<1> HIDE DEF file
<1>8. ASSUME NEW name \in NamesIn(file, schema) PROVE name \in NamesIn(old, schema)
  <2>1. PICK e \in ToSet(file.entries) : e.name = RefField /\ e.shape = "list" /\ name \in ToSet(e.items)
    BY DEF NamesIn
  <2>2. PICK j \in 1 .. m : e = file.entries[j]
    BY <1>6, <1>7, <2>1 DEF ToSet, finish
  <2>3. file.entries[j].name = after[j].name
    <3> DEFINE f == after[j]
    <3>1. file.entries[j] = CASE f.value.type = "List" -> Items(f.name, f.value.items)
                              [] f.value.type = "Empty" -> Null(f.name, NoText)
                              [] OTHER -> Scalar(f.name, f.value.items[1])
      BY <1>6, <1>7, <2>2 DEF finish
    <3>2. \A x, y : Items(x, y).name = x /\ Null(x, y).name = x /\ Scalar(x, y).name = x
      BY DEF Items, Null, Scalar
    <3> HIDE DEF f
    <3>3. file.entries[j].name = f.name
      BY <3>1, <3>2
    <3> QED
      BY <3>3 DEF f
  <2>4. j = k
    BY <1>4, <1>6, <2>1, <2>2, <2>3
  <2>5. file.entries[k] = Items(after[k].name, names)
    BY <1>6, <1>7, ListFacts DEF finish
  <2>6. e.items = names
    BY <2>2, <2>4, <2>5 DEF Items
  <2>7. old.entries[k] \in ToSet(old.entries) /\ name \in ToSet(old.entries[k].items)
    BY <1>1, <1>5, <2>1, <2>6 DEF ToSet
  <2> QED
    BY <1>3, <1>5, <2>7 DEF NamesIn
<1> QED
  BY <1>8 DEF file, after, before

\* So the write forms no ring.
LEMMA SetKeeps ==
    ASSUME DiskTyped, Acyclic, NEW path \in Documents, NEW file, file # Absent, disk' = [disk EXCEPT ![path] = file],
           NamesIn(file, SchemaOf(path)) \subseteq NamesIn(disk[path], SchemaOf(path))
    PROVE  Acyclic'
<1> SUFFICES ASSUME ~Acyclic' PROVE FALSE
  OBVIOUS
<1>1. PICK R \in SUBSET Documents' : R # {} /\ \A p \in R : \E q \in R : Leads(p, q)'
  BY RingsAre
<1>2. Documents' = Documents /\ path \in DOMAIN Entries
  BY ResolveSame DEF Documents
<1>3. ASSUME NEW p, NEW q, Leads(p, q)' PROVE Leads(p, q)
  <2>1. p \in Documents' /\ \E name \in NamesIn(FileWith(p, path, file), SchemaOf(p)) : Arrives(name, p, q)'
    BY <1>2, <1>3, LeadsAfter
  <2>2. PICK name \in NamesIn(FileWith(p, path, file), SchemaOf(p)) : Arrives(name, p, q)'
    BY <2>1
  <2>3. name \in NamesIn(disk[p], SchemaOf(p))
    BY <2>2 DEF FileWith
  <2>4. Resolve(Reads(name, p, "ref"))' = Resolve(Reads(name, p, "ref"))
    BY ResolveSame
  <2>5. resolve_one(name, p).found /\ resolve_one(name, p).project = Home /\ resolve_one(name, p).path = q
    BY <2>2, <2>4 DEF Arrives, resolve_one
  <2> QED
    BY <1>2, <2>1, <2>3, <2>5, LeadsIs
<1> QED
  BY <1>1, <1>2, <1>3, RingsAre

-----------------------------------------------------------------------------
(* The commands.                                                           *)

LEMMA CommandKeeps ==
    ASSUME DiskTyped, ImportsApart, Acyclic, Command
    PROVE  Acyclic'
<1>1. ASSUME NEW path \in DOMAIN Entries, NEW names \in RefLists, set(path, names) PROVE Acyclic'
  <2> DEFINE before == FieldsOf(path)
             file == splice(finish(set_list(before, RefField, names)), disk[path].body)
             ofCycles == IF HasField(before, RefField) /\ FieldValue(before, RefField) = ListValue(names) THEN {} ELSE {RefField}
  <2>1. /\ path \in Documents /\ Readable(disk[path]) /\ Declares(SchemaOf(path), RefField)
        /\ disk' = [disk EXCEPT ![path] = file] /\ ~Refused(CandidateFindings(path, file, ofCycles))
    BY <1>1 DEF set, Write
  <2>2. FileType(disk[path]) /\ Declared(SchemaOf(path), RefField).kind = "ref[]"
    BY <1>1, <2>1, RefFieldAssumption, IndexAssumption DEF DiskTyped, SchemaOf, CollectionOf, CollectionNames
  <2>3. before \in Seq(FieldSet)
    BY <2>1, <2>2, ReadTyped DEF FieldsOf
  <2> HIDE DEF before
  <2>4. FileType(file) /\ file # Absent
    BY <2>3, SetTyped, FinishTyped
  <2>5. CASE HasField(before, RefField) /\ FieldValue(before, RefField) = ListValue(names)
    <3>1. NamesIn(file, SchemaOf(path)) \subseteq NamesIn(disk[path], SchemaOf(path))
      BY <2>1, <2>2, <2>5, NamesKept DEF before, FieldsOf
    <3> HIDE DEF file
    <3> QED
      BY <2>1, <2>4, <3>1, SetKeeps
  <2>6. CASE ~(HasField(before, RefField) /\ FieldValue(before, RefField) = ListValue(names))
    <3>1. RefField \in ofCycles
      BY <2>6
    <3> HIDE DEF file, ofCycles
    <3> QED
      BY <1>1, <2>1, <2>4, <3>1, LoopFound, LoopRefused
  <2> QED
    BY <2>5, <2>6
<1>2. ASSUME NEW path \in DOMAIN Entries, NEW names \in RefLists, new(path, names) PROVE Acyclic'
  <2> DEFINE file == splice(finish(set_list(<<>>, RefField, names)), <<>>)
  <2>1. /\ Declares(SchemaOf(path), RefField) /\ disk' = [disk EXCEPT ![path] = file]
        /\ ~Refused(CandidateFindings(path, file, AcyclicFields))
    BY <1>2 DEF new, Write
  <2>2. <<>> \in Seq(FieldSet)
    OBVIOUS
  <2>3. FileType(file) /\ file # Absent
    BY <2>2, SetTyped, FinishTyped
  <2>4. RefField \in AcyclicFields
    BY <2>1, RefFieldAcyclic
  <2> HIDE DEF file
  <2> QED
    BY <2>1, <2>3, <2>4, LoopFound, LoopRefused
<1> QED
  BY <1>1, <1>2 DEF Command

\* No `set` and no `new` closes a loop of `acyclic` refs where there was none, in any project none of
\* whose refs leads into an import to a path where the project may have a document of its own
\* (project.rs, check_write_cycles): however long the loop, whatever its refs are written as, and
\* whether the document is there yet.
THEOREM CyclesRefused == Spec /\ []ImportsApart => CommandsFormNoCycle
<1>1. Init => DiskTyped
  BY StaysTyped
<1>2. DiskTyped /\ [Next]_vars => DiskTyped'
  BY StaysTyped
<1>3. DiskTyped /\ ImportsApart /\ [Next]_vars => [Acyclic /\ ~Acyclic' => ~Command]_vars
  BY CommandKeeps
<1> QED
  BY <1>1, <1>2, <1>3, PTL DEF Spec, CommandsFormNoCycle
-----------------------------------------------------------------------------
(* Levels, names and lines.                                                *)

Settings == {"error", "warn", "off"}

\* An audit hears of every rule.
LEMMA AuditHears ==
    ASSUME NEW rule, NEW default \in Settings, NEW path \in DOMAIN Entries
    PROVE  LevelOf(rule, default, path, Audit) # "off"
<1> DEFINE settings == CollectionOf(path).levels
           chosen == IF rule \in DOMAIN settings THEN settings[rule]
                     ELSE IF rule \in DOMAIN Global THEN Global[rule]
                     ELSE default
<1>1. settings \in {Collections[c].levels : c \in CollectionNames}
  BY IndexAssumption DEF CollectionOf
<1>2. chosen \in Settings
  BY <1>1, LevelAssumption DEF Settings
<1>3. LevelOf(rule, default, path, Audit)
        = CASE chosen = "off" /\ TRUE -> "info" [] chosen = "warn" /\ FALSE -> "error" [] OTHER -> chosen
  BY DEF LevelOf, effective_level, Audit
<1> HIDE DEF chosen
<1> QED
  BY <1>2, <1>3 DEF Settings

\* What is said of one rule, in one field or at one line: and that something is said.
Only_(said, rule, field, at) == \A f \in said : f.rule = rule /\ f.field = field /\ f.at = at
Says(said, rule, field, at) == said # {} /\ Only_(said, rule, field, at)

LEMMA AtLevelSays ==
    ASSUME NEW level, NEW rule, NEW field, NEW at
    PROVE  /\ Only_(AtLevel(level, rule, field, at), rule, field, at)
           /\ level # "off" => Says(AtLevel(level, rule, field, at), rule, field, at)
<1> DEFINE F == FindingAt(level, rule, field, at)
<1>1. F.rule = rule /\ F.field = field /\ F.at = at
  BY DEF FindingAt
<1>2. AtLevel(level, rule, field, at) = IF level = "off" THEN {} ELSE {F}
  BY DEF AtLevel
<1> HIDE DEF F
<1> QED
  BY <1>1, <1>2 DEF Says, Only_

LEMMA AuditSays ==
    ASSUME NEW rule, NEW default \in Settings, NEW path \in DOMAIN Entries, NEW field, NEW at
    PROVE  Says(AtLevel(LevelOf(rule, default, path, Audit), rule, field, at), rule, field, at)
BY AuditHears, AtLevelSays

LEMMA BodySays ==
    ASSUME NEW rule, NEW path \in DOMAIN Entries, NEW line
    PROVE  /\ BodyLevel(rule, path, Audit) # "off"
           /\ Says(BodyFinding(rule, path, line, Audit), rule, "", line)
<1> DEFINE default == IF rule = "body.mentions" THEN "off" ELSE "error"
<1>1. default \in Settings
  BY DEF Settings
<1>2. BodyLevel(rule, path, Audit) = LevelOf(rule, default, path, Audit)
  BY DEF BodyLevel
<1>3. BodyFinding(rule, path, line, Audit) = AtLevel(LevelOf(rule, default, path, Audit), rule, "", line)
  BY <1>2 DEF BodyFinding
<1> HIDE DEF default
<1>4. LevelOf(rule, default, path, Audit) # "off"
  BY <1>1, AuditHears
<1>5. Says(AtLevel(LevelOf(rule, default, path, Audit), rule, "", line), rule, "", line)
  BY <1>1, AuditSays
<1> QED
  BY <1>2, <1>3, <1>4, <1>5

LEMMA ErrorSays ==
    ASSUME NEW level, NEW rule, NEW field
    PROVE  Says({Finding(level, rule, field)}, rule, field, 0)
<1> DEFINE F == Finding(level, rule, field)
<1>1. F.rule = rule /\ F.field = field /\ F.at = 0
  BY DEF Finding
<1> HIDE DEF F
<1>2. Says({F}, rule, field, 0)
  BY <1>1 DEF Says, Only_
<1> QED
  BY <1>2 DEF F

LEMMA SchemaNames ==
    ASSUME NEW path \in DOMAIN Entries, NEW name, Declares(SchemaOf(path), name)
    PROVE  name \notin {"", "$body"}
<1>1. \E c \in CollectionNames : SchemaOf(path) = Collections[c].schema
  BY IndexAssumption DEF SchemaOf, CollectionOf
<1> QED
  BY <1>1, NameAssumption

LEMMA RefNames ==
    ASSUME NEW path \in DOMAIN Entries, NEW fields
    PROVE  \A r \in FieldRefs(SchemaOf(path), fields) : r.field \notin {"", "$body"}
<1> SUFFICES ASSUME NEW r \in FieldRefs(SchemaOf(path), fields) PROVE r.field \notin {"", "$body"}
  OBVIOUS
<1>1. PICK j \in DOMAIN fields :
        /\ IsRefField(SchemaOf(path), fields[j].name, fields[j].value)
        /\ \E n \in DOMAIN ref_values(fields[j].value) :
             r = [field |-> fields[j].name, at |-> n, written |-> ref_values(fields[j].value)[n]]
  BY DEF FieldRefs
<1>2. r.field = fields[j].name
  BY <1>1
<1>3. Declares(SchemaOf(path), fields[j].name)
  BY <1>1 DEF IsRefField
<1> QED
  BY <1>2, <1>3, SchemaNames

-----------------------------------------------------------------------------
(* The checks of the block: what they say of refs, and what they do not.   *)

BlockRules == {"frontmatter.parse", "frontmatter.types", "frontmatter.unknown", "keys.unique", "filename.pattern"}

LEMMA BlockSays ==
    ASSUME NEW path, NEW file, NEW how
    PROVE  \A f \in Block(path, file, how) \cup duplicate_key(path) \cup name_state_finding(path, how) :
             f.rule \in BlockRules /\ f.at = 0
<1> DEFINE schema == SchemaOf(path)
           settings == [global |-> Global, collection |-> CollectionOf(path).levels, strict |-> how.strict, audit |-> how.audit]
           fields == ReadFields(file, schema)
           level == effective_level("warn", "frontmatter.unknown", settings.global, settings.collection,
                                    settings.strict, settings.audit)
           Of(i) == IF ~Declares(schema, fields[i].name)
                    THEN AtLevel(level, "frontmatter.unknown", fields[i].name, 0)
                    ELSE LET field == Declared(schema, fields[i].name)
                         IN  IF \/ ~fits(field.kind, fields[i].value)
                                \/ field.kind = "enum" /\ ~Contains(field.values, enum_text(fields[i].value))
                             THEN {TypesError(fields[i].name)} ELSE {}
           missing == {f \in ToSet(schema.fields) : f.required /\ ~HasField(fields, f.name)}
<1>1. Block(path, file, how) = IF ~Readable(file) THEN {Finding("error", "frontmatter.parse", "")}
                               ELSE {TypesError(field.name) : field \in missing} \cup UNION {Of(i) : i \in DOMAIN fields}
  BY DEF Block, check_document
<1>2. \A l, rule, field : \A f \in AtLevel(l, rule, field, 0) : f.rule = rule /\ f.at = 0
  BY DEF AtLevel, FindingAt
<1>3. \A name : TypesError(name).rule = "frontmatter.types" /\ TypesError(name).at = 0
  BY DEF TypesError, Finding
<1>4. \A i : \A f \in Of(i) : f.rule \in BlockRules /\ f.at = 0
  BY <1>2, <1>3 DEF BlockRules
<1> HIDE DEF Of, missing
<1>5. \A f \in Block(path, file, how) : f.rule \in BlockRules /\ f.at = 0
  <2>1. CASE ~Readable(file)
    <3>1. Only_(Block(path, file, how), "frontmatter.parse", "", 0)
      BY <1>1, <2>1, ErrorSays DEF Says
    <3> QED
      BY <3>1 DEF Only_, BlockRules
  <2>2. CASE Readable(file)
    BY <1>1, <1>3, <1>4, <2>2 DEF BlockRules
  <2> QED
    BY <2>1, <2>2
<1>6. \A f \in duplicate_key(path) : f.rule \in BlockRules /\ f.at = 0
  <2>1. Only_({Finding("error", "keys.unique", "")}, "keys.unique", "", 0)
    BY ErrorSays DEF Says
  <2> QED
    BY <2>1 DEF duplicate_key, Only_, BlockRules
<1>7. \A f \in name_state_finding(path, how) : f.rule \in BlockRules /\ f.at = 0
  <2> DEFINE A == AtLevel(LevelOf("filename.pattern", "error", path, how), "filename.pattern", "", 0)
  <2>1. Only_(A, "filename.pattern", "", 0)
    BY AtLevelSays
  <2>2. name_state_finding(path, how) \subseteq A
    BY DEF name_state_finding
  <2> HIDE DEF A
  <2> QED
    BY <2>1, <2>2 DEF Only_, BlockRules
<1> QED
  BY <1>5, <1>6, <1>7

\* Of a ref that leads somewhere nothing is said that is said of one that does not.
LEMMA ResolvedSays ==
    ASSUME NEW path \in DOMAIN Entries, NEW r, NEW target, NEW resolved
    PROVE  \A f \in resolved_ref_findings(path, r, target, resolved, Audit) :
             f.rule \in {"refs.target", "refs.codedByPath", "refs.slug"} /\ f.field = r.field /\ f.at = 0
<1> DEFINE T == {Finding("error", "refs.target", r.field)}
           C == AtLevel(LevelOf("refs.codedByPath", "warn", path, Audit), "refs.codedByPath", r.field, 0)
           S == AtLevel(LevelOf("refs.slug", "warn", path, Audit), "refs.slug", r.field, 0)
<1>1. Only_(T, "refs.target", r.field, 0) /\ Only_(C, "refs.codedByPath", r.field, 0) /\ Only_(S, "refs.slug", r.field, 0)
  BY ErrorSays, AtLevelSays DEF Says
<1>2. resolved_ref_findings(path, r, target, resolved, Audit) \subseteq (T \cup C) \cup S
  BY DEF resolved_ref_findings
<1> HIDE DEF T, C, S
<1> QED
  BY <1>1, <1>2 DEF Only_

LEMMA UnresolvedSays ==
    ASSUME NEW path \in DOMAIN Entries, NEW r, NEW reason, NEW moved
    PROVE  LET recorded == MovedFrom(Reads(r.written, path, "ref")) \in moved
           IN  \E rule \in RefRules :
                 /\ Says(unresolved_ref_finding(path, r, reason, Audit, moved), rule, r.field, 0)
                 /\ rule = "refs.moved" <=> recorded
<1> DEFINE M == AtLevel(LevelOf("refs.moved", "error", path, Audit), "refs.moved", r.field, 0)
           I == AtLevel(LevelOf("imports.absent", "warn", path, Audit), "imports.absent", r.field, 0)
           E == {Finding("error", "refs.resolve", r.field)}
           recorded == MovedFrom(Reads(r.written, path, "ref")) \in moved
<1>1. /\ Says(M, "refs.moved", r.field, 0)
      /\ Says(I, "imports.absent", r.field, 0)
      /\ Says(E, "refs.resolve", r.field, 0)
  BY AuditSays, ErrorSays DEF Settings
<1>2. unresolved_ref_finding(path, r, reason, Audit, moved)
        = IF recorded THEN M ELSE IF reason = "import-absent" THEN I ELSE E
  BY DEF unresolved_ref_finding
<1> HIDE DEF M, I, E, recorded
<1>3. \E rule \in RefRules :
        /\ Says(unresolved_ref_finding(path, r, reason, Audit, moved), rule, r.field, 0)
        /\ rule = "refs.moved" <=> recorded
  BY <1>1, <1>2 DEF RefRules
<1> QED
  BY <1>3 DEF recorded

LEMMA RefsSay ==
    ASSUME NEW path \in DOMAIN Entries, NEW file, file.block = "closed", NEW moved
    PROVE  LET said == check_refs(path, file, Audit, moved)
               unresolved == {r \in FieldRefs(SchemaOf(path), ReadFields(file, SchemaOf(path))) :
                                ~resolve_one(r.written, path).found}
               Recorded(r) == MovedFrom(Reads(r.written, path, "ref")) \in moved
           IN  /\ \A r \in unresolved : \E f \in said : /\ f.rule \in RefRules /\ f.field = r.field
                                                        /\ (f.rule = "refs.moved" <=> Recorded(r))
               /\ \A f \in said : /\ f.at = 0 /\ f.field \notin {"", "$body"}
                                  /\ f.rule \in RefRules =>
                                       \E r \in unresolved : r.field = f.field /\ (f.rule = "refs.moved" <=> Recorded(r))
<1> DEFINE schema == SchemaOf(path)
           R == FieldRefs(schema, ReadFields(file, schema))
           To(r) == resolve_one(r.written, path)
           U(r) == unresolved_ref_finding(path, r, To(r).reason, Audit, moved)
           Of(r) == IF To(r).found THEN resolved_ref_findings(path, r, Declared(schema, r.field).target, To(r), Audit)
                    ELSE U(r)
           Recorded(r) == MovedFrom(Reads(r.written, path, "ref")) \in moved
<1>1. check_refs(path, file, Audit, moved) = UNION {Of(r) : r \in R}
  BY DEF check_refs
<1>2. \A r \in R : r.field \notin {"", "$body"}
  BY RefNames
<1>3. \A r : U(r) # {} /\ \A f \in U(r) : /\ f.rule \in RefRules /\ f.field = r.field /\ f.at = 0
                                          /\ (f.rule = "refs.moved" <=> Recorded(r))
  <2> SUFFICES ASSUME NEW r
               PROVE  U(r) # {} /\ \A f \in U(r) : /\ f.rule \in RefRules /\ f.field = r.field /\ f.at = 0
                                                   /\ (f.rule = "refs.moved" <=> Recorded(r))
    OBVIOUS
  <2>1. \E rule \in RefRules : Says(U(r), rule, r.field, 0) /\ (rule = "refs.moved" <=> Recorded(r))
    BY UnresolvedSays
  <2> HIDE DEF U, Recorded
  <2> QED
    BY <2>1 DEF Says, Only_
<1>4. \A r : To(r).found => \A f \in Of(r) : f.rule \notin RefRules /\ f.field = r.field /\ f.at = 0
  BY ResolvedSays DEF RefRules
<1>5. \A r : ~To(r).found => Of(r) = U(r)
  OBVIOUS
<1> HIDE DEF R, To, U, Of, Recorded
<1>6. \A r \in R : ~To(r).found => \E f \in check_refs(path, file, Audit, moved) :
                                     /\ f.rule \in RefRules /\ f.field = r.field /\ (f.rule = "refs.moved" <=> Recorded(r))
  BY <1>1, <1>3, <1>5
<1>7. ASSUME NEW f \in check_refs(path, file, Audit, moved)
      PROVE  /\ f.at = 0 /\ f.field \notin {"", "$body"}
             /\ f.rule \in RefRules =>
                  \E r \in R : ~To(r).found /\ r.field = f.field /\ (f.rule = "refs.moved" <=> Recorded(r))
  <2>1. PICK r \in R : f \in Of(r)
    BY <1>1
  <2>2. f.field = r.field /\ f.at = 0
    BY <1>3, <1>4, <1>5, <2>1
  <2>3. r.field \notin {"", "$body"}
    BY <1>2
  <2>4. f.rule \in RefRules => ~To(r).found /\ (f.rule = "refs.moved" <=> Recorded(r))
    BY <1>3, <1>4, <1>5, <2>1
  <2> QED
    BY <2>2, <2>3, <2>4
<1> QED
  BY <1>6, <1>7 DEF R, To, Recorded
-----------------------------------------------------------------------------
(* The checks of the body.                                                 *)

LinkReadings == {"path", "import", "badPrefix", "absolute", "notARef"}
LostRules == {"body.links"} \cup RefRules

\* A link that leads nowhere, and is looked for.
Lost(path, written) ==
    LET reading == classify_body(TargetOf(written), path)
    IN  /\ TargetOf(written) # NoTarget /\ reading.is # "notARef"
        /\ ~Resolve(reading).found /\ ~Overlooked(path, reading)

\* What is said at a link: of its anchor, unless it is lost, and that it is, if it is.
SaysOfLink(said, lost, line) ==
    IF lost THEN \E rule \in {"body.links", "imports.absent", "refs.moved"} : Says(said, rule, "", line)
    ELSE Only_(said, "body.anchors", "", line)

LEMMA AnchorSays ==
    ASSUME NEW link, NEW target, NEW path \in DOMAIN Entries, NEW file
    PROVE  Only_(AnchorFindings(link, target, path, file, Audit), "body.anchors", "", link.line)
<1> DEFINE B == BodyFinding("body.anchors", path, link.line, Audit)
<1>1. Only_(B, "body.anchors", "", link.line)
  BY BodySays DEF Says
<1>2. AnchorFindings(link, target, path, file, Audit) \subseteq B
  BY DEF AnchorFindings
<1> HIDE DEF B
<1> QED
  BY <1>1, <1>2 DEF Only_

LEMMA MissedSays ==
    ASSUME NEW from, NEW path \in DOMAIN Entries, NEW line, NEW moved, NEW rule
    PROVE  \E told \in {rule, "refs.moved"} :
             Says(Missed(from, path, line, Audit, moved, BodyFinding(rule, path, line, Audit)), told, "", line)
<1> DEFINE own == BodyFinding(rule, path, line, Audit)
           M == AtLevel(LevelOf("refs.moved", "error", path, Audit), "refs.moved", "", line)
<1>1. Says(own, rule, "", line)
  BY BodySays
<1>2. Says(M, "refs.moved", "", line)
  BY AuditSays DEF Settings
<1>3. Missed(from, path, line, Audit, moved, own) = IF from \in moved THEN M ELSE own
  BY DEF Missed
<1> HIDE DEF own, M
<1>4. \E told \in {rule, "refs.moved"} : Says(Missed(from, path, line, Audit, moved, own), told, "", line)
  BY <1>1, <1>2, <1>3
<1> QED
  BY <1>4 DEF own

LEMMA DestinationSays ==
    ASSUME NEW link, NEW path \in DOMAIN Entries, NEW file, NEW moved,
           TargetOf(link.written) # NoTarget =>
             classify_body(TargetOf(link.written), path).is \in LinkReadings
    PROVE  SaysOfLink(check_body_destination(link, path, file, Audit, moved), Lost(path, link.written), link.line)
<1> DEFINE said == check_body_destination(link, path, file, Audit, moved)
           target == TargetOf(link.written)
           reading == classify_body(target, path)
           missing == BodyFinding("body.links", path, link.line, Audit)
           absent == AtLevel(LevelOf("imports.absent", "warn", path, Audit), "imports.absent", "", link.line)
           lost == Lost(path, link.written)
<1> SUFFICES SaysOfLink(said, lost, link.line)
  OBVIOUS
<1>0. Only_({}, "body.anchors", "", link.line)
  BY DEF Only_
<1>1. Says(missing, "body.links", "", link.line) /\ Says(absent, "imports.absent", "", link.line)
  BY BodySays, AuditSays DEF Settings
<1>2. CASE target = NoTarget
  <2>1. said = AnchorFindings(link, path, path, file, Audit)
    BY <1>2 DEF check_body_destination
  <2>2. ~lost
    BY <1>2 DEF Lost, lost
  <2> HIDE DEF said, lost
  <2> QED
    BY <2>1, <2>2, AnchorSays DEF SaysOfLink
<1>3. CASE target # NoTarget /\ reading.is = "notARef"
  <2>1. said = {}
    BY <1>3 DEF check_body_destination
  <2>2. ~lost
    BY <1>3 DEF Lost, lost
  <2> HIDE DEF said, lost
  <2> QED
    BY <1>0, <2>1, <2>2 DEF SaysOfLink
<1>4. CASE target # NoTarget /\ reading.is \in {"badPrefix", "absolute"}
  <2>1. said = missing
    BY <1>4 DEF check_body_destination
  <2>2. ~Resolve(reading).found
    BY <1>4 DEF Resolve, Unresolved
  <2>3. ~Overlooked(path, reading)
    BY <1>4 DEF Overlooked, Ignored
  <2>4. lost
    BY <1>4, <2>2, <2>3 DEF Lost, lost
  <2> HIDE DEF said, lost, missing
  <2> QED
    BY <1>1, <2>1, <2>4 DEF SaysOfLink
<1>5. CASE target # NoTarget /\ reading.is = "import"
  <2>1. said = IF ~Imports[reading.alias].loaded THEN absent
               ELSE IF Ignored(path, reading.rest) \/ Resolve(reading).found THEN {} ELSE missing
    BY <1>5 DEF check_body_destination
  <2>2. Overlooked(path, reading) <=> Imports[reading.alias].loaded /\ Ignored(path, reading.rest)
    BY <1>5 DEF Overlooked
  <2>3. ~Imports[reading.alias].loaded => ~Resolve(reading).found
    BY <1>5 DEF Resolve, resolve_in_import, Unresolved
  <2>4. lost <=> ~Resolve(reading).found /\ ~Overlooked(path, reading)
    BY <1>5 DEF Lost, lost
  <2> HIDE DEF said, lost, missing, absent, reading
  <2> QED
    BY <1>0, <1>1, <2>1, <2>2, <2>3, <2>4 DEF SaysOfLink
<1>6. CASE target # NoTarget /\ reading.is = "path"
  <2> DEFINE missed == Missed(MovedFrom(reading), path, link.line, Audit, moved, missing)
             anchors == AnchorFindings(link, reading.path, path, file, Audit)
  <2>1. said = IF Ignored(path, reading) THEN {} ELSE IF resolve_path(reading.path).found THEN anchors ELSE missed
    BY <1>6 DEF check_body_destination
  <2>2. Overlooked(path, reading) <=> Ignored(path, reading)
    BY <1>6 DEF Overlooked
  <2>3. Resolve(reading) = resolve_path(reading.path)
    BY <1>6 DEF Resolve
  <2>4. lost <=> ~Resolve(reading).found /\ ~Overlooked(path, reading)
    BY <1>6 DEF Lost, lost
  <2>5. Only_(anchors, "body.anchors", "", link.line)
    BY AnchorSays
  <2>6. \E rule \in {"body.links", "refs.moved"} : Says(missed, rule, "", link.line)
    BY MissedSays
  <2> HIDE DEF said, lost, missing, reading, missed, anchors
  <2> QED
    BY <1>0, <2>1, <2>2, <2>3, <2>4, <2>5, <2>6 DEF SaysOfLink
<1> HIDE DEF said, lost
<1> QED
  BY <1>2, <1>3, <1>4, <1>5, <1>6 DEF LinkReadings

\* What is said of mentions.
LEMMA MentionsSay ==
    ASSUME NEW path \in DOMAIN Entries, NEW file, NEW moved
    PROVE  LET said == MentionFindings(path, file, Audit, moved)
               lines == mentions(file.body, CollectionOf(path).inlineCode, CollectionOf(path).fencedCode)
           IN  /\ \A f \in said : f.rule \in {"body.mentions", "refs.moved"} /\ f.field = ""
                                  /\ f.at \in lines /\ mention_missing(file.body[f.at].written, path)
               /\ \A i \in lines : mention_missing(file.body[i].written, path) => \E f \in said : f.at = i
<1> DEFINE lines == mentions(file.body, CollectionOf(path).inlineCode, CollectionOf(path).fencedCode)
           missing == {j \in lines : mention_missing(file.body[j].written, path)}
           At(i) == Missed(MovedFrom(Reads(file.body[i].written, path, "mention")), path, i, Audit, moved,
                           BodyFinding("body.mentions", path, i, Audit))
<1>1. BodyLevel("body.mentions", path, Audit) # "off"
  BY BodySays
<1>2. MentionFindings(path, file, Audit, moved) = UNION {At(i) : i \in missing}
  BY <1>1 DEF MentionFindings
<1>3. \A i : \E rule \in {"body.mentions", "refs.moved"} : Says(At(i), rule, "", i)
  BY MissedSays
<1>4. \A i \in missing : i \in lines /\ mention_missing(file.body[i].written, path)
  OBVIOUS
<1>5. \A i \in lines : mention_missing(file.body[i].written, path) => i \in missing
  OBVIOUS
<1> HIDE DEF At, lines, missing
<1>6. ASSUME NEW f \in MentionFindings(path, file, Audit, moved)
      PROVE  /\ f.rule \in {"body.mentions", "refs.moved"} /\ f.field = "" /\ f.at \in missing
  <2>1. PICK i \in missing : f \in At(i)
    BY <1>2
  <2>2. PICK rule \in {"body.mentions", "refs.moved"} : Says(At(i), rule, "", i)
    BY <1>3
  <2> QED
    BY <2>1, <2>2 DEF Says, Only_
<1>7. ASSUME NEW i \in missing PROVE \E f \in MentionFindings(path, file, Audit, moved) : f.at = i
  <2>1. PICK rule \in {"body.mentions", "refs.moved"} : Says(At(i), rule, "", i)
    BY <1>3
  <2> QED
    BY <1>2, <2>1 DEF Says, Only_
<1> QED
  BY <1>4, <1>5, <1>6, <1>7 DEF lines

\* The lines with a destination of their own.
Destinations(body) == Checked(body) \cup Active(body)

LEMMA LineKinds ==
    ASSUME NEW body, NEW i
    PROVE  /\ i \in Checked(body) => i \in DOMAIN body /\ body[i].is = "link"
           /\ i \in Active(body) => i \in DOMAIN body /\ body[i].is = "definition"
           /\ i \in Duplicates(body) => body[i].is = "definition" /\ i \notin Active(body)
           /\ i \in suspects(body) => body[i].is = "broken"
           /\ i \in UsesDefined(body) => i \in DOMAIN body /\ body[i].is = "use"
           /\ \A inline, fenced : i \in mentions(body, inline, fenced) => i \in DOMAIN body /\ body[i].is = "word"
BY DEF Checked, Active, Duplicates, suspects, UsesDefined, mentions, Lines

\* What is said in a body: at a destination that it is lost, at a mention that it is missing.
LEMMA BodyOrigin ==
    ASSUME NEW path \in DOMAIN Entries, NEW file, NEW moved
    PROVE  LET body == file.body
               said == check_body(path, file, Audit, moved)
               At(i) == check_body_destination(Link(body[i].written, i, FALSE), path, file, Audit, moved)
           IN  /\ \A i \in Destinations(body) : At(i) \subseteq said
               /\ MentionFindings(path, file, Audit, moved) \subseteq said
               /\ \A f \in said : \/ \E i \in Destinations(body) : f \in At(i)
                                  \/ f.field = "" /\ f.rule = "body.links" /\ f.at \in Duplicates(body) \cup suspects(body)
                                  \/ f \in MentionFindings(path, file, Audit, moved)
<1> DEFINE body == file.body
           said == check_body(path, file, Audit, moved)
           Of(l) == check_body_destination(l, path, file, Audit, moved)
           links == {k \in scan_links(body) : ~k.isReference} \cup scan_definitions(body)
           line(i) == Link(body[i].written, i, FALSE)
           B(i) == BodyFinding("body.links", path, i, Audit)
           looked == {j \in suspects(body) : classify_body(body[j].written, path).is # "notARef"}
           M == MentionFindings(path, file, Audit, moved)
<1>1. BodyLevel("body.links", path, Audit) # "off"
  BY BodySays
<1>2. said = (UNION {Of(l) : l \in links}) \cup (UNION {B(i) : i \in Duplicates(body)})
             \cup (UNION {B(i) : i \in looked}) \cup M
  BY <1>1 DEF check_body
<1>3. links = {line(i) : i \in Destinations(body)}
  <2>1. \A written, i : Link(written, i, TRUE).isReference = TRUE /\ Link(written, i, FALSE).isReference = FALSE
    BY DEF Link
  <2>2. scan_links(body) = {line(i) : i \in Checked(body)}
                           \cup {Link(body[DefinitionOf(body, i)].written, i, TRUE) : i \in UsesDefined(body)}
    BY DEF scan_links
  <2>3. scan_definitions(body) = {line(i) : i \in Active(body)}
    BY DEF scan_definitions
  <2>4. {k \in scan_links(body) : ~k.isReference} = {line(i) : i \in Checked(body)}
    BY <2>1, <2>2
  <2> QED
    BY <2>3, <2>4 DEF Destinations
<1>4. \A i : Only_(B(i), "body.links", "", i)
  BY BodySays DEF Says
<1>5. looked \subseteq suspects(body)
  OBVIOUS
<1> HIDE DEF body, said, Of, links, line, B, looked, M
<1>6. \A i \in Destinations(body) : Of(line(i)) \subseteq said
  BY <1>2, <1>3
<1>7. M \subseteq said
  BY <1>2
<1>8. ASSUME NEW f \in said
      PROVE  \/ \E i \in Destinations(body) : f \in Of(line(i))
             \/ f.field = "" /\ f.rule = "body.links" /\ f.at \in Duplicates(body) \cup suspects(body)
             \/ f \in M
  <2>1. CASE \E l \in links : f \in Of(l)
    BY <1>3, <2>1
  <2>2. CASE \E i \in Duplicates(body) \cup looked : f \in B(i)
    BY <1>4, <1>5, <2>2 DEF Only_
  <2>3. CASE f \in M
    BY <2>3
  <2> QED
    BY <1>2, <2>1, <2>2, <2>3
<1> QED
  BY <1>6, <1>7, <1>8 DEF body, said, Of, line, M

LEMMA BodySay ==
    ASSUME NEW path \in DOMAIN Entries, NEW file, BodyType(path, file.body), NEW moved
    PROVE  LET body == file.body
               said == check_body(path, file, Audit, moved)
               lines == mentions(body, CollectionOf(path).inlineCode, CollectionOf(path).fencedCode)
           IN  /\ \A f \in said : f.field = ""
               /\ \A i \in Destinations(body) :
                    (\E f \in said : f.at = i /\ f.rule \in LostRules) <=> Lost(path, body[i].written)
               /\ \A i \in lines :
                    (\E f \in said : f.at = i /\ f.rule \in {"body.mentions", "refs.moved"})
                    <=> mention_missing(body[i].written, path)
<1> DEFINE body == file.body
           said == check_body(path, file, Audit, moved)
           lines == mentions(body, CollectionOf(path).inlineCode, CollectionOf(path).fencedCode)
           At(i) == check_body_destination(Link(body[i].written, i, FALSE), path, file, Audit, moved)
           M == MentionFindings(path, file, Audit, moved)
           lost(i) == Lost(path, body[i].written)
           gone(i) == mention_missing(body[i].written, path)
<1>1. /\ \A i \in Destinations(body) : At(i) \subseteq said
      /\ M \subseteq said
      /\ \A f \in said : \/ \E i \in Destinations(body) : f \in At(i)
                         \/ f.field = "" /\ f.rule = "body.links" /\ f.at \in Duplicates(body) \cup suspects(body)
                         \/ f \in M
  BY BodyOrigin
<1>2. ASSUME NEW i \in Destinations(body) PROVE SaysOfLink(At(i), lost(i), i)
  <2> DEFINE link == Link(body[i].written, i, FALSE)
  <2>1. link.written = body[i].written /\ link.line = i
    BY DEF Link
  <2>2. i \in DOMAIN body /\ body[i].is \in {"link", "definition"}
    BY LineKinds DEF Destinations
  <2>3. LineReads(path, body[i])
    BY <2>2 DEF BodyType
  <2>4. TargetOf(body[i].written) # NoTarget =>
          classify_body(TargetOf(body[i].written), path).is \in LinkReadings
    BY <2>2, <2>3 DEF LineReads, LinkReadings
  <2>5. At(i) = check_body_destination(link, path, file, Audit, moved)
    OBVIOUS
  <2> HIDE DEF link, At
  <2>6. SaysOfLink(check_body_destination(link, path, file, Audit, moved), Lost(path, link.written), link.line)
    BY <2>1, <2>4, DestinationSays
  <2> QED
    BY <2>1, <2>5, <2>6
<1>3. /\ \A f \in M : f.rule \in {"body.mentions", "refs.moved"} /\ f.field = "" /\ f.at \in lines /\ gone(f.at)
      /\ \A i \in lines : gone(i) => \E f \in M : f.at = i
  BY MentionsSay
<1>4. \A i \in lines : body[i].is = "word"
  BY LineKinds
<1> HIDE DEF body, said, lines, At, M, lost, gone
<1>5. \A i \in Destinations(body) : body[i].is \in {"link", "definition"}
  BY LineKinds DEF Destinations
<1>6. \A i \in Destinations(body) : i \notin Duplicates(body) \cup suspects(body)
  BY LineKinds DEF Destinations
<1>7. \A i \in Duplicates(body) \cup suspects(body) : body[i].is # "word"
  BY LineKinds
<1>8. \A i \in Destinations(body) : \A f \in At(i) :
        /\ f.field = "" /\ f.at = i
        /\ lost(i) => f.rule \in LostRules
        /\ ~lost(i) => f.rule \notin LostRules
  BY <1>2 DEF SaysOfLink, Says, Only_, LostRules, RefRules
<1>9. \A i \in Destinations(body) : lost(i) => \E f \in At(i) : f.at = i /\ f.rule \in LostRules
  <2> SUFFICES ASSUME NEW i \in Destinations(body), lost(i) PROVE \E f \in At(i) : f.at = i /\ f.rule \in LostRules
    OBVIOUS
  <2>1. \E f \in At(i) : TRUE
    BY <1>2 DEF SaysOfLink, Says
  <2> QED
    BY <1>8, <2>1
<1>10. \A f \in said : f.field = ""
  BY <1>1, <1>3, <1>8
<1>11. ASSUME NEW i \in Destinations(body)
       PROVE  (\E f \in said : f.at = i /\ f.rule \in LostRules) <=> lost(i)
  <2>1. ASSUME NEW f \in said, f.at = i, f.rule \in LostRules PROVE lost(i)
    <3>1. f \notin M
      BY <1>3, <1>4, <1>5, <2>1
    <3>2. PICK j \in Destinations(body) : f \in At(j)
      BY <1>1, <1>6, <2>1, <3>1
    <3> QED
      BY <1>8, <2>1, <3>2
  <2>2. lost(i) => \E f \in said : f.at = i /\ f.rule \in LostRules
    BY <1>1, <1>9
  <2> QED
    BY <2>1, <2>2
<1>12. ASSUME NEW i \in lines
       PROVE  (\E f \in said : f.at = i /\ f.rule \in {"body.mentions", "refs.moved"}) <=> gone(i)
  <2>1. ASSUME NEW f \in said, f.at = i PROVE f \in M
    BY <1>1, <1>4, <1>5, <1>7, <1>8, <2>1
  <2> QED
    BY <1>1, <1>3, <2>1
<1> QED
  BY <1>10, <1>11, <1>12 DEF body, said, lines, lost, gone

-----------------------------------------------------------------------------
(* The refs of a document, and the mentions that mv finds.                 *)

LEMMA RefsAre ==
    ASSUME NEW path \in DOMAIN Entries
    PROVE  /\ \A r \in refs(path) : r.field # "$body" =>
                \E q \in FieldRefs(SchemaOf(path), FieldsOf(path)) :
                  r.field = q.field /\ r.written = q.written /\ r.other = resolve_one(q.written, path)
           /\ \A q \in FieldRefs(SchemaOf(path), FieldsOf(path)) : \E r \in refs(path) :
                  r.field = q.field /\ r.written = q.written /\ r.other = resolve_one(q.written, path)
           /\ \A r \in refs(path) : r.field = "$body" =>
                \E l \in scan_links(disk[path].body) :
                  /\ r.at = l.line /\ r.written = l.written
                  /\ r.other = Resolve(classify_body(TargetOf(l.written), path))
                  /\ TargetOf(l.written) # NoTarget /\ classify_body(TargetOf(l.written), path).is # "notARef"
<1> DEFINE body == disk[path].body
           Q == FieldRefs(SchemaOf(path), FieldsOf(path))
           Of(q) == Reference(q.field, q.at, q.written, resolve_one(q.written, path))
           To(w) == Resolve(classify_body(TargetOf(w), path))
           L == {l \in scan_links(body) : TargetOf(l.written) # NoTarget}
           At(l) == [field |-> "$body", at |-> l.line, written |-> l.written]
           N == {b \in BodyRefs(body) : classify_body(TargetOf(b.written), path).is # "notARef"}
           OfLink(b) == Reference(b.field, b.at, b.written, To(b.written))
<1>1. refs(path) = {Of(q) : q \in Q} \cup {OfLink(b) : b \in N}
  BY DEF refs, document_out_refs
<1>2. BodyRefs(body) = {At(l) : l \in L}
  BY DEF BodyRefs
<1>3. /\ \A q : Of(q).field = q.field /\ Of(q).written = q.written /\ Of(q).other = resolve_one(q.written, path)
      /\ \A b : OfLink(b).field = b.field /\ OfLink(b).at = b.at /\ OfLink(b).written = b.written /\ OfLink(b).other = To(b.written)
      /\ \A l : At(l).field = "$body" /\ At(l).at = l.line /\ At(l).written = l.written
  BY DEF Reference
<1>4. /\ \A b \in N : b \in BodyRefs(body) /\ classify_body(TargetOf(b.written), path).is # "notARef"
      /\ \A l \in L : l \in scan_links(body) /\ TargetOf(l.written) # NoTarget
  OBVIOUS
<1>5. \A q \in Q : q.field # "$body"
  BY RefNames
<1> HIDE DEF body, Q, Of, To, L, At, N, OfLink
<1>0. \A b \in N : OfLink(b).field = "$body" /\ \E l \in L : b = At(l)
  <2> SUFFICES ASSUME NEW b \in N PROVE OfLink(b).field = "$body" /\ \E l \in L : b = At(l)
    OBVIOUS
  <2>1. PICK l \in L : b = At(l)
    BY <1>2, <1>4
  <2>2. b.field = "$body"
    BY <1>3, <2>1
  <2> QED
    BY <1>3, <2>1, <2>2
<1>6. ASSUME NEW r \in refs(path), r.field # "$body"
      PROVE  \E q \in Q : r.field = q.field /\ r.written = q.written /\ r.other = resolve_one(q.written, path)
  <2>1. PICK q \in Q : r = Of(q)
    BY <1>0, <1>1, <1>6
  <2>2. Of(q).field = q.field /\ Of(q).written = q.written /\ Of(q).other = resolve_one(q.written, path)
    BY <1>3
  <2> QED
    BY <2>1, <2>2
<1>7. ASSUME NEW q \in Q
      PROVE  \E r \in refs(path) : r.field = q.field /\ r.written = q.written /\ r.other = resolve_one(q.written, path)
  BY <1>1, <1>3
<1>8. ASSUME NEW r \in refs(path), r.field = "$body"
      PROVE  \E l \in scan_links(body) :
               /\ r.at = l.line /\ r.written = l.written /\ r.other = To(l.written)
               /\ TargetOf(l.written) # NoTarget /\ classify_body(TargetOf(l.written), path).is # "notARef"
  <2>1. \A q \in Q : Of(q).field # "$body"
    BY <1>3, <1>5
  <2>2. PICK b \in N : r = OfLink(b)
    BY <1>1, <1>8, <2>1
  <2>3. PICK l \in L : b = At(l)
    BY <1>0, <2>2
  <2>4. b.at = l.line /\ b.written = l.written
    BY <1>3, <2>3
  <2>5. r.at = l.line /\ r.written = l.written /\ r.other = To(l.written)
    BY <1>3, <2>2, <2>4
  <2>6. classify_body(TargetOf(l.written), path).is # "notARef" /\ l \in scan_links(body) /\ TargetOf(l.written) # NoTarget
    BY <1>4, <2>2, <2>3, <2>4
  <2> QED
    BY <2>5, <2>6
<1> QED
  BY <1>6, <1>7, <1>8 DEF body, Q, To

\* A ref in a body stands at a link or a use, and is checked at the link or the definition.
LEMMA BodyRefAt ==
    ASSUME NEW path \in DOMAIN Entries, BodyType(path, disk[path].body), NEW r \in refs(path), r.field = "$body"
    PROVE  LET body == disk[path].body
               line == LineOf(path, r)
           IN  /\ line \in Destinations(body) /\ r.written = body[line].written
               /\ r.at \in DOMAIN body /\ body[r.at].is # "word"
               /\ ~r.other.found /\ ~Overlooked(path, classify_body(TargetOf(r.written), path))
                  <=> Lost(path, r.written)
<1> DEFINE body == disk[path].body
           line == LineOf(path, r)
<1>1. PICK l \in scan_links(body) :
        /\ r.at = l.line /\ r.written = l.written
        /\ r.other = Resolve(classify_body(TargetOf(l.written), path))
        /\ TargetOf(l.written) # NoTarget /\ classify_body(TargetOf(l.written), path).is # "notARef"
  BY RefsAre
<1>2. (~r.other.found /\ ~Overlooked(path, classify_body(TargetOf(r.written), path))) <=> Lost(path, r.written)
  BY <1>1 DEF Lost
<1>3. \/ \E i \in Checked(body) : l = Link(body[i].written, i, FALSE)
      \/ \E i \in UsesDefined(body) : l = Link(body[DefinitionOf(body, i)].written, i, TRUE)
  BY DEF scan_links
<1>5. line = IF body[r.at].is = "use" THEN DefinitionOf(body, r.at) ELSE r.at
  BY DEF LineOf
<1> HIDE DEF line
<1>6. CASE \E i \in Checked(body) : l = Link(body[i].written, i, FALSE)
  <2>1. PICK i \in Checked(body) : l = Link(body[i].written, i, FALSE)
    BY <1>6
  <2>4. l.line = i /\ l.written = body[i].written
    BY <2>1 DEF Link
  <2>5. i \in DOMAIN body /\ body[i].is = "link"
    BY LineKinds
  <2>2. r.at = i /\ r.written = body[i].written /\ i \in DOMAIN body /\ body[i].is = "link"
    BY <1>1, <2>4, <2>5
  <2>3. line = i /\ i \in Destinations(body)
    BY <1>5, <2>2 DEF Destinations
  <2> QED
    BY <1>2, <2>2, <2>3 DEF line
<1>7. CASE \E i \in UsesDefined(body) : l = Link(body[DefinitionOf(body, i)].written, i, TRUE)
  <2>1. PICK i \in UsesDefined(body) : l = Link(body[DefinitionOf(body, i)].written, i, TRUE)
    BY <1>7
  <2> DEFINE d == DefinitionOf(body, i)
             first == FirstDefined(body, body[i].label)
  <2>12. l.line = i /\ l.written = body[d].written
    BY <2>1 DEF Link
  <2>13. i \in DOMAIN body /\ body[i].is = "use"
    BY LineKinds
  <2>2. r.at = i /\ r.written = body[d].written /\ i \in DOMAIN body /\ body[i].is = "use"
    BY <1>1, <2>12, <2>13
  <2>3. first # {} /\ d = Min(first)
    BY <2>1 DEF UsesDefined, DefinitionOf
  <2>4. \A j \in DOMAIN body : j \in Nat
    BY DEF BodyType
  <2>5. \A j \in first : j \in Lines(body, "definition") /\ body[j].label = body[i].label
    BY DEF FirstDefined
  <2>6. first \subseteq Nat
    BY <2>4, <2>5 DEF Lines
  <2> HIDE DEF first
  <2>7. d \in first
    BY <2>3, <2>6, MinNat
  <2>8. d \in Lines(body, "definition") /\ body[d].label = body[i].label
    BY <2>5, <2>7
  <2>9. d = Min(FirstDefined(body, body[d].label))
    BY <2>3, <2>8 DEF first
  <2> HIDE DEF d
  <2>10. d \in Destinations(body)
    BY <2>8, <2>9 DEF Active, Destinations
  <2>11. line = d
    BY <1>5, <2>2 DEF d
  <2> QED
    BY <1>2, <2>2, <2>10, <2>11 DEF line
<1> QED
  BY <1>3, <1>6, <1>7

\* A key that is found is found at a document of the project, which has it.
LEMMA KeyFound ==
    ASSUME NEW reading, reading.is = "key"
    PROVE  /\ Resolve(reading).found =>
                \E q \in Documents : is_same_document(Resolve(reading), q) /\ Entries[q].key = reading.key
           /\ \A q : is_same_document(Resolve(reading), q) => Resolve(reading).found
<1> DEFINE group == KeyGroup(reading.ns, reading.key)
           first == FirstText(group)
           there == Resolved(Home, first, Info(CollectionOf(first)), "key", Stale(reading.slug, Entries[first]))
<1>1. Resolve(reading) = IF group = {} THEN Unresolved("not-found") ELSE there
  BY DEF Resolve, resolve_key
<1>2. there.found = TRUE /\ there.project = Home /\ there.path = first /\ Unresolved("not-found").found = FALSE
  BY ResolvedFacts
<1>3. group \in SUBSET Texts_ /\ IsFiniteSet(group)
  BY GroupIs
<1>4. group \subseteq Documents /\ \A q \in group : Entries[q].key = reading.key
  BY DEF KeyGroup
<1> HIDE DEF group, there, first
<1>5. ASSUME group # {} PROVE first \in group
  <2>1. IsFirst(FirstText(group), group)
    BY <1>3, <1>5, FirstIs
  <2> QED
    BY <2>1 DEF IsFirst, first
<1>6. Resolve(reading).found => \E q \in Documents : is_same_document(Resolve(reading), q) /\ Entries[q].key = reading.key
  BY <1>1, <1>2, <1>4, <1>5 DEF is_same_document
<1> QED
  BY <1>6 DEF is_same_document

-----------------------------------------------------------------------------
(* What an audit says of a document, and what refs and mv do.              *)

Recorded_(path, r, moved) == MovedFrom(Reads(r.written, path, "ref")) \in moved
Mentions_(path) == mentions(disk[path].body, CollectionOf(path).inlineCode, CollectionOf(path).fencedCode)
InFields(path) == {r \in UnresolvedIn(path) : r.field # "$body"}

LEMMA EntrySays ==
    ASSUME NEW path \in Readables, disk[path].block = "closed", BodyType(path, disk[path].body), NEW moved
    PROVE  LET found == check_entry(path, disk[path], Audit, moved)
               body == disk[path].body
           IN  /\ \A f \in found : f.rule \in RefRules /\ f.field # "" =>
                    \E r \in InFields(path) : r.field = f.field /\ (f.rule = "refs.moved" <=> Recorded_(path, r, moved))
               /\ \A r \in InFields(path) : \E f \in found :
                    /\ f.rule \in RefRules /\ f.field # "" /\ r.field = f.field
                    /\ (f.rule = "refs.moved" <=> Recorded_(path, r, moved))
               /\ \A i \in Destinations(body) :
                    (\E f \in found : f.at = i /\ f.rule \in LostRules) <=> Lost(path, body[i].written)
               /\ \A i \in Mentions_(path) :
                    (\E f \in found : f.at = i /\ f.rule \in {"body.mentions", "refs.moved"})
                    <=> mention_missing(body[i].written, path)
<1> DEFINE file == disk[path]
           body == file.body
           found == check_entry(path, file, Audit, moved)
           A == Block(path, file, Audit) \cup duplicate_key(path) \cup name_state_finding(path, Audit)
           R == check_refs(path, file, Audit, moved)
           B == check_body(path, file, Audit, moved)
           Q == FieldRefs(SchemaOf(path), FieldsOf(path))
           lost == {r \in Q : ~resolve_one(r.written, path).found}
           rec(r) == Recorded_(path, r, moved)
<1>1. path \in DOMAIN Entries /\ Readable(file)
  BY DEF Readables, Documents
<1>2. found = A \cup R \cup B
  BY <1>1 DEF check_entry
<1>3. \A f \in A : f.rule \in BlockRules /\ f.at = 0
  BY BlockSays
<1>4. /\ \A r \in lost : \E f \in R : f.rule \in RefRules /\ f.field = r.field /\ (f.rule = "refs.moved" <=> rec(r))
      /\ \A f \in R : /\ f.at = 0 /\ f.field \notin {"", "$body"}
                      /\ f.rule \in RefRules =>
                           \E r \in lost : r.field = f.field /\ (f.rule = "refs.moved" <=> rec(r))
  BY <1>1, RefsSay DEF FieldsOf, Recorded_
<1>5. /\ \A f \in B : f.field = ""
      /\ \A i \in Destinations(body) : (\E f \in B : f.at = i /\ f.rule \in LostRules) <=> Lost(path, body[i].written)
      /\ \A i \in Mentions_(path) : (\E f \in B : f.at = i /\ f.rule \in {"body.mentions", "refs.moved"})
                                   <=> mention_missing(body[i].written, path)
  BY <1>1, BodySay DEF Mentions_
<1>6. \A rule \in BlockRules : rule \notin LostRules /\ rule \notin {"body.mentions", "refs.moved"}
  BY DEF BlockRules, LostRules, RefRules
<1>7. /\ \A q \in lost : \E r \in InFields(path) : r.field = q.field /\ (rec(r) <=> rec(q))
      /\ \A r \in InFields(path) : \E q \in lost : r.field = q.field /\ (rec(r) <=> rec(q))
  <2>1. ASSUME NEW q \in lost PROVE \E r \in InFields(path) : r.field = q.field /\ (rec(r) <=> rec(q))
    <3>1. PICK r \in refs(path) : r.field = q.field /\ r.written = q.written /\ r.other = resolve_one(q.written, path)
      BY <1>1, RefsAre
    <3>2. q.field # "$body"
      BY <1>1, RefNames
    <3>3. r \in InFields(path)
      BY <3>1, <3>2 DEF InFields, UnresolvedIn
    <3> QED
      BY <3>1, <3>3 DEF Recorded_
  <2>2. ASSUME NEW r \in InFields(path) PROVE \E q \in lost : r.field = q.field /\ (rec(r) <=> rec(q))
    <3>1. r \in refs(path) /\ ~r.other.found /\ r.field # "$body"
      BY DEF InFields, UnresolvedIn
    <3>2. PICK q \in Q : r.field = q.field /\ r.written = q.written /\ r.other = resolve_one(q.written, path)
      BY <1>1, <3>1, RefsAre
    <3> QED
      BY <3>1, <3>2 DEF Recorded_
  <2> QED
    BY <2>1, <2>2
<1>8. \A i \in Destinations(body) \cup Mentions_(path) : i # 0
  <2>1. \A i \in Destinations(body) \cup Mentions_(path) : i \in DOMAIN body
    BY LineKinds DEF Destinations, Mentions_
  <2> QED
    BY <2>1 DEF BodyType
<1>9. \A f \in A : f.rule \notin RefRules
  BY <1>3, <1>6 DEF LostRules
<1> HIDE DEF file, body, found, A, R, B, Q, lost, rec
<1>10. ASSUME NEW f \in found, f.rule \in RefRules, f.field # ""
       PROVE  \E r \in InFields(path) : r.field = f.field /\ (f.rule = "refs.moved" <=> rec(r))
  <2>1. f \in R
    BY <1>2, <1>5, <1>9, <1>10
  <2>2. PICK q \in lost : q.field = f.field /\ (f.rule = "refs.moved" <=> rec(q))
    BY <1>4, <1>10, <2>1
  <2> QED
    BY <1>7, <2>2
<1>11. ASSUME NEW r \in InFields(path)
       PROVE  \E f \in found : /\ f.rule \in RefRules /\ f.field # "" /\ r.field = f.field
                               /\ (f.rule = "refs.moved" <=> rec(r))
  <2>1. PICK q \in lost : r.field = q.field /\ (rec(r) <=> rec(q))
    BY <1>7
  <2>2. PICK f \in R : f.rule \in RefRules /\ f.field = q.field /\ (f.rule = "refs.moved" <=> rec(q))
    BY <1>4
  <2>3. f \in found /\ f.field # ""
    BY <1>2, <1>4, <2>2
  <2> QED
    BY <2>1, <2>2, <2>3
<1>12. \A f \in found : f.at # 0 => f \in B
  BY <1>2, <1>3, <1>4
<1>13. B \subseteq found
  BY <1>2
<1>14. \A i \in Destinations(body) : (\E f \in found : f.at = i /\ f.rule \in LostRules) <=> Lost(path, body[i].written)
  <2> TAKE i \in Destinations(body)
  <2>1. i # 0
    BY <1>8
  <2>2. (\E f \in found : f.at = i /\ f.rule \in LostRules) <=> (\E f \in B : f.at = i /\ f.rule \in LostRules)
    BY <1>12, <1>13, <2>1
  <2> QED
    BY <1>5, <2>2
<1>15. \A i \in Mentions_(path) : (\E f \in found : f.at = i /\ f.rule \in {"body.mentions", "refs.moved"})
                                <=> mention_missing(body[i].written, path)
  <2> TAKE i \in Mentions_(path)
  <2>1. i # 0
    BY <1>8
  <2>2. (\E f \in found : f.at = i /\ f.rule \in {"body.mentions", "refs.moved"})
        <=> (\E f \in B : f.at = i /\ f.rule \in {"body.mentions", "refs.moved"})
    BY <1>12, <1>13, <2>1
  <2> QED
    BY <1>5, <2>2
<1> QED
  BY <1>10, <1>11, <1>14, <1>15 DEF file, body, found, rec

\* The line of a mention of a key is named by a move of the document it leads to, if it leads to one.
NamedByMoves_ == UNION {{<<m.holder, m.at>> : m \in mv_unrewritten(q)} : q \in Documents}

LEMMA MentionNamed ==
    ASSUME NEW path \in Readables, BodyType(path, disk[path].body), NEW i \in KeyMentions(path)
    PROVE  /\ i \in Mentions_(path)
           /\ mention_missing(disk[path].body[i].written, path) # (<<path, i>> \in NamedByMoves_)
<1> DEFINE body == disk[path].body
           reading == Reads(body[i].written, path, "mention")
           place(p, j) == Reads(disk[p].body[j].written, p, "mention")
<1>1. i \in Mentions_(path) /\ reading.is = "key" /\ <<reading.key[1]>> \in project_codes
  BY DEF KeyMentions, Mentions_
<1>2. i \in DOMAIN body /\ body[i].is = "word"
  BY <1>1, LineKinds DEF Mentions_
<1>3. reading.key # NoText /\ reading.key[1] = KeyPart(body[i].written)[1]
  <2>1. LineReads(path, body[i])
    BY <1>2 DEF BodyType
  <2> QED
    BY <1>1, <1>2, <2>1 DEF LineReads
<1>4. mention_missing(body[i].written, path) <=> ~Resolve(reading).found
  BY <1>1, <1>3 DEF mention_missing, CodesOf
<1>5. Resolve(reading).found => <<path, i>> \in NamedByMoves_
  <2> SUFFICES ASSUME Resolve(reading).found PROVE <<path, i>> \in NamedByMoves_
    OBVIOUS
  <2> HIDE DEF reading
  <2>1. PICK q \in Documents : is_same_document(Resolve(reading), q) /\ Entries[q].key = reading.key
    BY <1>1, KeyFound
  <2> DEFINE m == [holder |-> path, at |-> i, written |-> body[i].written]
  <2>2. path \in {p \in Documents : Splits(disk[p])}
    BY DEF Readables, Readable
  <2>3. i \in {j \in Mentions_(path) : is_same_document(Resolve(place(path, j)), q)}
    BY <1>1, <2>1 DEF reading
  <2>4. m \in mv_reverse_mentions(q)
    BY <1>3, <2>1, <2>2, <2>3 DEF mv_reverse_mentions, Mentions_
  <2>5. m \in mv_unrewritten(q)
    BY <2>4 DEF mv_unrewritten
  <2>6. <<m.holder, m.at>> = <<path, i>>
    OBVIOUS
  <2> HIDE DEF m
  <2> QED
    BY <2>1, <2>5, <2>6 DEF NamedByMoves_
<1>6. <<path, i>> \in NamedByMoves_ => Resolve(reading).found
  <2> SUFFICES ASSUME <<path, i>> \in NamedByMoves_ PROVE Resolve(reading).found
    OBVIOUS
  <2>1. PICK q \in Documents : \E n \in mv_unrewritten(q) : <<path, i>> = <<n.holder, n.at>>
    BY DEF NamedByMoves_
  <2>2. PICK m \in mv_unrewritten(q) : m.holder = path /\ m.at = i
    BY <2>1
  <2>3. CASE m \in mv_reverse_mentions(q)
    <3>1. PICK p \in Documents : \E j \in Mentions_(p) :
            /\ m = [holder |-> p, at |-> j, written |-> disk[p].body[j].written]
            /\ is_same_document(Resolve(place(p, j)), q)
      BY <2>3 DEF mv_reverse_mentions, Mentions_
    <3>2. p = path /\ is_same_document(Resolve(place(p, i)), q)
      BY <2>2, <3>1
    <3> QED
      BY <3>2 DEF is_same_document
  <2>4. CASE m \in {[holder |-> h.holder, at |-> h.reference.at, written |-> h.reference.written] :
                      h \in refs_reverse(q) \ mv_rewrites(q)}
    <3>1. PICK h \in refs_reverse(q) \ mv_rewrites(q) :
            m = [holder |-> h.holder, at |-> h.reference.at, written |-> h.reference.written]
      BY <2>4
    <3>2. h.holder = path /\ h.reference.at = i
      BY <2>2, <3>1
    <3>3. h.reference.field = "$body"
      BY <3>1 DEF mv_rewrites
    <3>4. h \in incoming_refs
      BY <3>1 DEF refs_reverse
    <3>5. PICK p \in Readables : \E r \in refs(p) : h = [holder |-> p, reference |-> r]
      BY <3>4 DEF incoming_refs
    <3>6. h.reference \in refs(path)
      BY <3>2, <3>5
    <3>7. path \in DOMAIN Entries
      BY DEF Readables, Documents
    <3>8. body[h.reference.at].is # "word"
      BY <3>3, <3>6, <3>7, BodyRefAt
    <3> QED
      BY <1>2, <3>2, <3>8
  <2> QED
    BY <2>2, <2>3, <2>4 DEF mv_unrewritten
<1>7. /\ mention_missing(body[i].written, path) \in BOOLEAN
      /\ (<<path, i>> \in NamedByMoves_) \in BOOLEAN
  BY DEF mention_missing
<1> QED
  BY <1>1, <1>4, <1>5, <1>6, <1>7

\* refs, validate and mv agree on each document, if the bodies on disk are bodies.
LEMMA PathAgrees ==
    ASSUME NEW path \in Readables, disk[path].block = "closed", BodyType(path, disk[path].body), NEW moved
    PROVE  LET found == check_entry(path, disk[path], Audit, moved)
               inBody == {r \in UnresolvedIn(path) \ InFields(path) :
                            ~Overlooked(path, classify_body(TargetOf(r.written), path))}
               reported == {f.at : f \in {g \in found : g.rule \in {"body.mentions", "refs.moved"}}}
           IN  /\ {f.field : f \in {g \in found : g.rule \in RefRules /\ g.field # ""}} = {r.field : r \in InFields(path)}
               /\ {r.field : r \in {q \in InFields(path) : MovedFrom(Reads(q.written, path, "ref")) \in moved}}
                  = {f.field : f \in {g \in found : g.rule = "refs.moved" /\ g.field # ""}}
               /\ {f.at : f \in {g \in found : g.rule \in {"body.links"} \cup RefRules /\ g.at \in RefLines(path)}}
                  = {LineOf(path, r) : r \in inBody}
               /\ \A i \in KeyMentions(path) : (i \in reported) # (<<path, i>> \in NamedByMoves_)
<1> DEFINE found == check_entry(path, disk[path], Audit, moved)
           body == disk[path].body
           inBody == {r \in UnresolvedIn(path) \ InFields(path) :
                        ~Overlooked(path, classify_body(TargetOf(r.written), path))}
           reported == {f.at : f \in {g \in found : g.rule \in {"body.mentions", "refs.moved"}}}
           rec(r) == Recorded_(path, r, moved)
           line(r) == LineOf(path, r)
           lost(w) == Lost(path, w)
           gone(i) == mention_missing(body[i].written, path)
           bodyRefs == {q \in refs(path) : q.field = "$body"}
<1>1. /\ \A f \in found : f.rule \in RefRules /\ f.field # "" =>
           \E r \in InFields(path) : r.field = f.field /\ (f.rule = "refs.moved" <=> rec(r))
      /\ \A r \in InFields(path) : \E f \in found :
           f.rule \in RefRules /\ f.field # "" /\ r.field = f.field /\ (f.rule = "refs.moved" <=> rec(r))
      /\ \A i \in Destinations(body) : (\E f \in found : f.at = i /\ f.rule \in LostRules) <=> lost(body[i].written)
      /\ \A i \in Mentions_(path) : (\E f \in found : f.at = i /\ f.rule \in {"body.mentions", "refs.moved"}) <=> gone(i)
  BY EntrySays
<1>2. path \in DOMAIN Entries
  BY DEF Readables, Documents
<1>3. \A r \in bodyRefs : /\ line(r) \in Destinations(body) /\ r.written = body[line(r)].written
                          /\ r \in inBody <=> lost(r.written)
  <2> SUFFICES ASSUME NEW r \in refs(path), r.field = "$body"
               PROVE  /\ line(r) \in Destinations(body) /\ r.written = body[line(r)].written
                      /\ r \in inBody <=> lost(r.written)
    OBVIOUS
  <2>1. /\ line(r) \in Destinations(body) /\ r.written = body[line(r)].written
        /\ ~r.other.found /\ ~Overlooked(path, classify_body(TargetOf(r.written), path)) <=> lost(r.written)
    BY <1>2, BodyRefAt
  <2>2. r \in inBody <=> ~r.other.found /\ ~Overlooked(path, classify_body(TargetOf(r.written), path))
    BY DEF UnresolvedIn, InFields
  <2> QED
    BY <2>1, <2>2
<1>4. inBody \subseteq bodyRefs
  BY DEF UnresolvedIn, InFields
<1>5. RefLines(path) = {line(r) : r \in bodyRefs}
  BY DEF RefLines
<1>6. \A i \in KeyMentions(path) : i \in Mentions_(path) /\ gone(i) # (<<path, i>> \in NamedByMoves_)
  BY MentionNamed
<1>7. \A r : rec(r) <=> MovedFrom(Reads(r.written, path, "ref")) \in moved
  BY DEF Recorded_
<1> HIDE DEF found, body, inBody, rec, line, lost, gone, bodyRefs
<1>8. {f.field : f \in {g \in found : g.rule \in RefRules /\ g.field # ""}} = {r.field : r \in InFields(path)}
  <2> DEFINE F == {g \in found : g.rule \in RefRules /\ g.field # ""}
             G == InFields(path)
  <2>1. \A f \in F : \E r \in G : r.field = f.field
    BY <1>1
  <2>2. ASSUME NEW r \in G
        PROVE  \E f \in F : r.field = f.field
    <3>1. PICK f \in found : f.rule \in RefRules /\ f.field # "" /\ r.field = f.field
      BY <1>1
    <3> QED
      BY <3>1
  <2> HIDE DEF F, G
  <2>3. {f.field : f \in F} = {r.field : r \in G}
    BY <2>1, <2>2
  <2> QED
    BY <2>3 DEF F, G
<1>9. {r.field : r \in {q \in InFields(path) : rec(q)}} = {f.field : f \in {g \in found : g.rule = "refs.moved" /\ g.field # ""}}
  <2>1. ASSUME NEW r \in InFields(path), rec(r)
        PROVE  \E f \in found : f.rule = "refs.moved" /\ f.field # "" /\ r.field = f.field
    BY <1>1, <2>1
  <2>2. ASSUME NEW f \in found, f.rule = "refs.moved", f.field # ""
        PROVE  \E r \in InFields(path) : rec(r) /\ r.field = f.field
    BY <1>1, <2>2 DEF RefRules
  <2> DEFINE F == {g \in found : g.rule = "refs.moved" /\ g.field # ""}
             G == {q \in InFields(path) : rec(q)}
  <2>3. \A f \in F : \E r \in G : r.field = f.field
    BY <2>2
  <2>4. \A r \in G : \E f \in F : r.field = f.field
    BY <2>1
  <2> HIDE DEF F, G
  <2>5. {r.field : r \in G} = {f.field : f \in F}
    BY <2>3, <2>4
  <2> QED
    BY <2>5 DEF F, G
<1>10. {f.at : f \in {g \in found : g.rule \in LostRules /\ g.at \in RefLines(path)}} = {line(r) : r \in inBody}
  <2>1. ASSUME NEW f \in found, f.rule \in LostRules, f.at \in RefLines(path)
        PROVE  \E r \in inBody : f.at = line(r)
    <3>1. PICK r \in bodyRefs : f.at = line(r)
      BY <1>5, <2>1
    <3>2. lost(body[line(r)].written)
      BY <1>1, <1>3, <2>1, <3>1
    <3> QED
      BY <1>3, <3>1, <3>2
  <2>2. ASSUME NEW r \in inBody
        PROVE  line(r) \in RefLines(path) /\ \E f \in found : f.rule \in LostRules /\ f.at = line(r)
    BY <1>1, <1>3, <1>4, <1>5
  <2> QED
    BY <2>1, <2>2
<1>11. ASSUME NEW i \in KeyMentions(path)
       PROVE  (i \in reported) # (<<path, i>> \in NamedByMoves_)
  <2>1. i \in reported <=> \E f \in found : f.at = i /\ f.rule \in {"body.mentions", "refs.moved"}
    OBVIOUS
  <2>2. i \in reported <=> gone(i)
    BY <1>1, <1>6, <2>1
  <2>3. gone(i) # (<<path, i>> \in NamedByMoves_)
    BY <1>6
  <2>4. gone(i) \in BOOLEAN
    BY DEF gone, mention_missing
  <2> HIDE DEF reported
  <2> QED
    BY <2>2, <2>3, <2>4
<1>12. {q \in InFields(path) : rec(q)} = {q \in InFields(path) : MovedFrom(Reads(q.written, path, "ref")) \in moved}
  BY <1>7
<1>13. LostRules = {"body.links"} \cup RefRules
  BY DEF LostRules
<1> HIDE DEF reported
<1>14. /\ {r.field : r \in {q \in InFields(path) : MovedFrom(Reads(q.written, path, "ref")) \in moved}}
            = {f.field : f \in {g \in found : g.rule = "refs.moved" /\ g.field # ""}}
       /\ {f.at : f \in {g \in found : g.rule \in {"body.links"} \cup RefRules /\ g.at \in RefLines(path)}}
            = {line(r) : r \in inBody}
  BY <1>9, <1>10, <1>12, <1>13
<1> QED
  BY <1>8, <1>11, <1>14 DEF found, body, inBody, reported, line

-----------------------------------------------------------------------------
(* The steps keep the bodies.                                              *)

BodiesRead ==
    /\ disk = [p \in DOMAIN Entries |-> disk[p]]
    /\ \A p \in DOMAIN Entries : BodyType(p, disk[p].body)

LEMMA Agreed == BodiesRead => ReportsAgree
<1> SUFFICES ASSUME BodiesRead PROVE ReportsAgree
  OBVIOUS
<1> DEFINE Agree(path, found, unresolved, moved, named_) ==
             LET inFields == {r \in unresolved : r.field # "$body"}
                 inBody == {r \in unresolved \ inFields : ~Overlooked(path, classify_body(TargetOf(r.written), path))}
                 reported == {f.at : f \in {g \in found : g.rule \in {"body.mentions", "refs.moved"}}}
             IN  /\ {f.field : f \in {g \in found : g.rule \in RefRules /\ g.field # ""}} = {r.field : r \in inFields}
                 /\ {r.field : r \in {q \in inFields : MovedFrom(Reads(q.written, path, "ref")) \in moved}}
                    = {f.field : f \in {g \in found : g.rule = "refs.moved" /\ g.field # ""}}
                 /\ {f.at : f \in {g \in found : g.rule \in {"body.links"} \cup RefRules /\ g.at \in RefLines(path)}}
                    = {LineOf(path, r) : r \in inBody}
                 /\ \A i \in KeyMentions(path) : (i \in reported) # (<<path, i>> \in named_)
           found(path, moved) == check_entry(path, disk[path], Audit, moved)
<1>1. ASSUME NEW path \in Readables, disk[path].block = "closed", NEW moved
      PROVE  Agree(path, found(path, moved), UnresolvedIn(path), moved, NamedByMoves_)
  <2>1. BodyType(path, disk[path].body)
    BY DEF BodiesRead, Readables, Documents
  <2>2. InFields(path) = {r \in UnresolvedIn(path) : r.field # "$body"}
    BY DEF InFields
  <2> QED
    BY <1>1, <2>1, <2>2, PathAgrees
<1>2. ReportsAgree
        <=> \A moved \in {moved_from(TextsWith(NoCandidate, Absent))}, named_ \in {NamedByMoves_} :
              \A path \in {p \in Readables : disk[p].block = "closed"} :
                Agree(path, found(path, moved), UnresolvedIn(path), moved, named_)
  BY DEF ReportsAgree, NamedByMoves_
<1> HIDE DEF Agree, found
<1> QED
  BY <1>1, <1>2

LEMMA BodiesStay ==
    /\ Init => BodiesRead
    /\ BodiesRead /\ [Next]_vars => BodiesRead'
<1>1. Init => BodiesRead
  BY FileAssumption, BodyAssumption DEF Init, BodiesRead
<1>2. ASSUME BodiesRead, NEW path \in DOMAIN Entries, NEW file, BodyType(path, file.body),
             disk' = [disk EXCEPT ![path] = file]
      PROVE  BodiesRead'
  <2>1. \A p \in DOMAIN Entries : disk'[p] = IF p = path THEN file ELSE disk[p]
    BY <1>2 DEF BodiesRead
  <2>2. disk' = [p \in DOMAIN Entries |-> disk'[p]]
    BY <1>2 DEF BodiesRead
  <2>3. \A p \in DOMAIN Entries : BodyType(p, disk'[p].body)
    BY <1>2, <2>1 DEF BodiesRead
  <2>4. BodiesRead' <=> disk' = [p \in DOMAIN Entries |-> disk'[p]] /\ \A p \in DOMAIN Entries : BodyType(p, disk'[p].body)
    BY DEF BodiesRead, BodyType, LineReads, classify_body
  <2> QED
    BY <2>2, <2>3, <2>4
<1>3. \A block, body : splice(block, body).body = body
  BY DEF splice, Closed
<1>4. ASSUME BodiesRead, NEW path \in DOMAIN Entries, NEW names \in RefLists, set(path, names) PROVE BodiesRead'
  <2> DEFINE file == splice(finish(set_list(FieldsOf(path), RefField, names)), disk[path].body)
  <2>1. disk' = [disk EXCEPT ![path] = file]
    BY <1>4 DEF set, Write
  <2>2. file.body = disk[path].body
    BY <1>3
  <2>3. BodyType(path, file.body)
    BY <1>4, <2>2 DEF BodiesRead
  <2> HIDE DEF file
  <2> QED
    BY <1>2, <1>4, <2>1, <2>3
<1>5. ASSUME BodiesRead, NEW path \in DOMAIN Entries, NEW names \in RefLists, new(path, names) PROVE BodiesRead'
  <2> DEFINE file == splice(finish(set_list(<<>>, RefField, names)), <<>>)
  <2>1. disk' = [disk EXCEPT ![path] = file]
    BY <1>5 DEF new, Write
  <2>2. file.body = <<>>
    BY <1>3
  <2>3. BodyType(path, file.body)
    BY <2>2 DEF BodyType
  <2> HIDE DEF file
  <2> QED
    BY <1>2, <1>5, <2>1, <2>3
<1>6. ASSUME BodiesRead, NEW path \in DOMAIN Entries, SaveByHand(path) PROVE BodiesRead'
  <2>1. PICK file \in HandFiles[path] : disk' = [disk EXCEPT ![path] = file]
    BY <1>6 DEF SaveByHand, Write
  <2> QED
    BY <1>2, <1>6, <2>1, BodyAssumption
<1>7. ASSUME BodiesRead, UNCHANGED vars PROVE BodiesRead'
  BY <1>7 DEF vars, BodiesRead
<1> QED
  BY <1>1, <1>4, <1>5, <1>6, <1>7 DEF Next

\* refs, validate and mv never differ on one ref (project.rs, document_out_refs, check_refs,
\* check_body and mv's scan for mentions): what refs lists as unresolved an audit reports, where it
\* is written, and nothing else is reported as such; the refs whose name a document recorded moving
\* away from are the ones told so; and a mention of a key is in the list of a move of the document
\* it leads to, or the audit names it. In every project, at every state of its files.
THEOREM ReportsAlike == Spec => []ReportsAgree
BY BodiesStay, Agreed, PTL DEF Spec
=============================================================================
