--------------------------- MODULE ReadingProofs ---------------------------
(***************************************************************************)
(* Proofs about Reading, for any project folder and any edits of it: that  *)
(* the last entry of `namespaces` decides, that no file of a coded folder  *)
(* is passed over, and that the walk, the audit, a path and a key answer   *)
(* alike. The steps keep the tree and make every report anew (ReadInv);    *)
(* the rest is what the pure functions of the report return.               *)
(***************************************************************************)
EXTENDS Reading, TLAPS, FiniteSetTheorems, SequenceTheorems, WellFoundedInduction

-----------------------------------------------------------------------------
(* Induction over the numbers, with the property as a set.                 *)

LEMMA LeastNat ==
    ASSUME NEW T, T \subseteq Nat, T # {}
    PROVE  \E m \in T : \A k \in T : m <= k
<1> DEFINE R == OpToRel(<, Nat)
<1>1. IsWellFoundedOn(R, Nat)
  BY NatLessThanWellFounded
<1>2. \A x, y \in Nat : <<y, x>> \in R <=> y < x
  BY DEF OpToRel
<1> HIDE DEF R
<1>3. PICK x \in T : \A y \in T : ~(<<y, x>> \in R)
  BY <1>1, WFMin, Zenon
<1>4. ASSUME NEW y \in T PROVE x <= y
  <2>1. ~(<<y, x>> \in R)
    BY <1>3
  <2>2. x \in Nat /\ y \in Nat
    BY <1>4
  <2>3. ~(y < x)
    BY <1>2, <2>1, <2>2
  <2> QED
    BY <2>2, <2>3
<1> QED
  BY <1>4

LEMMA ByNat ==
    ASSUME NEW S, 0 \in S, \A n \in Nat : n \in S => n + 1 \in S
    PROVE  Nat \subseteq S
<1> SUFFICES ASSUME Nat \ S # {} PROVE FALSE
  OBVIOUS
<1>1. PICK m \in Nat \ S : \A k \in Nat \ S : m <= k
  BY LeastNat
<1>2. m - 1 \in Nat /\ m - 1 \in S
  BY <1>1
<1> QED
  BY <1>1, <1>2

\* The same, up to a bound.
LEMMA UpTo ==
    ASSUME NEW m \in Nat, NEW S, 0 \in S, \A n \in Nat : n < m /\ n \in S => n + 1 \in S
    PROVE  \A n \in 0 .. m : n \in S
<1> DEFINE T == {n \in Nat : n <= m => n \in S}
<1>1. 0 \in T
  OBVIOUS
<1>2. \A n \in Nat : n \in T => n + 1 \in T
  OBVIOUS
<1> HIDE DEF T
<1>3. Nat \subseteq T
  BY <1>1, <1>2, ByNat
<1> QED
  BY <1>3 DEF T

LEMMA MinNat ==
    ASSUME NEW T, T \subseteq Nat, T # {}
    PROVE  Min(T) \in T /\ \A k \in T : Min(T) <= k
BY LeastNat DEF Min

LEMMA MaxNat ==
    ASSUME NEW m \in Nat, NEW T, T \subseteq 0 .. m, T # {}
    PROVE  Max(T) \in T /\ \A k \in T : k <= Max(T)
<1> DEFINE U == {u \in Nat : \E k \in T : u = m - k}
<1>1. U \subseteq Nat /\ U # {}
  <2>1. PICK k \in T : TRUE
    OBVIOUS
  <2>2. m - k \in Nat
    OBVIOUS
  <2> QED
    BY <2>2
<1>2. PICK u \in U : \A k \in U : u <= k
  BY <1>1, LeastNat
<1>3. PICK t \in T : u = m - t
  BY <1>2
<1>4. \A k \in T : t >= k
  <2> TAKE k \in T
  <2>1. m - k \in U
    OBVIOUS
  <2>2. m - t <= m - k
    BY <1>2, <1>3, <2>1
  <2> QED
    BY <2>2
<1> HIDE DEF U
<1>5. Max(T) \in T /\ \A k \in T : Max(T) >= k
  BY <1>4 DEF Max
<1> QED
  BY <1>5

-----------------------------------------------------------------------------
(* Texts cut up, and put together again.                                   *)

\* The texts that the first n characters are cut into.
IsSplit(f, text, sep, m) == f = [n \in 0 .. m |-> IF n = 0 THEN <<<<>>>> ELSE SplitAt(f[n - 1], text[n], sep)]

LEMMA SplitExists ==
    ASSUME NEW text, NEW sep, NEW m \in Nat
    PROVE  \E f : IsSplit(f, text, sep, m)
<1> DEFINE Is(f, k) == f = [n \in 0 .. k |-> IF n = 0 THEN <<<<>>>> ELSE SplitAt(f[n - 1], text[n], sep)]
           S == {k \in Nat : \E f : Is(f, k)}
<1>1. 0 \in S
  <2> DEFINE f == [n \in 0 .. 0 |-> <<<<>>>>]
  <2>1. \A n \in 0 .. 0 : n = 0
    OBVIOUS
  <2>2. Is(f, 0)
    BY <2>1
  <2> QED
    BY <2>2
<1>2. ASSUME NEW k \in Nat, k \in S PROVE k + 1 \in S
  <2>1. PICK f : Is(f, k)
    BY <1>2
  <2> DEFINE g == [n \in 0 .. k + 1 |-> IF n = k + 1 THEN SplitAt(f[k], text[(k + 1)], sep) ELSE f[n]]
  <2>2. \A n \in 0 .. k : f[n] = IF n = 0 THEN <<<<>>>> ELSE SplitAt(f[n - 1], text[n], sep)
    BY <2>1
  <2>3. ASSUME NEW n \in 0 .. k + 1 PROVE g[n] = IF n = 0 THEN <<<<>>>> ELSE SplitAt(g[n - 1], text[n], sep)
    <3>1. CASE n = k + 1
      <4>1. n # 0 /\ n - 1 = k /\ k \in 0 .. k + 1 /\ k # k + 1
        BY <1>2, <3>1
      <4>2. g[k] = f[k] /\ g[n] = SplitAt(f[k], text[n], sep)
        BY <3>1, <4>1
      <4> QED
        BY <4>1, <4>2
    <3>2. CASE n # k + 1 /\ n # 0
      <4>1. n \in 0 .. k /\ n - 1 \in 0 .. k + 1 /\ n - 1 # k + 1
        BY <1>2, <3>2
      <4>2. g[n] = f[n] /\ g[n - 1] = f[n - 1]
        BY <3>2, <4>1
      <4> QED
        BY <2>2, <3>2, <4>1, <4>2
    <3>3. CASE n # k + 1 /\ n = 0
      <4>1. n \in 0 .. k
        BY <1>2, <3>3
      <4>2. g[n] = f[n]
        BY <3>3
      <4> QED
        BY <2>2, <3>3, <4>1, <4>2
    <3> QED
      BY <3>1, <3>2, <3>3
  <2>4. g = [n \in 0 .. k + 1 |-> g[n]]
    OBVIOUS
  <2>5. Is(g, k + 1)
    <3> HIDE DEF g
    <3> QED
      BY <2>3, <2>4
  <2>6. k + 1 \in Nat /\ \E f_ : Is(f_, k + 1)
    <3> HIDE DEF Is, g
    <3> QED
      BY <2>5
  <2> QED
    BY <2>6
<1>3. Nat \subseteq S
  <2> HIDE DEF S
  <2> QED
    BY <1>1, <1>2, ByNat
<1> QED
  BY <1>3 DEF IsSplit

LEMMA SplitIs ==
    ASSUME NEW text, NEW sep, Len(text) \in Nat
    PROVE  \E f : /\ f[0] = <<<<>>>> /\ SplitBy(text, sep) = f[Len(text)]
                  /\ \A n \in Nat : n < Len(text) => f[n + 1] = SplitAt(f[n], text[(n + 1)], sep)
<1> DEFINE m == Len(text)
           chosen == CHOOSE f : f = [n \in 0 .. m |->
                   IF n = 0 THEN <<<<>>>> ELSE SplitAt(f[n - 1], text[n], sep)]
<1>1. \E f : IsSplit(f, text, sep, m)
  BY SplitExists
<1>2. chosen = [n \in 0 .. m |-> IF n = 0 THEN <<<<>>>> ELSE SplitAt(chosen[n - 1], text[n], sep)]
  BY <1>1, Zenon DEF IsSplit
<1>3. SplitBy(text, sep) = chosen[m]
  BY DEF SplitBy
<1> HIDE DEF chosen
<1>4. \A n \in 0 .. m : chosen[n] = IF n = 0 THEN <<<<>>>> ELSE SplitAt(chosen[n - 1], text[n], sep)
  BY <1>2
<1>5. ASSUME NEW n \in Nat, n < m
      PROVE  chosen[n + 1] = SplitAt(chosen[n], text[(n + 1)], sep)
  <2>1. n + 1 \in 0 .. m /\ n + 1 # 0 /\ n + 1 - 1 = n
    BY <1>5
  <2> QED
    BY <1>4, <2>1
<1>6. chosen[0] = <<<<>>>>
  BY <1>4
<1> QED
  BY <1>3, <1>5, <1>6

\* The first n texts, joined.
IsJoined(f, texts, sep, m) == f = [n \in 0 .. m |-> IF n = 0 THEN <<>> ELSE JoinAt(f[n - 1], texts, n, sep)]

LEMMA JoinedExists ==
    ASSUME NEW texts, NEW sep, NEW m \in Nat
    PROVE  \E f : IsJoined(f, texts, sep, m)
<1> DEFINE Is(f, k) == f = [n \in 0 .. k |-> IF n = 0 THEN <<>> ELSE JoinAt(f[n - 1], texts, n, sep)]
           S == {k \in Nat : \E f : Is(f, k)}
<1>1. 0 \in S
  <2> DEFINE f == [n \in 0 .. 0 |-> <<>>]
  <2>1. \A n \in 0 .. 0 : n = 0
    OBVIOUS
  <2>2. Is(f, 0)
    BY <2>1
  <2> QED
    BY <2>2
<1>2. ASSUME NEW k \in Nat, k \in S PROVE k + 1 \in S
  <2>1. PICK f : Is(f, k)
    BY <1>2
  <2> DEFINE g == [n \in 0 .. k + 1 |-> IF n = k + 1 THEN JoinAt(f[k], texts, (k + 1), sep) ELSE f[n]]
  <2>2. \A n \in 0 .. k : f[n] = IF n = 0 THEN <<>> ELSE JoinAt(f[n - 1], texts, n, sep)
    BY <2>1
  <2>3. ASSUME NEW n \in 0 .. k + 1 PROVE g[n] = IF n = 0 THEN <<>> ELSE JoinAt(g[n - 1], texts, n, sep)
    <3>1. CASE n = k + 1
      <4>1. n # 0 /\ n - 1 = k /\ k \in 0 .. k + 1 /\ k # k + 1
        BY <1>2, <3>1
      <4>2. g[k] = f[k] /\ g[n] = JoinAt(f[k], texts, n, sep)
        BY <3>1, <4>1
      <4> QED
        BY <4>1, <4>2
    <3>2. CASE n # k + 1 /\ n # 0
      <4>1. n \in 0 .. k /\ n - 1 \in 0 .. k + 1 /\ n - 1 # k + 1
        BY <1>2, <3>2
      <4>2. g[n] = f[n] /\ g[n - 1] = f[n - 1]
        BY <3>2, <4>1
      <4> QED
        BY <2>2, <3>2, <4>1, <4>2
    <3>3. CASE n # k + 1 /\ n = 0
      <4>1. n \in 0 .. k
        BY <1>2, <3>3
      <4>2. g[n] = f[n]
        BY <3>3
      <4> QED
        BY <2>2, <3>3, <4>1, <4>2
    <3> QED
      BY <3>1, <3>2, <3>3
  <2>4. g = [n \in 0 .. k + 1 |-> g[n]]
    OBVIOUS
  <2>5. Is(g, k + 1)
    <3> HIDE DEF g
    <3> QED
      BY <2>3, <2>4
  <2>6. k + 1 \in Nat /\ \E f_ : Is(f_, k + 1)
    <3> HIDE DEF Is, g
    <3> QED
      BY <2>5
  <2> QED
    BY <2>6
<1>3. Nat \subseteq S
  <2> HIDE DEF S
  <2> QED
    BY <1>1, <1>2, ByNat
<1> QED
  BY <1>3 DEF IsJoined

LEMMA JoinedIs ==
    ASSUME NEW texts, NEW sep, Len(texts) \in Nat
    PROVE  \E f : /\ f[0] = <<>> /\ JoinBy(texts, sep) = f[Len(texts)]
                  /\ \A n \in Nat : n < Len(texts) => f[n + 1] = JoinAt(f[n], texts, (n + 1), sep)
<1> DEFINE m == Len(texts)
           chosen == CHOOSE f : f = [n \in 0 .. m |-> IF n = 0 THEN <<>> ELSE JoinAt(f[n - 1], texts, n, sep)]
<1>1. \E f : IsJoined(f, texts, sep, m)
  BY JoinedExists
<1>2. chosen = [n \in 0 .. m |-> IF n = 0 THEN <<>> ELSE JoinAt(chosen[n - 1], texts, n, sep)]
  BY <1>1, Zenon DEF IsJoined
<1>3. JoinBy(texts, sep) = chosen[m]
  BY DEF JoinBy
<1> HIDE DEF chosen
<1>4. \A n \in 0 .. m : chosen[n] = IF n = 0 THEN <<>> ELSE JoinAt(chosen[n - 1], texts, n, sep)
  BY <1>2
<1>5. ASSUME NEW n \in Nat, n < m
      PROVE  chosen[n + 1] = JoinAt(chosen[n], texts, (n + 1), sep)
  <2>1. n + 1 \in 0 .. m /\ n + 1 # 0 /\ n + 1 - 1 = n
    BY <1>5
  <2> QED
    BY <1>4, <2>1
<1>6. chosen[0] = <<>>
  BY <1>4
<1> QED
  BY <1>3, <1>5, <1>6

LEMMA ConcatAppend ==
    ASSUME NEW X, NEW s \in Seq(X), NEW t \in Seq(X), NEW x \in X
    PROVE  s \o Append(t, x) = Append(s \o t, x)
<1>1. Append(t, x) = t \o <<x>> /\ s \o t \in Seq(X) /\ <<x>> \in Seq(X)
  BY AppendIsConcat, ConcatProperties
<1>2. Append(s \o t, x) = (s \o t) \o <<x>>
  BY <1>1, AppendIsConcat
<1> QED
  BY <1>1, <1>2, ConcatAssociative

LEMMA AppendExcept ==
    ASSUME NEW X, NEW s \in Seq(X), NEW x \in X, NEW y \in X
    PROVE  [Append(s, x) EXCEPT ![Len(s) + 1] = y] = Append(s, y)
<1> DEFINE w == Append(s, x)
           l == Len(s) + 1
           e == [w EXCEPT ![l] = y]
<1>1. w \in Seq(X) /\ Len(w) = l /\ l \in 1 .. Len(w) /\ \A i \in 1 .. Len(s) : w[i] = s[i]
  BY AppendProperties, LenProperties
<1> HIDE DEF w
<1>2. e \in Seq(X) /\ Len(e) = Len(w) /\ e[l] = y /\ \A i \in 1 .. Len(w) : i # l => e[i] = w[i]
  BY <1>1, ExceptSeq
<1>3. Append(s, y) \in Seq(X) /\ Len(Append(s, y)) = l /\ Append(s, y)[l] = y
      /\ \A i \in 1 .. Len(s) : Append(s, y)[i] = s[i]
  BY AppendProperties, LenProperties
<1> DEFINE a == Append(s, y)
<1> HIDE DEF a, e
<1>4. ASSUME NEW i \in 1 .. Len(e) PROVE e[i] = a[i]
  <2>1. Len(s) \in Nat
    BY LenProperties
  <2>2. i = l \/ i \in 1 .. Len(s)
    BY <1>1, <1>2, <2>1 DEF e
  <2> QED
    BY <1>1, <1>2, <1>3, <2>1, <2>2 DEF a, e
<1>5. e = a
  BY <1>1, <1>2, <1>3, <1>4, SeqEqual DEF a, e
<1> QED
  BY <1>5 DEF a, e, w

\* A text is cut the same way whatever comes after it.
LEMMA SplitAppend ==
    ASSUME NEW X, NEW text \in Seq(X), NEW char \in X, NEW sep
    PROVE  SplitBy(Append(text, char), sep) = SplitAt(SplitBy(text, sep), char, sep)
<1> DEFINE more == Append(text, char)
           m == Len(text)
<1>1. m \in Nat /\ Len(more) = m + 1 /\ more[m + 1] = char /\ \A i \in 1 .. m : more[i] = text[i]
  BY AppendProperties, LenProperties
<1>2. PICK f : /\ f[0] = <<<<>>>> /\ SplitBy(text, sep) = f[m]
               /\ \A n \in Nat : n < m => f[n + 1] = SplitAt(f[n], text[n + 1], sep)
  <2>1. Len(text) \in Nat
    BY <1>1
  <2> QED
    BY <2>1, SplitIs
<1> HIDE DEF more
<1>3. PICK g : /\ g[0] = <<<<>>>> /\ SplitBy(more, sep) = g[m + 1]
               /\ \A n \in Nat : n < m + 1 => g[n + 1] = SplitAt(g[n], more[n + 1], sep)
  <2>1. Len(more) = m + 1 /\ Len(more) \in Nat
    BY <1>1
  <2>2. PICK g : /\ g[0] = <<<<>>>> /\ SplitBy(more, sep) = g[Len(more)]
                 /\ \A n \in Nat : n < Len(more) => g[n + 1] = SplitAt(g[n], more[n + 1], sep)
    BY <2>1, SplitIs
  <2> QED
    BY <2>1, <2>2
<1> DEFINE S == {n \in Nat : f[n] = g[n]}
<1>4. 0 \in S
  BY <1>2, <1>3
<1>5. ASSUME NEW n \in Nat, n < m, n \in S PROVE n + 1 \in S
  <2>1. n + 1 \in 1 .. m /\ n < m + 1
    BY <1>1, <1>5
  <2>2. f[n] = g[n] /\ more[n + 1] = text[n + 1]
    BY <1>1, <1>5, <2>1
  <2>3. f[n + 1] = SplitAt(f[n], text[n + 1], sep)
    BY <1>2, <1>5
  <2>4. g[n + 1] = SplitAt(g[n], more[n + 1], sep)
    BY <1>3, <2>1
  <2> QED
    BY <2>2, <2>3, <2>4
<1> HIDE DEF S
<1>6. \A n \in 0 .. m : n \in S
  BY <1>1, <1>4, <1>5, UpTo
<1>7. f[m] = g[m]
  BY <1>1, <1>6 DEF S
<1>8. g[m + 1] = SplitAt(g[m], char, sep)
  BY <1>1, <1>3
<1> QED
  BY <1>2, <1>3, <1>7, <1>8 DEF more

LEMMA SplitEmpty ==
    ASSUME NEW sep PROVE SplitBy(<<>>, sep) = <<<<>>>>
<1>1. Len(<<>>) = 0
  OBVIOUS
<1> QED
  BY <1>1, SplitIs

\* What a text is cut into are texts, at least one.
LEMMA SplitTyped ==
    ASSUME NEW X, NEW text \in Seq(X), NEW sep
    PROVE  SplitBy(text, sep) \in Seq(Seq(X)) /\ Len(SplitBy(text, sep)) >= 1
<1> DEFINE m == Len(text)
           Fine(s) == s \in Seq(Seq(X)) /\ Len(s) >= 1
<1>1. m \in Nat /\ \A i \in 1 .. m : text[i] \in X
  BY ElementOfSeq, LenProperties
<1>2. PICK f : /\ f[0] = <<<<>>>> /\ SplitBy(text, sep) = f[m]
               /\ \A n \in Nat : n < m => f[n + 1] = SplitAt(f[n], text[n + 1], sep)
  BY <1>1, SplitIs
<1> DEFINE S == {n \in Nat : Fine(f[n])}
<1>3. 0 \in S
  <2>1. <<>> \in Seq(X)
    OBVIOUS
  <2> DEFINE none == <<>>
  <2> HIDE DEF none
  <2>2. <<none>> \in Seq(Seq(X)) /\ Len(<<none>>) = 1
    BY <2>1 DEF none
  <2>3. f[0] = <<none>>
    BY <1>2 DEF none
  <2>4. Fine(f[0])
    <3> HIDE DEF Fine
    <3>1. Fine(<<none>>)
      BY <2>2 DEF Fine
    <3> QED
      BY <2>3, <3>1
  <2> HIDE DEF Fine
  <2> QED
    BY <2>4
<1>4. ASSUME NEW n \in Nat, n < m, n \in S PROVE n + 1 \in S
  <2>1. Fine(f[n]) /\ text[n + 1] \in X /\ f[n + 1] = SplitAt(f[n], text[n + 1], sep)
    BY <1>1, <1>2, <1>4
  <2> DEFINE s == f[n]
             l == Len(s)
  <2>2. l \in 1 .. Len(s) /\ s[l] \in Seq(X)
    BY <2>1, ElementOfSeq, LenProperties
  <2>3. CASE text[n + 1] = sep
    <3>1. f[n + 1] = Append(s, <<>>)
      BY <2>1, <2>3 DEF SplitAt
    <3>2. <<>> \in Seq(X)
      OBVIOUS
    <3>3. f[n + 1] \in Seq(Seq(X)) /\ Len(f[n + 1]) = Len(s) + 1 /\ Len(s) \in Nat
      BY <2>1, <3>1, <3>2, AppendProperties, LenProperties
    <3> QED
      BY <2>1, <3>3
  <2>4. CASE text[n + 1] # sep
    <3>1. f[n + 1] = [s EXCEPT ![l] = Append(s[l], text[n + 1])]
      BY <2>1, <2>4 DEF SplitAt
    <3>2. Append(s[l], text[n + 1]) \in Seq(X)
      BY <2>1, <2>2, AppendProperties
    <3> HIDE DEF s
    <3>3. f[n + 1] \in Seq(Seq(X)) /\ Len(f[n + 1]) = Len(s)
      BY <2>1, <2>2, <3>1, <3>2, ExceptSeq DEF s
    <3> QED
      BY <2>1, <3>3 DEF s
  <2> QED
    BY <2>3, <2>4
<1> HIDE DEF S
<1>5. \A n \in 0 .. m : n \in S
  BY <1>1, <1>3, <1>4, UpTo
<1> QED
  BY <1>1, <1>2, <1>5 DEF S

\* A text without a separator goes on the last of the texts.
EndsIn(text, sep, cut, last) == SplitBy(text, sep) = Append(cut, last)

LEMMA SplitConcat ==
    ASSUME NEW X, NEW text \in Seq(X), NEW sep, NEW more \in Seq(X \ {sep}),
           NEW cut \in Seq(Seq(X)), NEW last \in Seq(X), EndsIn(text, sep, cut, last)
    PROVE  EndsIn(text \o more, sep, cut, last \o more)
<1> DEFINE m == Len(more)
           part(n) == SubSeq(more, 1, n)
           S == {n \in Nat : n <= m => SplitBy(text \o part(n), sep) = Append(cut, last \o part(n))}
<1>1. m \in Nat /\ (\A i \in 1 .. m : more[i] \in X \ {sep}) /\ more \in Seq(X)
  BY ElementOfSeq, LenProperties, SeqMonotonic
<1>2. 0 \in S
  <2>1. part(0) = <<>>
    BY SubSeqEmpty
  <2>2. text \o <<>> = text /\ last \o <<>> = last
    OBVIOUS
  <2> QED
    BY <2>1, <2>2 DEF EndsIn
<1>3. ASSUME NEW n \in Nat, n \in S PROVE n + 1 \in S
  <2> SUFFICES ASSUME n + 1 <= m PROVE SplitBy(text \o part(n + 1), sep) = Append(cut, last \o part(n + 1))
    OBVIOUS
  <2> DEFINE p == part(n)
             c == more[n + 1]
  <2>1. n <= m /\ n + 1 \in 1 .. m /\ c \in X /\ c # sep
    BY <1>1
  <2>2. p \in Seq(X)
    BY <1>1, <2>1, SubSeqProperties
  <2>3. part(n + 1) = Append(p, c)
    BY <1>1, <2>1, SubSeqRecursiveSecond
  <2>4. SplitBy(text \o p, sep) = Append(cut, last \o p)
    BY <1>3, <2>1
  <2> HIDE DEF p, part, c
  <2>5. text \o Append(p, c) = Append(text \o p, c) /\ last \o Append(p, c) = Append(last \o p, c)
    <3>1. text \o Append(p, c) = Append(text \o p, c)
      BY <2>1, <2>2, ConcatAppend
    <3>2. last \o Append(p, c) = Append(last \o p, c)
      BY <2>1, <2>2, ConcatAppend
    <3> QED
      BY <3>1, <3>2
  <2>6. text \o p \in Seq(X) /\ last \o p \in Seq(X)
    BY <2>2, ConcatProperties
  <2>7. SplitBy(Append(text \o p, c), sep) = SplitAt(Append(cut, last \o p), c, sep)
    BY <2>1, <2>4, <2>6, SplitAppend
  <2> DEFINE d == last \o p
  <2>8. SplitAt(Append(cut, d), c, sep) = Append(cut, Append(d, c))
    <3> HIDE DEF d
    <3>1. d \in Seq(X)
      BY <2>6 DEF d
    <3>2. Len(Append(cut, d)) = Len(cut) + 1 /\ Len(cut) \in Nat
      BY <3>1, AppendProperties, LenProperties
    <3>3. Append(cut, d)[Len(cut) + 1] = d
      BY <3>1, AppendProperties
    <3> DEFINE w == Append(cut, d)
               l == Len(cut) + 1
               e == Append(d, c)
    <3>4. e \in Seq(X)
      BY <2>1, <3>1, AppendProperties
    <3>5. SplitAt(w, c, sep) = [w EXCEPT ![Len(w)] = Append(w[Len(w)], c)]
      BY <2>1 DEF SplitAt
    <3>6. Len(w) = l /\ w[l] = d
      BY <3>2, <3>3
    <3> HIDE DEF w, l
    <3>7. SplitAt(w, c, sep) = [w EXCEPT ![l] = e]
      BY <3>5, <3>6
    <3> HIDE DEF e
    <3>8. [w EXCEPT ![l] = e] = Append(cut, e)
      BY <3>1, <3>4, AppendExcept DEF w, l
    <3> QED
      BY <3>7, <3>8 DEF e, w
  <2> QED
    BY <2>3, <2>5, <2>7, <2>8
<1> HIDE DEF S
<1>4. m \in S
  BY <1>1, <1>2, <1>3, ByNat
<1>5. part(m) = more
  BY SubSeqFull
<1> HIDE DEF part
<1> QED
  BY <1>1, <1>4, <1>5 DEF S, EndsIn

\* A name is one segment, and a name after a `/` is one segment more.
LEMMA NotCut ==
    ASSUME NEW Y, NEW sep, NEW a \in Seq(Y \ {sep})
    PROVE  SplitBy(a, sep) = <<a>>
<1> DEFINE none == <<>>
<1>1. none \in Seq(Y) /\ none \in Seq(Seq(Y))
  OBVIOUS
<1>2. SplitBy(none, sep) = Append(none, none)
  BY SplitEmpty
<1>3. a \in Seq(Y)
  BY SeqMonotonic
<1>4. none \o a = a /\ Append(none, a) = <<a>>
  BY <1>3
<1> HIDE DEF none
<1>5. EndsIn(none \o a, sep, none, none \o a)
  <2>1. EndsIn(none, sep, none, none)
    BY <1>2 DEF EndsIn
  <2> QED
    BY <1>1, <2>1, SplitConcat
<1> QED
  BY <1>4, <1>5 DEF EndsIn

LEMMA NameIsSegment ==
    ASSUME NEW Y, NEW a \in Seq(Y \ {"/"})
    PROVE  Segments(a) = <<a>>
BY NotCut DEF Segments

CutInto(Y, t, cut) == t \in Seq(Y) /\ cut \in Seq(Seq(Y)) /\ Segments(t) = cut

LEMMA NameAfterSlash ==
    ASSUME NEW Y, "/" \in Y, NEW t, NEW cut, CutInto(Y, t, cut), NEW a \in Seq(Y \ {"/"})
    PROVE  CutInto(Y, (t \o <<"/">>) \o a, Append(cut, a))
<1> DEFINE u == t \o <<"/">>
           none == <<>>
<1>0. t \in Seq(Y) /\ cut \in Seq(Seq(Y)) /\ Segments(t) = cut
  BY DEF CutInto
<1>1. u = Append(t, "/") /\ u \in Seq(Y) /\ a \in Seq(Y)
  BY <1>0, AppendIsConcat, AppendProperties, SeqMonotonic
<1>2. SplitBy(u, "/") = SplitAt(cut, "/", "/")
  BY <1>0, <1>1, SplitAppend DEF Segments
<1>3. SplitAt(cut, "/", "/") = Append(cut, none)
  BY DEF SplitAt
<1>4. none \o a = a /\ none \in Seq(Y)
  BY <1>1
<1> HIDE DEF u, none
<1>5. EndsIn(u \o a, "/", cut, none \o a)
  <2>1. SplitBy(u, "/") = Append(cut, none)
    BY <1>2, <1>3
  <2>2. u \in Seq(Y) /\ none \in Seq(Y)
    BY <1>1, <1>4
  <2> QED
    <3>1. EndsIn(u, "/", cut, none)
      BY <2>1 DEF EndsIn
    <3> QED
      BY <1>0, <2>2, <3>1, SplitConcat
<1>6. u \o a \in Seq(Y)
  BY <1>1, ConcatProperties
<1>7. SplitBy(u \o a, "/") = Append(cut, a) /\ Append(cut, a) \in Seq(Seq(Y))
  <2>1. Append(cut, a) \in Seq(Seq(Y))
    BY <1>0, <1>1, AppendProperties
  <2> QED
    BY <1>4, <1>5, <2>1 DEF EndsIn
<1> QED
  BY <1>6, <1>7 DEF CutInto, Segments, u

\* Paths: names with `/` between them are cut into these names again.
LEMMA PathCut ==
    ASSUME NEW X, "/" \notin X, NEW p \in Seq(Seq(X))
    PROVE  /\ PathOf(p) \in Seq(X \cup {"/"})
           /\ p # <<>> => Segments(PathOf(p)) = p
<1> DEFINE Y == X \cup {"/"}
           m == Len(p)
           sep == <<"/">>
<1>0. X \subseteq Y /\ "/" \in Y /\ X = Y \ {"/"}
  OBVIOUS
<1> HIDE DEF Y
<1>1. m \in Nat /\ \A i \in 1 .. m : p[i] \in Seq(X) /\ p[i] \in Seq(Y) /\ p[i] \in Seq(Y \ {"/"})
  <2>1. Seq(X) \subseteq Seq(Y)
    BY <1>0, SeqMonotonic
  <2> QED
    BY <1>0, <2>1, ElementOfSeq, LenProperties
<1>2. PICK f : /\ f[0] = <<>> /\ JoinBy(p, sep) = f[m]
               /\ \A n \in Nat : n < m => f[n + 1] = JoinAt(f[n], p, n + 1, sep)
  BY <1>1, JoinedIs
<1> DEFINE Cut(n) == f[n] \in Seq(Y) /\ Segments(f[n]) = SubSeq(p, 1, n)
           S == {n \in Nat : n + 1 <= m => Cut(n + 1)}
<1>3. \A n \in 1 .. m : SubSeq(p, 1, n) = SubSeq(p, 1, n - 1) \o <<p[n]>> /\ SubSeq(p, 1, n - 1) \in Seq(Seq(Y))
  <2> TAKE n \in 1 .. m
  <2>1. 1 \in 1 .. m /\ n \in 1 .. m
    BY <1>1
  <2>2. SubSeq(p, 1, n) = SubSeq(p, 1, n - 1) \o <<p[n]>>
    BY <2>1, SubSeqRecursiveSecond
  <2>3. Seq(X) \subseteq Seq(Y)
    BY <1>0, SeqMonotonic
  <2>4. p \in Seq(Seq(Y))
    BY <2>3, SeqMonotonic
  <2>5. SubSeq(p, 1, n - 1) \in Seq(Seq(Y))
    BY <1>1, <2>4, SubSeqProperties
  <2> QED
    BY <2>2, <2>5
<1>4. 0 \in S
  <2> SUFFICES ASSUME 1 <= m PROVE Cut(1)
    OBVIOUS
  <2> DEFINE a == p[1]
  <2>1. a \in Seq(Y) /\ a \in Seq(Y \ {"/"})
    BY <1>1
  <2>2. f[1] = a
    <3>1. 0 \in Nat /\ 0 < m /\ 0 + 1 = 1
      BY <1>1
    <3>2. f[0 + 1] = JoinAt(f[0], p, 0 + 1, sep)
      BY <1>2, <3>1
    <3>3. f[1] = <<>> \o a
      BY <3>1, <3>2 DEF JoinAt
    <3> HIDE DEF a
    <3> QED
      BY <2>1, <3>3
  <2>3. SubSeq(p, 1, 1) = SubSeq(p, 1, 1 - 1) \o <<a>>
    BY <1>1, <1>3
  <2>4. SubSeq(p, 1, 1 - 1) = <<>> /\ <<>> \o <<a>> = <<a>>
    BY SubSeqEmpty
  <2> HIDE DEF a
  <2>5. Segments(a) = <<a>>
    BY <2>1, NameIsSegment
  <2> QED
    BY <2>1, <2>2, <2>3, <2>4, <2>5
<1>5. ASSUME NEW n \in Nat, n \in S PROVE n + 1 \in S
  <2> SUFFICES ASSUME n + 2 <= m PROVE Cut(n + 2)
    <3>1. (n + 1) + 1 = n + 2 /\ n + 1 \in Nat
      OBVIOUS
    <3> QED
      BY <3>1
  <2> DEFINE t == f[n + 1]
             a == p[n + 2]
             cut == SubSeq(p, 1, n + 1)
  <2>1. a \in Seq(Y \ {"/"})
    BY <1>1
  <2>2. t \in Seq(Y) /\ Segments(t) = cut
    BY <1>1, <1>5
  <2>3. f[n + 2] = (t \o sep) \o a
    <3>1. n + 1 < m /\ n + 1 \in Nat /\ (n + 1) + 1 = n + 2 /\ n + 2 # 1
      BY <1>1
    <3>2. f[(n + 1) + 1] = JoinAt(f[n + 1], p, (n + 1) + 1, sep)
      BY <1>2, <3>1
    <3>3. f[n + 2] = JoinAt(f[n + 1], p, n + 2, sep)
      BY <3>1, <3>2
    <3> QED
      BY <3>1, <3>3 DEF JoinAt
  <2>4. SubSeq(p, 1, n + 2) = cut \o <<a>> /\ cut \in Seq(Seq(Y)) /\ a \in Seq(Y)
    <3>1. n + 2 \in 1 .. m /\ (n + 2) - 1 = n + 1
      BY <1>1
    <3> QED
      BY <1>1, <1>3, <3>1
  <2> HIDE DEF t, a, cut
  <2>5. Append(cut, a) = cut \o <<a>>
    BY <2>4, AppendIsConcat
  <2>6. (t \o sep) \o a \in Seq(Y) /\ Segments((t \o sep) \o a) = Append(cut, a)
    <3>1. CutInto(Y, t, cut)
      BY <2>2, <2>4 DEF CutInto
    <3>2. CutInto(Y, (t \o sep) \o a, Append(cut, a))
      BY <1>0, <2>1, <3>1, NameAfterSlash
    <3> QED
      BY <3>2 DEF CutInto
  <2> QED
    BY <2>3, <2>4, <2>5, <2>6
<1> HIDE DEF S
<1>6. Nat \subseteq S
  BY <1>4, <1>5, ByNat
<1>7. ASSUME p # <<>> PROVE Cut(m)
  <2>1. m - 1 \in Nat /\ (m - 1) + 1 = m
    BY <1>1, <1>7, EmptySeq
  <2>2. m - 1 \in S
    BY <1>6, <2>1
  <2> QED
    BY <1>1, <2>1, <2>2 DEF S
<1>8. PathOf(p) = f[m]
  BY <1>2 DEF PathOf
<1>9. SubSeq(p, 1, m) = p
  BY SubSeqFull
<1>10. p = <<>> => f[m] \in Seq(Y)
  <2>1. p = <<>> => m = 0
    OBVIOUS
  <2>2. <<>> \in Seq(Y)
    OBVIOUS
  <2> QED
    BY <1>2, <2>1, <2>2
<1> QED
  BY <1>7, <1>8, <1>9, <1>10 DEF Y

LEMMA PathEmpty == PathOf(<<>>) = <<>>
<1>1. Len(<<>>) = 0
  OBVIOUS
<1> QED
  BY <1>1, JoinedIs DEF PathOf

LEMMA PathIsThere ==
    ASSUME NEW X, "/" \notin X, NEW p \in Seq(Seq(X) \ {<<>>}), p # <<>>
    PROVE  Segments(PathOf(p)) = p /\ PathOf(p) # <<>>
<1>1. p \in Seq(Seq(X))
  BY SeqMonotonic
<1>2. Segments(PathOf(p)) = p
  BY <1>1, PathCut
<1>3. Segments(<<>>) = <<<<>>>>
  BY SplitEmpty DEF Segments
<1>4. ASSUME p = <<<<>>>> PROVE FALSE
  <2>1. Len(p) = 1 /\ p[1] = <<>>
    BY <1>4
  <2>2. p[1] \in Seq(X) \ {<<>>}
    BY <2>1, ElementOfSeq
  <2> QED
    BY <2>1, <2>2
<1> QED
  BY <1>2, <1>3, <1>4

\* No two paths are written alike.
LEMMA PathApart ==
    ASSUME NEW X, "/" \notin X, NEW p \in Seq(Seq(X) \ {<<>>}), NEW q \in Seq(Seq(X) \ {<<>>}), PathOf(p) = PathOf(q)
    PROVE  p = q
BY PathIsThere, PathEmpty

-----------------------------------------------------------------------------
(* The order of paths.                                                     *)

Character == Range(Ascii)
Writing == Seq(Character)

LEMMA RankFacts ==
    /\ \A c \in Character : Rank(c) \in Nat
    /\ \A c, d \in Character : Rank(c) = Rank(d) => c = d
<1>1. DOMAIN Ascii = 1 .. 22
  BY DEF Ascii
<1>2. ASSUME NEW c \in Character PROVE Rank(c) \in 1 .. 22 /\ Ascii[Rank(c)] = c
  <2>1. \E i \in DOMAIN Ascii : Ascii[i] = c
    BY DEF Character, Range
  <2> QED
    BY <1>1, <2>1 DEF Rank
<1> QED
  BY <1>2

\* Two texts part after n characters, and the first of them is before the second.
PartAfter(n, a, b) ==
    /\ n <= Len(a) /\ n <= Len(b)
    /\ \A i \in 1 .. n : a[i] = b[i]
    /\ \/ n = Len(a) /\ n < Len(b)
       \/ n < Len(a) /\ n < Len(b) /\ Rank(a[n + 1]) < Rank(b[n + 1])

\* Two texts begin alike.
LEMMA SamePrefix ==
    ASSUME NEW X, NEW a \in Seq(X), NEW b \in Seq(X), NEW n \in Nat, n <= Len(a), n <= Len(b)
    PROVE  SubSeq(a, 1, n) = SubSeq(b, 1, n) <=> \A i \in 1 .. n : a[i] = b[i]
<1>1. Len(a) \in Nat /\ Len(b) \in Nat
  BY LenProperties
<1>2. /\ SubSeq(a, 1, n) \in Seq(X) /\ Len(SubSeq(a, 1, n)) = n
      /\ \A i \in 1 .. n : SubSeq(a, 1, n)[i] = a[i]
  BY <1>1
<1>3. /\ SubSeq(b, 1, n) \in Seq(X) /\ Len(SubSeq(b, 1, n)) = n
      /\ \A i \in 1 .. n : SubSeq(b, 1, n)[i] = b[i]
  BY <1>1
<1> DEFINE s == SubSeq(a, 1, n)
           t == SubSeq(b, 1, n)
<1> HIDE DEF s, t
<1>4. (\A i \in 1 .. n : a[i] = b[i]) => s = t
  <2>1. SUFFICES ASSUME \A i \in 1 .. n : a[i] = b[i] PROVE s = t
    OBVIOUS
  <2>2. \A i \in 1 .. Len(s) : s[i] = t[i]
    BY <1>2, <1>3, <2>1 DEF s, t
  <2> QED
    BY <1>2, <1>3, <2>2, SeqEqual DEF s, t
<1>5. s = t => \A i \in 1 .. n : a[i] = b[i]
  BY <1>2, <1>3 DEF s, t
<1> QED
  BY <1>4, <1>5 DEF s, t

LEMMA BeforeParts ==
    ASSUME NEW a \in Writing, NEW b \in Writing
    PROVE  Before(a, b) <=> \E n \in Nat : PartAfter(n, a, b)
<1>1. /\ Len(a) \in Nat /\ Len(b) \in Nat /\ a \in Seq(Character) /\ b \in Seq(Character)
      /\ DOMAIN a = 1 .. Len(a) /\ DOMAIN b = 1 .. Len(b)
  BY LenProperties DEF Writing
<1>2. ASSUME a # b, IsPrefix(a, b) PROVE PartAfter(Len(a), a, b)
  <2>1. Len(a) <= Len(b) /\ SubSeq(a, 1, Len(a)) = SubSeq(b, 1, Len(a))
    BY <1>2 DEF IsPrefix
  <2> DEFINE n == Len(a)
  <2>2. /\ a \in Seq(Character) /\ b \in Seq(Character)
        /\ n \in Nat /\ n <= Len(a) /\ n <= Len(b) /\ SubSeq(a, 1, n) = SubSeq(b, 1, n)
    BY <1>1, <2>1
  <2>3. \A i \in 1 .. n : a[i] = b[i]
    <3> HIDE DEF n
    <3> QED
      BY <2>2, SamePrefix, Zenon
  <2>4. Len(a) # Len(b)
    BY <1>1, <1>2, <2>3, SeqEqual
  <2>5. Len(a) < Len(b) /\ Len(a) <= Len(a)
    <3> DEFINE k == Len(a)
               l == Len(b)
    <3>1. k \in Nat /\ l \in Nat
      BY <1>1
    <3>2. k <= l
      BY <2>1
    <3>3. k # l
      BY <2>4
    <3> HIDE DEF k, l
    <3>4. k < l /\ k <= k
      BY <3>1, <3>2, <3>3
    <3> QED
      BY <3>4 DEF k, l
  <2> QED
    BY <2>1, <2>3, <2>5 DEF PartAfter
<1>3. ASSUME NEW i \in DOMAIN a \cap DOMAIN b, SubSeq(a, 1, i - 1) = SubSeq(b, 1, i - 1), Rank(a[i]) < Rank(b[i])
      PROVE  PartAfter(i - 1, a, b) /\ i - 1 \in Nat
  <2>1. i - 1 \in Nat /\ i - 1 < Len(a) /\ i - 1 < Len(b) /\ (i - 1) + 1 = i
    BY <1>1
  <2>2. \A k \in 1 .. i - 1 : a[k] = b[k]
    BY <1>1, <1>3, <2>1, SamePrefix
  <2> QED
    BY <1>1, <1>3, <2>1, <2>2 DEF PartAfter
<1>4. ASSUME NEW n \in Nat, PartAfter(n, a, b) PROVE Before(a, b)
  <2>1. n <= Len(a) /\ n <= Len(b) /\ \A i \in 1 .. n : a[i] = b[i]
    BY <1>4 DEF PartAfter
  <2>2. SubSeq(a, 1, n) = SubSeq(b, 1, n)
    BY <1>1, <2>1, SamePrefix
  <2>3. CASE n = Len(a) /\ n < Len(b)
    <3>1. a # b
      BY <1>1, <2>3
    <3> QED
      BY <1>1, <2>2, <2>3, <3>1 DEF Before, IsPrefix
  <2>4. CASE n < Len(a) /\ n < Len(b) /\ Rank(a[n + 1]) < Rank(b[n + 1])
    <3>1. n + 1 \in DOMAIN a \cap DOMAIN b /\ (n + 1) - 1 = n
      BY <1>1, <2>4
    <3>2. SubSeq(a, 1, (n + 1) - 1) = SubSeq(b, 1, (n + 1) - 1)
      BY <2>2, <3>1
    <3> QED
      BY <2>4, <3>1, <3>2 DEF Before
  <2> QED
    BY <1>4, <2>3, <2>4 DEF PartAfter
<1> QED
  BY <1>1, <1>2, <1>3, <1>4 DEF Before

LEMMA BeforeIsOrder ==
    /\ \A a, b \in Writing : Before(a, b) \/ Before(b, a) \/ a = b
    /\ \A a, b \in Writing : ~(Before(a, b) /\ Before(b, a))
    /\ \A a, b, c \in Writing : Before(a, b) /\ Before(b, c) => Before(a, c)
<1>1. \A a \in Writing : /\ Len(a) \in Nat /\ a = [i \in 1 .. Len(a) |-> a[i]]
                        /\ \A i \in 1 .. Len(a) : a[i] \in Character /\ Rank(a[i]) \in Nat
  BY RankFacts, ElementOfSeq, LenProperties DEF Writing
<1>2. ASSUME NEW a \in Writing, NEW b \in Writing PROVE Before(a, b) \/ Before(b, a) \/ a = b
  <2> DEFINE Same(n) == n <= Len(a) /\ n <= Len(b) /\ \A i \in 1 .. n : a[i] = b[i]
             ends == {n \in Nat : ~Same(n + 1)}
  <2>1. Same(0)
    BY <1>1
  <2>2. Len(a) \in ends
    BY <1>1
  <2>3. PICK n \in ends : \A k \in ends : n <= k
    <3> HIDE DEF ends
    <3>1. ends \subseteq Nat
      BY DEF ends
    <3> QED
      BY <2>2, <3>1, LeastNat
  <2>4. Same(n)
    <3>1. CASE n = 0
      BY <2>1, <3>1
    <3>2. CASE n # 0
      <4>1. n - 1 \in Nat /\ ~(n - 1 \in ends)
        BY <2>3, <3>2
      <4>2. Same((n - 1) + 1)
        BY <4>1
      <4> QED
        BY <2>3, <4>2
    <3> QED
      BY <3>1, <3>2
  <2>5. n \in Nat /\ ~Same(n + 1)
    BY <2>3
  <2>6. CASE n = Len(a) /\ n = Len(b)
    <3>1. a = [i \in 1 .. n |-> a[i]] /\ b = [i \in 1 .. n |-> b[i]]
      BY <1>1, <2>6
    <3>2. \A i \in 1 .. n : a[i] = b[i]
      BY <2>4
    <3>3. [i \in 1 .. n |-> a[i]] = [i \in 1 .. n |-> b[i]]
      BY <3>2
    <3> QED
      BY <3>1, <3>3
  <2>7. CASE n = Len(a) /\ n # Len(b)
    <3>1. PartAfter(n, a, b)
      BY <1>1, <2>4, <2>7 DEF PartAfter
    <3> QED
      BY <2>5, <3>1, BeforeParts
  <2>8. CASE n # Len(a) /\ n = Len(b)
    <3>1. PartAfter(n, b, a)
      BY <1>1, <2>4, <2>8 DEF PartAfter
    <3> QED
      BY <2>5, <3>1, BeforeParts
  <2>9. CASE n # Len(a) /\ n # Len(b)
    <3>1. n < Len(a) /\ n < Len(b)
      BY <1>1, <2>4, <2>9
    <3>2. a[n + 1] # b[n + 1]
      BY <1>1, <2>4, <2>5, <3>1
    <3>3. Rank(a[n + 1]) # Rank(b[n + 1]) /\ Rank(a[n + 1]) \in Nat /\ Rank(b[n + 1]) \in Nat
      BY <1>1, <2>5, <3>1, <3>2, RankFacts
    <3>4. PartAfter(n, a, b) \/ PartAfter(n, b, a)
      BY <2>4, <3>1, <3>3 DEF PartAfter
    <3> QED
      BY <2>5, <3>4, BeforeParts
  <2> QED
    BY <2>6, <2>7, <2>8, <2>9
<1>3. ASSUME NEW a \in Writing, NEW b \in Writing, Before(a, b), Before(b, a) PROVE FALSE
  <2>1. PICK n \in Nat : PartAfter(n, a, b)
    BY <1>3, BeforeParts
  <2>2. PICK m \in Nat : PartAfter(m, b, a)
    BY <1>3, BeforeParts
  <2>3. \A i \in 1 .. Len(a) : Rank(a[i]) \in Nat
    BY <1>1
  <2>4. \A i \in 1 .. Len(b) : Rank(b[i]) \in Nat
    BY <1>1
  <2>5. Len(a) \in Nat /\ Len(b) \in Nat
    BY <1>1
  <2>6. CASE n < m
    <3>1. n + 1 \in 1 .. Len(a) /\ n + 1 \in 1 .. Len(b) /\ a[n + 1] = b[n + 1]
      BY <2>1, <2>2, <2>5, <2>6 DEF PartAfter
    <3>2. Rank(a[n + 1]) \in Nat /\ Rank(b[n + 1]) \in Nat
      BY <2>3, <2>4, <3>1
    <3> QED
      BY <2>1, <2>2, <2>5, <3>1, <3>2 DEF PartAfter
  <2>7. CASE m < n
    <3>1. m + 1 \in 1 .. Len(a) /\ m + 1 \in 1 .. Len(b) /\ a[m + 1] = b[m + 1]
      BY <2>1, <2>2, <2>5, <2>7 DEF PartAfter
    <3>2. Rank(a[m + 1]) \in Nat /\ Rank(b[m + 1]) \in Nat
      BY <2>3, <2>4, <3>1
    <3> QED
      BY <2>1, <2>2, <2>5, <3>1, <3>2 DEF PartAfter
  <2>8. CASE n = m
    <3>1. n + 1 \in 1 .. Len(a) /\ n + 1 \in 1 .. Len(b)
      BY <2>1, <2>2, <2>5, <2>8 DEF PartAfter
    <3>2. Rank(a[n + 1]) \in Nat /\ Rank(b[n + 1]) \in Nat
      BY <2>3, <2>4, <3>1
    <3>3. Rank(a[n + 1]) < Rank(b[n + 1]) /\ Rank(b[n + 1]) < Rank(a[n + 1])
      BY <2>1, <2>2, <2>5, <2>8, <3>1 DEF PartAfter
    <3> QED
      BY <3>2, <3>3
  <2> QED
    BY <2>6, <2>7, <2>8
<1>4. ASSUME NEW a \in Writing, NEW b \in Writing, NEW c \in Writing, Before(a, b), Before(b, c)
      PROVE  Before(a, c)
  <2>1. PICK n \in Nat : PartAfter(n, a, b)
    BY <1>4, BeforeParts
  <2>2. PICK m \in Nat : PartAfter(m, b, c)
    BY <1>4, BeforeParts
  <2>3. /\ \A i \in 1 .. Len(a) : Rank(a[i]) \in Nat
        /\ \A i \in 1 .. Len(b) : Rank(b[i]) \in Nat
        /\ \A i \in 1 .. Len(c) : Rank(c[i]) \in Nat
    BY <1>1
  <2>4. Len(a) \in Nat /\ Len(b) \in Nat /\ Len(c) \in Nat
    BY <1>1
  <2>5. CASE n < m
    <3>1. PartAfter(n, a, c)
      BY <2>1, <2>2, <2>4, <2>5 DEF PartAfter
    <3> QED
      BY <3>1, BeforeParts
  <2>6. CASE m <= n
    <3> SUFFICES PartAfter(m, a, c)
      BY BeforeParts
    <3>1. /\ m <= n /\ m <= Len(b) /\ m <= Len(c) /\ n <= Len(a)
          /\ \A i \in 1 .. n : a[i] = b[i]
          /\ \A i \in 1 .. m : b[i] = c[i]
      BY <2>1, <2>2, <2>4, <2>6 DEF PartAfter
    <3>2. m <= Len(a) /\ \A i \in 1 .. m : i \in 1 .. n /\ a[i] = c[i]
      BY <2>4, <3>1
    <3>3. CASE m = Len(b)
      <4>1. m < Len(c) /\ m = n
        BY <2>1, <2>2, <2>4, <3>1, <3>3 DEF PartAfter
      <4>2. m = Len(a) \/ n < Len(b)
        BY <2>1, <4>1 DEF PartAfter
      <4> QED
        BY <2>4, <3>1, <3>2, <3>3, <4>1, <4>2 DEF PartAfter
    <3>4. CASE m # Len(b)
      <4>1. m < Len(b) /\ m < Len(c) /\ Rank(b[m + 1]) < Rank(c[m + 1])
        BY <2>2, <3>4 DEF PartAfter
      <4>2. m + 1 \in 1 .. Len(b) /\ m + 1 \in 1 .. Len(c)
        BY <2>4, <4>1
      <4>3. CASE m < n
        <5>1. m < Len(a) /\ a[m + 1] = b[m + 1]
          BY <2>4, <3>1, <4>3
        <5> QED
          BY <3>1, <3>2, <4>1, <5>1 DEF PartAfter
      <4>4. CASE m = n /\ n = Len(a)
        BY <3>1, <3>2, <4>1, <4>4 DEF PartAfter
      <4>5. CASE m = n /\ n # Len(a)
        <5>1. m < Len(a) /\ Rank(a[m + 1]) < Rank(b[m + 1])
          BY <2>1, <4>5 DEF PartAfter
        <5>2. m + 1 \in 1 .. Len(a)
          BY <2>4, <5>1
        <5>3. Rank(a[m + 1]) < Rank(c[m + 1])
          BY <2>3, <4>1, <4>2, <5>1, <5>2
        <5> QED
          BY <3>1, <3>2, <4>1, <5>1, <5>3 DEF PartAfter
      <4> QED
        BY <3>1, <4>3, <4>4, <4>5
    <3> QED
      BY <3>3, <3>4
  <2> QED
    BY <2>5, <2>6
<1> QED
  BY <1>2, <1>3, <1>4

Earlier(p, q) == Before(PathOf(p), PathOf(q))

LEMMA NamesHaveNoSlash ==
    /\ "/" \notin Character \ {"/"} /\ FilePath = Seq(Seq(Character \ {"/"}) \ {<<>>})
    /\ Character = (Character \ {"/"}) \cup {"/"}
<1>1. "/" \in Character
  <2>1. Ascii[7] = "/" /\ 7 \in DOMAIN Ascii
    BY DEF Ascii
  <2> QED
    BY <2>1 DEF Character, Range
<1> QED
  BY <1>1 DEF FilePath, FileName, Character

LEMMA PathsAreWriting ==
    ASSUME NEW p \in FilePath
    PROVE  PathOf(p) \in Writing
<1> DEFINE X == Character \ {"/"}
<1>1. "/" \notin X /\ FilePath = Seq(Seq(X) \ {<<>>}) /\ Character = X \cup {"/"}
  BY NamesHaveNoSlash
<1> HIDE DEF X
<1>2. p \in Seq(Seq(X))
  BY <1>1, SeqMonotonic
<1>3. PathOf(p) \in Seq(X \cup {"/"})
  BY <1>1, <1>2, PathCut
<1> QED
  BY <1>1, <1>3 DEF Writing

LEMMA EarlierIsOrder ==
    /\ \A p, q \in FilePath : Earlier(p, q) \/ Earlier(q, p) \/ p = q
    /\ \A p \in FilePath : ~Earlier(p, p)
    /\ \A p, q, r \in FilePath : Earlier(p, q) /\ Earlier(q, r) => Earlier(p, r)
<1> DEFINE X == Character \ {"/"}
<1>1. "/" \notin X /\ FilePath = Seq(Seq(X) \ {<<>>})
  BY NamesHaveNoSlash
<1> HIDE DEF X
<1>2. ASSUME NEW p \in FilePath, NEW q \in FilePath PROVE Earlier(p, q) \/ Earlier(q, p) \/ p = q
  <2>1. PathOf(p) = PathOf(q) => p = q
    BY <1>1, PathApart
  <2>2. PathOf(p) \in Writing /\ PathOf(q) \in Writing
    BY PathsAreWriting
  <2> QED
    BY <2>1, <2>2, BeforeIsOrder DEF Earlier
<1>3. ASSUME NEW p \in FilePath PROVE ~Earlier(p, p)
  BY PathsAreWriting, BeforeIsOrder DEF Earlier
<1>4. ASSUME NEW p \in FilePath, NEW q \in FilePath, NEW r \in FilePath, Earlier(p, q), Earlier(q, r)
      PROVE  Earlier(p, r)
  <2>1. PathOf(p) \in Writing /\ PathOf(q) \in Writing /\ PathOf(r) \in Writing
    BY PathsAreWriting
  <2> QED
    BY <1>4, <2>1, BeforeIsOrder DEF Earlier
<1> QED
  BY <1>2, <1>3, <1>4

\* InOrder lists every path of a set once, in their order.
Listing(s, paths) ==
    /\ DOMAIN s = 1 .. Cardinality(paths)
    /\ \A i \in DOMAIN s : s[i] \in paths
    /\ \A p \in paths : \E i \in DOMAIN s : s[i] = p
    /\ \A i, j \in DOMAIN s : i < j => Earlier(s[i], s[j])

LEMMA InOrderLists ==
    ASSUME NEW paths \in SUBSET FilePath, IsFiniteSet(paths)
    PROVE  Listing(InOrder(paths), paths) /\ Cardinality(paths) \in Nat
<1> DEFINE n == Cardinality(paths)
           below(p) == {q \in paths : Earlier(q, p)}
           f == [p \in paths |-> Cardinality(below(p)) + 1]
<1>1. n \in Nat
  BY FS_CardinalityType
<1>2. ASSUME NEW p \in paths
      PROVE  IsFiniteSet(below(p)) /\ Cardinality(below(p)) \in Nat /\ Cardinality(below(p)) < n
  <2>1. below(p) \in SUBSET (paths \ {p})
    BY EarlierIsOrder
  <2>2. IsFiniteSet(paths \ {p}) /\ Cardinality(paths \ {p}) = n - 1
    BY FS_RemoveElement
  <2>3. IsFiniteSet(below(p)) /\ Cardinality(below(p)) <= n - 1
    <3> HIDE DEF below
    <3> QED
      BY <2>1, <2>2, FS_Subset
  <2>4. Cardinality(below(p)) \in Nat
    BY <2>3, FS_CardinalityType
  <2> QED
    BY <1>1, <2>3, <2>4
<1>3. ASSUME NEW p \in paths, NEW q \in paths, Earlier(p, q) PROVE Cardinality(below(p)) < Cardinality(below(q))
  <2>1. below(p) \in SUBSET below(q) /\ p \in below(q) /\ p \notin below(p)
    BY <1>3, EarlierIsOrder
  <2> HIDE DEF below
  <2>2. Cardinality(below(p)) <= Cardinality(below(q)) /\ Cardinality(below(q)) # Cardinality(below(p))
    BY <1>2, <2>1, FS_Subset
  <2> QED
    BY <1>2, <2>2
<1>4. \A p, q \in paths : Cardinality(below(p)) = Cardinality(below(q)) => p = q
  <2> SUFFICES ASSUME NEW p \in paths, NEW q \in paths, Cardinality(below(p)) = Cardinality(below(q)), p # q
               PROVE  FALSE
    OBVIOUS
  <2>1. Earlier(p, q) \/ Earlier(q, p)
    BY EarlierIsOrder
  <2>2. Cardinality(below(p)) \in Nat /\ Cardinality(below(q)) \in Nat
    BY <1>2
  <2> HIDE DEF below
  <2> QED
    BY <1>3, <2>1, <2>2
<1>5. f \in Injection(paths, 1 .. n)
  <2> DEFINE c == [p \in paths |-> Cardinality(below(p))]
  <2>0. \A p \in paths : c[p] = Cardinality(below(p)) /\ c[p] \in Nat /\ c[p] < n
    BY <1>2
  <2>1. \A p \in paths : f[p] = c[p] + 1 /\ f[p] \in 1 .. n
    <3>1. \A p \in paths : f[p] = c[p] + 1
      BY <2>0
    <3>2. \A p \in paths : c[p] \in Nat /\ c[p] < n
      BY <2>0
    <3> HIDE DEF below, c, f
    <3>3. \A p \in paths : c[p] + 1 \in 1 .. n
      BY <1>1, <3>2
    <3> QED
      BY <3>1, <3>3
  <2>2. f \in [paths -> 1 .. n] /\ DOMAIN f = paths
    <3> HIDE DEF below, c
    <3> QED
      BY <2>1
  <2> HIDE DEF below, c, f
  <2>3. \A p, q \in DOMAIN f : f[p] = f[q] => p = q
    <3> TAKE p, q \in DOMAIN f
    <3> HAVE f[p] = f[q]
    <3>1. c[p] = c[q]
      BY <2>0, <2>1, <2>2
    <3> QED
      BY <1>4, <2>0, <2>2, <3>1
  <2> QED
    BY <2>2, <2>3 DEF Injection, IsInjective
<1>6. f \in Surjection(paths, 1 .. n)
  <2>1. IsFiniteSet(1 .. n) /\ Cardinality(1 .. n) = n
    BY <1>1, FS_Interval
  <2> HIDE DEF f
  <2> QED
    BY <1>5, <2>1, FS_Injection
<1>7. \A i \in 1 .. n : \E p \in paths : Cardinality(below(p)) = i - 1
  <2> TAKE i \in 1 .. n
  <2>1. PICK p \in paths : f[p] = i
    BY <1>6 DEF Surjection
  <2>2. Cardinality(below(p)) + 1 = i /\ Cardinality(below(p)) \in Nat
    <3>1. f[p] = Cardinality(below(p)) + 1
      OBVIOUS
    <3> QED
      BY <1>2, <2>1, <3>1
  <2> QED
    <3>1. Cardinality(below(p)) = i - 1
      <4> HIDE DEF below
      <4> QED
        BY <1>1, <2>2
    <3> QED
      BY <3>1
<1> DEFINE s == InOrder(paths)
<1>8. s = [i \in 1 .. n |-> CHOOSE p \in paths : Cardinality(below(p)) = i - 1]
  BY DEF InOrder, Earlier
<1> HIDE DEF s, below
<1>9. \A i \in 1 .. n : s[i] \in paths /\ Cardinality(below(s[i])) = i - 1
  BY <1>7, <1>8
<1>10. DOMAIN s = 1 .. n
  BY <1>8
<1>11. ASSUME NEW p \in paths PROVE \E i \in 1 .. n : s[i] = p
  <2> DEFINE i == Cardinality(below(p)) + 1
  <2>1. i \in 1 .. n /\ i - 1 = Cardinality(below(p))
    BY <1>1, <1>2
  <2>2. s[i] \in paths /\ Cardinality(below(s[i])) = Cardinality(below(p))
    BY <1>9, <2>1
  <2>3. s[i] = p
    BY <1>4, <2>2
  <2> QED
    BY <2>1, <2>3
<1>12. ASSUME NEW i \in 1 .. n, NEW j \in 1 .. n, i < j PROVE Earlier(s[i], s[j])
  <2>1. s[i] \in paths /\ s[j] \in paths /\ Cardinality(below(s[i])) = i - 1 /\ Cardinality(below(s[j])) = j - 1
    BY <1>9
  <2>2. Earlier(s[i], s[j]) \/ Earlier(s[j], s[i]) \/ s[i] = s[j]
    BY <2>1, EarlierIsOrder
  <2>3. ~Earlier(s[j], s[i])
    <3> SUFFICES ASSUME Earlier(s[j], s[i]) PROVE FALSE
      OBVIOUS
    <3>1. Cardinality(below(s[j])) < Cardinality(below(s[i]))
      BY <1>3, <2>1
    <3> QED
      BY <1>1, <1>12, <2>1, <3>1
  <2>4. s[i] # s[j]
    BY <1>1, <1>12, <2>1
  <2> QED
    BY <2>2, <2>3, <2>4
<1> QED
  BY <1>1, <1>9, <1>10, <1>11, <1>12 DEF Listing, s

-----------------------------------------------------------------------------
(* The list of namespaces.                                                 *)

\* A tree that hangs together.
Grown(tr) ==
    /\ IsFiniteSet(DOMAIN tr)
    /\ \A p \in DOMAIN tr :
         /\ p \in FilePath /\ tr[p] \in Kinds
         /\ p # <<>> => Front(p) \in DOMAIN tr /\ tr[Front(p)] = "folder"

\* What the first n entries reach.
IsApplied(f, tr, list, m) == f = [n \in 0 .. m |->
        IF n = 0 THEN NotMatched ELSE ApplyFound(f[n - 1], list[n], EntryFolders(tr, list[n]))]

LEMMA AppliedExists ==
    ASSUME NEW tr, NEW list, NEW m \in Nat
    PROVE  \E f : IsApplied(f, tr, list, m)
<1> DEFINE Is(f, k) == f = [n \in 0 .. k |->
        IF n = 0 THEN NotMatched ELSE ApplyFound(f[n - 1], list[n], EntryFolders(tr, list[n]))]
           S == {k \in Nat : \E f : Is(f, k)}
<1>1. 0 \in S
  <2> DEFINE f == [n \in 0 .. 0 |-> NotMatched]
  <2>1. \A n \in 0 .. 0 : n = 0
    OBVIOUS
  <2>2. Is(f, 0)
    BY <2>1
  <2> QED
    BY <2>2
<1>2. ASSUME NEW k \in Nat, k \in S PROVE k + 1 \in S
  <2>1. PICK f : Is(f, k)
    BY <1>2
  <2> DEFINE g == [n \in 0 .. k + 1 |->
          IF n = k + 1 THEN ApplyFound(f[k], list[(k + 1)], EntryFolders(tr, list[(k + 1)])) ELSE f[n]]
  <2>2. \A n \in 0 .. k : f[n] =
          IF n = 0 THEN NotMatched ELSE ApplyFound(f[n - 1], list[n], EntryFolders(tr, list[n]))
    BY <2>1
  <2>3. ASSUME NEW n \in 0 .. k + 1 PROVE g[n] =
          IF n = 0 THEN NotMatched ELSE ApplyFound(g[n - 1], list[n], EntryFolders(tr, list[n]))
    <3>1. CASE n = k + 1
      <4>1. n # 0 /\ n - 1 = k /\ k \in 0 .. k + 1 /\ k # k + 1
        BY <1>2, <3>1
      <4>2. g[k] = f[k] /\ g[n] = ApplyFound(f[k], list[n], EntryFolders(tr, list[n]))
        BY <3>1, <4>1
      <4> QED
        BY <4>1, <4>2
    <3>2. CASE n # k + 1 /\ n # 0
      <4>1. n \in 0 .. k /\ n - 1 \in 0 .. k + 1 /\ n - 1 # k + 1
        BY <1>2, <3>2
      <4>2. g[n] = f[n] /\ g[n - 1] = f[n - 1]
        BY <3>2, <4>1
      <4> QED
        BY <2>2, <3>2, <4>1, <4>2
    <3>3. CASE n # k + 1 /\ n = 0
      <4>1. n \in 0 .. k
        BY <1>2, <3>3
      <4>2. g[n] = f[n]
        BY <3>3
      <4> QED
        BY <2>2, <3>3, <4>1, <4>2
    <3> QED
      BY <3>1, <3>2, <3>3
  <2>4. g = [n \in 0 .. k + 1 |-> g[n]]
    OBVIOUS
  <2>5. Is(g, k + 1)
    <3> HIDE DEF g
    <3> QED
      BY <2>3, <2>4
  <2>6. k + 1 \in Nat /\ \E f_ : Is(f_, k + 1)
    <3> HIDE DEF Is, g
    <3> QED
      BY <2>5
  <2> QED
    BY <2>6
<1>3. Nat \subseteq S
  <2> HIDE DEF S
  <2> QED
    BY <1>1, <1>2, ByNat
<1> QED
  BY <1>3 DEF IsApplied

LEMMA AppliedIs ==
    ASSUME NEW tr, NEW list, Len(list) \in Nat
    PROVE  \E f : /\ f[0] = NotMatched /\ ApplyEntries(tr, list) = f[Len(list)]
                  /\ \A n \in Nat : n < Len(list) =>
                                f[n + 1] = ApplyFound(f[n], list[(n + 1)], EntryFolders(tr, list[(n + 1)]))
<1> DEFINE m == Len(list)
           chosen == CHOOSE f : f = [n \in 0 .. m |->
                   IF n = 0 THEN NotMatched ELSE ApplyFound(f[n - 1], list[n], EntryFolders(tr, list[n]))]
<1>1. \E f : IsApplied(f, tr, list, m)
  BY AppliedExists
<1>2. chosen = [n \in 0 .. m |->
        IF n = 0 THEN NotMatched ELSE ApplyFound(chosen[n - 1], list[n], EntryFolders(tr, list[n]))]
  BY <1>1, Zenon DEF IsApplied
<1>3. ApplyEntries(tr, list) = chosen[m]
  BY DEF ApplyEntries
<1> HIDE DEF chosen
<1>4. \A n \in 0 .. m : chosen[n] =
        IF n = 0 THEN NotMatched ELSE ApplyFound(chosen[n - 1], list[n], EntryFolders(tr, list[n]))
  BY <1>2
<1>5. ASSUME NEW n \in Nat, n < m
      PROVE  chosen[n + 1] = ApplyFound(chosen[n], list[(n + 1)], EntryFolders(tr, list[(n + 1)]))
  <2>1. n + 1 \in 0 .. m /\ n + 1 # 0 /\ n + 1 - 1 = n
    BY <1>5
  <2> QED
    BY <1>4, <2>1
<1>6. chosen[0] = NotMatched
  BY <1>4
<1> QED
  BY <1>3, <1>5, <1>6

\* What is listed in the project folder has a path of one name.
LEMMA TopPaths ==
    ASSUME NEW tr, Grown(tr), NEW p \in List(tr, <<>>)
    PROVE  p \in DOMAIN tr /\ p \in FilePath /\ Len(p) = 1 /\ p = <<p[1]>> /\ p[1] \in FileName
<1>1. p \in DOMAIN tr /\ Len(p) = Len(<<>>) + 1
  BY DEF List
<1>2. p \in FilePath /\ Len(p) = 1
  BY <1>1 DEF Grown
<1>3. p \in Seq(FileName)
  BY <1>2 DEF FilePath
<1> QED
  BY <1>1, <1>2, <1>3, ElementOfSeq

Folders_(tr) == {p[1] : p \in {q \in List(tr, <<>>) : tr[q] = "folder"}}
Entries_(tr) == {p[1] : p \in List(tr, <<>>)}

\* An entry reaches folders only, and passes over entries of the folder only.
LEMMA EntryReaches ==
    ASSUME NEW tr, NEW entry
    PROVE  /\ EntryFolders(tr, entry).folders \subseteq Folders_(tr)
           /\ EntryFolders(tr, entry).skipped \subseteq Entries_(tr)
<1> DEFINE candidates == {p \in List(tr, <<>>) : MatchesFolder(PatternOf(entry), p[1], Glob)}
           folders == {p \in candidates : tr[p] = "folder"}
           names(ps) == {p[1] : p \in ps}
           found == [folders |-> {n \in names(folders) : Utf8(n)},
                     skipped |-> {n \in names(folders) : ~Utf8(n)}
                                 \cup {p[1] : p \in {q \in candidates : tr[q] = "linkToFolder"}},
                     refused |-> FALSE]
<1>1. EntryFolders(tr, entry) \in {EntryRefused, found}
  BY DEF EntryFolders
<1>2. EntryRefused.folders = {} /\ EntryRefused.skipped = {}
  BY DEF EntryRefused, Nothing
<1>3. found.folders \subseteq Folders_(tr) /\ found.skipped \subseteq Entries_(tr)
  BY DEF Folders_, Entries_
<1> HIDE DEF found
<1> QED
  BY <1>1, <1>2, <1>3

Reaches_(tr, list, i, n) == n \in EntryFolders(tr, list[i]).folders
\* The last of the first m entries that reach a folder.
LastReach(tr, list, m, i, n) ==
    /\ i \in 1 .. m /\ Reaches_(tr, list, i, n)
    /\ \A j \in 1 .. m : Reaches_(tr, list, j, n) => j <= i

Decided_(tr, list, m, all) ==
    /\ \A n : n \in all.matched <=> \E i \in 1 .. m : LastReach(tr, list, m, i, n) /\ ~Negated(list[i])
    /\ \A n : n \in all.excluded <=> \E i \in 1 .. m : LastReach(tr, list, m, i, n) /\ Negated(list[i])
    /\ all.skipped \subseteq Entries_(tr)

LEMMA LastEntryStands ==
    ASSUME NEW tr, NEW list, NEW m \in Nat, NEW all, Decided_(tr, list, m, all)
    PROVE  Decided_(tr, list, m + 1, ApplyFound(all, list[m + 1], EntryFolders(tr, list[m + 1])))
<1> DEFINE entry == list[m + 1]
           found == EntryFolders(tr, entry)
           next == ApplyFound(all, entry, found)
           Last_(k, i, n) == LastReach(tr, list, k, i, n)
<1>1. ASSUME NEW n, n \in found.folders
      PROVE  /\ LastReach(tr, list, m + 1, m + 1, n)
             /\ \A i \in 1 .. m + 1 : LastReach(tr, list, m + 1, i, n) => i = m + 1
  <2>1. m + 1 \in 1 .. m + 1 /\ Reaches_(tr, list, m + 1, n)
    BY <1>1 DEF Reaches_
  <2>2. \A j \in 1 .. m + 1 : j <= m + 1
    OBVIOUS
  <2>3. ASSUME NEW i \in 1 .. m + 1, LastReach(tr, list, m + 1, i, n) PROVE i = m + 1
    <3>1. m + 1 <= i
      BY <2>1, <2>3 DEF LastReach
    <3> QED
      BY <3>1
  <2> QED
    BY <2>1, <2>2, <2>3 DEF LastReach
<1>2. ASSUME NEW n, n \notin found.folders, NEW i
      PROVE  (i \in 1 .. m + 1 /\ LastReach(tr, list, m + 1, i, n))
                <=> (i \in 1 .. m /\ LastReach(tr, list, m, i, n))
  <2>1. ~Reaches_(tr, list, m + 1, n)
    BY <1>2 DEF Reaches_
  <2>2. 1 .. m + 1 = (1 .. m) \cup {m + 1}
    OBVIOUS
  <2> QED
    BY <2>1, <2>2 DEF LastReach
<1>3. /\ next.matched = IF Negated(entry) THEN all.matched \ found.folders
                        ELSE all.matched \cup found.folders
      /\ next.excluded = IF Negated(entry) THEN all.excluded \cup found.folders
                         ELSE all.excluded \ found.folders
      /\ next.skipped = all.skipped \cup found.skipped
  BY DEF ApplyFound
<1>4. found.skipped \subseteq Entries_(tr)
  BY EntryReaches
<1>5. m + 1 \in 1 .. m + 1
  OBVIOUS
<1> HIDE DEF found, next
<1>6. ASSUME NEW n
      PROVE  n \in next.matched <=> \E i \in 1 .. m + 1 : LastReach(tr, list, m + 1, i, n) /\ ~Negated(list[i])
  <2>1. CASE n \in found.folders
    <3>1. n \in next.matched <=> ~Negated(entry)
      BY <1>3, <2>1
    <3>2. (\E i \in 1 .. m + 1 : LastReach(tr, list, m + 1, i, n) /\ ~Negated(list[i])) <=> ~Negated(list[m + 1])
      BY <1>1, <1>5, <2>1, Zenon
    <3> QED
      BY <3>1, <3>2
  <2>2. CASE n \notin found.folders
    <3>1. n \in next.matched <=> n \in all.matched
      BY <1>3, <2>2
    <3>2. (\E i \in 1 .. m + 1 : LastReach(tr, list, m + 1, i, n) /\ ~Negated(list[i]))
             <=> \E i \in 1 .. m : LastReach(tr, list, m, i, n) /\ ~Negated(list[i])
      BY <1>2, <2>2, Zenon
    <3> QED
      BY <3>1, <3>2, Zenon DEF Decided_
  <2> QED
    BY <2>1, <2>2
<1>7. ASSUME NEW n
      PROVE  n \in next.excluded <=> \E i \in 1 .. m + 1 : LastReach(tr, list, m + 1, i, n) /\ Negated(list[i])
  <2>1. CASE n \in found.folders
    <3>1. n \in next.excluded <=> Negated(entry)
      BY <1>3, <2>1
    <3>2. (\E i \in 1 .. m + 1 : LastReach(tr, list, m + 1, i, n) /\ Negated(list[i])) <=> Negated(list[m + 1])
      BY <1>1, <1>5, <2>1, Zenon
    <3> QED
      BY <3>1, <3>2
  <2>2. CASE n \notin found.folders
    <3>1. n \in next.excluded <=> n \in all.excluded
      BY <1>3, <2>2
    <3>2. (\E i \in 1 .. m + 1 : LastReach(tr, list, m + 1, i, n) /\ Negated(list[i]))
             <=> \E i \in 1 .. m : LastReach(tr, list, m, i, n) /\ Negated(list[i])
      BY <1>2, <2>2, Zenon
    <3> QED
      BY <3>1, <3>2, Zenon DEF Decided_
  <2> QED
    BY <2>1, <2>2
<1>8. next.skipped \subseteq Entries_(tr)
  BY <1>3, <1>4 DEF Decided_
<1> QED
  BY <1>6, <1>7, <1>8 DEF Decided_, next, found

LEMMA EntriesDecide ==
    ASSUME NEW tr, NEW list, Len(list) \in Nat
    PROVE  Decided_(tr, list, Len(list), ApplyEntries(tr, list))
<1> DEFINE m == Len(list)
<1>1. PICK f : /\ f[0] = NotMatched /\ ApplyEntries(tr, list) = f[m]
               /\ \A n \in Nat : n < m =>
                             f[n + 1] = ApplyFound(f[n], list[n + 1], EntryFolders(tr, list[n + 1]))
  BY AppliedIs
<1> DEFINE S == {n \in Nat : Decided_(tr, list, n, f[n])}
<1>2. 0 \in S
  <2>1. f[0].matched = {} /\ f[0].excluded = {} /\ f[0].skipped = {}
    BY <1>1 DEF NotMatched
  <2>2. \A i : i \notin 1 .. 0
    OBVIOUS
  <2>3. Decided_(tr, list, 0, f[0])
    BY <2>1, <2>2 DEF Decided_
  <2> QED
    BY <2>3
<1>3. ASSUME NEW n \in Nat, n < m, n \in S PROVE n + 1 \in S
  <2>1. Decided_(tr, list, n + 1, f[n + 1])
    BY <1>1, <1>3, LastEntryStands
  <2> QED
    BY <2>1
<1> HIDE DEF S
<1>4. \A n \in 0 .. m : n \in S
  BY <1>2, <1>3, UpTo
<1> QED
  BY <1>1, <1>4 DEF S

\* The namespaces there can be.
Space == {Default} \cup {SpaceOf(<<n>>) : n \in FileName}

\* What is left of the list.
LEMMA ResolvedIs ==
    ASSUME NEW tr, Grown(tr), NEW list, Len(list) \in Nat, list # NoEntries
    PROVE  LET all == ApplyEntries(tr, list)
               resolved == ResolveNamespaces(tr, list)
           IN  /\ resolved.skipped = all.skipped /\ resolved.excluded = all.excluded
               /\ resolved.spaces \in Seq(Space)
               /\ \A i \in DOMAIN resolved.spaces :
                    LET s == resolved.spaces[i]
                    IN  s.name \in all.matched /\ s.name \in FileName /\ s = SpaceOf(<<s.name>>)
               /\ resolved.errors = {} =>
                    \A n \in all.matched : \E i \in DOMAIN resolved.spaces : resolved.spaces[i] = SpaceOf(<<n>>)
               /\ \A i, j \in DOMAIN resolved.spaces :
                    i < j => Earlier(resolved.spaces[i].folder, resolved.spaces[j].folder)
<1> DEFINE all == ApplyEntries(tr, list)
           resolved == ResolveNamespaces(tr, list)
           bad == {n \in all.matched : NameProblem(n) \/ Nests(tr, n)}
           good == all.matched \ bad
           paths == {<<n>> : n \in good}
           order == InOrder(paths)
           spaces == [i \in DOMAIN order |-> SpaceOf(order[i])]
<1>1. resolved = Kept(all, bad)
  BY DEF ResolveNamespaces
<1>2. Kept(all, bad) = [spaces |-> spaces, skipped |-> all.skipped, excluded |-> all.excluded,
                        errors |-> all.refused \cup bad]
  BY DEF Kept
<1>3. /\ resolved.spaces = spaces /\ resolved.skipped = all.skipped /\ resolved.excluded = all.excluded
      /\ resolved.errors = all.refused \cup bad
  <2> HIDE DEF resolved, spaces, all, bad
  <2> QED
    BY <1>1, <1>2
<1>4. resolved.errors = {} => good = all.matched
  <2> SUFFICES ASSUME resolved.errors = {} PROVE good = all.matched
    OBVIOUS
  <2>1. bad = {}
    BY <1>3
  <2> HIDE DEF bad, all
  <2> QED
    BY <2>1
<1>5. \A n \in all.matched : <<n>> \in DOMAIN tr /\ n \in FileName /\ <<n>> \in FilePath
  <2> TAKE n \in all.matched
  <2>1. PICK i \in 1 .. Len(list) : Reaches_(tr, list, i, n)
    BY EntriesDecide DEF Decided_, LastReach
  <2>2. n \in Folders_(tr)
    BY <2>1, EntryReaches DEF Reaches_
  <2>3. PICK p \in List(tr, <<>>) : n = p[1]
    BY <2>2 DEF Folders_
  <2>4. p \in DOMAIN tr /\ p \in FilePath /\ p = <<p[1]>> /\ p[1] \in FileName
    BY TopPaths
  <2> QED
    BY <2>3, <2>4
<1>6. paths \in SUBSET FilePath /\ IsFiniteSet(paths)
  <2>1. paths \subseteq FilePath /\ paths \in SUBSET DOMAIN tr
    BY <1>5
  <2>2. IsFiniteSet(DOMAIN tr)
    BY DEF Grown
  <2> HIDE DEF paths
  <2> QED
    BY <2>1, <2>2, FS_Subset
<1>7. Listing(order, paths) /\ Cardinality(paths) \in Nat
  <2> HIDE DEF paths
  <2> QED
    BY <1>6, InOrderLists
<1> HIDE DEF order
<1>8. DOMAIN spaces = 1 .. Cardinality(paths) /\ DOMAIN spaces = DOMAIN order
  BY <1>7 DEF Listing
<1>9. \A i \in DOMAIN spaces : order[i] \in paths /\ spaces[i] = SpaceOf(order[i])
  BY <1>7 DEF Listing
<1>10. ASSUME NEW i \in DOMAIN spaces
       PROVE  /\ spaces[i].name \in all.matched /\ spaces[i].name \in FileName
              /\ spaces[i] = SpaceOf(<<spaces[i].name>>) /\ spaces[i].folder = order[i]
  <2>1. PICK n \in all.matched : order[i] = <<n>>
    BY <1>9
  <2>2. spaces[i] = SpaceOf(<<n>>)
    BY <1>9, <2>1
  <2> HIDE DEF spaces
  <2>3. spaces[i].name = n /\ spaces[i].folder = <<n>>
    BY <2>2 DEF SpaceOf
  <2> QED
    BY <1>5, <2>1, <2>2, <2>3
<1>11. ASSUME resolved.errors = {}, NEW n \in all.matched PROVE \E i \in DOMAIN spaces : spaces[i] = SpaceOf(<<n>>)
  <2>1. <<n>> \in paths
    BY <1>4, <1>11
  <2>2. PICK i \in DOMAIN order : order[i] = <<n>>
    BY <1>7, <2>1 DEF Listing
  <2> QED
    BY <1>8, <1>9, <2>2
<1>12. ASSUME NEW i \in DOMAIN spaces, NEW j \in DOMAIN spaces, i < j
       PROVE  Earlier(spaces[i].folder, spaces[j].folder)
  <2>1. Earlier(order[i], order[j])
    BY <1>7, <1>8, <1>12 DEF Listing
  <2>2. spaces[i].folder = order[i] /\ spaces[j].folder = order[j]
    BY <1>10
  <2> QED
    BY <2>1, <2>2
<1>13. spaces \in Seq(Space)
  <2> DEFINE k == Cardinality(paths)
  <2>1. k \in Nat /\ DOMAIN spaces = 1 .. k /\ spaces = [i \in DOMAIN spaces |-> spaces[i]]
    BY <1>7, <1>8
  <2>2. \A i \in 1 .. k : spaces[i] \in Space
    BY <1>8, <1>10 DEF Space
  <2> HIDE DEF spaces, k
  <2>3. spaces \in [1 .. k -> Space]
    BY <2>1, <2>2
  <2> QED
    BY <2>1, <2>3, SeqDef
<1> HIDE DEF spaces, all, resolved, paths
<1> QED
  BY <1>3, <1>10, <1>11, <1>12, <1>13 DEF all, resolved

-----------------------------------------------------------------------------
(* What stays true of the tree and of the last report.                     *)

ReportInv ==
    report.done =>
        LET resolved == ResolveNamespaces(tree, entries)
        IN  /\ LoadErrors(tree, entries) = {}
            /\ \E run \in Runs :
                 LET scope == ChooseScope(resolved.spaces, None, run.flag, run.variable, run.cwd, Imports)
                 IN  /\ scope # Refused /\ scope.imports = {}
                     /\ report = Report(scope, resolved, Build(tree, resolved.spaces, members))

ReadInv ==
    /\ Grown(tree)
    /\ entries \in Configs /\ members \in MemberLists
    /\ ReportInv

LEMMA FrontIs ==
    ASSUME NEW p \in FilePath, p # <<>>
    PROVE  /\ Front(p) \in FilePath /\ Len(Front(p)) = Len(p) - 1 /\ Len(p) \in Nat /\ Len(p) >= 1
           /\ IsPrefix(Front(p), p) /\ Front(p) # p
<1>1. p \in Seq(FileName)
  BY DEF FilePath
<1>2. Len(p) \in Nat /\ Len(p) >= 1
  BY <1>1, EmptySeq, LenProperties
<1> DEFINE f == SubSeq(p, 1, Len(p) - 1)
<1>3. f \in Seq(FileName) /\ Len(f) = Len(p) - 1 /\ \A i \in 1 .. Len(p) - 1 : f[i] = p[i]
  BY <1>1, <1>2, SubSeqProperties
<1>4. SubSeq(f, 1, Len(f)) = f
  BY <1>3, SubSeqFull
<1>5. Front(p) = f
  BY DEF Front
<1>6. SubSeq(p, 1, Len(f)) = f
  BY <1>3
<1> HIDE DEF f
<1>7. IsPrefix(f, p)
  BY <1>2, <1>3, <1>4, <1>6 DEF IsPrefix
<1> QED
  BY <1>2, <1>3, <1>5, <1>7 DEF FilePath

LEMMA BaseIsGrown == Grown(Base)
BY TreeAssumption DEF Grown

LEMMA MakeGrows ==
    ASSUME Grown(tree), NEW item \in Pool, Make(item)
    PROVE  Grown(tree')
<1> DEFINE p == item.path
<1>1. tree' = [k \in DOMAIN tree \cup {p} |-> IF k = p THEN item.kind ELSE tree[k]]
  BY DEF Make, Bound
<1>2. p \in FilePath /\ item.kind \in Kinds
  BY TreeAssumption
<1>3. IsFiniteSet(DOMAIN tree')
  <2>1. IsFiniteSet(DOMAIN tree \cup {p})
    BY FS_AddElement DEF Grown
  <2> QED
    BY <1>1, <2>1
<1>4. ASSUME NEW q \in DOMAIN tree'
      PROVE  /\ q \in FilePath /\ tree'[q] \in Kinds
             /\ q # <<>> => Front(q) \in DOMAIN tree' /\ tree'[Front(q)] = "folder"
  <2>1. p \notin DOMAIN tree
    BY DEF Make
  <2>2. CASE q = p
    <3>1. Front(p) \in DOMAIN tree /\ tree[Front(p)] = "folder"
      BY DEF Make
    <3> QED
      BY <1>1, <1>2, <2>1, <2>2, <3>1
  <2>3. CASE q # p
    <3>1. q \in DOMAIN tree /\ tree'[q] = tree[q]
      BY <1>1, <2>3
    <3>2. q \in FilePath /\ tree[q] \in Kinds
          /\ (q # <<>> => Front(q) \in DOMAIN tree /\ tree[Front(q)] = "folder")
      BY <3>1 DEF Grown
    <3> QED
      BY <1>1, <2>1, <3>1, <3>2
  <2> QED
    BY <2>2, <2>3
<1> QED
  BY <1>3, <1>4 DEF Grown

LEMMA DeleteGrows ==
    ASSUME Grown(tree), NEW path \in DOMAIN tree, Delete(path)
    PROVE  Grown(tree')
<1>1. tree' = [k \in DOMAIN tree \ {path} |-> tree[k]]
  BY DEF Delete, Restrict
<1>2. IsFiniteSet(DOMAIN tree')
  <2>1. IsFiniteSet(DOMAIN tree \ {path})
    BY FS_RemoveElement DEF Grown
  <2> QED
    BY <1>1, <2>1
<1>3. ASSUME NEW q \in DOMAIN tree'
      PROVE  /\ q \in FilePath /\ tree'[q] \in Kinds
             /\ q # <<>> => Front(q) \in DOMAIN tree' /\ tree'[Front(q)] = "folder"
  <2>1. q \in DOMAIN tree /\ tree'[q] = tree[q]
    BY <1>1
  <2>2. q \in FilePath /\ tree[q] \in Kinds
        /\ (q # <<>> => Front(q) \in DOMAIN tree /\ tree[Front(q)] = "folder")
    BY <2>1 DEF Grown
  <2>3. ASSUME q # <<>> PROVE Front(q) # path
    <3> SUFFICES ASSUME Front(q) = path PROVE FALSE
      OBVIOUS
    <3>1. Len(path) = Len(q) - 1 /\ Len(q) \in Nat /\ IsPrefix(path, q)
      BY <2>2, <2>3, FrontIs
    <3>2. q \in List(tree, path)
      BY <2>1, <3>1 DEF List
    <3> QED
      BY <3>2 DEF Delete
  <2> QED
    BY <1>1, <2>1, <2>2, <2>3
<1> QED
  BY <1>2, <1>3 DEF Grown

LEMMA ReadingStarts == Init => ReadInv
BY BaseIsGrown DEF Init, ReadInv, ReportInv, NoReport

LEMMA ReadingStays == ReadInv /\ [Next]_vars => ReadInv'
<1> SUFFICES ASSUME ReadInv, [Next]_vars PROVE ReadInv'
  OBVIOUS
<1>0. Grown(tree) /\ entries \in Configs /\ members \in MemberLists /\ ReportInv
  BY DEF ReadInv
<1>1. ASSUME NEW run \in Runs, Validate(run) PROVE ReadInv'
  <2>1. tree' = tree /\ entries' = entries /\ members' = members
    BY <1>1 DEF Validate
  <2> DEFINE resolved == ResolveNamespaces(tree, entries)
             scope == ChooseScope(resolved.spaces, None, run.flag, run.variable, run.cwd, Imports)
  <2>2. /\ LoadErrors(tree, entries) = {} /\ scope # Refused /\ scope.imports = {}
        /\ report' = Report(scope, resolved, Build(tree, resolved.spaces, members))
    BY <1>1, Zenon DEF Validate
  <2>3. Report(scope, resolved, Build(tree, resolved.spaces, members))'
          = Report(scope, resolved, Build(tree, resolved.spaces, members))
    BY <2>1, ZenonT(30) DEF Report
  <2>4. ReportInv'
    BY <2>1, <2>2, <2>3, Zenon DEF ReportInv
  <2> QED
    BY <1>0, <2>1, <2>4, Zenon DEF ReadInv
<1>2. ASSUME NEW item \in Pool, Make(item) PROVE ReadInv'
  <2>1. report' = NoReport /\ entries' = entries /\ members' = members
    BY <1>2 DEF Make
  <2>2. Grown(tree')
    BY <1>0, <1>2, MakeGrows
  <2> QED
    BY <1>0, <2>1, <2>2 DEF ReadInv, ReportInv, NoReport
<1>3. ASSUME NEW path \in DOMAIN tree, Delete(path) PROVE ReadInv'
  <2>1. report' = NoReport /\ entries' = entries /\ members' = members
    BY <1>3 DEF Delete
  <2>2. Grown(tree')
    BY <1>0, <1>3, DeleteGrows
  <2> QED
    BY <1>0, <2>1, <2>2 DEF ReadInv, ReportInv, NoReport
<1>4. ASSUME NEW list \in Configs, Configure(list) PROVE ReadInv'
  BY <1>0, <1>4 DEF Configure, ReadInv, ReportInv, NoReport
<1>5. ASSUME UNCHANGED vars PROVE ReadInv'
  <2>1. tree' = tree /\ entries' = entries /\ members' = members /\ report' = report
    BY <1>5 DEF vars
  <2>3. CASE ~report.done
    BY <1>0, <2>1, <2>3, Zenon DEF ReadInv, ReportInv
  <2>4. CASE report.done
    <3> DEFINE resolved == ResolveNamespaces(tree, entries)
               scope(run) == ChooseScope(resolved.spaces, None, run.flag, run.variable, run.cwd, Imports)
    <3>1. PICK run \in Runs : /\ scope(run) # Refused /\ scope(run).imports = {}
                              /\ report = Report(scope(run), resolved, Build(tree, resolved.spaces, members))
      BY <1>0, <2>4, Zenon DEF ReportInv
    <3>2. report' = Report(scope(run), resolved, Build(tree, resolved.spaces, members))'
      <4>1. Report(scope(run), resolved, Build(tree, resolved.spaces, members))'
              = Report(scope(run), resolved, Build(tree, resolved.spaces, members))
        BY <2>1, ZenonT(30) DEF Report
      <4> QED
        BY <2>1, <3>1, <4>1
    <3>3. LoadErrors(tree, entries) = {}
      BY <1>0, <2>4, Zenon DEF ReportInv
    <3>4. ReportInv'
      BY <2>1, <3>1, <3>2, <3>3, Zenon DEF ReportInv
    <3> QED
      BY <1>0, <2>1, <3>4, Zenon DEF ReadInv
  <2> QED
    BY <2>3, <2>4
<1> QED
  BY <1>1, <1>2, <1>3, <1>4, <1>5 DEF Next

-----------------------------------------------------------------------------
(* The last entry that reaches a folder decides.                           *)

LEMMA DecidingLast ==
    ASSUME NEW tr, NEW list, Len(list) \in Nat, DOMAIN list = 1 .. Len(list), NEW n
    PROVE  LET D == {i \in DOMAIN list : n \in EntryFolders(tr, list[i]).folders}
               all == ApplyEntries(tr, list)
           IN  /\ n \in all.matched <=> D # {} /\ ~Negated(list[Max(D)])
               /\ n \in all.excluded <=> D # {} /\ Negated(list[Max(D)])
<1> DEFINE D == {i \in DOMAIN list : n \in EntryFolders(tr, list[i]).folders}
           all == ApplyEntries(tr, list)
           m == Len(list)
<1>1. Decided_(tr, list, m, all)
  BY EntriesDecide
<1>2. D = {i \in 1 .. m : Reaches_(tr, list, i, n)}
  BY DEF Reaches_
<1> HIDE DEF D, all
<1>3. ASSUME D # {} PROVE LastReach(tr, list, m, Max(D), n) /\ Max(D) \in 1 .. m
  <2>1. D \subseteq 0 .. m
    BY <1>2
  <2>2. Max(D) \in D /\ \A k \in D : k <= Max(D)
    BY <1>3, <2>1, MaxNat
  <2> QED
    BY <1>2, <2>2 DEF LastReach
<1>4. ASSUME NEW i \in 1 .. m, LastReach(tr, list, m, i, n) PROVE D # {} /\ Max(D) = i
  <2>1. i \in D
    BY <1>2, <1>4 DEF LastReach
  <2>2. LastReach(tr, list, m, Max(D), n) /\ Max(D) \in 1 .. m
    BY <1>3, <2>1
  <2>3. i <= Max(D) /\ Max(D) <= i
    BY <1>4, <2>2 DEF LastReach
  <2> QED
    BY <2>1, <2>2, <2>3
<1>5. n \in all.matched <=> D # {} /\ ~Negated(list[Max(D)])
  <2>1. n \in all.matched <=> \E i \in 1 .. m : LastReach(tr, list, m, i, n) /\ ~Negated(list[i])
    BY <1>1 DEF Decided_
  <2> QED
    BY <1>3, <1>4, <2>1
<1>6. n \in all.excluded <=> D # {} /\ Negated(list[Max(D)])
  <2>1. n \in all.excluded <=> \E i \in 1 .. m : LastReach(tr, list, m, i, n) /\ Negated(list[i])
    BY <1>1 DEF Decided_
  <2> QED
    BY <1>3, <1>4, <2>1
<1> QED
  BY <1>5, <1>6 DEF D, all

LEMMA ListIs ==
    ASSUME ReadInv
    PROVE  Len(entries) \in Nat /\ DOMAIN entries = 1 .. Len(entries)
<1>1. entries \in Seq(Seq(STRING))
  BY ConfigAssumption DEF ReadInv
<1> QED
  BY <1>1, LenProperties

\* The namespaces of a list.
LEMMA NamesAre ==
    ASSUME ReadInv, entries # NoEntries
    PROVE  LET resolved == ResolveNamespaces(tree, entries)
           IN  /\ NamesOf(resolved.spaces) \subseteq ApplyEntries(tree, entries).matched
               /\ resolved.errors = {} => NamesOf(resolved.spaces) = ApplyEntries(tree, entries).matched
<1> DEFINE resolved == ResolveNamespaces(tree, entries)
           all == ApplyEntries(tree, entries)
           spaces == resolved.spaces
<1>1. Grown(tree) /\ Len(entries) \in Nat
  BY ListIs DEF ReadInv
<1>2. /\ \A i \in DOMAIN spaces : spaces[i].name \in all.matched
      /\ resolved.errors = {} => \A n \in all.matched : \E i \in DOMAIN spaces : spaces[i] = SpaceOf(<<n>>)
  <2>1. /\ \A i \in DOMAIN spaces : LET s == spaces[i]
                                    IN  s.name \in all.matched /\ s.name \in FileName /\ s = SpaceOf(<<s.name>>)
        /\ resolved.errors = {} => \A n \in all.matched : \E i \in DOMAIN spaces : spaces[i] = SpaceOf(<<n>>)
    BY <1>1, ResolvedIs
  <2> HIDE DEF spaces, resolved, all
  <2> QED
    BY <2>1
<1> HIDE DEF spaces, resolved, all
<1>3. NamesOf(spaces) = {spaces[i].name : i \in DOMAIN spaces}
  BY DEF NamesOf, Range
<1>4. \A n : SpaceOf(<<n>>).name = n
  BY DEF SpaceOf
<1>5. NamesOf(spaces) \subseteq all.matched
  BY <1>2, <1>3
<1>6. resolved.errors = {} => all.matched \subseteq NamesOf(spaces)
  <2> SUFFICES ASSUME resolved.errors = {}, NEW n \in all.matched PROVE n \in NamesOf(spaces)
    OBVIOUS
  <2>1. PICK i \in DOMAIN spaces : spaces[i] = SpaceOf(<<n>>)
    BY <1>2
  <2>2. spaces[i].name = n
    BY <1>4, <2>1
  <2> QED
    BY <1>3, <2>2
<1>7. NamesOf(spaces) \subseteq all.matched /\ (resolved.errors = {} => NamesOf(spaces) = all.matched)
  BY <1>5, <1>6
<1> QED
  BY <1>7 DEF spaces, resolved, all

LEMMA NoErrors ==
    ASSUME ReadInv, report.done
    PROVE  report.resolved = ResolveNamespaces(tree, entries) /\ report.resolved.errors = {}
<1> DEFINE resolved == ResolveNamespaces(tree, entries)
<1>1. PICK run \in Runs :
         LET scope == ChooseScope(resolved.spaces, None, run.flag, run.variable, run.cwd, Imports)
         IN  report = Report(scope, resolved, Build(tree, resolved.spaces, members))
  BY Zenon DEF ReadInv, ReportInv
<1>2. report.resolved = resolved
  BY <1>1, ZenonT(30) DEF Report
<1>3. LoadErrors(tree, entries) = {}
  BY Zenon DEF ReadInv, ReportInv
<1>4. resolved.errors = {}
  <2>1. LoadErrors(tree, entries) = resolved.errors \cup Orphans(tree, resolved)
    BY DEF LoadErrors
  <2> HIDE DEF resolved
  <2> QED
    BY <1>3, <2>1
<1> QED
  BY <1>2, <1>4

LEMMA LastDecides == ReadInv => LastEntryDecides
<1> SUFFICES ASSUME ReadInv, report.done, entries # NoEntries PROVE LastEntryDecides
  BY DEF LastEntryDecides
<1> DEFINE Deciding(n) == {i \in DOMAIN entries : n \in EntryFolders(tree, entries[i]).folders}
           folders == {p[1] : p \in {q \in List(tree, <<>>) : tree[q] = "folder"}}
           all == ApplyEntries(tree, entries)
<1>1. Len(entries) \in Nat /\ DOMAIN entries = 1 .. Len(entries) /\ Grown(tree)
  BY ListIs DEF ReadInv
<1>2. /\ NamesOf(report.resolved.spaces) = all.matched
      /\ report.resolved.excluded = all.excluded
  <2>1. report.resolved = ResolveNamespaces(tree, entries) /\ report.resolved.errors = {}
    BY NoErrors
  <2>2. NamesOf(report.resolved.spaces) = all.matched
    BY <2>1, NamesAre
  <2>3. ResolveNamespaces(tree, entries).excluded = all.excluded
    BY <1>1, ResolvedIs
  <2> QED
    BY <2>1, <2>2, <2>3
<1>3. \A n : Deciding(n) # {} => n \in folders
  <2> TAKE n
  <2> HAVE Deciding(n) # {}
  <2>1. PICK i : n \in EntryFolders(tree, entries[i]).folders
    OBVIOUS
  <2> QED
    BY <2>1, EntryReaches DEF Folders_
<1>4. \A n : /\ n \in all.matched <=> Deciding(n) # {} /\ ~Negated(entries[Max(Deciding(n))])
             /\ n \in all.excluded <=> Deciding(n) # {} /\ Negated(entries[Max(Deciding(n))])
  BY <1>1, DecidingLast
<1> HIDE DEF folders, all
<1>5. all.matched = {n \in folders : Deciding(n) # {} /\ ~Negated(entries[Max(Deciding(n))])}
  BY <1>3, <1>4
<1>6. all.excluded = {n \in folders : Deciding(n) # {} /\ Negated(entries[Max(Deciding(n))])}
  BY <1>3, <1>4
<1> QED
  BY <1>2, <1>5, <1>6 DEF LastEntryDecides, folders

LEMMA StateSurvives == ReadInv => StateSurvivesExclusion
<1> SUFFICES ASSUME ReadInv, entries # NoEntries PROVE StateSurvivesExclusion
  BY DEF StateSurvivesExclusion
<1> DEFINE Reaching(n) == {i \in DOMAIN entries : n \in EntryFolders(tree, entries[i]).folders}
           all == ApplyEntries(tree, entries)
           resolved == ResolveNamespaces(tree, entries)
           orphans == Orphans(tree, resolved)
<1>1. Len(entries) \in Nat /\ DOMAIN entries = 1 .. Len(entries) /\ Grown(tree)
  BY ListIs DEF ReadInv
<1>2. NamesOf(resolved.spaces) \subseteq all.matched /\ resolved.excluded = all.excluded
  <2>1. NamesOf(resolved.spaces) \subseteq all.matched
    BY NamesAre
  <2>2. resolved.excluded = all.excluded
    BY <1>1, ResolvedIs
  <2> QED
    BY <2>1, <2>2
<1>3. \A n : /\ n \in all.matched <=> Reaching(n) # {} /\ ~Negated(entries[Max(Reaching(n))])
             /\ n \in all.excluded <=> Reaching(n) # {} /\ Negated(entries[Max(Reaching(n))])
  BY <1>1, DecidingLast
<1>4. orphans = {p \in List(tree, StateFolder) : Last(p) \notin NamesOf(resolved.spaces) \cup resolved.excluded}
  BY DEF Orphans, NamesOf
<1> HIDE DEF all, resolved, orphans
<1>5. ASSUME NEW p \in List(tree, StateFolder)
      PROVE  IF Reaching(Last(p)) = {} THEN p \in orphans
             ELSE Negated(entries[Max(Reaching(Last(p)))]) => p \notin orphans
  <2>1. CASE Reaching(Last(p)) = {}
    <3>1. Last(p) \notin all.matched /\ Last(p) \notin all.excluded
      BY <1>3, <2>1
    <3> QED
      BY <1>2, <1>4, <2>1, <3>1
  <2>2. CASE Reaching(Last(p)) # {} /\ Negated(entries[Max(Reaching(Last(p)))])
    <3>1. Last(p) \in all.excluded
      BY <1>3, <2>2
    <3> QED
      BY <1>2, <1>4, <2>2, <3>1
  <2> QED
    BY <2>1, <2>2
<1> QED
  BY <1>5, Zenon DEF StateSurvivesExclusion, resolved, orphans

-----------------------------------------------------------------------------
(* The walks, one after the other.                                         *)

\* FlattenSeq puts the sequences one behind the other.
IsFlatten(f, seqs, m) == f = [i \in 1 .. m |-> IF i = 1 THEN seqs[i] ELSE f[i - 1] \o seqs[i]]

LEMMA FlattenExists ==
    ASSUME NEW seqs, NEW m \in Nat
    PROVE  \E f : IsFlatten(f, seqs, m)
<1> DEFINE S == {k \in Nat : \E f : IsFlatten(f, seqs, k)}
<1>1. 0 \in S
  <2> DEFINE f == [i \in {} |-> <<>>]
  <2>1. 1 .. 0 = {}
    OBVIOUS
  <2>2. IsFlatten(f, seqs, 0)
    BY <2>1 DEF IsFlatten
  <2> QED
    BY <2>2
<1>2. ASSUME NEW k \in Nat, k \in S PROVE k + 1 \in S
  <2>1. PICK f : IsFlatten(f, seqs, k)
    BY <1>2
  <2> DEFINE g == [i \in 1 .. k + 1 |-> IF i = k + 1 THEN (IF i = 1 THEN seqs[i] ELSE f[k] \o seqs[i]) ELSE f[i]]
  <2>2. \A i \in 1 .. k : f[i] = IF i = 1 THEN seqs[i] ELSE f[i - 1] \o seqs[i]
    BY <2>1 DEF IsFlatten
  <2>3. ASSUME NEW i \in 1 .. k + 1 PROVE g[i] = IF i = 1 THEN seqs[i] ELSE g[i - 1] \o seqs[i]
    <3>1. CASE i = k + 1 /\ i = 1
      BY <3>1
    <3>2. CASE i = k + 1 /\ i # 1
      <4>1. i - 1 = k /\ k \in 1 .. k + 1 /\ k # k + 1
        BY <1>2, <3>2
      <4>2. g[k] = f[k] /\ g[i] = f[k] \o seqs[i]
        BY <3>2, <4>1
      <4> QED
        BY <3>2, <4>1, <4>2
    <3>3. CASE i # k + 1 /\ i = 1
      <4>1. i \in 1 .. k
        BY <1>2, <3>3
      <4> QED
        BY <2>2, <3>3, <4>1
    <3>4. CASE i # k + 1 /\ i # 1
      <4>1. i \in 1 .. k /\ i - 1 \in 1 .. k + 1 /\ i - 1 # k + 1
        BY <1>2, <3>4
      <4>2. g[i] = f[i] /\ g[i - 1] = f[i - 1]
        BY <3>4, <4>1
      <4> QED
        BY <2>2, <3>4, <4>1, <4>2
    <3> QED
      BY <3>1, <3>2, <3>3, <3>4
  <2>4. g = [i \in 1 .. k + 1 |-> g[i]]
    OBVIOUS
  <2>5. IsFlatten(g, seqs, k + 1)
    <3> HIDE DEF g
    <3> QED
      BY <2>3, <2>4 DEF IsFlatten
  <2>6. \E f_ : IsFlatten(f_, seqs, k + 1)
    BY <2>5
  <2> QED
    BY <2>6
<1> HIDE DEF S
<1>3. m \in S
  BY <1>1, <1>2, ByNat
<1> QED
  BY <1>3 DEF S

LEMMA FlattenIs ==
    ASSUME NEW seqs, Len(seqs) \in Nat, Len(seqs) # 0
    PROVE  \E f : /\ FlattenSeq(seqs) = f[Len(seqs)] /\ f[1] = seqs[1]
                  /\ \A i \in 2 .. Len(seqs) : f[i] = f[i - 1] \o seqs[i]
<1> DEFINE m == Len(seqs)
           chosen == CHOOSE f : f = [i \in 1 .. m |-> IF i = 1 THEN seqs[i] ELSE f[i - 1] \o seqs[i]]
<1>1. \E f : IsFlatten(f, seqs, m)
  BY FlattenExists
<1>2. chosen = [i \in 1 .. m |-> IF i = 1 THEN seqs[i] ELSE chosen[i - 1] \o seqs[i]]
  BY <1>1, Zenon DEF IsFlatten
<1>3. FlattenSeq(seqs) = chosen[m]
  BY DEF FlattenSeq
<1> HIDE DEF chosen
<1>4. \A i \in 1 .. m : chosen[i] = IF i = 1 THEN seqs[i] ELSE chosen[i - 1] \o seqs[i]
  BY <1>2
<1>5. chosen[1] = seqs[1]
  <2>1. 1 \in 1 .. m
    OBVIOUS
  <2> QED
    BY <1>4, <2>1
<1>6. ASSUME NEW i \in 2 .. m PROVE chosen[i] = chosen[i - 1] \o seqs[i]
  <2>1. i \in 1 .. m /\ i # 1
    OBVIOUS
  <2> QED
    BY <1>4, <2>1
<1> QED
  BY <1>3, <1>5, <1>6

\* Everything in the sequences once, in their order.
InRow(seqs, k, a, x, h) == a \in 1 .. k /\ x \in 1 .. Len(seqs[a]) /\ h = seqs[a][x]
Behind_(a, x, b, y) == a < b \/ (a = b /\ x < y)
Rows(flat, seqs, k) ==
    /\ \A a \in 1 .. k : \A x \in 1 .. Len(seqs[a]) : \E i \in 1 .. Len(flat) : flat[i] = seqs[a][x]
    /\ \A i \in 1 .. Len(flat) : \E a, x : InRow(seqs, k, a, x, flat[i])
    /\ \A i, j \in 1 .. Len(flat) : i < j =>
         \E a, x, b, y : InRow(seqs, k, a, x, flat[i]) /\ InRow(seqs, k, b, y, flat[j]) /\ Behind_(a, x, b, y)

LEMMA RowsConcat ==
    ASSUME NEW X, NEW flat \in Seq(X), NEW seqs, NEW k \in Nat, Rows(flat, seqs, k), seqs[k + 1] \in Seq(X)
    PROVE  flat \o seqs[k + 1] \in Seq(X) /\ Rows(flat \o seqs[k + 1], seqs, k + 1)
<1> DEFINE t == seqs[k + 1]
           u == flat \o t
           n == Len(flat)
<1>1. /\ u \in Seq(X) /\ Len(u) = n + Len(t) /\ n \in Nat /\ Len(t) \in Nat
      /\ \A i \in 1 .. n : u[i] = flat[i]
      /\ \A i \in 1 .. Len(t) : u[n + i] = t[i]
  <2>1. t \in Seq(X)
    OBVIOUS
  <2> HIDE DEF t
  <2>2. u \in Seq(X) /\ Len(u) = n + Len(t) /\ n \in Nat /\ Len(t) \in Nat
    BY <2>1, ConcatProperties, LenProperties
  <2>3. \A i \in 1 .. Len(u) : u[i] = IF i <= n THEN flat[i] ELSE t[i - n]
    BY <2>1, ConcatProperties
  <2>4. \A i \in 1 .. n : u[i] = flat[i]
    BY <2>2, <2>3
  <2>5. \A i \in 1 .. Len(t) : u[n + i] = t[i]
    <3> TAKE i \in 1 .. Len(t)
    <3>1. n + i \in 1 .. Len(u) /\ ~(n + i <= n) /\ (n + i) - n = i
      BY <2>2
    <3> QED
      BY <2>3, <3>1
  <2> QED
    BY <2>2, <2>4, <2>5
<1>2. \A i \in 1 .. n : i \in 1 .. Len(u)
  BY <1>1
<1>3. \A i \in 1 .. Len(t) : n + i \in 1 .. Len(u)
  BY <1>1
<1>4. \A i \in 1 .. Len(u) : i \in 1 .. n \/ \E j \in 1 .. Len(t) : i = n + j
  <2> TAKE i \in 1 .. Len(u)
  <2>1. i \in 1 .. n \/ (i - n \in 1 .. Len(t) /\ i = n + (i - n))
    BY <1>1
  <2> QED
    BY <2>1
<1> HIDE DEF t, u
<1>5. k + 1 \in 1 .. k + 1 /\ \A a \in 1 .. k + 1 : a = k + 1 \/ a \in 1 .. k
  OBVIOUS
<1>6. \A a, x, h : InRow(seqs, k, a, x, h) => InRow(seqs, k + 1, a, x, h) /\ a \in 1 .. k
  BY DEF InRow
<1>7. \A x \in 1 .. Len(t) : InRow(seqs, k + 1, k + 1, x, t[x])
  BY <1>5 DEF InRow, t
<1>8. \A a \in 1 .. k + 1 : \A x \in 1 .. Len(seqs[a]) : \E i \in 1 .. Len(u) : u[i] = seqs[a][x]
  <2> TAKE a \in 1 .. k + 1
  <2> TAKE x \in 1 .. Len(seqs[a])
  <2>1. CASE a \in 1 .. k
    <3>1. PICK i \in 1 .. n : flat[i] = seqs[a][x]
      BY <2>1 DEF Rows
    <3> QED
      BY <1>1, <1>2, <3>1
  <2>2. CASE a = k + 1
    <3>1. x \in 1 .. Len(t) /\ seqs[a][x] = t[x]
      BY <2>2 DEF t
    <3> QED
      BY <1>1, <1>3, <3>1
  <2> QED
    BY <1>5, <2>1, <2>2
<1>9. \A i \in 1 .. n : \E a, x : InRow(seqs, k + 1, a, x, u[i]) /\ a \in 1 .. k
  BY <1>1, <1>6 DEF Rows
<1>10. \A i \in 1 .. Len(u) : \E a, x : InRow(seqs, k + 1, a, x, u[i])
  <2> TAKE i \in 1 .. Len(u)
  <2>1. CASE i \in 1 .. n
    BY <1>9, <2>1
  <2>2. ASSUME NEW j \in 1 .. Len(t), i = n + j PROVE \E a, x : InRow(seqs, k + 1, a, x, u[i])
    BY <1>1, <1>7, <2>2
  <2> QED
    BY <1>4, <2>1, <2>2
<1>11. \A i, j \in 1 .. Len(u) : i < j =>
         \E a, x, b, y : InRow(seqs, k + 1, a, x, u[i]) /\ InRow(seqs, k + 1, b, y, u[j]) /\ Behind_(a, x, b, y)
  <2> SUFFICES ASSUME NEW i \in 1 .. Len(u), NEW j \in 1 .. Len(u), i < j
               PROVE  \E a, x, b, y : /\ InRow(seqs, k + 1, a, x, u[i]) /\ InRow(seqs, k + 1, b, y, u[j])
                                      /\ Behind_(a, x, b, y)
    OBVIOUS
  <2>1. CASE i \in 1 .. n /\ j \in 1 .. n
    <3>1. PICK a, x, b, y : InRow(seqs, k, a, x, flat[i]) /\ InRow(seqs, k, b, y, flat[j]) /\ Behind_(a, x, b, y)
      BY <2>1 DEF Rows
    <3>2. InRow(seqs, k + 1, a, x, u[i]) /\ InRow(seqs, k + 1, b, y, u[j])
      BY <1>1, <1>6, <2>1, <3>1
    <3> QED
      BY <3>1, <3>2
  <2>2. ASSUME i \in 1 .. n, NEW y \in 1 .. Len(t), j = n + y
        PROVE  \E a, x, b, z : /\ InRow(seqs, k + 1, a, x, u[i]) /\ InRow(seqs, k + 1, b, z, u[j])
                               /\ Behind_(a, x, b, z)
    <3>1. PICK a, x : InRow(seqs, k + 1, a, x, u[i]) /\ a \in 1 .. k
      BY <1>9, <2>2
    <3>2. InRow(seqs, k + 1, k + 1, y, u[j])
      BY <1>1, <1>7, <2>2
    <3>3. Behind_(a, x, k + 1, y)
      BY <3>1 DEF Behind_
    <3> QED
      BY <3>1, <3>2, <3>3
  <2>3. ASSUME NEW x \in 1 .. Len(t), i = n + x, NEW y \in 1 .. Len(t), j = n + y
        PROVE  \E a, z, b, w : /\ InRow(seqs, k + 1, a, z, u[i]) /\ InRow(seqs, k + 1, b, w, u[j])
                               /\ Behind_(a, z, b, w)
    <3>1. InRow(seqs, k + 1, k + 1, x, u[i]) /\ InRow(seqs, k + 1, k + 1, y, u[j])
      BY <1>1, <1>7, <2>3
    <3>2. x < y
      BY <1>1, <2>3
    <3>3. Behind_(k + 1, x, k + 1, y)
      BY <3>2 DEF Behind_
    <3> QED
      BY <3>1, <3>3
  <2>4. ~(i \notin 1 .. n /\ j \in 1 .. n)
    BY <1>1
  <2> QED
    BY <1>4, <2>1, <2>2, <2>3, <2>4
<1> QED
  BY <1>1, <1>8, <1>10, <1>11 DEF Rows, t, u

LEMMA FlattenRows ==
    ASSUME NEW X, NEW seqs \in Seq(Seq(X))
    PROVE  FlattenSeq(seqs) \in Seq(X) /\ Rows(FlattenSeq(seqs), seqs, Len(seqs))
<1> DEFINE m == Len(seqs)
<1>1. m \in Nat /\ \A i \in 1 .. m : seqs[i] \in Seq(X)
  BY ElementOfSeq, LenProperties
<1>2. CASE m = 0
  <2>1. FlattenSeq(seqs) = seqs
    BY <1>2 DEF FlattenSeq
  <2>2. seqs = <<>> /\ seqs \in Seq(X)
    BY <1>2, EmptySeq
  <2>3. 1 .. 0 = {}
    OBVIOUS
  <2>4. Rows(seqs, seqs, 0)
    BY <1>2, <2>3 DEF Rows
  <2> QED
    BY <1>2, <2>1, <2>2, <2>4
<1>3. CASE m # 0
  <2>1. PICK f : /\ FlattenSeq(seqs) = f[m] /\ f[1] = seqs[1]
                 /\ \A i \in 2 .. m : f[i] = f[i - 1] \o seqs[i]
    BY <1>1, <1>3, FlattenIs
  <2> DEFINE S == {n \in Nat : n + 1 <= m => f[n + 1] \in Seq(X) /\ Rows(f[n + 1], seqs, n + 1)}
  <2>2. 0 \in S
    <3> DEFINE t == seqs[1]
    <3>1. f[1] = t /\ t \in Seq(X)
      BY <1>1, <1>3, <2>1
    <3>2. 1 \in 1 .. 1 /\ \A a \in 1 .. 1 : a = 1
      OBVIOUS
    <3>3. Rows(t, seqs, 1)
      <4>1. \A x \in 1 .. Len(t) : InRow(seqs, 1, 1, x, t[x])
        BY <3>2 DEF InRow
      <4>2. \A i, j : i < j => Behind_(1, i, 1, j)
        BY DEF Behind_
      <4>3. \A a \in 1 .. 1 : \A x \in 1 .. Len(seqs[a]) : \E i \in 1 .. Len(t) : t[i] = seqs[a][x]
        BY <3>2
      <4> HIDE DEF t
      <4> QED
        BY <4>1, <4>2, <4>3 DEF Rows
    <3> HIDE DEF t
    <3>4. f[0 + 1] \in Seq(X) /\ Rows(f[0 + 1], seqs, 0 + 1)
      BY <3>1, <3>3
    <3> QED
      BY <3>4
  <2>3. ASSUME NEW n \in Nat, n \in S PROVE n + 1 \in S
    <3> SUFFICES ASSUME (n + 1) + 1 <= m
                 PROVE  f[(n + 1) + 1] \in Seq(X) /\ Rows(f[(n + 1) + 1], seqs, (n + 1) + 1)
      OBVIOUS
    <3>1. n + 1 <= m /\ n + 1 \in Nat
      BY <1>1
    <3>2. f[n + 1] \in Seq(X) /\ Rows(f[n + 1], seqs, n + 1)
      BY <2>3, <3>1
    <3>3. (n + 1) + 1 \in 2 .. m /\ ((n + 1) + 1) - 1 = n + 1 /\ (n + 1) + 1 \in 1 .. m
      BY <1>1
    <3>4. f[(n + 1) + 1] = f[n + 1] \o seqs[(n + 1) + 1]
      BY <2>1, <3>3
    <3>5. seqs[(n + 1) + 1] \in Seq(X)
      BY <1>1, <3>3
    <3> DEFINE k == n + 1
    <3> HIDE DEF k, S
    <3>6. f[k] \o seqs[k + 1] \in Seq(X) /\ Rows(f[k] \o seqs[k + 1], seqs, k + 1)
      BY <3>1, <3>2, <3>5, RowsConcat DEF k
    <3> QED
      BY <3>4, <3>6 DEF k
  <2> HIDE DEF S
  <2>4. m - 1 \in S
    <3>1. Nat \subseteq S
      BY <2>2, <2>3, ByNat
    <3>2. m - 1 \in Nat
      BY <1>1, <1>3
    <3> QED
      BY <3>1, <3>2
  <2>5. (m - 1) + 1 = m
    BY <1>1
  <2> QED
    BY <1>1, <2>1, <2>4, <2>5 DEF S
<1> QED
  BY <1>2, <1>3

-----------------------------------------------------------------------------
(* The namespaces of a run.                                                *)

GoodSpaces(spaces) ==
    /\ spaces \in Seq(Space)
    /\ \/ spaces = <<Default>>
       \/ \A i \in 1 .. Len(spaces) : spaces[i].name \in FileName /\ spaces[i] = SpaceOf(<<spaces[i].name>>)
    /\ \A i, j \in 1 .. Len(spaces) : i # j => spaces[i].name # spaces[j].name

LEMMA NamePath ==
    ASSUME NEW n \in FileName
    PROVE  /\ <<n>> \in FilePath /\ Len(<<n>>) = 1 /\ <<n>>[1] = n
           /\ SpaceOf(<<n>>).name = n /\ SpaceOf(<<n>>).folder = <<n>>
BY DEF FilePath, SpaceOf

LEMMA SpaceFolder ==
    ASSUME NEW s \in Space
    PROVE  s.folder \in FilePath
<1>1. CASE s = Default
  <2>1. <<>> \in Seq(FileName)
    OBVIOUS
  <2> QED
    BY <1>1, <2>1 DEF Default, FilePath
<1>2. ASSUME NEW n \in FileName, s = SpaceOf(<<n>>) PROVE s.folder \in FilePath
  BY <1>2, NamePath
<1> QED
  BY <1>1, <1>2 DEF Space

LEMMA SpacesAre ==
    ASSUME ReadInv
    PROVE  GoodSpaces(ResolveNamespaces(tree, entries).spaces)
<1> DEFINE resolved == ResolveNamespaces(tree, entries)
           spaces == resolved.spaces
<1>1. CASE entries = NoEntries
  <2>1. spaces = <<Default>>
    BY <1>1 DEF ResolveNamespaces
  <2>2. <<Default>> \in Seq(Space) /\ Len(<<Default>>) = 1
    BY DEF Space
  <2>3. \A i, j \in 1 .. 1 : i = j
    OBVIOUS
  <2> HIDE DEF spaces
  <2> QED
    BY <2>1, <2>2, <2>3 DEF GoodSpaces, spaces
<1>2. CASE entries # NoEntries
  <2>1. Grown(tree) /\ Len(entries) \in Nat
    BY ListIs DEF ReadInv
  <2> DEFINE all == ApplyEntries(tree, entries)
  <2>2. /\ spaces \in Seq(Space)
        /\ \A i \in DOMAIN spaces :
             LET s == spaces[i]
             IN  s.name \in all.matched /\ s.name \in FileName /\ s = SpaceOf(<<s.name>>)
        /\ \A i, j \in DOMAIN spaces : i < j => Earlier(spaces[i].folder, spaces[j].folder)
    BY <1>2, <2>1, ResolvedIs
  <2> HIDE DEF spaces
  <2>3. DOMAIN spaces = 1 .. Len(spaces) /\ Len(spaces) \in Nat
    BY <2>2, LenProperties
  <2>4. \A i \in 1 .. Len(spaces) : spaces[i].name \in FileName /\ spaces[i] = SpaceOf(<<spaces[i].name>>)
    BY <2>2, <2>3
  <2>5. ASSUME NEW i \in 1 .. Len(spaces), NEW j \in 1 .. Len(spaces), i < j PROVE spaces[i].name # spaces[j].name
    <3>1. spaces[i].folder = <<spaces[i].name>> /\ spaces[j].folder = <<spaces[j].name>>
      BY <2>4, NamePath
    <3>2. spaces[i].folder \in FilePath /\ Earlier(spaces[i].folder, spaces[j].folder)
      BY <2>2, <2>3, <2>4, <2>5, <3>1, NamePath
    <3> QED
      BY <3>1, <3>2, EarlierIsOrder
  <2>6. \A i, j \in 1 .. Len(spaces) : i # j => spaces[i].name # spaces[j].name
    <3> TAKE i, j \in 1 .. Len(spaces)
    <3>1. i < j \/ j < i \/ i = j
      OBVIOUS
    <3> QED
      BY <2>5, <3>1
  <2> QED
    BY <2>2, <2>4, <2>6 DEF GoodSpaces, spaces
<1> QED
  BY <1>1, <1>2

\* What lies in the folder of a namespace.
LEMMA BeneathFolder ==
    ASSUME NEW tr, Grown(tr), NEW dir \in FilePath, NEW p \in Beneath(tr, dir)
    PROVE  /\ p \in DOMAIN tr /\ p \in FilePath /\ p # <<>> /\ Len(dir) < Len(p)
           /\ \A i \in 1 .. Len(dir) : p[i] = dir[i]
<1>1. p \in DOMAIN tr /\ p # dir /\ IsPrefix(dir, p)
  BY DEF Beneath
<1>2. p \in FilePath
  BY <1>1 DEF Grown
<1>3. p \in Seq(FileName) /\ dir \in Seq(FileName) /\ Len(p) \in Nat /\ Len(dir) \in Nat
  BY <1>2, LenProperties DEF FilePath
<1>4. Len(dir) <= Len(p) /\ SubSeq(dir, 1, Len(dir)) = SubSeq(p, 1, Len(dir))
  BY <1>1 DEF IsPrefix
<1>5. \A i \in 1 .. Len(dir) : dir[i] = p[i]
  <2>1. Len(dir) <= Len(dir)
    BY <1>3
  <2> QED
    BY <1>3, <1>4, <2>1, SamePrefix
<1>6. Len(dir) # Len(p)
  BY <1>1, <1>3, <1>5, SeqEqual
<1>7. Len(dir) < Len(p)
  <2> DEFINE k == Len(dir)
             l == Len(p)
  <2>1. k \in Nat /\ l \in Nat /\ k <= l /\ k # l
    BY <1>3, <1>4, <1>6
  <2> HIDE DEF k, l
  <2>2. k < l
    BY <2>1
  <2> QED
    BY <2>2 DEF k, l
<1>8. p # <<>>
  BY <1>3, <1>7
<1> QED
  BY <1>1, <1>2, <1>5, <1>7, <1>8

LEMMA IsBeneath ==
    ASSUME NEW dir \in FilePath, NEW p \in FilePath, Len(dir) <= Len(p), \A i \in 1 .. Len(dir) : p[i] = dir[i]
    PROVE  IsPrefix(dir, p)
<1>1. p \in Seq(FileName) /\ dir \in Seq(FileName) /\ Len(p) \in Nat /\ Len(dir) \in Nat
  BY LenProperties DEF FilePath
<1>2. \A i \in 1 .. Len(dir) : dir[i] = p[i]
  OBVIOUS
<1>3. Len(dir) <= Len(dir)
  BY <1>1
<1>4. SubSeq(dir, 1, Len(dir)) = SubSeq(p, 1, Len(dir))
  BY <1>1, <1>2, <1>3, SamePrefix
<1> QED
  BY <1>4 DEF IsPrefix

LEMMA BeneathSpace ==
    ASSUME NEW tr, Grown(tr), NEW n \in FileName, NEW p \in Beneath(tr, SpaceOf(<<n>>).folder)
    PROVE  p[1] = n /\ p # <<n>>
<1>1. /\ <<n>> \in FilePath /\ Len(<<n>>) = 1 /\ <<n>>[1] = n
      /\ SpaceOf(<<n>>).folder = <<n>>
  BY NamePath
<1>2. p \in Beneath(tr, <<n>>)
  BY <1>1
<1> DEFINE d == <<n>>
<1> HIDE DEF d
<1>3. Len(d) < Len(p) /\ \A i \in 1 .. Len(d) : p[i] = d[i]
  BY <1>1, <1>2, BeneathFolder DEF d
<1>4. p[1] = d[1]
  BY <1>1, <1>3 DEF d
<1>5. p # d
  BY <1>2 DEF Beneath, d
<1> QED
  BY <1>1, <1>4, <1>5 DEF d

-----------------------------------------------------------------------------
(* What a walk finds.                                                      *)

LEMMA WalkBeneath ==
    ASSUME NEW tr, NEW dir, NEW t, NEW r \in Walk(tr, dir, t)
    PROVE  r.path \in Beneath(tr, dir)
<1> DEFINE found(p) == UNION {(IF Enters(tr, p, t, at) # {} THEN Enter(tr, p) ELSE {})
                          \cup (IF Takes(tr, p, t, at) THEN Take(tr, p) ELSE {}) :
                            at \in Stands(tr, dir, t, Front(p))}
<1>1. PICK p \in Beneath(tr, dir) : r \in found(p)
  BY DEF Walk
<1>2. r \in Enter(tr, p) \cup Take(tr, p)
  <2>1. PICK at \in Stands(tr, dir, t, Front(p)) :
            r \in (IF Enters(tr, p, t, at) # {} THEN Enter(tr, p) ELSE {})
                  \cup (IF Takes(tr, p, t, at) THEN Take(tr, p) ELSE {})
    BY <1>1
  <2> QED
    BY <2>1
<1>3. \A as : Reached(p, as).path = p
  BY DEF Reached
<1>4. \A x \in Enter(tr, p) \cup Take(tr, p) : x.path = p
  BY <1>3 DEF Enter, Take
<1> QED
  BY <1>1, <1>2, <1>4

\* The files that a walk finds for a collection.
Found(tr, dir, t) == Of(Walk(tr, dir, t), "document")
Readable(tr, p) == tr[p] = "file" /\ ~IsTempName(Last(p)) /\ Utf8(Last(p))

LEMMA DocumentIs ==
    ASSUME NEW tr, NEW dir, NEW t, NEW p
    PROVE  p \in Found(tr, dir, t) <=>
             /\ p \in Beneath(tr, dir) /\ Readable(tr, p)
             /\ \E at \in Stands(tr, dir, t, Front(p)) : Takes(tr, p, t, at)
<1> DEFINE found(q) == UNION {(IF Enters(tr, q, t, at) # {} THEN Enter(tr, q) ELSE {})
                          \cup (IF Takes(tr, q, t, at) THEN Take(tr, q) ELSE {}) :
                            at \in Stands(tr, dir, t, Front(q))}
           doc == Reached(p, "document")
<1>1. /\ \A q, as : Reached(q, as).path = q /\ Reached(q, as).as = as
      /\ "document" # "leftover" /\ "document" # "link" /\ "document" # "notUtf8"
  BY DEF Reached
<1>2. Readable(tr, p) => doc \in Take(tr, p)
  BY DEF Readable, Take, Links
<1>3. \A r \in Take(tr, p) : r.as = "document" => Readable(tr, p)
  BY <1>1 DEF Readable, Take, Links
<1>4. \A q : \A r \in Enter(tr, q) : r.as # "document" /\ r.path = q
  BY <1>1 DEF Enter
<1>5. \A q : \A r \in Take(tr, q) : r.path = q
  BY <1>1 DEF Take
<1>6. ASSUME p \in Found(tr, dir, t)
      PROVE  /\ p \in Beneath(tr, dir) /\ Readable(tr, p)
             /\ \E at \in Stands(tr, dir, t, Front(p)) : Takes(tr, p, t, at)
  <2>1. PICK r \in Walk(tr, dir, t) : r.as = "document" /\ r.path = p
    BY <1>6 DEF Found, Of
  <2>2. PICK q \in Beneath(tr, dir) : r \in found(q)
    BY DEF Walk
  <2>3. PICK at \in Stands(tr, dir, t, Front(q)) :
            r \in (IF Enters(tr, q, t, at) # {} THEN Enter(tr, q) ELSE {})
                  \cup (IF Takes(tr, q, t, at) THEN Take(tr, q) ELSE {})
    BY <2>2
  <2>4. Takes(tr, q, t, at) /\ r \in Take(tr, q)
    BY <1>4, <2>1, <2>3
  <2>5. q = p
    BY <1>5, <2>1, <2>4
  <2> QED
    BY <1>3, <2>1, <2>3, <2>4, <2>5
<1>7. ASSUME p \in Beneath(tr, dir), Readable(tr, p), NEW at \in Stands(tr, dir, t, Front(p)), Takes(tr, p, t, at)
      PROVE  p \in Found(tr, dir, t)
  <2>1. doc \in found(p)
    BY <1>2, <1>7
  <2>2. doc \in Walk(tr, dir, t)
    BY <1>7, <2>1 DEF Walk
  <2> QED
    BY <1>1, <2>2 DEF Found, Of
<1> QED
  BY <1>6, <1>7

-----------------------------------------------------------------------------
(* The files of all walks, in their order.                                 *)

AnyHit(M) == [path : FilePath, member : M, space : Space]

LEMMA HitsOfAre ==
    ASSUME NEW tr, Grown(tr), NEW M, NEW m \in M, NEW s \in Space
    PROVE  LET found == Found(tr, s.folder, m.template)
               hits == HitsOf(tr, s, m)
           IN  /\ hits \in Seq(AnyHit(M))
               /\ \A i \in 1 .. Len(hits) : hits[i].path \in found /\ hits[i] = Hit(hits[i].path, m, s)
               /\ \A p \in found : \E i \in 1 .. Len(hits) : hits[i] = Hit(p, m, s)
               /\ \A i, j \in 1 .. Len(hits) : i < j => Earlier(hits[i].path, hits[j].path)
<1> DEFINE found == Found(tr, s.folder, m.template)
           order == InOrder(found)
           hits == HitsOf(tr, s, m)
           k == Cardinality(found)
<1>1. found \in SUBSET FilePath /\ IsFiniteSet(found)
  <2>1. found \subseteq DOMAIN tr
    BY DocumentIs DEF Beneath
  <2>2. DOMAIN tr \subseteq FilePath /\ IsFiniteSet(DOMAIN tr)
    BY DEF Grown
  <2> HIDE DEF found
  <2>3. found \in SUBSET DOMAIN tr
    BY <2>1
  <2>4. IsFiniteSet(found)
    BY <2>2, <2>3, FS_Subset
  <2> QED
    BY <2>1, <2>2, <2>4
<1>2. Listing(order, found) /\ k \in Nat
  <2> HIDE DEF found
  <2> QED
    BY <1>1, InOrderLists
<1>3. hits = [i \in DOMAIN order |-> Hit(order[i], m, s)]
  BY DEF HitsOf, Found
<1> HIDE DEF hits, order, found
<1>4. DOMAIN order = 1 .. k /\ \A i \in 1 .. k : order[i] \in found /\ order[i] \in FilePath
  BY <1>1, <1>2 DEF Listing
<1>5. \A i \in 1 .. k : /\ hits[i] = Hit(order[i], m, s) /\ hits[i].path = order[i]
                       /\ hits[i] \in AnyHit(M)
  BY <1>3, <1>4 DEF Hit, AnyHit
<1>6. hits \in Seq(AnyHit(M)) /\ Len(hits) = k
  <2> HIDE DEF k
  <2>1. hits \in [1 .. k -> AnyHit(M)]
    BY <1>3, <1>4, <1>5
  <2>2. hits \in Seq(AnyHit(M))
    BY <1>2, <2>1, SeqDef
  <2>3. DOMAIN hits = 1 .. Len(hits) /\ Len(hits) \in Nat /\ DOMAIN hits = 1 .. k
    BY <2>1, <2>2, LenProperties
  <2>4. Len(hits) = k
    BY <1>2, <2>1, <2>3, LenProperties
  <2> QED
    BY <2>2, <2>4
<1>7. \A i \in 1 .. k : hits[i].path \in found /\ hits[i] = Hit(hits[i].path, m, s)
  BY <1>4, <1>5
<1>8. \A p \in found : \E i \in 1 .. k : hits[i] = Hit(p, m, s)
  <2> TAKE p \in found
  <2>1. PICK i \in 1 .. k : order[i] = p
    BY <1>2, <1>4 DEF Listing
  <2> QED
    BY <1>5, <2>1
<1>9. \A i, j \in 1 .. k : i < j => Earlier(hits[i].path, hits[j].path)
  BY <1>2, <1>4, <1>5 DEF Listing
<1> QED
  BY <1>6, <1>7, <1>8, <1>9 DEF hits, found

\* The file p of the j-th collection in the s-th namespace.
IsHit(tr, spaces, list, s, j, p, h) ==
    /\ s \in 1 .. Len(spaces) /\ j \in 1 .. Len(list)
    /\ p \in Found(tr, spaces[s].folder, list[j].template)
    /\ h = Hit(p, list[j], spaces[s])
After_(s, j, p, t, l, q) == s < t \/ (s = t /\ (j < l \/ (j = l /\ Earlier(p, q))))
GoodMembers(list) == list \in Seq(Range(list))

HitsListed(tr, spaces, list, hits) ==
    /\ hits \in Seq(AnyHit(Range(list)))
    /\ \A i \in 1 .. Len(hits) : \E s, j, p : IsHit(tr, spaces, list, s, j, p, hits[i])
    /\ \A s, j, p : IsHit(tr, spaces, list, s, j, p, Hit(p, list[j], spaces[s])) =>
         \E i \in 1 .. Len(hits) : hits[i] = Hit(p, list[j], spaces[s])
    /\ \A i, k \in 1 .. Len(hits) : i < k =>
         \E s, j, p, t, l, q :
            /\ IsHit(tr, spaces, list, s, j, p, hits[i]) /\ IsHit(tr, spaces, list, t, l, q, hits[k])
            /\ After_(s, j, p, t, l, q)

\* The walks of one namespace.
LEMMA HitsInAre ==
    ASSUME NEW tr, Grown(tr), NEW list, GoodMembers(list), NEW s \in Space
    PROVE  HitsListed(tr, <<s>>, list, HitsIn(tr, s, list))
<1> DEFINE M == Range(list)
           X == AnyHit(M)
           m == Len(list)
           one == <<s>>
           rows == [j \in DOMAIN list |-> HitsOf(tr, s, list[j])]
           hits == HitsIn(tr, s, list)
<1>0. Len(one) = 1 /\ one[1] = s /\ 1 \in 1 .. Len(one) /\ \A i \in 1 .. Len(one) : i = 1
  OBVIOUS
<1>1. m \in Nat /\ DOMAIN list = 1 .. m /\ \A j \in 1 .. m : list[j] \in M
  BY ElementOfSeq, LenProperties DEF GoodMembers
<1>2. \A j \in 1 .. m :
         LET row == rows[j]
         IN  /\ row = HitsOf(tr, s, list[j]) /\ row \in Seq(X)
             /\ \A i \in 1 .. Len(row) : /\ row[i].path \in Found(tr, s.folder, list[j].template)
                                        /\ row[i] = Hit(row[i].path, list[j], s)
             /\ \A p \in Found(tr, s.folder, list[j].template) :
                   \E i \in 1 .. Len(row) : row[i] = Hit(p, list[j], s)
             /\ \A i, k \in 1 .. Len(row) : i < k => Earlier(row[i].path, row[k].path)
  <2> TAKE j \in 1 .. m
  <2> DEFINE line == HitsOf(tr, s, list[j])
  <2>1. list[j] \in M /\ rows[j] = line
    BY <1>1
  <2>2. /\ line \in Seq(X)
        /\ \A i \in 1 .. Len(line) : /\ line[i].path \in Found(tr, s.folder, list[j].template)
                                    /\ line[i] = Hit(line[i].path, list[j], s)
        /\ \A p \in Found(tr, s.folder, list[j].template) :
              \E i \in 1 .. Len(line) : line[i] = Hit(p, list[j], s)
        /\ \A i, k \in 1 .. Len(line) : i < k => Earlier(line[i].path, line[k].path)
    <3> HIDE DEF M
    <3> QED
      BY <2>1, HitsOfAre
  <2> HIDE DEF rows, X
  <2>3. rows[j] = HitsOf(tr, s, list[j])
    BY <2>1
  <2> HIDE DEF line
  <2> QED
    BY <2>1, <2>2, <2>3
<1>3. rows \in Seq(Seq(X)) /\ Len(rows) = m
  <2> HIDE DEF X
  <2>0. DOMAIN rows = 1 .. m /\ rows = [j \in DOMAIN rows |-> rows[j]]
    BY <1>1
  <2> HIDE DEF m, rows
  <2>1. rows \in [1 .. m -> Seq(X)]
    BY <1>2, <2>0
  <2>2. rows \in Seq(Seq(X))
    BY <1>1, <2>1, SeqDef
  <2>3. DOMAIN rows = 1 .. Len(rows) /\ Len(rows) \in Nat /\ DOMAIN rows = 1 .. m
    BY <2>1, <2>2, LenProperties
  <2>4. Len(rows) = m
    BY <1>1, <2>1, <2>3, LenProperties
  <2> QED
    BY <2>2, <2>4
<1>4. hits = FlattenSeq(rows)
  BY DEF HitsIn
<1>5. hits \in Seq(X) /\ Rows(hits, rows, m)
  BY <1>3, <1>4, FlattenRows
<1> HIDE DEF hits, rows, one, X, m, M
<1>6. ASSUME NEW j, NEW x, NEW h, InRow(rows, m, j, x, h)
      PROVE  /\ IsHit(tr, one, list, 1, j, h.path, h) /\ j \in 1 .. m
             /\ \A y, g : InRow(rows, m, j, y, g) /\ x < y => Earlier(h.path, g.path)
  <2>1. j \in 1 .. m /\ x \in 1 .. Len(rows[j]) /\ h = rows[j][x]
    BY <1>6 DEF InRow
  <2> DEFINE row == rows[j]
  <2>2. rows[j] = row
    OBVIOUS
  <2>3. /\ \A i \in 1 .. Len(row) : /\ row[i].path \in Found(tr, s.folder, list[j].template)
                                   /\ row[i] = Hit(row[i].path, list[j], s)
        /\ \A i, k \in 1 .. Len(row) : i < k => Earlier(row[i].path, row[k].path)
    BY <1>2, <2>1
  <2> HIDE DEF row
  <2>4. IsHit(tr, one, list, 1, j, h.path, h)
    BY <1>0, <2>1, <2>2, <2>3 DEF IsHit, m
  <2>5. ASSUME NEW y, NEW g, InRow(rows, m, j, y, g), x < y PROVE Earlier(h.path, g.path)
    <3>1. y \in 1 .. Len(row) /\ g = row[y]
      BY <2>2, <2>5 DEF InRow
    <3>2. x \in 1 .. Len(row) /\ h = row[x]
      BY <2>1, <2>2
    <3> QED
      BY <2>3, <2>5, <3>1, <3>2
  <2> QED
    BY <2>1, <2>4, <2>5
<1>7. \A i \in 1 .. Len(hits) : \E t, j, p : IsHit(tr, one, list, t, j, p, hits[i])
  BY <1>5, <1>6 DEF Rows
<1>8. ASSUME NEW t, NEW j, NEW p, IsHit(tr, one, list, t, j, p, Hit(p, list[j], one[t]))
      PROVE  \E i \in 1 .. Len(hits) : hits[i] = Hit(p, list[j], one[t])
  <2>1. t = 1 /\ j \in 1 .. m /\ p \in Found(tr, s.folder, list[j].template)
    BY <1>0, <1>8 DEF IsHit, m
  <2> DEFINE row == rows[j]
  <2>2. rows[j] = row
    OBVIOUS
  <2>3. PICK x \in 1 .. Len(row) : row[x] = Hit(p, list[j], s)
    BY <1>2, <2>1
  <2> HIDE DEF row
  <2>4. PICK i \in 1 .. Len(hits) : hits[i] = rows[j][x]
    BY <1>5, <2>1, <2>2 DEF Rows
  <2> QED
    BY <1>0, <2>1, <2>2, <2>3, <2>4
<1>9. ASSUME NEW i \in 1 .. Len(hits), NEW k \in 1 .. Len(hits), i < k
      PROVE  \E t, j, p, u, l, q :
                /\ IsHit(tr, one, list, t, j, p, hits[i]) /\ IsHit(tr, one, list, u, l, q, hits[k])
                /\ After_(t, j, p, u, l, q)
  <2>1. PICK a, x, b, y : InRow(rows, m, a, x, hits[i]) /\ InRow(rows, m, b, y, hits[k]) /\ Behind_(a, x, b, y)
    BY <1>5, <1>9 DEF Rows
  <2>2. /\ IsHit(tr, one, list, 1, a, hits[i].path, hits[i])
        /\ IsHit(tr, one, list, 1, b, hits[k].path, hits[k])
    BY <1>6, <2>1
  <2>3. After_(1, a, hits[i].path, 1, b, hits[k].path)
    BY <1>6, <2>1 DEF After_, Behind_
  <2> QED
    BY <2>2, <2>3
<1> QED
  BY <1>5, <1>7, <1>8, <1>9 DEF HitsListed, hits, one, X, M

LEMMA HitsAre ==
    ASSUME NEW tr, Grown(tr), NEW list, GoodMembers(list), NEW spaces \in Seq(Space)
    PROVE  HitsListed(tr, spaces, list, Hits(tr, spaces, list))
<1> DEFINE M == Range(list)
           X == AnyHit(M)
           n == Len(spaces)
           rows == [s \in DOMAIN spaces |-> HitsIn(tr, spaces[s], list)]
           hits == Hits(tr, spaces, list)
<1>1. n \in Nat /\ DOMAIN spaces = 1 .. n /\ \A s \in 1 .. n : spaces[s] \in Space
  BY ElementOfSeq, LenProperties
<1>2. \A s \in 1 .. n : rows[s] = HitsIn(tr, spaces[s], list) /\ HitsListed(tr, <<spaces[s]>>, list, rows[s])
  BY <1>1, HitsInAre
<1>3. rows \in Seq(Seq(X)) /\ Len(rows) = n
  <2> HIDE DEF X
  <2>0. DOMAIN rows = 1 .. n /\ rows = [s \in DOMAIN rows |-> rows[s]]
    BY <1>1
  <2>1. \A s \in 1 .. n : rows[s] \in Seq(X)
    BY <1>2, Zenon DEF HitsListed, X
  <2> HIDE DEF n, rows
  <2>2. rows \in [1 .. n -> Seq(X)]
    BY <2>0, <2>1
  <2>3. rows \in Seq(Seq(X))
    BY <1>1, <2>2, SeqDef
  <2>4. DOMAIN rows = 1 .. Len(rows) /\ Len(rows) \in Nat /\ DOMAIN rows = 1 .. n
    BY <2>2, <2>3, LenProperties
  <2>5. Len(rows) = n
    BY <1>1, <2>2, <2>4, LenProperties
  <2> QED
    BY <2>3, <2>5
<1>4. hits = FlattenSeq(rows)
  BY DEF Hits
<1>5. hits \in Seq(X) /\ Rows(hits, rows, n)
  BY <1>3, <1>4, FlattenRows
<1> HIDE DEF hits, rows, X, n, M
<1>6. \A s \in 1 .. n : \A t, j, p, h :
         IsHit(tr, <<spaces[s]>>, list, t, j, p, h) <=> (t = 1 /\ IsHit(tr, spaces, list, s, j, p, h))
  <2> TAKE s \in 1 .. n
  <2> TAKE t, j, p, h
  <2>1. Len(<<spaces[s]>>) = 1 /\ <<spaces[s]>>[1] = spaces[s] /\ (t \in 1 .. 1 <=> t = 1)
    OBVIOUS
  <2>2. s \in 1 .. Len(spaces)
    BY DEF n
  <2> QED
    BY <2>1, <2>2 DEF IsHit
<1>7. ASSUME NEW s, NEW x, NEW h, InRow(rows, n, s, x, h)
      PROVE  /\ s \in 1 .. n /\ \E j, p : IsHit(tr, spaces, list, s, j, p, h)
             /\ \A y, g : InRow(rows, n, s, y, g) /\ x < y =>
                  \E j, p, l, q : /\ IsHit(tr, spaces, list, s, j, p, h) /\ IsHit(tr, spaces, list, s, l, q, g)
                                  /\ After_(s, j, p, s, l, q)
  <2> DEFINE row == rows[s]
             one == <<spaces[s]>>
  <2>1. s \in 1 .. n /\ x \in 1 .. Len(row) /\ h = row[x]
    BY <1>7 DEF InRow
  <2>2. HitsListed(tr, one, list, row)
    BY <1>2, <2>1
  <2> HIDE DEF row, one
  <2>3. PICK t, j, p : IsHit(tr, one, list, t, j, p, h)
    BY <2>1, <2>2 DEF HitsListed
  <2>4. IsHit(tr, spaces, list, s, j, p, h)
    BY <1>6, <2>1, <2>3 DEF one
  <2>5. ASSUME NEW y, NEW g, InRow(rows, n, s, y, g), x < y
        PROVE  \E j_, p_, l, q : /\ IsHit(tr, spaces, list, s, j_, p_, h) /\ IsHit(tr, spaces, list, s, l, q, g)
                                 /\ After_(s, j_, p_, s, l, q)
    <3>1. y \in 1 .. Len(row) /\ g = row[y]
      BY <2>5 DEF InRow, row
    <3>2. PICK a, c, e, b, d, f : /\ IsHit(tr, one, list, a, c, e, h) /\ IsHit(tr, one, list, b, d, f, g)
                                  /\ After_(a, c, e, b, d, f)
      BY <2>1, <2>2, <2>5, <3>1 DEF HitsListed
    <3>3. /\ a = 1 /\ b = 1 /\ IsHit(tr, spaces, list, s, c, e, h) /\ IsHit(tr, spaces, list, s, d, f, g)
      BY <1>6, <2>1, <3>2 DEF one
    <3>4. After_(s, c, e, s, d, f)
      BY <3>2, <3>3 DEF After_
    <3> QED
      BY <3>3, <3>4
  <2> QED
    BY <2>1, <2>4, <2>5
<1>8. \A i \in 1 .. Len(hits) : \E s, j, p : IsHit(tr, spaces, list, s, j, p, hits[i])
  <2> TAKE i \in 1 .. Len(hits)
  <2>1. PICK s, x : InRow(rows, n, s, x, hits[i])
    BY <1>5 DEF Rows
  <2> QED
    BY <1>7, <2>1
<1>9. ASSUME NEW s, NEW j, NEW p, IsHit(tr, spaces, list, s, j, p, Hit(p, list[j], spaces[s]))
      PROVE  \E i \in 1 .. Len(hits) : hits[i] = Hit(p, list[j], spaces[s])
  <2> DEFINE row == rows[s]
             h == Hit(p, list[j], spaces[s])
             one == <<spaces[s]>>
  <2>1. s \in 1 .. n
    BY <1>9 DEF IsHit, n
  <2>2. IsHit(tr, one, list, 1, j, p, h)
    BY <1>6, <1>9, <2>1
  <2>3. HitsListed(tr, one, list, row) /\ one[1] = spaces[s]
    BY <1>2, <2>1
  <2>4. h = Hit(p, list[j], one[1])
    BY <2>3
  <2> HIDE DEF row, one, h
  <2>5. PICK x \in 1 .. Len(row) : row[x] = h
    BY <2>2, <2>3, <2>4 DEF HitsListed
  <2>6. PICK i \in 1 .. Len(hits) : hits[i] = rows[s][x]
    BY <1>5, <2>1, <2>5 DEF Rows, row
  <2> QED
    BY <2>5, <2>6 DEF row, h
<1>10. ASSUME NEW i \in 1 .. Len(hits), NEW k \in 1 .. Len(hits), i < k
       PROVE  \E s, j, p, t, l, q :
                 /\ IsHit(tr, spaces, list, s, j, p, hits[i]) /\ IsHit(tr, spaces, list, t, l, q, hits[k])
                 /\ After_(s, j, p, t, l, q)
  <2>1. PICK a, x, b, y : InRow(rows, n, a, x, hits[i]) /\ InRow(rows, n, b, y, hits[k]) /\ Behind_(a, x, b, y)
    BY <1>5, <1>10 DEF Rows
  <2>2. CASE a = b /\ x < y
    <3>1. \E j, p, l, q : /\ IsHit(tr, spaces, list, a, j, p, hits[i]) /\ IsHit(tr, spaces, list, a, l, q, hits[k])
                          /\ After_(a, j, p, a, l, q)
      BY <1>7, <2>1, <2>2
    <3> QED
      BY <3>1
  <2>3. CASE a < b
    <3>1. PICK j, p : IsHit(tr, spaces, list, a, j, p, hits[i])
      BY <1>7, <2>1
    <3>2. PICK l, q : IsHit(tr, spaces, list, b, l, q, hits[k])
      BY <1>7, <2>1
    <3>3. After_(a, j, p, b, l, q)
      BY <2>3 DEF After_
    <3> QED
      BY <3>1, <3>2, <3>3
  <2> QED
    BY <2>1, <2>2, <2>3 DEF Behind_
<1> QED
  BY <1>5, <1>8, <1>9, <1>10 DEF HitsListed, hits, X, M

-----------------------------------------------------------------------------
(* The index, built from the files in their order.                         *)

\* The index of the first n files.
IsAdded(f, hits, m) == f = [n \in 0 .. m |-> IF n = 0 THEN NoIndex ELSE AddHit(f[n - 1], hits[n])]

LEMMA AddedExists ==
    ASSUME NEW hits, NEW m \in Nat
    PROVE  \E f : IsAdded(f, hits, m)
<1> DEFINE Is(f, k) == f = [n \in 0 .. k |-> IF n = 0 THEN NoIndex ELSE AddHit(f[n - 1], hits[n])]
           S == {k \in Nat : \E f : Is(f, k)}
<1>1. 0 \in S
  <2> DEFINE f == [n \in 0 .. 0 |-> NoIndex]
  <2>1. \A n \in 0 .. 0 : n = 0
    OBVIOUS
  <2>2. Is(f, 0)
    BY <2>1
  <2> QED
    BY <2>2
<1>2. ASSUME NEW k \in Nat, k \in S PROVE k + 1 \in S
  <2>1. PICK f : Is(f, k)
    BY <1>2
  <2> DEFINE g == [n \in 0 .. k + 1 |-> IF n = k + 1 THEN AddHit(f[k], hits[(k + 1)]) ELSE f[n]]
  <2>2. \A n \in 0 .. k : f[n] = IF n = 0 THEN NoIndex ELSE AddHit(f[n - 1], hits[n])
    BY <2>1
  <2>3. ASSUME NEW n \in 0 .. k + 1 PROVE g[n] = IF n = 0 THEN NoIndex ELSE AddHit(g[n - 1], hits[n])
    <3>1. CASE n = k + 1
      <4>1. n # 0 /\ n - 1 = k /\ k \in 0 .. k + 1 /\ k # k + 1
        BY <1>2, <3>1
      <4>2. g[k] = f[k] /\ g[n] = AddHit(f[k], hits[n])
        BY <3>1, <4>1
      <4> QED
        BY <4>1, <4>2
    <3>2. CASE n # k + 1 /\ n # 0
      <4>1. n \in 0 .. k /\ n - 1 \in 0 .. k + 1 /\ n - 1 # k + 1
        BY <1>2, <3>2
      <4>2. g[n] = f[n] /\ g[n - 1] = f[n - 1]
        BY <3>2, <4>1
      <4> QED
        BY <2>2, <3>2, <4>1, <4>2
    <3>3. CASE n # k + 1 /\ n = 0
      <4>1. n \in 0 .. k
        BY <1>2, <3>3
      <4>2. g[n] = f[n]
        BY <3>3
      <4> QED
        BY <2>2, <3>3, <4>1, <4>2
    <3> QED
      BY <3>1, <3>2, <3>3
  <2>4. g = [n \in 0 .. k + 1 |-> g[n]]
    OBVIOUS
  <2>5. Is(g, k + 1)
    <3> HIDE DEF g
    <3> QED
      BY <2>3, <2>4
  <2>6. k + 1 \in Nat /\ \E f_ : Is(f_, k + 1)
    <3> HIDE DEF Is, g
    <3> QED
      BY <2>5
  <2> QED
    BY <2>6
<1>3. Nat \subseteq S
  <2> HIDE DEF S
  <2> QED
    BY <1>1, <1>2, ByNat
<1> QED
  BY <1>3 DEF IsAdded

LEMMA AddedIs ==
    ASSUME NEW hits, Len(hits) \in Nat
    PROVE  \E f : /\ f[0] = NoIndex /\ AddHits(hits) = f[Len(hits)]
                  /\ \A n \in Nat : n < Len(hits) => f[n + 1] = AddHit(f[n], hits[(n + 1)])
<1> DEFINE m == Len(hits)
           chosen == CHOOSE f : f = [n \in 0 .. m |-> IF n = 0 THEN NoIndex ELSE AddHit(f[n - 1], hits[n])]
<1>1. \E f : IsAdded(f, hits, m)
  BY AddedExists
<1>2. chosen = [n \in 0 .. m |-> IF n = 0 THEN NoIndex ELSE AddHit(chosen[n - 1], hits[n])]
  BY <1>1, Zenon DEF IsAdded
<1>3. AddHits(hits) = chosen[m]
  BY DEF AddHits
<1> HIDE DEF chosen
<1>4. \A n \in 0 .. m : chosen[n] = IF n = 0 THEN NoIndex ELSE AddHit(chosen[n - 1], hits[n])
  BY <1>2
<1>5. ASSUME NEW n \in Nat, n < m
      PROVE  chosen[n + 1] = AddHit(chosen[n], hits[(n + 1)])
  <2>1. n + 1 \in 0 .. m /\ n + 1 # 0 /\ n + 1 - 1 = n
    BY <1>5
  <2> QED
    BY <1>4, <2>1
<1>6. chosen[0] = NoIndex
  BY <1>4
<1> QED
  BY <1>3, <1>5, <1>6

NameOf(h) == ReadName(h.member.template, BelowSpace(h.space, h.path))
EntryOf(h) ==
    [collection |-> h.member.name, namespace |-> h.space.name,
     key |-> IF NameOf(h) = NotCoded THEN None ELSE NameOf(h).key]
KeyOf(h) == <<h.space.name, NameOf(h).key>>
IsIndex(index) == index = [entries |-> index.entries, keys |-> index.keys, overlaps |-> index.overlaps]

LEMMA AddHitIs ==
    ASSUME NEW index, IsIndex(index), NEW h
    PROVE  LET next == AddHit(index, h)
               names == At(index.overlaps, h.path, <<index.entries[h.path].collection>>)
           IN  /\ IsIndex(next)
               /\ h.path \in DOMAIN index.entries =>
                    /\ next.entries = index.entries /\ next.keys = index.keys
                    /\ next.overlaps = Bound(index.overlaps, h.path,
                                             IF h.member.name \in Range(names) THEN names
                                             ELSE Append(names, h.member.name))
               /\ h.path \notin DOMAIN index.entries =>
                    /\ next.entries = Bound(index.entries, h.path, EntryOf(h))
                    /\ next.overlaps = index.overlaps
                    /\ next.keys = IF NameOf(h) = NotCoded THEN index.keys
                                   ELSE Bound(index.keys, KeyOf(h),
                                              Append(At(index.keys, KeyOf(h), <<>>), h.path))
<1> DEFINE next == AddHit(index, h)
           names == At(index.overlaps, h.path, <<index.entries[h.path].collection>>)
           more == Bound(index.overlaps, h.path, IF h.member.name \in Range(names) THEN names
                                                 ELSE Append(names, h.member.name))
           some == Bound(index.entries, h.path, EntryOf(h))
           keys == IF NameOf(h) = NotCoded THEN index.keys
                   ELSE Bound(index.keys, KeyOf(h), Append(At(index.keys, KeyOf(h), <<>>), h.path))
<1>1. next = IF h.path \in DOMAIN index.entries THEN [index EXCEPT !.overlaps = more]
             ELSE [index EXCEPT !.entries = some, !.keys = keys]
  BY DEF AddHit, AddNamed, NameOf, EntryOf, KeyOf
<1> HIDE DEF next, more, some, keys
<1>2. CASE h.path \in DOMAIN index.entries
  <2>1. next = [entries |-> index.entries, keys |-> index.keys, overlaps |-> more]
    BY <1>1, <1>2 DEF IsIndex
  <2> QED
    BY <1>2, <2>1 DEF IsIndex, more, next
<1>3. CASE h.path \notin DOMAIN index.entries
  <2>1. next = [entries |-> some, keys |-> keys, overlaps |-> index.overlaps]
    BY <1>1, <1>3 DEF IsIndex
  <2> QED
    BY <1>3, <2>1 DEF IsIndex, next, some, keys
<1> QED
  BY <1>2, <1>3

\* The first file of a path, and the files of a path that come before the n-th.
First_(hits, i) == \A j \in 1 .. i - 1 : hits[j].path # hits[i].path
Alike(hits, n, p) == {i \in 1 .. n : hits[i].path = p}

\* No collection finds a file twice.
Distinct(hits) ==
    \A i, j \in 1 .. Len(hits) : i # j /\ hits[i].path = hits[j].path => hits[i].member.name # hits[j].member.name
Collections(hits) == {hits[i].member.name : i \in 1 .. Len(hits)}

EntriesListed(hits, n, entriesOf) ==
    /\ DOMAIN entriesOf = {hits[i].path : i \in 1 .. n}
    /\ \A i \in 1 .. n : First_(hits, i) => entriesOf[hits[i].path] = EntryOf(hits[i])

OverlapsListed(hits, n, overlaps) ==
    /\ \A p : p \in DOMAIN overlaps <=> \E i, j \in Alike(hits, n, p) : i # j
    /\ \A p \in DOMAIN overlaps :
         /\ overlaps[p] \in Seq(Collections(hits)) /\ Len(overlaps[p]) > 1
         /\ Range(overlaps[p]) = {hits[i].member.name : i \in Alike(hits, n, p)}

\* The i-th file enters the group of the key k.
Carries(hits, i, k) == First_(hits, i) /\ NameOf(hits[i]) # NotCoded /\ KeyOf(hits[i]) = k
GroupListed(hits, n, k, group) ==
    /\ group \in Seq(FilePath) /\ Len(group) >= 1
    /\ \A a \in 1 .. Len(group) : \E i \in 1 .. n : Carries(hits, i, k) /\ group[a] = hits[i].path
    /\ \A a, b \in 1 .. Len(group) : a < b =>
         \E i, j \in 1 .. n : /\ i < j /\ Carries(hits, i, k) /\ Carries(hits, j, k)
                              /\ group[a] = hits[i].path /\ group[b] = hits[j].path
KeysListed(hits, n, keys) ==
    /\ \A k \in DOMAIN keys : GroupListed(hits, n, k, keys[k])
    /\ \A i \in 1 .. n : \A k : Carries(hits, i, k) =>
         k \in DOMAIN keys /\ \E a \in 1 .. Len(keys[k]) : keys[k][a] = hits[i].path

Indexed(hits, n, index) ==
    /\ IsIndex(index)
    /\ EntriesListed(hits, n, index.entries)
    /\ OverlapsListed(hits, n, index.overlaps)
    /\ KeysListed(hits, n, index.keys)

LEMMA FirstIs ==
    ASSUME NEW hits, NEW n \in Nat, NEW i \in 1 .. n
    PROVE  \E j \in 1 .. n : First_(hits, j) /\ hits[j].path = hits[i].path
<1> DEFINE T == {j \in Nat : j \in 1 .. n /\ hits[j].path = hits[i].path}
<1>1. T \subseteq Nat /\ i \in T
  OBVIOUS
<1>2. PICK j \in T : \A k \in T : j <= k
  <2> HIDE DEF T
  <2> QED
    BY <1>1, LeastNat
<1>3. ASSUME NEW k \in 1 .. j - 1, hits[k].path = hits[j].path PROVE FALSE
  <2>1. k \in T
    BY <1>2, <1>3
  <2>2. j <= k
    BY <1>2, <2>1
  <2> QED
    BY <1>2, <2>2
<1> QED
  BY <1>2, <1>3 DEF First_

LEMMA OneMore ==
    ASSUME NEW n \in Nat
    PROVE  /\ \A i : i \in 1 .. n + 1 <=> i \in 1 .. n \/ i = n + 1
           /\ \A i \in 1 .. n : i # n + 1 /\ i < n + 1
OBVIOUS

LEMMA EntriesGrow ==
    ASSUME NEW hits, NEW n \in Nat, NEW index, NEW next, next = AddHit(index, hits[n + 1]), Indexed(hits, n, index)
    PROVE  EntriesListed(hits, n + 1, next.entries)
<1> DEFINE h == hits[n + 1]
<1>0. IsIndex(index) /\ EntriesListed(hits, n, index.entries)
  BY DEF Indexed
<1>1. /\ h.path \in DOMAIN index.entries => next.entries = index.entries
      /\ h.path \notin DOMAIN index.entries => next.entries = Bound(index.entries, h.path, EntryOf(h))
  <2> HIDE DEF h
  <2>1. next = AddHit(index, h)
    BY DEF h
  <2>2. /\ h.path \in DOMAIN index.entries => AddHit(index, h).entries = index.entries
        /\ h.path \notin DOMAIN index.entries =>
             AddHit(index, h).entries = Bound(index.entries, h.path, EntryOf(h))
    BY <1>0, AddHitIs
  <2> QED
    BY <2>1, <2>2
<1>2. DOMAIN index.entries = {hits[i].path : i \in 1 .. n}
  BY <1>0 DEF EntriesListed
<1>3. First_(hits, n + 1) <=> h.path \notin DOMAIN index.entries
  <2>1. (n + 1) - 1 = n
    OBVIOUS
  <2> QED
    BY <1>2, <2>1 DEF First_
<1>4. {hits[i].path : i \in 1 .. n + 1} = {hits[i].path : i \in 1 .. n} \cup {h.path}
  BY OneMore
<1>5. CASE h.path \in DOMAIN index.entries
  <2>1. next.entries = index.entries
    BY <1>1, <1>5
  <2>2. {hits[i].path : i \in 1 .. n + 1} = {hits[i].path : i \in 1 .. n}
    BY <1>2, <1>4, <1>5
  <2>3. \A i \in 1 .. n + 1 : First_(hits, i) => i \in 1 .. n
    BY <1>3, <1>5, OneMore
  <2> QED
    BY <1>0, <2>1, <2>2, <2>3 DEF EntriesListed
<1>6. CASE h.path \notin DOMAIN index.entries
  <2>1. next.entries = Bound(index.entries, h.path, EntryOf(h))
    BY <1>1, <1>6
  <2>2. DOMAIN next.entries = DOMAIN index.entries \cup {h.path}
    BY <2>1 DEF Bound
  <2>3. \A p \in DOMAIN next.entries : next.entries[p] = IF p = h.path THEN EntryOf(h) ELSE index.entries[p]
    BY <2>1 DEF Bound
  <2>4. \A i \in 1 .. n : hits[i].path # h.path /\ hits[i].path \in DOMAIN index.entries
    BY <1>2, <1>6
  <2> HIDE DEF h
  <2>5. \A i \in 1 .. n + 1 : First_(hits, i) => next.entries[hits[i].path] = EntryOf(hits[i])
    <3> TAKE i \in 1 .. n + 1
    <3> HAVE First_(hits, i)
    <3>1. CASE i = n + 1
      BY <2>2, <2>3, <3>1 DEF h
    <3>2. CASE i \in 1 .. n
      <4>1. index.entries[hits[i].path] = EntryOf(hits[i])
        BY <1>0, <3>2 DEF EntriesListed
      <4> QED
        BY <2>2, <2>3, <2>4, <3>2, <4>1
    <3> QED
      BY <3>1, <3>2, OneMore
  <2> QED
    BY <1>2, <1>4, <2>2, <2>5 DEF EntriesListed, h
<1> QED
  BY <1>5, <1>6

LEMMA AppendFacts ==
    ASSUME NEW X, NEW s \in Seq(X), NEW x \in X
    PROVE  LET t == Append(s, x)
               m == Len(s)
           IN  /\ t \in Seq(X) /\ Len(t) = m + 1 /\ m \in Nat /\ t[m + 1] = x
               /\ \A i \in 1 .. m : t[i] = s[i]
               /\ Range(t) = Range(s) \cup {x}
<1> DEFINE t == Append(s, x)
           m == Len(s)
<1>1. /\ t \in Seq(X) /\ Len(t) = m + 1 /\ m \in Nat /\ t[m + 1] = x
      /\ \A i \in 1 .. m : t[i] = s[i]
  BY AppendProperties, LenProperties
<1>2. DOMAIN t = 1 .. m + 1 /\ DOMAIN s = 1 .. m
  BY <1>1, LenProperties
<1> HIDE DEF t, m
<1>3. Range(t) = Range(s) \cup {x}
  BY <1>1, <1>2, OneMore DEF Range
<1> QED
  BY <1>1, <1>3 DEF t, m

LEMMA OverlapsGrow ==
    ASSUME NEW hits, NEW n \in Nat, n + 1 <= Len(hits), Len(hits) \in Nat, Distinct(hits),
           NEW index, NEW next, next = AddHit(index, hits[n + 1]), Indexed(hits, n, index)
    PROVE  OverlapsListed(hits, n + 1, next.overlaps)
<1> DEFINE h == hits[n + 1]
           q == h.path
           C == Collections(hits)
<1>0. IsIndex(index) /\ EntriesListed(hits, n, index.entries) /\ OverlapsListed(hits, n, index.overlaps)
  BY DEF Indexed
<1>1. DOMAIN index.entries = {hits[i].path : i \in 1 .. n}
  BY <1>0 DEF EntriesListed
<1>2. \A p : Alike(hits, n + 1, p) = IF p = q THEN Alike(hits, n, p) \cup {n + 1} ELSE Alike(hits, n, p)
  BY OneMore DEF Alike
<1>3. n + 1 \in 1 .. Len(hits) /\ \A i \in 1 .. n : i \in 1 .. Len(hits)
  OBVIOUS
<1>4. h.member.name \in C
  BY <1>3 DEF Collections
<1>5. CASE q \notin DOMAIN index.entries
  <2>1. next.overlaps = index.overlaps
    BY <1>0, <1>5, AddHitIs
  <2>2. Alike(hits, n, q) = {}
    BY <1>1, <1>5 DEF Alike
  <2>3. Alike(hits, n + 1, q) = {n + 1}
    BY <1>2, <2>2
  <2> HIDE DEF q, h, C
  <2>4. \A p : (\E i, j \in Alike(hits, n + 1, p) : i # j) <=> (\E i, j \in Alike(hits, n, p) : i # j)
    BY <1>2, <2>2, <2>3
  <2>5. \A p \in DOMAIN index.overlaps : Alike(hits, n + 1, p) = Alike(hits, n, p)
    <3> TAKE p \in DOMAIN index.overlaps
    <3>1. \E i, j \in Alike(hits, n, p) : i # j
      BY <1>0 DEF OverlapsListed
    <3> QED
      BY <1>2, <2>2, <3>1
  <2> DEFINE overlaps == index.overlaps
  <2> HIDE DEF overlaps
  <2>6. OverlapsListed(hits, n, overlaps) /\ next.overlaps = overlaps
    BY <1>0, <2>1 DEF overlaps
  <2>7. \A p : p \in DOMAIN overlaps <=> \E i, j \in Alike(hits, n + 1, p) : i # j
    BY <2>4, <2>6 DEF OverlapsListed
  <2>8. \A p \in DOMAIN overlaps : Alike(hits, n + 1, p) = Alike(hits, n, p)
    BY <2>5 DEF overlaps
  <2>9. \A p \in DOMAIN overlaps :
          /\ overlaps[p] \in Seq(Collections(hits)) /\ Len(overlaps[p]) > 1
          /\ Range(overlaps[p]) = {hits[i].member.name : i \in Alike(hits, n + 1, p)}
    BY <2>6, <2>8 DEF OverlapsListed
  <2> QED
    BY <2>6, <2>7, <2>9 DEF OverlapsListed
<1>6. CASE q \in DOMAIN index.entries
  <2> DEFINE names == At(index.overlaps, q, <<index.entries[q].collection>>)
             value == IF h.member.name \in Range(names) THEN names ELSE Append(names, h.member.name)
  <2>1. next.overlaps = Bound(index.overlaps, q, value)
    BY <1>0, <1>6, AddHitIs
  <2>2. PICK i \in 1 .. n : First_(hits, i) /\ hits[i].path = q
    <3>1. PICK k \in 1 .. n : hits[k].path = q
      BY <1>1, <1>6
    <3>2. \E i \in 1 .. n : First_(hits, i) /\ hits[i].path = hits[k].path
      BY FirstIs
    <3> QED
      BY <3>1, <3>2
  <2>3. i \in Alike(hits, n, q) /\ n + 1 \notin Alike(hits, n, q)
    BY <2>2, OneMore DEF Alike
  <2>4. \A k \in Alike(hits, n, q) : hits[k].member.name \in C /\ hits[k].member.name # h.member.name
    <3> TAKE k \in Alike(hits, n, q)
    <3>1. k \in 1 .. n /\ hits[k].path = q /\ k # n + 1
      BY OneMore DEF Alike
    <3> QED
      BY <1>3, <3>1 DEF Distinct, Collections
  <2>5. names \in Seq(C) /\ Len(names) >= 1 /\ Range(names) = {hits[k].member.name : k \in Alike(hits, n, q)}
    <3>1. CASE q \in DOMAIN index.overlaps
      <4>1. names = index.overlaps[q]
        BY <3>1 DEF At
      <4>2. /\ index.overlaps[q] \in Seq(C) /\ Len(index.overlaps[q]) > 1
            /\ Range(index.overlaps[q]) = {hits[k].member.name : k \in Alike(hits, n, q)}
        BY <1>0, <3>1 DEF OverlapsListed
      <4> HIDE DEF names, C
      <4>3. Len(index.overlaps[q]) \in Nat
        BY <4>2, LenProperties
      <4> QED
        BY <4>1, <4>2, <4>3
    <3>2. CASE q \notin DOMAIN index.overlaps
      <4>1. \A k \in Alike(hits, n, q) : k = i
        BY <1>0, <2>3, <3>2 DEF OverlapsListed
      <4>2. index.entries[q].collection = hits[i].member.name
        <5>1. index.entries[q] = EntryOf(hits[i])
          BY <1>0, <2>2 DEF EntriesListed
        <5> QED
          BY <5>1 DEF EntryOf
      <4> DEFINE c == hits[i].member.name
      <4>3. names = <<c>> /\ c \in C
        BY <2>3, <2>4, <3>2, <4>2 DEF At
      <4>4. {hits[k].member.name : k \in Alike(hits, n, q)} = {c}
        BY <2>3, <4>1
      <4> HIDE DEF names, c, C
      <4>5. names \in Seq(C)
        BY <4>3
      <4>6. Len(names) >= 1
        BY <4>3
      <4>7. Range(names) = {c}
        BY <4>3 DEF Range
      <4> QED
        BY <4>4, <4>5, <4>6, <4>7, Zenon
    <3> QED
      BY <3>1, <3>2
  <2>6. h.member.name \notin Range(names)
    BY <2>4, <2>5
  <2>7. value = Append(names, h.member.name)
    BY <2>6
  <2> DEFINE d == h.member.name
  <2> HIDE DEF value, names, C, d
  <2>8. /\ value \in Seq(C) /\ Len(value) > 1
        /\ Range(value) = {hits[k].member.name : k \in Alike(hits, n, q)} \cup {d}
    <3>1. d \in C /\ value = Append(names, d)
      BY <1>4, <2>7 DEF d
    <3>2. /\ Append(names, d) \in Seq(C) /\ Len(Append(names, d)) = Len(names) + 1 /\ Len(names) \in Nat
          /\ Range(Append(names, d)) = Range(names) \cup {d}
      BY <2>5, <3>1, AppendFacts
    <3> QED
      BY <2>5, <3>1, <3>2
  <2>9. {hits[k].member.name : k \in Alike(hits, n + 1, q)}
          = {hits[k].member.name : k \in Alike(hits, n, q)} \cup {d}
    <3>1. Alike(hits, n + 1, q) = Alike(hits, n, q) \cup {n + 1}
      BY <1>2
    <3>2. d = hits[n + 1].member.name
      BY DEF d
    <3> QED
      BY <3>1, <3>2
  <2>10. /\ DOMAIN next.overlaps = DOMAIN index.overlaps \cup {q}
         /\ next.overlaps[q] = value
         /\ \A p \in DOMAIN index.overlaps : p # q => next.overlaps[p] = index.overlaps[p]
    BY <2>1 DEF Bound
  <2>11. \E k, j \in Alike(hits, n + 1, q) : k # j
    BY <1>2, <2>3
  <2> HIDE DEF q, h
  <2>12. \A p : p # q => Alike(hits, n + 1, p) = Alike(hits, n, p)
    BY <1>2
  <2>13. \A p : p \in DOMAIN next.overlaps <=> \E k, j \in Alike(hits, n + 1, p) : k # j
    <3> TAKE p
    <3>1. CASE p = q
      BY <2>10, <2>11, <3>1
    <3>2. CASE p # q
      BY <1>0, <2>10, <2>12, <3>2 DEF OverlapsListed
    <3> QED
      BY <3>1, <3>2
  <2>14. ASSUME NEW p \in DOMAIN next.overlaps
         PROVE  /\ next.overlaps[p] \in Seq(C) /\ Len(next.overlaps[p]) > 1
                /\ Range(next.overlaps[p]) = {hits[k].member.name : k \in Alike(hits, n + 1, p)}
    <3>1. CASE p = q
      BY <2>8, <2>9, <2>10, <3>1
    <3>2. CASE p # q
      <4>1. p \in DOMAIN index.overlaps /\ next.overlaps[p] = index.overlaps[p]
        BY <2>10, <2>14, <3>2
      <4>2. /\ index.overlaps[p] \in Seq(C) /\ Len(index.overlaps[p]) > 1
            /\ Range(index.overlaps[p]) = {hits[k].member.name : k \in Alike(hits, n, p)}
        BY <1>0, <4>1 DEF OverlapsListed, C
      <4>3. Alike(hits, n + 1, p) = Alike(hits, n, p)
        BY <2>12, <3>2
      <4> QED
        BY <4>1, <4>2, <4>3
    <3> QED
      BY <3>1, <3>2
  <2> QED
    BY <2>13, <2>14 DEF OverlapsListed, C
<1> QED
  BY <1>5, <1>6

LEMMA KeysGrow ==
    ASSUME NEW hits, NEW n \in Nat, hits[n + 1].path \in FilePath,
           NEW index, NEW next, next = AddHit(index, hits[n + 1]), Indexed(hits, n, index)
    PROVE  KeysListed(hits, n + 1, next.keys)
<1> DEFINE h == hits[n + 1]
           q == KeyOf(h)
<1>0. IsIndex(index) /\ EntriesListed(hits, n, index.entries) /\ KeysListed(hits, n, index.keys)
  BY DEF Indexed
<1>1. First_(hits, n + 1) <=> h.path \notin DOMAIN index.entries
  <2>1. (n + 1) - 1 = n
    OBVIOUS
  <2> QED
    BY <1>0, <2>1 DEF First_, EntriesListed
<1>2. \A i \in 1 .. n : i \in 1 .. n + 1 /\ i < n + 1
  OBVIOUS
<1>3. CASE ~(First_(hits, n + 1) /\ NameOf(h) # NotCoded)
  <2>1. next.keys = index.keys
    BY <1>0, <1>1, <1>3, AddHitIs
  <2>2. \A k : ~Carries(hits, n + 1, k)
    BY <1>3 DEF Carries
  <2>3. \A i, k : i \in 1 .. n + 1 /\ Carries(hits, i, k) => i \in 1 .. n
    BY <2>2, OneMore
  <2> DEFINE keys == index.keys
  <2> HIDE DEF h, keys
  <2>4. KeysListed(hits, n, keys)
    BY <1>0 DEF keys
  <2>5. KeysListed(hits, n + 1, keys)
    <3>1. \A k \in DOMAIN keys : GroupListed(hits, n + 1, k, keys[k])
      BY <1>2, <2>4 DEF KeysListed, GroupListed
    <3>3. \A i \in 1 .. n + 1 : \A k : Carries(hits, i, k) =>
              k \in DOMAIN keys /\ \E a \in 1 .. Len(keys[k]) : keys[k][a] = hits[i].path
      BY <2>3, <2>4 DEF KeysListed
    <3> QED
      BY <3>1, <3>3 DEF KeysListed
  <2> QED
    BY <2>1, <2>5 DEF keys
<1>4. CASE First_(hits, n + 1) /\ NameOf(h) # NotCoded
  <2> DEFINE old == At(index.keys, q, <<>>)
             new == Append(old, h.path)
             keys == index.keys
             more == next.keys
             m == Len(old)
  <2>1. more = Bound(keys, q, new)
    <3>1. next.keys = IF NameOf(hits[n + 1]) = NotCoded THEN index.keys
                      ELSE Bound(index.keys, KeyOf(hits[n + 1]),
                                 Append(At(index.keys, KeyOf(hits[n + 1]), <<>>), hits[n + 1].path))
      <4>1. hits[n + 1].path \notin DOMAIN index.entries
        BY <1>1, <1>4
      <4> HIDE DEF h, q, old, new, keys, more, m
      <4> DEFINE g == hits[n + 1]
      <4> HIDE DEF g
      <4>2. g.path \notin DOMAIN index.entries /\ next = AddHit(index, g)
        BY <4>1 DEF g
      <4>3. AddHit(index, g).keys = IF NameOf(g) = NotCoded THEN index.keys
                                    ELSE Bound(index.keys, KeyOf(g), Append(At(index.keys, KeyOf(g), <<>>), g.path))
        BY <1>0, <4>2, AddHitIs
      <4> QED
        BY <4>2, <4>3 DEF g
    <3> QED
      BY <1>4, <3>1, Zenon
  <2>2. old \in Seq(FilePath) /\ (q \in DOMAIN keys => old = keys[q]) /\ (q \notin DOMAIN keys => old = <<>>)
    BY <1>0 DEF At, KeysListed, GroupListed
  <2>3. /\ new \in Seq(FilePath) /\ Len(new) = m + 1 /\ m \in Nat /\ new[m + 1] = h.path
        /\ \A a \in 1 .. m : new[a] = old[a]
    <3> HIDE DEF old
    <3> QED
      BY <2>2, AppendFacts
  <2>4. /\ \A a \in 1 .. m : \E i \in 1 .. n : Carries(hits, i, q) /\ old[a] = hits[i].path
        /\ \A a, b \in 1 .. m : a < b =>
             \E i, j \in 1 .. n : /\ i < j /\ Carries(hits, i, q) /\ Carries(hits, j, q)
                                  /\ old[a] = hits[i].path /\ old[b] = hits[j].path
        /\ \A i \in 1 .. n : Carries(hits, i, q) => \E a \in 1 .. m : old[a] = hits[i].path
    <3>1. CASE q \in DOMAIN keys
      <4>1. old = keys[q]
        BY <2>2, <3>1
      <4> HIDE DEF old, q, h
      <4>2. GroupListed(hits, n, q, old)
        BY <1>0, <3>1, <4>1 DEF KeysListed
      <4>3. \A i \in 1 .. n : Carries(hits, i, q) => \E a \in 1 .. m : old[a] = hits[i].path
        BY <1>0, <3>1, <4>1 DEF KeysListed
      <4> QED
        BY <4>2, <4>3 DEF GroupListed
    <3>2. CASE q \notin DOMAIN keys
      <4>1. m = 0
        BY <2>2, <3>2
      <4> HIDE DEF old, q, h
      <4>2. \A a : a \notin 1 .. m
        BY <4>1
      <4>3. \A i \in 1 .. n : ~Carries(hits, i, q)
        BY <1>0, <3>2 DEF KeysListed
      <4> QED
        BY <4>2, <4>3
    <3> QED
      BY <3>1, <3>2
  <2>5. Carries(hits, n + 1, q) /\ \A k : Carries(hits, n + 1, k) => k = q
    BY <1>4 DEF Carries
  <2>6. /\ DOMAIN more = DOMAIN keys \cup {q} /\ more[q] = new
        /\ \A k \in DOMAIN keys : k # q => more[k] = keys[k]
    BY <2>1 DEF Bound
  <2>7. h.path = hits[n + 1].path /\ n + 1 \in 1 .. n + 1 /\ m + 1 \in 1 .. m + 1
    BY <2>3
  <2> HIDE DEF old, new, keys, more, q, h, m
  <2>8. /\ \A a \in 1 .. Len(new) : \E i \in 1 .. n + 1 : Carries(hits, i, q) /\ new[a] = hits[i].path
        /\ \A a, b \in 1 .. Len(new) : a < b =>
             \E i, j \in 1 .. n + 1 : /\ i < j /\ Carries(hits, i, q) /\ Carries(hits, j, q)
                                      /\ new[a] = hits[i].path /\ new[b] = hits[j].path
        /\ \A i \in 1 .. n + 1 : Carries(hits, i, q) => \E a \in 1 .. Len(new) : new[a] = hits[i].path
    <3>1. \A a \in 1 .. Len(new) : a \in 1 .. m \/ a = m + 1
      BY <2>3
    <3>2. \A a \in 1 .. m : a \in 1 .. Len(new) /\ ~(m + 1 < a)
      BY <2>3
    <3>3. \A a \in 1 .. Len(new) : \E i \in 1 .. n + 1 : Carries(hits, i, q) /\ new[a] = hits[i].path
      <4> TAKE a \in 1 .. Len(new)
      <4>1. CASE a \in 1 .. m
        <5>1. PICK i \in 1 .. n : Carries(hits, i, q) /\ old[a] = hits[i].path
          BY <2>4, <4>1
        <5> QED
          BY <1>2, <2>3, <4>1, <5>1
      <4>2. CASE a = m + 1
        BY <2>3, <2>5, <2>7, <4>2
      <4> QED
        BY <3>1, <4>1, <4>2
    <3>4. ASSUME NEW a \in 1 .. Len(new), NEW b \in 1 .. Len(new), a < b
          PROVE  \E i, j \in 1 .. n + 1 : /\ i < j /\ Carries(hits, i, q) /\ Carries(hits, j, q)
                                          /\ new[a] = hits[i].path /\ new[b] = hits[j].path
      <4>1. CASE a \in 1 .. m /\ b \in 1 .. m
        <5>1. PICK i \in 1 .. n, j \in 1 .. n : /\ i < j /\ Carries(hits, i, q) /\ Carries(hits, j, q)
                                                /\ old[a] = hits[i].path /\ old[b] = hits[j].path
          BY <2>4, <3>4, <4>1
        <5> QED
          BY <1>2, <2>3, <4>1, <5>1
      <4>2. CASE a \in 1 .. m /\ b = m + 1
        <5>1. PICK i \in 1 .. n : Carries(hits, i, q) /\ old[a] = hits[i].path
          BY <2>4, <4>2
        <5> QED
          BY <1>2, <2>3, <2>5, <2>7, <4>2, <5>1
      <4>3. a # m + 1
        BY <2>3, <3>4
      <4> QED
        BY <3>1, <4>1, <4>2, <4>3
    <3>5. ASSUME NEW i \in 1 .. n + 1, Carries(hits, i, q) PROVE \E a \in 1 .. Len(new) : new[a] = hits[i].path
      <4>1. CASE i \in 1 .. n
        <5>1. PICK a \in 1 .. m : old[a] = hits[i].path
          BY <2>4, <3>5, <4>1
        <5> QED
          BY <2>3, <3>2, <5>1
      <4>2. CASE i = n + 1
        BY <2>3, <2>7, <4>2
      <4> QED
        BY <4>1, <4>2, OneMore
    <3> QED
      BY <3>3, <3>4, <3>5
  <2>9. Len(new) >= 1
    BY <2>3
  <2>10. ASSUME NEW k \in DOMAIN more
         PROVE  GroupListed(hits, n + 1, k, more[k])
    <3>1. CASE k = q
      <4>1. GroupListed(hits, n + 1, q, new)
        BY <2>3, <2>8, <2>9 DEF GroupListed
      <4> QED
        BY <2>6, <3>1, <4>1
    <3>2. CASE k # q
      <4>1. k \in DOMAIN keys /\ more[k] = keys[k]
        BY <2>6, <2>10, <3>2
      <4>2. GroupListed(hits, n, k, keys[k])
        BY <1>0, <4>1 DEF KeysListed, keys
      <4> DEFINE group == keys[k]
      <4> HIDE DEF group
      <4>3. GroupListed(hits, n, k, group)
        BY <4>2 DEF group
      <4>4. GroupListed(hits, n + 1, k, group)
        BY <1>2, <4>3 DEF GroupListed
      <4> QED
        BY <4>1, <4>4 DEF group
    <3> QED
      BY <3>1, <3>2
  <2>11. ASSUME NEW i \in 1 .. n + 1, NEW k, Carries(hits, i, k)
         PROVE  k \in DOMAIN more /\ \E a \in 1 .. Len(more[k]) : more[k][a] = hits[i].path
    <3>1. CASE k = q
      BY <2>6, <2>8, <2>11, <3>1
    <3>2. CASE k # q
      <4>1. i \in 1 .. n
        BY <2>5, <2>11, <3>2, OneMore
      <4>2. k \in DOMAIN keys /\ \E a \in 1 .. Len(keys[k]) : keys[k][a] = hits[i].path
        BY <1>0, <2>11, <4>1 DEF KeysListed, keys
      <4> QED
        BY <2>6, <3>2, <4>2
    <3> QED
      BY <3>1, <3>2
  <2> QED
    BY <2>10, <2>11 DEF KeysListed, more
<1> QED
  BY <1>3, <1>4

LEMMA HitsIndexed ==
    ASSUME NEW M, NEW hits \in Seq(AnyHit(M)), Distinct(hits)
    PROVE  Indexed(hits, Len(hits), AddHits(hits))
<1> DEFINE m == Len(hits)
<1>1. m \in Nat /\ \A i \in 1 .. m : hits[i].path \in FilePath
  <2>1. m \in Nat /\ \A i \in 1 .. m : hits[i] \in AnyHit(M)
    BY ElementOfSeq, LenProperties
  <2> QED
    BY <2>1 DEF AnyHit
<1>2. PICK f : /\ f[0] = NoIndex /\ AddHits(hits) = f[m]
               /\ \A n \in Nat : n < m => f[n + 1] = AddHit(f[n], hits[n + 1])
  BY <1>1, AddedIs
<1> DEFINE S == {n \in Nat : Indexed(hits, n, f[n])}
<1>3. 0 \in S
  <2>1. NoIndex.entries = Empty /\ NoIndex.keys = Empty /\ NoIndex.overlaps = Empty /\ IsIndex(NoIndex)
    BY DEF NoIndex, IsIndex
  <2>2. DOMAIN Empty = {} /\ 1 .. 0 = {}
    BY DEF Empty
  <2>3. \A p : Alike(hits, 0, p) = {}
    BY <2>2 DEF Alike
  <2>4. EntriesListed(hits, 0, Empty)
    BY <2>2 DEF EntriesListed
  <2>5. OverlapsListed(hits, 0, Empty)
    BY <2>2, <2>3 DEF OverlapsListed
  <2>6. KeysListed(hits, 0, Empty)
    BY <2>2 DEF KeysListed
  <2>7. Indexed(hits, 0, NoIndex)
    BY <2>1, <2>4, <2>5, <2>6 DEF Indexed
  <2> QED
    BY <1>2, <2>7
<1>4. ASSUME NEW n \in Nat, n < m, n \in S PROVE n + 1 \in S
  <2> DEFINE index == f[n]
             next == f[n + 1]
  <2>1. next = AddHit(index, hits[n + 1]) /\ Indexed(hits, n, index)
    BY <1>2, <1>4
  <2>2. n + 1 <= m /\ hits[n + 1].path \in FilePath
    BY <1>1, <1>4
  <2> HIDE DEF index, next
  <2>3. IsIndex(next)
    BY <2>1, AddHitIs DEF Indexed
  <2>4. EntriesListed(hits, n + 1, next.entries)
    BY <2>1, EntriesGrow
  <2>5. OverlapsListed(hits, n + 1, next.overlaps)
    BY <1>1, <2>1, <2>2, OverlapsGrow
  <2>6. KeysListed(hits, n + 1, next.keys)
    BY <2>1, <2>2, KeysGrow
  <2>7. Indexed(hits, n + 1, next)
    BY <2>3, <2>4, <2>5, <2>6 DEF Indexed
  <2> QED
    BY <2>7 DEF next
<1> HIDE DEF S
<1>5. \A n \in 0 .. m : n \in S
  BY <1>1, <1>3, <1>4, UpTo
<1> QED
  BY <1>1, <1>2, <1>5 DEF S

\* What is left of the first n paths.
IsRetained(f, paths, gone, m) == f = [n \in 0 .. m |-> IF n = 0 THEN <<>> ELSE Retain(f[n - 1], paths[n], gone)]

LEMMA RetainedExists ==
    ASSUME NEW paths, NEW gone, NEW m \in Nat
    PROVE  \E f : IsRetained(f, paths, gone, m)
<1> DEFINE Is(f, k) == f = [n \in 0 .. k |-> IF n = 0 THEN <<>> ELSE Retain(f[n - 1], paths[n], gone)]
           S == {k \in Nat : \E f : Is(f, k)}
<1>1. 0 \in S
  <2> DEFINE f == [n \in 0 .. 0 |-> <<>>]
  <2>1. \A n \in 0 .. 0 : n = 0
    OBVIOUS
  <2>2. Is(f, 0)
    BY <2>1
  <2> QED
    BY <2>2
<1>2. ASSUME NEW k \in Nat, k \in S PROVE k + 1 \in S
  <2>1. PICK f : Is(f, k)
    BY <1>2
  <2> DEFINE g == [n \in 0 .. k + 1 |-> IF n = k + 1 THEN Retain(f[k], paths[(k + 1)], gone) ELSE f[n]]
  <2>2. \A n \in 0 .. k : f[n] = IF n = 0 THEN <<>> ELSE Retain(f[n - 1], paths[n], gone)
    BY <2>1
  <2>3. ASSUME NEW n \in 0 .. k + 1 PROVE g[n] = IF n = 0 THEN <<>> ELSE Retain(g[n - 1], paths[n], gone)
    <3>1. CASE n = k + 1
      <4>1. n # 0 /\ n - 1 = k /\ k \in 0 .. k + 1 /\ k # k + 1
        BY <1>2, <3>1
      <4>2. g[k] = f[k] /\ g[n] = Retain(f[k], paths[n], gone)
        BY <3>1, <4>1
      <4> QED
        BY <4>1, <4>2
    <3>2. CASE n # k + 1 /\ n # 0
      <4>1. n \in 0 .. k /\ n - 1 \in 0 .. k + 1 /\ n - 1 # k + 1
        BY <1>2, <3>2
      <4>2. g[n] = f[n] /\ g[n - 1] = f[n - 1]
        BY <3>2, <4>1
      <4> QED
        BY <2>2, <3>2, <4>1, <4>2
    <3>3. CASE n # k + 1 /\ n = 0
      <4>1. n \in 0 .. k
        BY <1>2, <3>3
      <4>2. g[n] = f[n]
        BY <3>3
      <4> QED
        BY <2>2, <3>3, <4>1, <4>2
    <3> QED
      BY <3>1, <3>2, <3>3
  <2>4. g = [n \in 0 .. k + 1 |-> g[n]]
    OBVIOUS
  <2>5. Is(g, k + 1)
    <3> HIDE DEF g
    <3> QED
      BY <2>3, <2>4
  <2>6. k + 1 \in Nat /\ \E f_ : Is(f_, k + 1)
    <3> HIDE DEF Is, g
    <3> QED
      BY <2>5
  <2> QED
    BY <2>6
<1>3. Nat \subseteq S
  <2> HIDE DEF S
  <2> QED
    BY <1>1, <1>2, ByNat
<1> QED
  BY <1>3 DEF IsRetained

LEMMA RetainedIs ==
    ASSUME NEW paths, NEW gone, Len(paths) \in Nat
    PROVE  \E f : /\ f[0] = <<>> /\ Without(paths, gone) = f[Len(paths)]
                  /\ \A n \in Nat : n < Len(paths) => f[n + 1] = Retain(f[n], paths[(n + 1)], gone)
<1> DEFINE m == Len(paths)
           chosen == CHOOSE f : f = [n \in 0 .. m |-> IF n = 0 THEN <<>> ELSE Retain(f[n - 1], paths[n], gone)]
<1>1. \E f : IsRetained(f, paths, gone, m)
  BY RetainedExists
<1>2. chosen = [n \in 0 .. m |-> IF n = 0 THEN <<>> ELSE Retain(chosen[n - 1], paths[n], gone)]
  BY <1>1, Zenon DEF IsRetained
<1>3. Without(paths, gone) = chosen[m]
  BY DEF Without
<1> HIDE DEF chosen
<1>4. \A n \in 0 .. m : chosen[n] = IF n = 0 THEN <<>> ELSE Retain(chosen[n - 1], paths[n], gone)
  BY <1>2
<1>5. ASSUME NEW n \in Nat, n < m
      PROVE  chosen[n + 1] = Retain(chosen[n], paths[(n + 1)], gone)
  <2>1. n + 1 \in 0 .. m /\ n + 1 # 0 /\ n + 1 - 1 = n
    BY <1>5
  <2> QED
    BY <1>4, <2>1
<1>6. chosen[0] = <<>>
  BY <1>4
<1> QED
  BY <1>3, <1>5, <1>6

\* The first m paths without those of a set, in their order.
LeftOf(paths, m, gone, left) ==
    /\ \A b \in 1 .. Len(left) : \E a \in 1 .. m : left[b] = paths[a] /\ paths[a] \notin gone
    /\ \A a \in 1 .. m : paths[a] \notin gone => \E b \in 1 .. Len(left) : left[b] = paths[a]
    /\ \A b, c \in 1 .. Len(left) : b < c => \E a, d \in 1 .. m : a < d /\ left[b] = paths[a] /\ left[c] = paths[d]

LEMMA RetainLeft ==
    ASSUME NEW X, NEW paths, NEW m \in Nat, paths[m + 1] \in X, NEW gone,
           NEW left \in Seq(X), LeftOf(paths, m, gone, left)
    PROVE  /\ Retain(left, paths[m + 1], gone) \in Seq(X)
           /\ LeftOf(paths, m + 1, gone, Retain(left, paths[m + 1], gone))
<1> DEFINE p == paths[m + 1]
           more == Append(left, p)
           k == Len(left)
<1>0. m + 1 \in 1 .. m + 1 /\ \A a \in 1 .. m : a \in 1 .. m + 1 /\ a < m + 1
  OBVIOUS
<1>1. CASE p \in gone
  <2>1. Retain(left, p, gone) = left
    BY <1>1 DEF Retain
  <2>2. LeftOf(paths, m + 1, gone, left)
    BY <1>0, <1>1, OneMore DEF LeftOf
  <2> QED
    BY <2>1, <2>2
<1>2. CASE p \notin gone
  <2>1. Retain(left, p, gone) = more
    BY <1>2 DEF Retain
  <2>2. /\ more \in Seq(X) /\ Len(more) = k + 1 /\ k \in Nat /\ more[k + 1] = p
        /\ \A b \in 1 .. k : more[b] = left[b]
    BY AppendFacts
  <2>3. p = paths[m + 1]
    OBVIOUS
  <2> HIDE DEF more, k, p
  <2>4. \A b \in 1 .. Len(more) : b \in 1 .. k \/ b = k + 1
    BY <2>2
  <2>5. k + 1 \in 1 .. Len(more) /\ \A b \in 1 .. k : b \in 1 .. Len(more) /\ b \in 1 .. Len(left) /\ ~(k + 1 < b)
    BY <2>2 DEF k
  <2>6. \A b \in 1 .. Len(more) : \E a \in 1 .. m + 1 : more[b] = paths[a] /\ paths[a] \notin gone
    <3> TAKE b \in 1 .. Len(more)
    <3>1. CASE b \in 1 .. k
      <4>1. PICK a \in 1 .. m : left[b] = paths[a] /\ paths[a] \notin gone
        BY <2>5, <3>1 DEF LeftOf
      <4> QED
        BY <1>0, <2>2, <3>1, <4>1
    <3>2. CASE b = k + 1
      BY <1>0, <1>2, <2>2, <2>3, <3>2
    <3> QED
      BY <2>4, <3>1, <3>2
  <2>7. \A a \in 1 .. m + 1 : paths[a] \notin gone => \E b \in 1 .. Len(more) : more[b] = paths[a]
    <3> TAKE a \in 1 .. m + 1
    <3> HAVE paths[a] \notin gone
    <3>1. CASE a \in 1 .. m
      <4>1. PICK b \in 1 .. Len(left) : left[b] = paths[a]
        BY <3>1 DEF LeftOf
      <4> QED
        BY <2>2, <2>5, <4>1 DEF k
    <3>2. CASE a = m + 1
      BY <2>2, <2>3, <2>5, <3>2
    <3> QED
      BY <3>1, <3>2, OneMore
  <2>8. ASSUME NEW b \in 1 .. Len(more), NEW c \in 1 .. Len(more), b < c
        PROVE  \E a, d \in 1 .. m + 1 : a < d /\ more[b] = paths[a] /\ more[c] = paths[d]
    <3>1. CASE c \in 1 .. k
      <4>1. b \in 1 .. k
        BY <2>2, <2>4, <2>8, <3>1
      <4>2. PICK a \in 1 .. m, d \in 1 .. m : a < d /\ left[b] = paths[a] /\ left[c] = paths[d]
        BY <2>5, <2>8, <3>1, <4>1 DEF LeftOf
      <4> QED
        BY <1>0, <2>2, <3>1, <4>1, <4>2
    <3>2. CASE c = k + 1
      <4>1. b \in 1 .. k
        BY <2>2, <2>4, <2>8, <3>2
      <4>2. PICK a \in 1 .. m : left[b] = paths[a]
        BY <2>5, <4>1 DEF LeftOf
      <4> QED
        BY <1>0, <2>2, <2>3, <3>2, <4>1, <4>2
    <3> QED
      BY <2>4, <3>1, <3>2
  <2>9. LeftOf(paths, m + 1, gone, more)
    BY <2>6, <2>7, <2>8 DEF LeftOf
  <2> QED
    BY <2>1, <2>2, <2>9 DEF p
<1> QED
  BY <1>1, <1>2

LEMMA WithoutIs ==
    ASSUME NEW X, NEW paths \in Seq(X), NEW gone
    PROVE  Without(paths, gone) \in Seq(X) /\ LeftOf(paths, Len(paths), gone, Without(paths, gone))
<1> DEFINE m == Len(paths)
<1>1. m \in Nat /\ \A a \in 1 .. m : paths[a] \in X
  BY ElementOfSeq, LenProperties
<1>2. PICK f : /\ f[0] = <<>> /\ Without(paths, gone) = f[m]
               /\ \A n \in Nat : n < m => f[n + 1] = Retain(f[n], paths[n + 1], gone)
  BY <1>1, RetainedIs
<1> DEFINE S == {n \in Nat : f[n] \in Seq(X) /\ LeftOf(paths, n, gone, f[n])}
<1>3. 0 \in S
  <2>1. <<>> \in Seq(X) /\ Len(<<>>) = 0 /\ 1 .. 0 = {}
    OBVIOUS
  <2>2. LeftOf(paths, 0, gone, <<>>)
    BY <2>1 DEF LeftOf
  <2>3. f[0] \in Seq(X) /\ LeftOf(paths, 0, gone, f[0])
    BY <1>2, <2>1, <2>2
  <2> QED
    BY <2>3
<1>4. ASSUME NEW n \in Nat, n < m, n \in S PROVE n + 1 \in S
  <2>1. paths[n + 1] \in X /\ f[n] \in Seq(X) /\ LeftOf(paths, n, gone, f[n])
    BY <1>1, <1>4
  <2> DEFINE left == f[n]
  <2> HIDE DEF left
  <2>2. left \in Seq(X) /\ LeftOf(paths, n, gone, left) /\ f[n + 1] = Retain(left, paths[n + 1], gone)
    BY <1>2, <1>4, <2>1 DEF left
  <2>3. f[n + 1] \in Seq(X) /\ LeftOf(paths, n + 1, gone, f[n + 1])
    BY <2>1, <2>2, RetainLeft
  <2> QED
    BY <2>3
<1> HIDE DEF S
<1>5. \A n \in 0 .. m : n \in S
  BY <1>1, <1>3, <1>4, UpTo
<1> QED
  BY <1>1, <1>2, <1>5 DEF S

\* What the index holds in the end.
LEMMA PruneIs ==
    ASSUME NEW index, IsIndex(index)
    PROVE  LET built == Prune(index)
               gone == DOMAIN index.overlaps
           IN  /\ built.overlaps = index.overlaps
               /\ DOMAIN built.entries = DOMAIN index.entries \ gone
               /\ \A p \in DOMAIN built.entries : built.entries[p] = index.entries[p]
               /\ \A k : k \in DOMAIN built.keys <=> k \in DOMAIN index.keys /\ Without(index.keys[k], gone) # <<>>
               /\ \A k \in DOMAIN built.keys : built.keys[k] = Without(index.keys[k], gone)
<1> DEFINE gone == DOMAIN index.overlaps
           left == [k \in DOMAIN index.keys |-> Without(index.keys[k], gone)]
           some == Restrict(index.entries, DOMAIN index.entries \ gone)
           keys == Restrict(left, {k \in DOMAIN left : left[k] # <<>>})
           built == Prune(index)
<1>1. built = [index EXCEPT !.entries = some, !.keys = keys]
  BY DEF Prune
<1>2. /\ DOMAIN some = DOMAIN index.entries \ gone
      /\ \A p \in DOMAIN some : some[p] = index.entries[p]
  BY DEF Restrict
<1>3. /\ \A k : k \in DOMAIN keys <=> k \in DOMAIN index.keys /\ Without(index.keys[k], gone) # <<>>
      /\ \A k \in DOMAIN keys : keys[k] = Without(index.keys[k], gone)
  BY DEF Restrict
<1> HIDE DEF built, some, keys
<1>4. built.entries = some /\ built.keys = keys /\ built.overlaps = index.overlaps
  BY <1>1 DEF IsIndex
<1> QED
  BY <1>2, <1>3, <1>4 DEF built

\* A file lies in one namespace.
LEMMA OneSpace ==
    ASSUME NEW tr, Grown(tr), NEW spaces, GoodSpaces(spaces), NEW s \in 1 .. Len(spaces), NEW t \in 1 .. Len(spaces),
           NEW p \in Beneath(tr, spaces[s].folder), p \in Beneath(tr, spaces[t].folder)
    PROVE  s = t
<1>1. CASE spaces = <<Default>>
  <2>1. Len(spaces) = 1
    BY <1>1
  <2> QED
    BY <2>1
<1>2. CASE \A i \in 1 .. Len(spaces) : spaces[i].name \in FileName /\ spaces[i] = SpaceOf(<<spaces[i].name>>)
  <2> DEFINE a == spaces[s].name
             b == spaces[t].name
  <2>1. a \in FileName /\ p \in Beneath(tr, SpaceOf(<<a>>).folder)
    BY <1>2
  <2>2. b \in FileName /\ p \in Beneath(tr, SpaceOf(<<b>>).folder)
    BY <1>2
  <2> HIDE DEF a, b
  <2>3. p[1] = a /\ p[1] = b
    BY <2>1, <2>2, BeneathSpace
  <2> QED
    BY <2>3 DEF GoodSpaces, a, b
<1> QED
  BY <1>1, <1>2 DEF GoodSpaces

\* The collections of a run.
LEMMA MembersAre ==
    ASSUME NEW list \in MemberLists
    PROVE  /\ GoodMembers(list) /\ DOMAIN list = 1 .. Len(list) /\ Len(list) \in Nat
           /\ \A i, j \in 1 .. Len(list) : list[i].name = list[j].name => i = j
<1>1. list \in Seq(Range(list))
  BY MemberAssumption
<1>2. DOMAIN list = 1 .. Len(list) /\ Len(list) \in Nat
  BY <1>1, LenProperties
<1> QED
  BY <1>1, <1>2, MemberAssumption DEF GoodMembers

LEMMA IsHitFacts ==
    ASSUME NEW tr, NEW spaces, NEW list, NEW s, NEW j, NEW p, NEW h, IsHit(tr, spaces, list, s, j, p, h)
    PROVE  /\ s \in 1 .. Len(spaces) /\ j \in 1 .. Len(list)
           /\ h.path = p /\ h.member = list[j] /\ h.space = spaces[s]
           /\ p \in Found(tr, spaces[s].folder, list[j].template)
           /\ p \in Beneath(tr, spaces[s].folder) /\ Readable(tr, p)
<1>1. /\ s \in 1 .. Len(spaces) /\ j \in 1 .. Len(list) /\ h = Hit(p, list[j], spaces[s])
      /\ p \in Found(tr, spaces[s].folder, list[j].template)
  BY DEF IsHit
<1>2. h.path = p /\ h.member = list[j] /\ h.space = spaces[s]
  BY <1>1 DEF Hit
<1> QED
  BY <1>1, <1>2, DocumentIs

LEMMA HitsDistinct ==
    ASSUME NEW tr, Grown(tr), NEW list \in MemberLists, NEW spaces, GoodSpaces(spaces),
           NEW hits, HitsListed(tr, spaces, list, hits)
    PROVE  Distinct(hits)
<1>1. ASSUME NEW i \in 1 .. Len(hits), NEW k \in 1 .. Len(hits), i < k, hits[i].path = hits[k].path
      PROVE  hits[i].member.name # hits[k].member.name
  <2> SUFFICES ASSUME hits[i].member.name = hits[k].member.name PROVE FALSE
    OBVIOUS
  <2>1. PICK s, j, p, t, l, q :
            /\ IsHit(tr, spaces, list, s, j, p, hits[i]) /\ IsHit(tr, spaces, list, t, l, q, hits[k])
            /\ After_(s, j, p, t, l, q)
    BY <1>1 DEF HitsListed
  <2>2. /\ s \in 1 .. Len(spaces) /\ j \in 1 .. Len(list) /\ hits[i].path = p /\ hits[i].member = list[j]
        /\ p \in Beneath(tr, spaces[s].folder)
    BY <2>1, IsHitFacts
  <2>3. /\ t \in 1 .. Len(spaces) /\ l \in 1 .. Len(list) /\ hits[k].path = q /\ hits[k].member = list[l]
        /\ q \in Beneath(tr, spaces[t].folder)
    BY <2>1, IsHitFacts
  <2>4. j = l
    BY <2>2, <2>3, MembersAre
  <2>5. p = q /\ s = t
    <3>1. p = q
      BY <1>1, <2>2, <2>3
    <3> QED
      BY <2>2, <2>3, <3>1, OneSpace
  <2>6. Earlier(p, p)
    BY <2>1, <2>2, <2>4, <2>5 DEF After_
  <2>7. p \in FilePath
    BY <2>2 DEF Beneath, Grown
  <2> QED
    BY <2>6, <2>7, EarlierIsOrder
<1>2. Len(hits) \in Nat
  BY LenProperties DEF HitsListed
<1>3. \A i, k \in 1 .. Len(hits) : i # k /\ hits[i].path = hits[k].path => hits[i].member.name # hits[k].member.name
  <2> TAKE i, k \in 1 .. Len(hits)
  <2> HAVE i # k /\ hits[i].path = hits[k].path
  <2>1. i < k \/ k < i
    BY <1>2
  <2> QED
    BY <1>1, <2>1
<1> QED
  BY <1>3 DEF Distinct

-----------------------------------------------------------------------------
(* Plain text fits itself.                                                 *)

FitsBy(f, parts, name, t) ==
    /\ f[0] = FitsNone(name) /\ FitsCapture(parts, name, t) = f[Len(parts)][0]
    /\ \A n \in Nat : n < Len(parts) =>
         f[n + 1] = FitsLast(parts[Len(parts) - (n + 1) + 1], name, t, f[n])

\* What the last n parts fit, from each place in the name on.
IsFitting(f, parts, name, t, m) == f = [n \in 0 .. m |->
        IF n = 0 THEN FitsNone(name) ELSE FitsLast(parts[Len(parts) - n + 1], name, t, f[n - 1])]

LEMMA FittingExists ==
    ASSUME NEW parts, NEW name, NEW t, NEW m \in Nat
    PROVE  \E f : IsFitting(f, parts, name, t, m)
<1> DEFINE Is(f, k) == f = [n \in 0 .. k |->
        IF n = 0 THEN FitsNone(name) ELSE FitsLast(parts[Len(parts) - n + 1], name, t, f[n - 1])]
           S == {k \in Nat : \E f : Is(f, k)}
<1>1. 0 \in S
  <2> DEFINE f == [n \in 0 .. 0 |-> FitsNone(name)]
  <2>1. \A n \in 0 .. 0 : n = 0
    OBVIOUS
  <2>2. Is(f, 0)
    BY <2>1
  <2> QED
    BY <2>2
<1>2. ASSUME NEW k \in Nat, k \in S PROVE k + 1 \in S
  <2>1. PICK f : Is(f, k)
    BY <1>2
  <2> DEFINE g == [n \in 0 .. k + 1 |->
          IF n = k + 1 THEN FitsLast(parts[Len(parts) - (k + 1) + 1], name, t, f[k]) ELSE f[n]]
  <2>2. \A n \in 0 .. k : f[n] =
          IF n = 0 THEN FitsNone(name) ELSE FitsLast(parts[Len(parts) - n + 1], name, t, f[n - 1])
    BY <2>1
  <2>3. ASSUME NEW n \in 0 .. k + 1 PROVE g[n] =
          IF n = 0 THEN FitsNone(name) ELSE FitsLast(parts[Len(parts) - n + 1], name, t, g[n - 1])
    <3>1. CASE n = k + 1
      <4>1. n # 0 /\ n - 1 = k /\ k \in 0 .. k + 1 /\ k # k + 1
        BY <1>2, <3>1
      <4>2. g[k] = f[k] /\ g[n] = FitsLast(parts[Len(parts) - n + 1], name, t, f[k])
        BY <3>1, <4>1
      <4> QED
        BY <4>1, <4>2
    <3>2. CASE n # k + 1 /\ n # 0
      <4>1. n \in 0 .. k /\ n - 1 \in 0 .. k + 1 /\ n - 1 # k + 1
        BY <1>2, <3>2
      <4>2. g[n] = f[n] /\ g[n - 1] = f[n - 1]
        BY <3>2, <4>1
      <4> QED
        BY <2>2, <3>2, <4>1, <4>2
    <3>3. CASE n # k + 1 /\ n = 0
      <4>1. n \in 0 .. k
        BY <1>2, <3>3
      <4>2. g[n] = f[n]
        BY <3>3
      <4> QED
        BY <2>2, <3>3, <4>1, <4>2
    <3> QED
      BY <3>1, <3>2, <3>3
  <2>4. g = [n \in 0 .. k + 1 |-> g[n]]
    OBVIOUS
  <2>5. Is(g, k + 1)
    <3> HIDE DEF g
    <3> QED
      BY <2>3, <2>4
  <2>6. k + 1 \in Nat /\ \E f_ : Is(f_, k + 1)
    <3> HIDE DEF Is, g
    <3> QED
      BY <2>5
  <2> QED
    BY <2>6
<1>3. Nat \subseteq S
  <2> HIDE DEF S
  <2> QED
    BY <1>1, <1>2, ByNat
<1> QED
  BY <1>3 DEF IsFitting

LEMMA FittingIs ==
    ASSUME NEW parts, NEW name, NEW t, Len(parts) \in Nat
    PROVE  \E f : FitsBy(f, parts, name, t)
<1> DEFINE m == Len(parts)
           chosen == CHOOSE f : f = [n \in 0 .. m |->
                   IF n = 0 THEN FitsNone(name) ELSE FitsLast(parts[Len(parts) - n + 1], name, t, f[n - 1])]
<1>1. \E f : IsFitting(f, parts, name, t, m)
  BY FittingExists
<1>2. chosen = [n \in 0 .. m |->
        IF n = 0 THEN FitsNone(name) ELSE FitsLast(parts[Len(parts) - n + 1], name, t, chosen[n - 1])]
  BY <1>1, Zenon DEF IsFitting
<1>3. FitsCapture(parts, name, t) = chosen[m][0]
  BY DEF FitsCapture
<1> HIDE DEF chosen
<1>4. \A n \in 0 .. m : chosen[n] =
        IF n = 0 THEN FitsNone(name) ELSE FitsLast(parts[Len(parts) - n + 1], name, t, chosen[n - 1])
  BY <1>2
<1>5. ASSUME NEW n \in Nat, n < m
      PROVE  chosen[n + 1] = FitsLast(parts[Len(parts) - (n + 1) + 1], name, t, chosen[n])
  <2>1. n + 1 \in 0 .. m /\ n + 1 # 0 /\ n + 1 - 1 = n
    BY <1>5
  <2> QED
    BY <1>4, <2>1
<1>6. chosen[0] = FitsNone(name)
  BY <1>4
<1>7. FitsBy(chosen, parts, name, t)
  BY <1>3, <1>5, <1>6 DEF FitsBy
<1> QED
  BY <1>7

Literal(parts) == \A i \in 1 .. Len(parts) : parts[i] \notin {"*", "{key}"}
\* The last n parts are the name from a place on.
Ends(parts, name, n, from) ==
    /\ Len(name) = from + n
    /\ \A k \in 1 .. n : name[from + k] = parts[Len(parts) - n + k]

LEMMA CapturedFits == \A key, slug : Captured(key, slug) # NoFit
<1> TAKE key, slug
<1>1. "key" \in DOMAIN Captured(key, slug)
  BY DEF Captured
<1>2. "key" \notin DOMAIN NoFit
  BY DEF NoFit
<1> QED
  BY <1>1, <1>2

LEMMA LiteralFits ==
    ASSUME NEW parts, Len(parts) \in Nat, Literal(parts), NEW name, Len(name) \in Nat, NEW t
    PROVE  FitsCapture(parts, name, t) # NoFit <=> Ends(parts, name, Len(parts), 0)
<1> DEFINE m == Len(parts)
           l == Len(name)
<1>0. PICK f : FitsBy(f, parts, name, t)
  BY FittingIs
<1>1. /\ f[0] = FitsNone(name) /\ FitsCapture(parts, name, t) = f[m][0]
      /\ \A n \in Nat : n < m => f[n + 1] = FitsLast(parts[m - (n + 1) + 1], name, t, f[n])
  BY <1>0 DEF FitsBy
<1> DEFINE S == {n \in Nat : \A from \in 0 .. l : f[n][from] # NoFit <=> Ends(parts, name, n, from)}
<1>2. 0 \in S
  <2>1. \A from \in 0 .. l : f[0][from] = IF from = l THEN Captured(None, None) ELSE NoFit
    BY <1>1 DEF FitsNone
  <2>2. \A from \in 0 .. l : Ends(parts, name, 0, from) <=> from = l
    <3> TAKE from \in 0 .. l
    <3>1. from + 0 = from /\ \A k : k \notin 1 .. 0
      OBVIOUS
    <3> QED
      BY <3>1 DEF Ends
  <2>3. \A from \in 0 .. l : f[0][from] # NoFit <=> Ends(parts, name, 0, from)
    BY <2>1, <2>2, CapturedFits
  <2> QED
    BY <2>3
<1>3. ASSUME NEW n \in Nat, n < m, n \in S PROVE n + 1 \in S
  <2> DEFINE part == parts[m - (n + 1) + 1]
  <2>1. m - (n + 1) + 1 \in 1 .. m /\ m - (n + 1) + 1 = m - n
    BY <1>3
  <2>2. part \notin {"*", "{key}"}
    BY <2>1 DEF Literal
  <2>3. f[n + 1] = FitsLast(part, name, t, f[n])
    BY <1>1, <1>3
  <2> HIDE DEF part
  <2>4. \A from \in 0 .. l : f[n + 1][from] = FitsPart(part, name, t, f[n], from)
    BY <2>3 DEF FitsLast
  <2>5. \A from : FitsPart(part, name, t, f[n], from)
                    = IF from < l /\ name[from + 1] = part THEN f[n][from + 1] ELSE NoFit
    BY <2>2 DEF FitsPart
  <2>6. ASSUME NEW from \in 0 .. l PROVE f[n + 1][from] # NoFit <=> Ends(parts, name, n + 1, from)
    <3>1. CASE ~(from < l)
      <4>1. ~(l = from + (n + 1))
        BY <3>1
      <4> QED
        BY <2>4, <2>5, <3>1, <4>1 DEF Ends
    <3>2. CASE from < l
      <4>1. from + 1 \in 0 .. l /\ (from + 1) + n = from + (n + 1)
        BY <3>2
      <4>2. f[n][from + 1] # NoFit <=> Ends(parts, name, n, from + 1)
        BY <1>3, <4>1
      <4>3. Ends(parts, name, n + 1, from) <=> name[from + 1] = part /\ Ends(parts, name, n, from + 1)
        <5>1. part = parts[m - n]
          BY <2>1 DEF part
        <5>2. ASSUME Ends(parts, name, n + 1, from) PROVE name[from + 1] = part /\ Ends(parts, name, n, from + 1)
          <6>1. l = from + (n + 1) /\ \A k \in 1 .. n + 1 : name[from + k] = parts[m - (n + 1) + k]
            BY <5>2 DEF Ends
          <6>2. 1 \in 1 .. n + 1 /\ m - (n + 1) + 1 = m - n
            BY <2>1
          <6>3. name[from + 1] = part
            BY <5>1, <6>1, <6>2
          <6>4. ASSUME NEW k \in 1 .. n PROVE name[(from + 1) + k] = parts[m - n + k]
            <7>1. k + 1 \in 1 .. n + 1 /\ from + (k + 1) = (from + 1) + k /\ m - (n + 1) + (k + 1) = m - n + k
              OBVIOUS
            <7>2. name[from + (k + 1)] = parts[m - (n + 1) + (k + 1)]
              BY <6>1, <7>1
            <7> QED
              BY <7>1, <7>2
          <6> QED
            BY <4>1, <6>1, <6>3, <6>4 DEF Ends
        <5>3. ASSUME name[from + 1] = part, Ends(parts, name, n, from + 1) PROVE Ends(parts, name, n + 1, from)
          <6>1. l = (from + 1) + n /\ \A k \in 1 .. n : name[(from + 1) + k] = parts[m - n + k]
            BY <5>3 DEF Ends
          <6>2. ASSUME NEW k \in 1 .. n + 1 PROVE name[from + k] = parts[m - (n + 1) + k]
            <7>1. CASE k = 1
              BY <2>1, <5>1, <5>3, <7>1
            <7>2. CASE k # 1
              <8>1. k - 1 \in 1 .. n /\ (from + 1) + (k - 1) = from + k /\ m - n + (k - 1) = m - (n + 1) + k
                BY <7>2
              <8>2. name[(from + 1) + (k - 1)] = parts[m - n + (k - 1)]
                BY <6>1, <8>1
              <8> QED
                BY <8>1, <8>2
            <7> QED
              BY <7>1, <7>2
          <6> QED
            BY <4>1, <6>1, <6>2 DEF Ends
        <5> QED
          BY <5>2, <5>3
      <4> QED
        BY <2>4, <2>5, <3>2, <4>2, <4>3
    <3> QED
      BY <3>1, <3>2
  <2> QED
    BY <2>6
<1> HIDE DEF S
<1>4. \A n \in 0 .. m : n \in S
  BY <1>2, <1>3, UpTo
<1>5. m \in S
  BY <1>4
<1>6. f[m][0] # NoFit <=> Ends(parts, name, m, 0)
  <2>1. 0 \in 0 .. l
    OBVIOUS
  <2> QED
    BY <1>5, <2>1 DEF S
<1> QED
  BY <1>1, <1>6

LEMMA LiteralIs ==
    ASSUME NEW X, NEW parts \in Seq(X), Literal(parts), NEW Y, NEW name \in Seq(Y), NEW t
    PROVE  Matches(parts, name, t) <=> name # <<>> /\ name = parts
<1>1. /\ Len(parts) \in Nat /\ DOMAIN parts = 1 .. Len(parts)
      /\ Len(name) \in Nat /\ DOMAIN name = 1 .. Len(name)
  BY LenProperties
<1>2. FitsCapture(parts, name, t) # NoFit <=> Ends(parts, name, Len(parts), 0)
  BY <1>1, LiteralFits
<1>3. Ends(parts, name, Len(parts), 0) <=> name = parts
  <2>1. ASSUME Ends(parts, name, Len(parts), 0) PROVE name = parts
    <3>1. Len(name) = Len(parts)
      BY <1>1, <2>1 DEF Ends
    <3>2. \A k \in 1 .. Len(parts) : name[k] = parts[k]
      <4> TAKE k \in 1 .. Len(parts)
      <4>1. 0 + k = k /\ Len(parts) - Len(parts) + k = k
        BY <1>1
      <4>2. name[0 + k] = parts[Len(parts) - Len(parts) + k]
        BY <2>1 DEF Ends
      <4> QED
        BY <4>1, <4>2
    <3>3. name = [k \in 1 .. Len(parts) |-> name[k]] /\ parts = [k \in 1 .. Len(parts) |-> parts[k]]
      BY <1>1, <3>1
    <3>4. [k \in 1 .. Len(parts) |-> name[k]] = [k \in 1 .. Len(parts) |-> parts[k]]
      BY <3>2
    <3> QED
      BY <3>3, <3>4
  <2>2. ASSUME name = parts PROVE Ends(parts, name, Len(parts), 0)
    <3>1. \A k \in 1 .. Len(parts) : 0 + k = k /\ Len(parts) - Len(parts) + k = k
      BY <1>1
    <3> QED
      BY <1>1, <2>2, <3>1 DEF Ends
  <2> QED
    BY <2>1, <2>2
<1> QED
  BY <1>2, <1>3 DEF Matches

LEMMA IsLiteralIs ==
    ASSUME NEW X, NEW segment \in Seq(X)
    PROVE  IsLiteral(segment) <=> Literal(segment)
<1> DEFINE stars == {i \in DOMAIN segment : segment[i] = "*"}
           keys == {i \in DOMAIN segment : segment[i] = "{key}"}
<1>1. DOMAIN segment = 1 .. Len(segment) /\ Len(segment) \in Nat /\ IsFiniteSet(1 .. Len(segment))
  BY LenProperties, FS_Interval
<1>2. IsFiniteSet(stars) /\ IsFiniteSet(keys)
  <2>1. stars \subseteq 1 .. Len(segment) /\ keys \subseteq 1 .. Len(segment)
    BY <1>1
  <2> HIDE DEF stars, keys
  <2> QED
    BY <1>1, <2>1, FS_Subset
<1>3. Stars(segment) = Cardinality(stars) /\ KeysIn(segment) = Cardinality(keys)
  BY DEF Stars, KeysIn
<1>4. (stars = {} /\ keys = {}) <=> Literal(segment)
  BY <1>1 DEF Literal
<1> HIDE DEF stars, keys
<1>5. (Cardinality(stars) = 0 <=> stars = {}) /\ (Cardinality(keys) = 0 <=> keys = {})
  BY <1>2, FS_EmptySet
<1> QED
  BY <1>3, <1>4, <1>5 DEF IsLiteral

-----------------------------------------------------------------------------
(* The index tells which collections find a file.                          *)

\* The j-th collection finds the file p in the s-th namespace.
Claim(tr, spaces, list, s, j, p) ==
    /\ s \in 1 .. Len(spaces) /\ j \in 1 .. Len(list)
    /\ p \in Found(tr, spaces[s].folder, list[j].template)

LEMMA ClaimIs ==
    ASSUME NEW tr, NEW spaces, NEW list, NEW hits, HitsListed(tr, spaces, list, hits)
    PROVE  /\ \A s, j, p : Claim(tr, spaces, list, s, j, p) =>
                \E i \in 1 .. Len(hits) :
                   /\ IsHit(tr, spaces, list, s, j, p, hits[i])
                   /\ hits[i].path = p /\ hits[i].member = list[j] /\ hits[i].space = spaces[s]
           /\ \A i \in 1 .. Len(hits) : \E s, j :
                /\ Claim(tr, spaces, list, s, j, hits[i].path)
                /\ hits[i].member = list[j] /\ hits[i].space = spaces[s]
<1>1. ASSUME NEW s, NEW j, NEW p, Claim(tr, spaces, list, s, j, p)
      PROVE  \E i \in 1 .. Len(hits) : /\ IsHit(tr, spaces, list, s, j, p, hits[i])
                                       /\ hits[i].path = p /\ hits[i].member = list[j] /\ hits[i].space = spaces[s]
  <2> DEFINE h == Hit(p, list[j], spaces[s])
  <2>1. IsHit(tr, spaces, list, s, j, p, h)
    BY <1>1 DEF Claim, IsHit
  <2>2. PICK i \in 1 .. Len(hits) : hits[i] = h
    BY <2>1 DEF HitsListed
  <2> HIDE DEF h
  <2>3. h.path = p /\ h.member = list[j] /\ h.space = spaces[s]
    BY <2>1, IsHitFacts
  <2> QED
    BY <2>1, <2>2, <2>3
<1>2. ASSUME NEW i \in 1 .. Len(hits)
      PROVE  \E s, j : /\ Claim(tr, spaces, list, s, j, hits[i].path)
                       /\ hits[i].member = list[j] /\ hits[i].space = spaces[s]
  <2>1. PICK s, j, p : IsHit(tr, spaces, list, s, j, p, hits[i])
    BY DEF HitsListed
  <2>2. /\ s \in 1 .. Len(spaces) /\ j \in 1 .. Len(list)
        /\ hits[i].path = p /\ hits[i].member = list[j] /\ hits[i].space = spaces[s]
        /\ p \in Found(tr, spaces[s].folder, list[j].template)
    BY <2>1, IsHitFacts
  <2>3. Claim(tr, spaces, list, s, j, hits[i].path)
    BY <2>2 DEF Claim
  <2> QED
    BY <2>2, <2>3
<1> QED
  BY <1>1, <1>2

LEMMA ClaimFacts ==
    ASSUME NEW tr, NEW spaces, NEW list, NEW s, NEW j, NEW p, Claim(tr, spaces, list, s, j, p)
    PROVE  /\ s \in 1 .. Len(spaces) /\ j \in 1 .. Len(list)
           /\ p \in Found(tr, spaces[s].folder, list[j].template)
           /\ p \in Beneath(tr, spaces[s].folder) /\ Readable(tr, p)
BY DocumentIs DEF Claim

\* The index and the claims on a file.
Answers(tr, spaces, list, index) ==
    /\ \A p : p \in DOMAIN index.overlaps <=>
                 \E s, j, l : j # l /\ Claim(tr, spaces, list, s, j, p) /\ Claim(tr, spaces, list, s, l, p)
    /\ \A p : p \in DOMAIN index.entries <=>
                 /\ p \notin DOMAIN index.overlaps
                 /\ \E s, j : Claim(tr, spaces, list, s, j, p)
    /\ \A p \in DOMAIN index.entries : \A s, j : Claim(tr, spaces, list, s, j, p) =>
          index.entries[p].collection = list[j].name /\ index.entries[p].namespace = spaces[s].name
    /\ \A p \in DOMAIN index.overlaps :
          /\ Len(index.overlaps[p]) > 1
          /\ \A c : c \in Range(index.overlaps[p])
                      <=> \E s, j : Claim(tr, spaces, list, s, j, p) /\ c = list[j].name

LEMMA BuildAnswers ==
    ASSUME NEW tr, Grown(tr), NEW list \in MemberLists, NEW spaces, GoodSpaces(spaces)
    PROVE  /\ Answers(tr, spaces, list, Build(tr, spaces, list))
           /\ HitsListed(tr, spaces, list, Hits(tr, spaces, list))
           /\ Indexed(Hits(tr, spaces, list), Len(Hits(tr, spaces, list)), AddHits(Hits(tr, spaces, list)))
           /\ Len(Hits(tr, spaces, list)) \in Nat
<1> DEFINE hits == Hits(tr, spaces, list)
           added == AddHits(hits)
           index == Build(tr, spaces, list)
           m == Len(hits)
           Claims(s, j, p) == Claim(tr, spaces, list, s, j, p)
<1>1. HitsListed(tr, spaces, list, hits)
  <2>1. GoodMembers(list)
    BY MembersAre
  <2>2. spaces \in Seq(Space)
    BY DEF GoodSpaces
  <2> QED
    BY <2>1, <2>2, HitsAre
<1>2. index = Prune(added)
  BY DEF Build
<1> HIDE DEF hits, index, added
<1>3. Distinct(hits)
  BY <1>1, HitsDistinct
<1>4. m \in Nat /\ Indexed(hits, m, added)
  <2>1. hits \in Seq(AnyHit(Range(list)))
    BY <1>1 DEF HitsListed
  <2>2. m \in Nat
    BY <2>1, LenProperties
  <2> QED
    BY <1>3, <2>1, <2>2, HitsIndexed DEF added
<1>5. /\ IsIndex(added) /\ EntriesListed(hits, m, added.entries) /\ OverlapsListed(hits, m, added.overlaps)
  BY <1>4 DEF Indexed
<1>6. /\ index.overlaps = added.overlaps
      /\ DOMAIN index.entries = DOMAIN added.entries \ DOMAIN added.overlaps
      /\ \A p \in DOMAIN index.entries : index.entries[p] = added.entries[p]
  BY <1>2, <1>5, PruneIs
<1>7. /\ \A s, j, p : Claim(tr, spaces, list, s, j, p) =>
           \E i \in 1 .. m : /\ IsHit(tr, spaces, list, s, j, p, hits[i])
                             /\ hits[i].path = p /\ hits[i].member = list[j] /\ hits[i].space = spaces[s]
      /\ \A i \in 1 .. m : \E s, j :
           /\ Claim(tr, spaces, list, s, j, hits[i].path)
           /\ hits[i].member = list[j] /\ hits[i].space = spaces[s]
  BY <1>1, ClaimIs
<1>8. ASSUME NEW s, NEW t, NEW j, NEW l, NEW p,
              Claim(tr, spaces, list, s, j, p), Claim(tr, spaces, list, t, l, p)
      PROVE  s = t
  <2>1. s \in 1 .. Len(spaces) /\ p \in Beneath(tr, spaces[s].folder)
    BY <1>8, ClaimFacts
  <2>2. t \in 1 .. Len(spaces) /\ p \in Beneath(tr, spaces[t].folder)
    BY <1>8, ClaimFacts
  <2> QED
    BY <2>1, <2>2, OneSpace
<1>9. \A j, l \in 1 .. Len(list) : list[j].name = list[l].name => j = l
  BY MembersAre
<1> HIDE DEF m
<1>10. ASSUME NEW p, p \in DOMAIN index.overlaps
       PROVE  \E s, j, l : j # l /\ Claim(tr, spaces, list, s, j, p) /\ Claim(tr, spaces, list, s, l, p)
  <2>1. PICK i \in 1 .. m, k \in 1 .. m : i # k /\ hits[i].path = p /\ hits[k].path = p
    BY <1>5, <1>6, <1>10 DEF OverlapsListed, Alike
  <2>2. hits[i].member.name # hits[k].member.name
    BY <1>3, <2>1 DEF Distinct, m
  <2>3. PICK s, j : Claim(tr, spaces, list, s, j, p) /\ hits[i].member = list[j]
    BY <1>7, <2>1
  <2>4. PICK t, l : Claim(tr, spaces, list, t, l, p) /\ hits[k].member = list[l]
    BY <1>7, <2>1
  <2> QED
    BY <1>8, <2>2, <2>3, <2>4
<1>11. ASSUME NEW p, NEW s, NEW j, NEW l, j # l, Claim(tr, spaces, list, s, j, p), Claim(tr, spaces, list, s, l, p)
       PROVE  p \in DOMAIN index.overlaps
  <2>1. PICK i \in 1 .. m : hits[i].path = p /\ hits[i].member = list[j]
    BY <1>7, <1>11
  <2>2. PICK k \in 1 .. m : hits[k].path = p /\ hits[k].member = list[l]
    BY <1>7, <1>11
  <2>3. list[j].name # list[l].name
    BY <1>9, <1>11, ClaimFacts
  <2>4. i # k
    BY <2>1, <2>2, <2>3
  <2>5. i \in Alike(hits, m, p) /\ k \in Alike(hits, m, p)
    BY <2>1, <2>2 DEF Alike
  <2> QED
    BY <1>5, <1>6, <2>4, <2>5 DEF OverlapsListed
<1>12. \A p : p \in DOMAIN added.entries <=> \E s, j : Claim(tr, spaces, list, s, j, p)
  <2>1. DOMAIN added.entries = {hits[i].path : i \in 1 .. m}
    BY <1>5 DEF EntriesListed
  <2> QED
    BY <1>7, <2>1
<1>13. ASSUME NEW p \in DOMAIN index.entries, NEW s, NEW j, Claim(tr, spaces, list, s, j, p)
       PROVE  index.entries[p].collection = list[j].name /\ index.entries[p].namespace = spaces[s].name
  <2>1. PICK k \in 1 .. m : hits[k].path = p
    BY <1>5, <1>6 DEF EntriesListed
  <2>2. PICK i \in 1 .. m : First_(hits, i) /\ hits[i].path = p
    BY <1>4, <2>1, FirstIs DEF m
  <2>3. added.entries[p] = EntryOf(hits[i])
    BY <1>5, <2>2 DEF EntriesListed
  <2>4. PICK t, l : Claim(tr, spaces, list, t, l, p) /\ hits[i].member = list[l] /\ hits[i].space = spaces[t]
    BY <1>7, <2>2
  <2>5. s = t
    BY <1>8, <1>13, <2>4
  <2>6. j = l
    BY <1>6, <1>11, <1>13, <2>4, <2>5
  <2>7. EntryOf(hits[i]).collection = hits[i].member.name /\ EntryOf(hits[i]).namespace = hits[i].space.name
    BY DEF EntryOf
  <2> QED
    BY <1>6, <2>3, <2>4, <2>5, <2>6, <2>7
<1>14. ASSUME NEW p \in DOMAIN index.overlaps
       PROVE  /\ Len(index.overlaps[p]) > 1
              /\ \A c : c \in Range(index.overlaps[p])
                          <=> \E s, j : Claim(tr, spaces, list, s, j, p) /\ c = list[j].name
  <2>1. /\ Len(added.overlaps[p]) > 1
        /\ Range(added.overlaps[p]) = {hits[i].member.name : i \in Alike(hits, m, p)}
    BY <1>5, <1>6, <1>14 DEF OverlapsListed
  <2>2. \A i \in Alike(hits, m, p) :
           \E s, j : Claim(tr, spaces, list, s, j, p) /\ hits[i].member.name = list[j].name
    BY <1>7 DEF Alike
  <2>3. \A s, j : Claim(tr, spaces, list, s, j, p) =>
           \E i \in Alike(hits, m, p) : hits[i].member.name = list[j].name
    BY <1>7 DEF Alike
  <2> QED
    BY <1>6, <2>1, <2>2, <2>3
<1>15. Answers(tr, spaces, list, index)
  BY <1>6, <1>10, <1>11, <1>12, <1>13, <1>14 DEF Answers
<1> QED
  BY <1>1, <1>4, <1>15 DEF hits, added, index, m

-----------------------------------------------------------------------------
(* What a report says.                                                     *)

Shown(scope, spaces, p) == SpaceHolding(spaces, p).name \in scope.namespaces

ReportSays(run, scope, resolved, index) ==
    /\ scope = ChooseScope(resolved.spaces, None, run.flag, run.variable, run.cwd, Imports) /\ scope # Refused
    /\ resolved = ResolveNamespaces(tree, entries) /\ index = Build(tree, resolved.spaces, members)
    /\ report.scope = scope /\ report.resolved = resolved /\ report.index = index
    /\ \A p : p \in report.documents <=> p \in DOMAIN index.entries /\ Shown(scope, resolved.spaces, p)
    /\ \A p : p \in report.overlapping <=> p \in DOMAIN index.overlaps /\ Shown(scope, resolved.spaces, p)
    /\ \A p \in report.notRead : \/ \E r \in Unreadable(tree, resolved.spaces, members) : p = r.path
                                 \/ \E n \in resolved.skipped : p = <<n>>
    /\ \A p : p \in report.strays <=>
                 p \in StrayFiles(tree, resolved.spaces, members) /\ Shown(scope, resolved.spaces, p)
    /\ \A p : p \in report.uncollected <=>
                 p \in Uncollected(tree, resolved.spaces, members, index) /\ Shown(scope, resolved.spaces, p)

LEMMA ReportIs ==
    ASSUME ReadInv, report.done
    PROVE  \E run \in Runs : ReportSays(run, report.scope, report.resolved, report.index)
<1> DEFINE resolved == ResolveNamespaces(tree, entries)
           scopeOf(run) == ChooseScope(resolved.spaces, None, run.flag, run.variable, run.cwd, Imports)
           index == Build(tree, resolved.spaces, members)
<1>1. PICK run \in Runs : scopeOf(run) # Refused /\ report = Report(scopeOf(run), resolved, index)
  BY Zenon DEF ReadInv, ReportInv
<1> DEFINE scope == scopeOf(run)
           spaces == resolved.spaces
           unreadable == {r \in Unreadable(tree, spaces, members) : Shown(scope, spaces, r.path)}
           documents == {p \in DOMAIN index.entries : Shown(scope, spaces, p)}
           overlapping == {p \in DOMAIN index.overlaps : Shown(scope, spaces, p)}
           notRead == {r.path : r \in unreadable} \cup {<<n>> : n \in resolved.skipped}
           strays == {p \in StrayFiles(tree, spaces, members) : Shown(scope, spaces, p)}
           uncollected == {p \in Uncollected(tree, spaces, members, index) : Shown(scope, spaces, p)}
<1>2. Report(scope, resolved, index)
        = [done |-> TRUE, scope |-> scope, resolved |-> resolved, index |-> index,
           documents |-> documents, overlapping |-> overlapping, notRead |-> notRead,
           strays |-> strays, uncollected |-> uncollected]
  BY Zenon DEF Report, Shown
<1>3. /\ \A p : p \in documents <=> p \in DOMAIN index.entries /\ Shown(scope, spaces, p)
      /\ \A p : p \in overlapping <=> p \in DOMAIN index.overlaps /\ Shown(scope, spaces, p)
      /\ \A p : p \in strays <=> p \in StrayFiles(tree, spaces, members) /\ Shown(scope, spaces, p)
      /\ \A p : p \in uncollected <=>
                  p \in Uncollected(tree, spaces, members, index) /\ Shown(scope, spaces, p)
  OBVIOUS
<1>4. \A p \in notRead : \/ \E r \in Unreadable(tree, spaces, members) : p = r.path
                         \/ \E n \in resolved.skipped : p = <<n>>
  OBVIOUS
<1>5. /\ report = [done |-> TRUE, scope |-> scope, resolved |-> resolved, index |-> index,
                    documents |-> documents, overlapping |-> overlapping, notRead |-> notRead,
                    strays |-> strays, uncollected |-> uncollected]
      /\ scope = scopeOf(run)
  BY <1>1, <1>2, Zenon
<1> HIDE DEF scope, documents, overlapping, notRead, strays, uncollected, index, resolved
<1>6. /\ report.scope = scope /\ report.resolved = resolved /\ report.index = index
      /\ report.documents = documents /\ report.overlapping = overlapping /\ report.notRead = notRead
      /\ report.strays = strays /\ report.uncollected = uncollected
  BY <1>5, Zenon
<1>7. scope = scopeOf(run) /\ scope # Refused /\ resolved = ResolveNamespaces(tree, entries)
      /\ index = Build(tree, resolved.spaces, members)
  BY <1>1, Zenon DEF scope, resolved, index
<1>8. ReportSays(run, scope, resolved, index)
  <2> USE DEF ReportSays
  <2> QED
    BY <1>3, <1>4, <1>6, <1>7, Zenon
<1> QED
  BY <1>6, <1>8

\* A run reads no namespace that is not there.
LEMMA ScopeWithin ==
    ASSUME NEW spaces, NEW flag, NEW variable, NEW cwd,
           ChooseScope(spaces, None, flag, variable, cwd, Imports) # Refused
    PROVE  ChooseScope(spaces, None, flag, variable, cwd, Imports).namespaces \subseteq NamesOf(spaces)
<1>1. \A source, names, imports : Scope(source, names, imports).namespaces = names
  BY DEF Scope
<1>2. ASSUME NEW list, NEW source, Select(spaces, list, Imports, source) # Refused
      PROVE  Select(spaces, list, Imports, source).namespaces \subseteq NamesOf(spaces)
  <2> DEFINE items == Range(SplitBy(list, ","))
             own == {i \in items : ~IsImport(i)}
             names == UNION {GlobMatch(i, NamesOf(spaces)) : i \in own}
  <2>1. \A i \in own : GlobMatch(i, NamesOf(spaces)) # NoChoice
    BY <1>2 DEF Select
  <2>2. ASSUME NEW i \in own PROVE GlobMatch(i, NamesOf(spaces)) \subseteq NamesOf(spaces)
    <3>1. GlobMatch(i, NamesOf(spaces)) \in {NoChoice, {n \in NamesOf(spaces) : Matches(i, n, Glob)}}
      BY DEF GlobMatch
    <3> QED
      BY <2>1, <3>1
  <2>3. PICK imports : Select(spaces, list, Imports, source) = Scope(source, names, imports)
    BY <1>2 DEF Select
  <2> HIDE DEF names
  <2>4. Select(spaces, list, Imports, source).namespaces = names
    BY <1>1, <2>3
  <2> USE DEF names
  <2> QED
    BY <2>2, <2>4
<1>3. Inside(spaces, cwd) \subseteq NamesOf(spaces)
  BY DEF Inside, NamesOf
<1> QED
  BY <1>1, <1>2, <1>3, Zenon DEF ChooseScope

\* The namespace that holds a file.
LEMMA HoldingIs ==
    ASSUME NEW tr, Grown(tr), NEW spaces, GoodSpaces(spaces), NEW s \in 1 .. Len(spaces),
           NEW p \in Beneath(tr, spaces[s].folder)
    PROVE  SpaceHolding(spaces, p) = spaces[s]
<1>1. IsPrefix(spaces[s].folder, p) /\ p \in DOMAIN tr
  BY DEF Beneath
<1>2. spaces \in Seq(Space) /\ DOMAIN spaces = 1 .. Len(spaces)
  BY LenProperties DEF GoodSpaces
<1>3. spaces[s] \in Range(spaces)
  BY <1>2 DEF Range
<1>4. ASSUME NEW x \in Range(spaces), IsPrefix(x.folder, p) PROVE x = spaces[s]
  <2>1. PICK t \in 1 .. Len(spaces) : x = spaces[t]
    BY <1>2, <1>4 DEF Range
  <2>2. CASE p # x.folder
    <3>1. p \in Beneath(tr, spaces[t].folder)
      BY <1>1, <1>4, <2>1, <2>2 DEF Beneath
    <3> QED
      BY <2>1, <3>1, OneSpace
  <2>3. CASE p = x.folder
    <3>1. CASE spaces = <<Default>>
      <4>1. Len(spaces) = 1
        BY <3>1
      <4> QED
        BY <2>1, <4>1
    <3>2. CASE \A i \in 1 .. Len(spaces) : spaces[i].name \in FileName /\ spaces[i] = SpaceOf(<<spaces[i].name>>)
      <4> DEFINE a == spaces[s].name
                 b == spaces[t].name
      <4>1. a \in FileName /\ b \in FileName /\ p \in Beneath(tr, SpaceOf(<<a>>).folder)
            /\ x.folder = SpaceOf(<<b>>).folder
        BY <2>1, <3>2
      <4> HIDE DEF a, b
      <4>2. p[1] = a /\ p # <<a>>
        BY <4>1, BeneathSpace
      <4>3. p = <<b>> /\ <<b>>[1] = b
        BY <2>3, <4>1, NamePath
      <4> QED
        BY <4>2, <4>3
    <3> QED
      BY <3>1, <3>2 DEF GoodSpaces
  <2> QED
    BY <2>2, <2>3
<1>5. \E x \in Range(spaces) : IsPrefix(x.folder, p)
  BY <1>1, <1>3
<1> QED
  BY <1>4, <1>5 DEF SpaceHolding

-----------------------------------------------------------------------------
(* An excluded namespace is fully invisible.                               *)

GoodSteps(t) == t.steps \in Seq(Seq(STRING \ {"/"}) \ {<<>>}) /\ t.steps # <<>>

LEMMA StepsAre ==
    ASSUME NEW list \in MemberLists, NEW m \in Range(list)
    PROVE  GoodSteps(m.template)
BY MemberAssumption DEF GoodSteps, Range

LEMMA StepTyped ==
    ASSUME NEW t, GoodSteps(t), NEW i \in 1 .. Len(t.steps)
    PROVE  t.steps[i] \in Seq(STRING \ {"/"}) \ {<<>>}
<1> DEFINE X == Seq(STRING \ {"/"}) \ {<<>>}
<1>1. t.steps \in Seq(X)
  BY DEF GoodSteps
<1> HIDE DEF X
<1>2. t.steps[i] \in X
  BY <1>1, ElementOfSeq
<1> QED
  BY <1>2 DEF X

LEMMA FolderStepsAre ==
    ASSUME NEW t, GoodSteps(t)
    PROVE  /\ FolderSteps(t) \in Seq(Seq(STRING \ {"/"}) \ {<<>>})
           /\ Len(FolderSteps(t)) = Len(t.steps) - 1 /\ Len(t.steps) \in Nat /\ Len(t.steps) >= 1
           /\ \A i \in 1 .. Len(t.steps) - 1 : FolderSteps(t)[i] = t.steps[i]
           /\ DOMAIN FolderSteps(t) = 1 .. Len(t.steps) - 1
<1> DEFINE S == Seq(STRING \ {"/"}) \ {<<>>}
           m == Len(t.steps)
<1>1. t.steps \in Seq(S) /\ m \in Nat /\ m >= 1
  BY EmptySeq, LenProperties DEF GoodSteps
<1> HIDE DEF S
<1>2. /\ SubSeq(t.steps, 1, m - 1) \in Seq(S) /\ Len(SubSeq(t.steps, 1, m - 1)) = m - 1
      /\ \A i \in 1 .. m - 1 : SubSeq(t.steps, 1, m - 1)[i] = t.steps[i]
  BY <1>1, SubSeqProperties
<1>3. DOMAIN SubSeq(t.steps, 1, m - 1) = 1 .. m - 1
  BY <1>2, LenProperties
<1> QED
  BY <1>1, <1>2, <1>3 DEF FolderSteps, S

\* The folder that a template writes out.
LEMMA FolderOfIs ==
    ASSUME NEW t, GoodSteps(t), LiteralFolder(t) # None, NEW s
    PROVE  FolderOf(s, t) = s.folder \o FolderSteps(t)
<1> DEFINE steps == FolderSteps(t)
           X == STRING \ {"/"}
<1>1. LiteralFolder(t) = PathOf(steps)
  BY DEF LiteralFolder
<1>2. steps \in Seq(Seq(X) \ {<<>>}) /\ "/" \notin X
  BY FolderStepsAre
<1> HIDE DEF steps, X
<1>3. CASE steps = <<>>
  <2>1. LiteralFolder(t) = <<>>
    BY <1>1, <1>3, PathEmpty
  <2> QED
    BY <1>3, <2>1 DEF FolderOf, steps
<1>4. CASE steps # <<>>
  <2>1. Segments(PathOf(steps)) = steps /\ PathOf(steps) # <<>>
    BY <1>2, <1>4, PathIsThere
  <2> QED
    BY <1>1, <2>1 DEF FolderOf, steps
<1> QED
  BY <1>3, <1>4

LEMMA CharactersAre ==
    "none" \notin Character /\ "," \notin Character /\ "{key}" \notin Character
<1>1. DOMAIN Ascii = 1 .. 22
  BY DEF Ascii
<1>2. /\ Ascii[1] = " " /\ Ascii[2] = "-" /\ Ascii[3] = ".agents" /\ Ascii[4] = ".md"
      /\ Ascii[5] = ".typdoc" /\ Ascii[6] = ".typdoc-tmp-" /\ Ascii[7] = "/" /\ Ascii[8] = "0"
      /\ Ascii[9] = "1" /\ Ascii[10] = "2" /\ Ascii[11] = ":" /\ Ascii[12] = "US"
      /\ Ascii[13] = "WF" /\ Ascii[14] = "a" /\ Ascii[15] = "b" /\ Ascii[16] = "config.json"
      /\ Ascii[17] = "index" /\ Ascii[18] = "notes" /\ Ascii[19] = "state" /\ Ascii[20] = "story"
      /\ Ascii[21] = "tickets" /\ Ascii[22] = "xFF"
  BY DEF Ascii
<1>3. \A i \in 1 .. 22 : \/ i = 1 \/ i = 2 \/ i = 3 \/ i = 4 \/ i = 5 \/ i = 6 \/ i = 7 \/ i = 8
                         \/ i = 9 \/ i = 10 \/ i = 11 \/ i = 12 \/ i = 13 \/ i = 14 \/ i = 15
                         \/ i = 16 \/ i = 17 \/ i = 18 \/ i = 19 \/ i = 20 \/ i = 21 \/ i = 22
  OBVIOUS
<1>4. \A i \in 1 .. 22 : Ascii[i] # "none" /\ Ascii[i] # "," /\ Ascii[i] # "{key}"
  BY <1>2, <1>3
<1> QED
  BY <1>1, <1>4 DEF Character, Range

Text == STRING \cup Character

LEMMA FolderBegins ==
    ASSUME NEW t, GoodSteps(t), LiteralFolder(t) # None, NEW n \in FileName
    PROVE  LET dir == FolderOf(SpaceOf(<<n>>), t)
           IN  dir \in Seq(Seq(Text)) /\ Len(dir) >= 1 /\ dir[1] = n
<1> DEFINE steps == FolderSteps(t)
           Y == Seq(Text)
<1>1. FolderOf(SpaceOf(<<n>>), t) = <<n>> \o steps
  BY FolderOfIs, NamePath
<1>2. steps \in Seq(Y)
  <2>1. steps \in Seq(Seq(STRING \ {"/"}) \ {<<>>})
    BY FolderStepsAre
  <2>2. STRING \ {"/"} \subseteq Text
    BY DEF Text
  <2>3. Seq(STRING \ {"/"}) \ {<<>>} \subseteq Y
    BY <2>2, SeqMonotonic
  <2> HIDE DEF steps, Y
  <2> QED
    BY <2>1, <2>3, SeqMonotonic
<1>3. n \in Y
  <2>1. n \in Seq(Character \ {"/"})
    BY DEF FileName, Character
  <2>2. Character \ {"/"} \subseteq Text
    BY DEF Text
  <2> QED
    BY <2>1, <2>2, SeqMonotonic
<1> DEFINE one == <<n>>
<1> HIDE DEF steps, Y
<1>4. one \in Seq(Y) /\ Len(one) = 1 /\ one[1] = n
  BY <1>3
<1> HIDE DEF one
<1>5. one \o steps \in Seq(Y) /\ Len(one \o steps) = 1 + Len(steps) /\ Len(steps) \in Nat
  <2>1. one \o steps \in Seq(Y) /\ Len(one \o steps) = Len(one) + Len(steps)
    BY <1>2, <1>4, ConcatProperties
  <2>2. Len(steps) \in Nat
    BY <1>2, LenProperties
  <2> QED
    BY <1>4, <2>1, <2>2
<1>6. (one \o steps)[1] = n
  <2>1. \A i \in 1 .. Len(one) + Len(steps) :
           (one \o steps)[i] = IF i <= Len(one) THEN one[i] ELSE steps[i - Len(one)]
    BY <1>2, <1>4, ConcatProperties
  <2> DEFINE w == one \o steps
             k == Len(one) + Len(steps)
  <2>2. 1 \in 1 .. k /\ 1 <= Len(one)
    BY <1>4, <1>5
  <2> HIDE DEF w, k
  <2>3. \A i \in 1 .. k : w[i] = IF i <= Len(one) THEN one[i] ELSE steps[i - Len(one)]
    BY <2>1 DEF w, k
  <2>4. w[1] = one[1]
    BY <2>2, <2>3
  <2> QED
    BY <1>4, <2>4 DEF w
<1> DEFINE dir == FolderOf(SpaceOf(<<n>>), t)
<1>7. dir = one \o steps
  BY <1>1 DEF one, steps
<1> HIDE DEF dir
<1>8. dir \in Seq(Y) /\ Len(dir) >= 1 /\ dir[1] = n
  BY <1>4, <1>5, <1>6, <1>7
<1> QED
  BY <1>8 DEF dir, Y

LEMMA StrayWhere ==
    ASSUME NEW tr, Grown(tr), NEW spaces, NEW list \in MemberLists, NEW p \in StrayFiles(tr, spaces, list)
    PROVE  \E s \in Range(spaces), m \in Range(list) :
              /\ GoodSteps(m.template) /\ LiteralFolder(m.template) # None
              /\ \/ \E name : p = Append(FolderOf(s, m.template), name)
                 \/ IsPrefix(FolderOf(s, m.template), p) /\ p \in DOMAIN tr
<1>1. PICK dir \in ScannedFolders(spaces, list) : p \in FilesIn(tr, dir)
  BY DEF StrayFiles
<1>2. PICK s \in Range(spaces), m \in Scanned(list) : dir = FolderOf(s, m.template)
  BY <1>1 DEF ScannedFolders
<1>3. m \in Range(list) /\ LiteralFolder(m.template) # None
  BY <1>2 DEF Scanned
<1>4. (\E name : p = Append(dir, name)) \/ (IsPrefix(dir, p) /\ p \in DOMAIN tr)
  BY <1>1 DEF FilesIn, List
<1> QED
  BY <1>2, <1>3, <1>4, StepsAre

\* A stray file is in the folder of a namespace.
LEMMA StrayBegins ==
    ASSUME NEW tr, Grown(tr), NEW list \in MemberLists, NEW spaces, NEW p \in StrayFiles(tr, spaces, list),
           \A s \in Range(spaces) : s.name \in FileName /\ s = SpaceOf(<<s.name>>)
    PROVE  \E s \in Range(spaces) : p[1] = s.name
<1>1. PICK s \in Range(spaces), m \in Range(list) :
              /\ GoodSteps(m.template) /\ LiteralFolder(m.template) # None
              /\ \/ \E name : p = Append(FolderOf(s, m.template), name)
                 \/ IsPrefix(FolderOf(s, m.template), p) /\ p \in DOMAIN tr
  BY StrayWhere
<1> DEFINE dir == FolderOf(s, m.template)
           n == s.name
<1>2. n \in FileName /\ s = SpaceOf(<<n>>)
  OBVIOUS
<1> HIDE DEF n
<1>3. dir \in Seq(Seq(Text)) /\ Len(dir) >= 1 /\ dir[1] = n /\ Len(dir) \in Nat
  BY <1>1, <1>2, FolderBegins, LenProperties
<1> HIDE DEF dir
<1>4. CASE \E name : p = Append(dir, name)
  BY <1>3, <1>4 DEF n
<1>5. CASE IsPrefix(dir, p) /\ p \in DOMAIN tr
  <2>1. p \in Seq(FileName) /\ Len(p) \in Nat
    BY <1>5, LenProperties DEF Grown, FilePath
  <2>2. Len(dir) <= Len(p) /\ SubSeq(dir, 1, Len(dir)) = SubSeq(p, 1, Len(dir))
    BY <1>5 DEF IsPrefix
  <2>3. SubSeq(dir, 1, Len(dir))[1] = dir[1]
    BY <1>3
  <2>4. SubSeq(p, 1, Len(dir))[1] = p[1]
    BY <1>3, <2>1, <2>2
  <2> QED
    BY <1>3, <2>2, <2>3, <2>4 DEF n
<1> QED
  BY <1>1, <1>4, <1>5 DEF dir

\* An excluded folder has a name in the characters there are.
LEMMA ExcludedIs ==
    ASSUME NEW tr, Grown(tr), NEW list, Len(list) \in Nat, DOMAIN list = 1 .. Len(list), NEW n,
           n \in ApplyEntries(tr, list).excluded
    PROVE  n \in FileName /\ n \notin ApplyEntries(tr, list).matched
<1> DEFINE all == ApplyEntries(tr, list)
           m == Len(list)
<1>1. Decided_(tr, list, m, all)
  BY EntriesDecide
<1> HIDE DEF all
<1>2. PICK i \in 1 .. m : LastReach(tr, list, m, i, n) /\ Negated(list[i])
  BY <1>1 DEF Decided_, all
<1>3. n \in FileName
  <2>1. n \in Folders_(tr)
    BY <1>2, EntryReaches DEF LastReach, Reaches_
  <2> QED
    BY <2>1, TopPaths DEF Folders_
<1>4. ~\E j \in 1 .. m : LastReach(tr, list, m, j, n) /\ ~Negated(list[j])
  <2> SUFFICES ASSUME NEW j \in 1 .. m, LastReach(tr, list, m, j, n), ~Negated(list[j]) PROVE FALSE
    OBVIOUS
  <2>1. i <= j /\ j <= i
    BY <1>2 DEF LastReach
  <2>2. i = j
    BY <2>1
  <2> QED
    BY <1>2, <2>2
<1> QED
  BY <1>1, <1>3, <1>4 DEF Decided_, all

\* No namespace has the name of one that is excluded.
LEMMA NamedNowhere ==
    ASSUME NEW n \in FileName, PlainName(n), n # <<"default">>, NEW spaces, n \notin NamesOf(spaces),
           \A k \in NamesOf(spaces) : k \in FileName
    PROVE  /\ ChooseScope(spaces, n, None, None, <<>>, Imports) = Refused
           /\ ChooseScope(spaces, None, n, None, <<>>, Imports) = Refused
<1>1. n \in Seq(Character \ {"/"}) /\ n # <<>> /\ \A i \in DOMAIN n : n[i] \in Character
  BY DEF FileName, Character
<1>2. n # None
  <2>1. None[1] = "none" /\ 1 \in DOMAIN None
    BY DEF None
  <2> QED
    BY <1>1, <2>1, CharactersAre
<1>3. ChooseScope(spaces, n, None, None, <<>>, Imports) = Refused
  <2>1. NamedByPrefix(spaces, n) = {}
    BY DEF NamedByPrefix
  <2> QED
    BY <1>2, <2>1 DEF ChooseScope
<1>4. SplitBy(n, ",") = <<n>>
  <2> DEFINE Z == Character \ {"/"}
             Y == Character \ {","}
  <2>1. Z \subseteq Y
    BY CharactersAre
  <2>2. n \in Seq(Z)
    BY <1>1
  <2> HIDE DEF Z
  <2>3. n \in Seq(Y)
    BY <2>1, <2>2, SeqMonotonic
  <2> QED
    BY <2>3, NotCut
<1>5. Range(SplitBy(n, ",")) = {n}
  <2> DEFINE one == <<n>>
  <2>1. DOMAIN one = {1} /\ one[1] = n
    OBVIOUS
  <2> HIDE DEF one
  <2>2. Range(one) = {n}
    BY <2>1 DEF Range
  <2> QED
    BY <1>4, <2>2 DEF one
<1>6. \A i \in DOMAIN n : n[i] \notin {"*", ":", "{key}"}
  BY <1>1, CharactersAre DEF PlainName, Range
<1>7. ~IsImport(n)
  <2> DEFINE mark == <<":", ":">>
             at == {i \in 1 .. Len(n) - Len(mark) + 1 : SubSeq(n, i, i + Len(mark) - 1) = mark}
  <2>1. Len(n) \in Nat /\ DOMAIN n = 1 .. Len(n)
    BY <1>1, LenProperties
  <2>2. ASSUME NEW i \in at PROVE FALSE
    <3>1. i \in 1 .. Len(n) - 1 /\ SubSeq(n, i, i + 1) = mark
      <4>1. Len(mark) = 2
        OBVIOUS
      <4> QED
        BY <2>1, <2>2, <4>1
    <3>2. SubSeq(n, i, i + 1)[1] = n[i]
      BY <1>1, <2>1, <3>1, SubSeqProperties
    <3>3. mark[1] = ":"
      OBVIOUS
    <3>4. i \in DOMAIN n
      BY <2>1, <3>1
    <3> QED
      BY <1>6, <3>1, <3>2, <3>3, <3>4
  <2>3. at = {}
    BY <2>2
  <2>4. FirstOf(mark, n) = 0
    BY <2>3 DEF FirstOf
  <2> QED
    BY <2>4 DEF IsImport, Has
<1>8. GlobMatch(n, NamesOf(spaces)) = NoChoice
  <2>1. Literal(n)
    BY <1>1, <1>6, LenProperties DEF Literal
  <2>2. \A k \in NamesOf(spaces) : k \in Seq(Character)
    <3>1. \A k \in FileName : k \in Seq(Character)
      BY SeqMonotonic DEF FileName, Character
    <3> QED
      BY <3>1
  <2>3. \A k \in NamesOf(spaces) : ~Matches(n, k, Glob)
    BY <1>1, <2>1, <2>2, LiteralIs
  <2>4. {k \in NamesOf(spaces) : Matches(n, k, Glob)} = {}
    BY <2>3
  <2>5. ~IsGlob(n)
    BY <1>6 DEF IsGlob, Range
  <2> QED
    BY <2>4, <2>5 DEF GlobMatch
<1>9. Select(spaces, n, Imports, "flag") = Refused
  BY <1>5, <1>7, <1>8 DEF Select
<1> QED
  BY <1>2, <1>3, <1>9 DEF ChooseScope

LEMMA ExcludedHidden == ReadInv => ExcludedIsInvisible
<1> SUFFICES ASSUME ReadInv, report.done, NEW n \in report.resolved.excluded
             PROVE  /\ \A p \in report.documents \cup report.overlapping \cup report.uncollected
                                 \cup report.strays \cup (report.notRead \ {<<n>>}) : p[1] # n
                    /\ ~NameProblem(n) =>
                         /\ ChooseScope(report.resolved.spaces, n, None, None, <<>>, Imports) = Refused
                         /\ ChooseScope(report.resolved.spaces, None, n, None, <<>>, Imports) = Refused
                    /\ n \notin report.scope.namespaces
  BY DEF ExcludedIsInvisible
<1> DEFINE resolved == ResolveNamespaces(tree, entries)
           spaces == resolved.spaces
           all == ApplyEntries(tree, entries)
<1>1. PICK run \in Runs : ReportSays(run, report.scope, report.resolved, report.index)
  BY ReportIs
<1>2. report.resolved = resolved /\ Grown(tree) /\ members \in MemberLists
  BY <1>1 DEF ReportSays, ReadInv
<1>3. entries # NoEntries
  BY <1>2 DEF ResolveNamespaces
<1>4. Len(entries) \in Nat /\ DOMAIN entries = 1 .. Len(entries)
  BY ListIs
<1>5. /\ resolved.excluded = all.excluded /\ resolved.skipped = all.skipped
      /\ \A i \in DOMAIN spaces :
            LET s == spaces[i]
            IN  s.name \in all.matched /\ s.name \in FileName /\ s = SpaceOf(<<s.name>>)
  BY <1>2, <1>3, <1>4, ResolvedIs
<1> HIDE DEF resolved, spaces, all
<1>6. n \in FileName /\ n \notin all.matched
  BY <1>2, <1>4, <1>5, ExcludedIs DEF all
<1>7. \A s \in Range(spaces) : s.name # n /\ s.name \in FileName /\ s = SpaceOf(<<s.name>>)
  BY <1>5, <1>6 DEF Range
<1>8. GoodSpaces(spaces) /\ DOMAIN spaces = 1 .. Len(spaces)
  BY SpacesAre, LenProperties DEF GoodSpaces, spaces, resolved
<1>9. ASSUME NEW s \in Range(spaces), NEW p \in Beneath(tree, s.folder) PROVE p[1] # n
  <2> DEFINE a == s.name
  <2>1. a \in FileName /\ s = SpaceOf(<<a>>) /\ a # n
    BY <1>7
  <2> HIDE DEF a
  <2> QED
    BY <1>2, <1>9, <2>1, BeneathSpace
<1>10. report.index = Build(tree, spaces, members) /\ Answers(tree, spaces, members, report.index)
  BY <1>1, <1>2, <1>8, BuildAnswers DEF ReportSays, spaces
<1>11. ASSUME NEW p, p \in report.documents \cup report.overlapping PROVE p[1] # n
  <2>1. p \in DOMAIN report.index.entries \cup DOMAIN report.index.overlaps
    BY <1>1, <1>11 DEF ReportSays
  <2>2. PICK s, j : Claim(tree, spaces, members, s, j, p)
    BY <1>10, <2>1 DEF Answers
  <2>3. s \in 1 .. Len(spaces) /\ p \in Beneath(tree, spaces[s].folder)
    BY <2>2, ClaimFacts
  <2> QED
    BY <1>8, <1>9, <2>3 DEF Range
<1>12. ASSUME NEW p \in report.uncollected PROVE p[1] # n
  <2>1. p \in AllMarkdownFiles(tree, spaces, members)
    BY <1>1, <1>2 DEF ReportSays, Uncollected, spaces
  <2>2. PICK s \in Range(spaces) : p \in Beneath(tree, s.folder)
    BY <2>1 DEF AllMarkdownFiles, WalkEveryFile
  <2> QED
    BY <1>9, <2>2
<1>13. ASSUME NEW p \in report.strays PROVE p[1] # n
  <2>1. p \in StrayFiles(tree, spaces, members)
    BY <1>1, <1>2 DEF ReportSays, spaces
  <2>2. PICK s \in Range(spaces) : p[1] = s.name
    BY <1>2, <1>7, <2>1, StrayBegins
  <2> QED
    BY <1>7, <2>2
<1>14. ASSUME NEW p \in report.notRead, p # <<n>> PROVE p[1] # n
  <2>1. CASE \E r \in Unreadable(tree, spaces, members) : p = r.path
    <3>1. PICK s \in Range(spaces), m \in Range(members) : \E r \in Walk(tree, s.folder, m.template) : p = r.path
      BY <2>1 DEF Unreadable
    <3>2. p \in Beneath(tree, s.folder)
      BY <3>1, WalkBeneath
    <3> QED
      BY <1>9, <3>2
  <2>2. CASE \E k \in resolved.skipped : p = <<k>>
    BY <1>14, <2>2
  <2> QED
    BY <1>1, <1>2, <2>1, <2>2 DEF ReportSays, spaces
<1>15. \A k \in NamesOf(spaces) : k # n /\ k \in FileName
  BY <1>7 DEF NamesOf
<1>16. n \notin report.scope.namespaces
  <2>1. report.scope.namespaces \subseteq NamesOf(spaces)
    BY <1>1, <1>2, ScopeWithin DEF ReportSays, spaces
  <2> QED
    BY <1>15, <2>1
<1>17. ~NameProblem(n) =>
         /\ ChooseScope(spaces, n, None, None, <<>>, Imports) = Refused
         /\ ChooseScope(spaces, None, n, None, <<>>, Imports) = Refused
  <2> SUFFICES ASSUME ~NameProblem(n)
               PROVE  /\ ChooseScope(spaces, n, None, None, <<>>, Imports) = Refused
                      /\ ChooseScope(spaces, None, n, None, <<>>, Imports) = Refused
    OBVIOUS
  <2>1. PlainName(n) /\ n # <<"default">>
    BY DEF NameProblem
  <2>2. n \notin NamesOf(spaces)
    BY <1>15
  <2> QED
    BY <1>6, <1>15, <2>1, <2>2, NamedNowhere
<1> QED
  BY <1>2, <1>11, <1>12, <1>13, <1>14, <1>16, <1>17 DEF spaces

\* NamespacesDecide: the last entry of `namespaces` that reaches a folder decides whether it is a
\* namespace, an excluded one is nowhere in a report and cannot be named, and the numbers of its
\* documents stay, for any project folder, list of namespaces and collections
\* (namespaces.rs resolve, scope.rs choose, state.rs orphans).
THEOREM DecidedByTheLast == Spec => []NamespacesDecide
<1>1. ReadInv => NamespacesDecide
  BY LastDecides, ExcludedHidden, StateSurvives DEF NamespacesDecide
<1> QED
  BY <1>1, ReadingStarts, ReadingStays, PTL DEF Spec

-----------------------------------------------------------------------------
(* Where a walk stands.                                                    *)

StandsBy(f, tr, dir, t, folder) ==
    /\ f[0] = From(t, 1) /\ Stands(tr, dir, t, folder) = f[Len(folder) - Len(dir)]
    /\ \A n \in Nat : n < Len(folder) - Len(dir) =>
         f[n + 1] = StandsIn(tr, SubSeq(folder, 1, Len(dir) + (n + 1)), t, f[n])

\* The steps a walk stands at, n folders below the first.
IsStanding(f, tr, dir, t, folder, m) == f =
    [n \in 0 .. m |-> IF n = 0 THEN From(t, 1) ELSE StandsIn(tr, SubSeq(folder, 1, Len(dir) + n), t, f[n - 1])]

LEMMA StandingExists ==
    ASSUME NEW tr, NEW dir, NEW t, NEW folder, NEW m \in Nat
    PROVE  \E f : IsStanding(f, tr, dir, t, folder, m)
<1> DEFINE Is(f, k) == f = [n \in 0 .. k |->
                         IF n = 0 THEN From(t, 1) ELSE StandsIn(tr, SubSeq(folder, 1, Len(dir) + n), t, f[n - 1])]
           S == {k \in Nat : \E f : Is(f, k)}
<1>1. 0 \in S
  <2> DEFINE f == [n \in 0 .. 0 |-> From(t, 1)]
  <2>1. \A n \in 0 .. 0 : n = 0
    OBVIOUS
  <2>2. Is(f, 0)
    BY <2>1
  <2> QED
    BY <2>2
<1>2. ASSUME NEW k \in Nat, k \in S PROVE k + 1 \in S
  <2>1. PICK f : Is(f, k)
    BY <1>2
  <2> DEFINE g == [n \in 0 .. k + 1 |->
                     IF n = k + 1 THEN StandsIn(tr, SubSeq(folder, 1, Len(dir) + (k + 1)), t, f[k]) ELSE f[n]]
  <2>2. \A n \in 0 .. k : f[n] =
          IF n = 0 THEN From(t, 1) ELSE StandsIn(tr, SubSeq(folder, 1, Len(dir) + n), t, f[n - 1])
    BY <2>1
  <2>3. ASSUME NEW n \in 0 .. k + 1 PROVE g[n] =
          IF n = 0 THEN From(t, 1) ELSE StandsIn(tr, SubSeq(folder, 1, Len(dir) + n), t, g[n - 1])
    <3>1. CASE n = k + 1
      <4>1. n # 0 /\ n - 1 = k /\ k \in 0 .. k + 1 /\ k # k + 1
        BY <1>2, <3>1
      <4>2. g[k] = f[k] /\ g[n] = StandsIn(tr, SubSeq(folder, 1, Len(dir) + n), t, f[k])
        BY <3>1, <4>1
      <4> QED
        BY <4>1, <4>2
    <3>2. CASE n # k + 1 /\ n # 0
      <4>1. n \in 0 .. k /\ n - 1 \in 0 .. k + 1 /\ n - 1 # k + 1
        BY <1>2, <3>2
      <4>2. g[n] = f[n] /\ g[n - 1] = f[n - 1]
        BY <3>2, <4>1
      <4> QED
        BY <2>2, <3>2, <4>1, <4>2
    <3>3. CASE n # k + 1 /\ n = 0
      <4>1. n \in 0 .. k
        BY <1>2, <3>3
      <4>2. g[n] = f[n]
        BY <3>3
      <4> QED
        BY <2>2, <3>3, <4>1, <4>2
    <3> QED
      BY <3>1, <3>2, <3>3
  <2>4. g = [n \in 0 .. k + 1 |-> g[n]]
    OBVIOUS
  <2>5. Is(g, k + 1)
    <3> HIDE DEF g
    <3> QED
      BY <2>3, <2>4
  <2>6. k + 1 \in Nat /\ \E f_ : Is(f_, k + 1)
    <3> HIDE DEF Is, g
    <3> QED
      BY <2>5
  <2> QED
    BY <2>6
<1>3. Nat \subseteq S
  <2> HIDE DEF S
  <2> QED
    BY <1>1, <1>2, ByNat
<1> QED
  BY <1>3 DEF IsStanding

LEMMA StandingIs ==
    ASSUME NEW tr, NEW dir, NEW t, NEW folder, Len(folder) - Len(dir) \in Nat
    PROVE  \E f : StandsBy(f, tr, dir, t, folder)
<1> DEFINE m == Len(folder) - Len(dir)
           chosen == CHOOSE f : f = [n \in 0 .. m |->
                   IF n = 0 THEN From(t, 1) ELSE StandsIn(tr, SubSeq(folder, 1, Len(dir) + n), t, f[n - 1])]
<1>1. \E f : IsStanding(f, tr, dir, t, folder, m)
  BY StandingExists
<1>2. chosen = [n \in 0 .. m |->
        IF n = 0 THEN From(t, 1) ELSE StandsIn(tr, SubSeq(folder, 1, Len(dir) + n), t, chosen[n - 1])]
  BY <1>1, Zenon DEF IsStanding
<1>3. Stands(tr, dir, t, folder) = chosen[m]
  BY DEF Stands
<1> HIDE DEF chosen
<1>4. \A n \in 0 .. m : chosen[n] =
        IF n = 0 THEN From(t, 1) ELSE StandsIn(tr, SubSeq(folder, 1, Len(dir) + n), t, chosen[n - 1])
  BY <1>2
<1>5. ASSUME NEW n \in Nat, n < m
      PROVE  chosen[n + 1] = StandsIn(tr, SubSeq(folder, 1, Len(dir) + (n + 1)), t, chosen[n])
  <2>1. n + 1 \in 0 .. m /\ n + 1 # 0 /\ n + 1 - 1 = n
    BY <1>5
  <2> QED
    BY <1>4, <2>1
<1>6. chosen[0] = From(t, 1)
  BY <1>4
<1>7. StandsBy(chosen, tr, dir, t, folder)
  BY <1>3, <1>5, <1>6 DEF StandsBy
<1> QED
  BY <1>7

LEMMA PathPrefix ==
    ASSUME NEW p \in FilePath, NEW n \in Nat, n >= 1, n <= Len(p)
    PROVE  LET q == SubSeq(p, 1, n)
           IN  /\ q \in FilePath /\ Len(q) = n /\ q # <<>>
               /\ Front(q) = SubSeq(p, 1, n - 1) /\ Last(q) = p[n]
               /\ \A k \in Nat : k <= n => SubSeq(q, 1, k) = SubSeq(p, 1, k)
<1> DEFINE q == SubSeq(p, 1, n)
<1>1. p \in Seq(FileName) /\ Len(p) \in Nat
  BY LenProperties DEF FilePath
<1>2. /\ q \in Seq(FileName) /\ Len(q) = n
      /\ \A i \in 1 .. n : q[i] = p[i]
  BY <1>1, SubSeqProperties
<1> HIDE DEF q
<1>3. ASSUME NEW k \in Nat, k <= n PROVE SubSeq(q, 1, k) = SubSeq(p, 1, k)
  <2>1. k <= Len(q) /\ k <= Len(p)
    BY <1>1, <1>2, <1>3
  <2>2. \A i \in 1 .. k : q[i] = p[i]
    BY <1>2, <1>3
  <2> QED
    BY <1>1, <1>2, <2>1, <2>2, SamePrefix
<1>4. Front(q) = SubSeq(p, 1, n - 1)
  <2>1. Front(q) = SubSeq(q, 1, n - 1)
    BY <1>2 DEF Front
  <2>2. n - 1 \in Nat /\ n - 1 <= n
    OBVIOUS
  <2> QED
    BY <1>3, <2>1, <2>2
<1>5. Last(q) = p[n]
  BY <1>2 DEF Last
<1>6. q # <<>>
  BY <1>2, EmptySeq
<1> QED
  BY <1>2, <1>3, <1>4, <1>5, <1>6 DEF q, FilePath

\* What is above something that is there is a folder.
LEMMA Above ==
    ASSUME NEW tr, Grown(tr), NEW p \in DOMAIN tr, NEW n \in Nat, n < Len(p)
    PROVE  SubSeq(p, 1, n) \in DOMAIN tr /\ tr[SubSeq(p, 1, n)] = "folder"
<1> DEFINE m == Len(p)
           S == {k \in Nat : k < m => /\ SubSeq(p, 1, m - (k + 1)) \in DOMAIN tr
                                      /\ tr[SubSeq(p, 1, m - (k + 1))] = "folder"}
<1>1. p \in Seq(FileName) /\ m \in Nat /\ p \in FilePath
  BY LenProperties DEF Grown, FilePath
<1>2. 0 \in S
  <2> SUFFICES ASSUME 0 < m PROVE /\ SubSeq(p, 1, m - 1) \in DOMAIN tr
                                  /\ tr[SubSeq(p, 1, m - 1)] = "folder"
    BY <1>1
  <2>1. p # <<>>
    BY <1>1, EmptySeq
  <2>2. Front(p) = SubSeq(p, 1, m - 1)
    BY DEF Front
  <2> QED
    BY <2>1, <2>2 DEF Grown
<1>3. ASSUME NEW k \in Nat, k \in S PROVE k + 1 \in S
  <2> SUFFICES ASSUME k + 1 < m PROVE /\ SubSeq(p, 1, m - (k + 2)) \in DOMAIN tr
                                      /\ tr[SubSeq(p, 1, m - (k + 2))] = "folder"
    BY <1>1
  <2> DEFINE l == m - (k + 2)
             e == m - (k + 1)
             q == SubSeq(p, 1, e)
  <2>1. l \in Nat /\ e <= Len(p) /\ e \in Nat /\ e >= 1 /\ e - 1 = l
    BY <1>1
  <2>2. q \in DOMAIN tr
    BY <1>3, <2>1
  <2> HIDE DEF l, e
  <2>3. Front(q) = SubSeq(p, 1, l) /\ q # <<>>
    BY <1>1, <2>1, PathPrefix
  <2> HIDE DEF q
  <2> QED
    BY <2>2, <2>3 DEF Grown, l
<1> HIDE DEF S
<1>4. \A k \in Nat : k \in S
  BY <1>2, <1>3, ByNat
<1>5. m - (n + 1) \in Nat /\ m - (n + 1) < m /\ m - (m - (n + 1) + 1) = n
  BY <1>1
<1>6. m - (n + 1) \in S
  BY <1>4, <1>5
<1> QED
  BY <1>5, <1>6 DEF S

LEMMA StandsFirst ==
    ASSUME NEW tr, NEW dir, Len(dir) \in Nat, NEW t
    PROVE  Stands(tr, dir, t, dir) = From(t, 1)
<1>1. Len(dir) - Len(dir) = 0
  OBVIOUS
<1>2. PICK f : StandsBy(f, tr, dir, t, dir)
  <2>1. Len(dir) - Len(dir) \in Nat
    BY <1>1
  <2> QED
    BY <2>1, StandingIs
<1> QED
  BY <1>1, <1>2 DEF StandsBy

LEMMA StandsNext ==
    ASSUME NEW tr, NEW dir, Len(dir) \in Nat, NEW t, NEW q \in FilePath, Len(dir) < Len(q)
    PROVE  Stands(tr, dir, t, q) = StandsIn(tr, q, t, Stands(tr, dir, t, Front(q)))
<1> DEFINE p == Front(q)
           d == Len(dir)
           m == Len(p) - d
<1>1. /\ q \in Seq(FileName) /\ Len(q) \in Nat /\ q # <<>>
      /\ p \in Seq(FileName) /\ Len(p) = Len(q) - 1
  <2>1. q \in Seq(FileName) /\ Len(q) \in Nat
    BY LenProperties DEF FilePath
  <2>2. q # <<>>
    BY <2>1
  <2> QED
    BY <2>1, <2>2, FrontIs DEF FilePath
<1>2. m \in Nat /\ Len(q) - d = m + 1
  BY <1>1
<1>3. \A k \in Nat : k <= m + d => SubSeq(p, 1, k) = SubSeq(q, 1, k)
  <2> TAKE k \in Nat
  <2> HAVE k <= m + d
  <2>1. k <= Len(p) /\ k <= Len(q)
    BY <1>1
  <2>2. p = SubSeq(q, 1, Len(q) - 1)
    BY DEF Front
  <2>3. \A i \in 1 .. k : p[i] = q[i]
    <3> HIDE DEF p
    <3>1. \A i \in 1 .. Len(q) - 1 : SubSeq(q, 1, Len(q) - 1)[i] = q[i]
      BY <1>1, SubSeqProperties
    <3>2. \A i \in 1 .. k : i \in 1 .. Len(q) - 1
      BY <1>1, <2>1
    <3> QED
      BY <2>2, <3>1, <3>2
  <2> HIDE DEF p
  <2> QED
    BY <1>1, <2>1, <2>3, SamePrefix
<1>4. PICK f : StandsBy(f, tr, dir, t, p)
  BY <1>2, StandingIs
<1>5. PICK g : StandsBy(g, tr, dir, t, q)
  <2>1. Len(q) - Len(dir) \in Nat
    BY <1>2
  <2> QED
    BY <2>1, StandingIs
<1> HIDE DEF p, d
<1>6. /\ f[0] = From(t, 1) /\ Stands(tr, dir, t, p) = f[m]
      /\ \A n \in Nat : n < m => f[n + 1] = StandsIn(tr, SubSeq(p, 1, d + (n + 1)), t, f[n])
  BY <1>4 DEF StandsBy, d
<1>7. /\ g[0] = From(t, 1) /\ Stands(tr, dir, t, q) = g[m + 1]
      /\ \A n \in Nat : n < m + 1 => g[n + 1] = StandsIn(tr, SubSeq(q, 1, d + (n + 1)), t, g[n])
  BY <1>2, <1>5 DEF StandsBy, d
<1> DEFINE S == {n \in Nat : f[n] = g[n]}
<1>8. 0 \in S
  BY <1>6, <1>7
<1>9. ASSUME NEW n \in Nat, n < m, n \in S PROVE n + 1 \in S
  <2>1. d + (n + 1) \in Nat /\ d + (n + 1) <= m + d /\ n < m + 1
    BY <1>2, <1>9 DEF d
  <2>2. SubSeq(p, 1, d + (n + 1)) = SubSeq(q, 1, d + (n + 1))
    BY <1>3, <2>1
  <2>3. f[n + 1] = StandsIn(tr, SubSeq(p, 1, d + (n + 1)), t, f[n])
    BY <1>6, <1>9
  <2>4. g[n + 1] = StandsIn(tr, SubSeq(q, 1, d + (n + 1)), t, g[n])
    BY <1>7, <1>9, <2>1
  <2>5. f[n] = g[n]
    BY <1>9
  <2>6. f[n + 1] = g[n + 1]
    BY <2>2, <2>3, <2>4, <2>5
  <2> QED
    BY <2>6
<1> HIDE DEF S
<1>10. m \in S
  <2>1. \A n \in 0 .. m : n \in S
    BY <1>2, <1>8, <1>9, UpTo
  <2> QED
    BY <1>2, <2>1
<1>11. g[m + 1] = StandsIn(tr, SubSeq(q, 1, d + (m + 1)), t, g[m])
  <2>1. m < m + 1
    BY <1>2
  <2> QED
    BY <1>2, <1>7, <2>1
<1>12. d + (m + 1) = Len(q) /\ SubSeq(q, 1, Len(q)) = q
  <2>1. d + (m + 1) = Len(q)
    BY <1>2 DEF d
  <2> QED
    BY <1>1, <2>1, SubSeqFull
<1> QED
  BY <1>6, <1>7, <1>10, <1>11, <1>12 DEF S, p

-----------------------------------------------------------------------------
(* No file in the folder of a coded collection is passed over in silence.  *)

LEMMA FromHere ==
    ASSUME NEW t, Len(t.steps) \in Nat, NEW at \in 1 .. Len(t.steps)
    PROVE  at \in From(t, at)
<1>1. at \in at .. Len(t.steps) /\ \A j : j \notin at .. at - 1
  OBVIOUS
<1> QED
  BY <1>1 DEF From

\* A walk goes down the folders that a template writes out.
LEMMA StandsLiteral ==
    ASSUME NEW tr, NEW dir \in FilePath, NEW t, GoodSteps(t), LiteralFolder(t) # None, NEW p \in FilePath,
           NEW m \in Nat, m = Len(dir) + (Len(t.steps) - 1), m <= Len(p),
           \A i \in 1 .. Len(t.steps) - 1 : p[Len(dir) + i] = t.steps[i],
           SubSeq(p, 1, Len(dir)) = dir,
           \A n \in Len(dir) + 1 .. m : Opens(tr, SubSeq(p, 1, n))
    PROVE  Len(t.steps) \in Stands(tr, dir, t, SubSeq(p, 1, m))
<1> DEFINE d == Len(dir)
           l == Len(t.steps)
           below(n) == SubSeq(p, 1, d + n)
           S == {n \in Nat : n < l => n + 1 \in Stands(tr, dir, t, below(n))}
<1>1. /\ d \in Nat /\ l \in Nat /\ l >= 1 /\ p \in Seq(FileName) /\ Len(p) \in Nat
      /\ m = d + (l - 1)
  BY FolderStepsAre, LenProperties DEF FilePath
<1>2. 0 \in S
  <2>1. d + 0 = d /\ 1 \in 1 .. l /\ 0 + 1 = 1
    BY <1>1
  <2>2. Stands(tr, dir, t, dir) = From(t, 1)
    BY <1>1, StandsFirst
  <2>3. 1 \in From(t, 1)
    BY <1>1, <2>1, FromHere
  <2>4. 1 \in Stands(tr, dir, t, dir)
    BY <2>2, <2>3
  <2>5. SubSeq(p, 1, d + 0) = dir
    BY <2>1
  <2>6. below(0) = dir
    BY <2>5
  <2> HIDE DEF below
  <2>7. 0 + 1 \in Stands(tr, dir, t, below(0))
    BY <2>1, <2>4, <2>6
  <2> QED
    BY <2>7
<1>3. ASSUME NEW n \in Nat, n \in S PROVE n + 1 \in S
  <2> SUFFICES ASSUME n + 1 < l PROVE n + 2 \in Stands(tr, dir, t, below(n + 1))
    OBVIOUS
  <2> DEFINE q == below(n + 1)
             above == Stands(tr, dir, t, below(n))
             step == t.steps[n + 1]
  <2>1. /\ n + 1 \in 1 .. l - 1 /\ n + 2 \in 1 .. l /\ d + (n + 1) = (d + n) + 1
        /\ (d + n) + 1 <= Len(p) /\ d + n \in Nat /\ d + (n + 1) \in d + 1 .. m
        /\ d + (n + 1) \in Nat /\ d + (n + 1) >= 1 /\ d + (n + 1) <= Len(p) /\ (d + (n + 1)) - 1 = d + n
    BY <1>1
  <2>2. /\ q \in FilePath /\ Len(q) = d + (n + 1) /\ Front(q) = below(n) /\ Last(q) = p[d + (n + 1)]
    BY <2>1, PathPrefix
  <2>3. n + 1 \in above
    BY <1>3, <2>1
  <2>4. Opens(tr, q)
    BY <2>1
  <2>5. Last(q) = step /\ step \in Seq(STRING \ {"/"}) /\ step # <<>>
    <3>1. p[d + (n + 1)] = step
      BY <2>1
    <3>2. n + 1 \in 1 .. Len(t.steps)
      BY <2>1
    <3>3. step \in Seq(STRING \ {"/"}) \ {<<>>}
      BY <3>2, StepTyped
    <3> HIDE DEF q, step
    <3> QED
      BY <2>2, <3>1, <3>3
  <2>6. IsLiteral(step) /\ step # Folders
    <3>1. n + 1 \in DOMAIN FolderSteps(t)
      BY <2>1, FolderStepsAre
    <3> QED
      BY <3>1 DEF LiteralFolder
  <2> HIDE DEF q, above, below, step
  <2>7. Matches(step, Last(q), t)
    <3>1. Literal(step)
      BY <2>5, <2>6, IsLiteralIs
    <3> QED
      BY <2>5, <3>1, LiteralIs
  <2>8. n + 2 \in Enters(tr, q, t, n + 1)
    BY <2>1, <2>6, <2>7 DEF Enters, MatchesFolder, step
  <2>9. n + 2 \in From(t, n + 2)
    BY <1>1, <2>1, FromHere
  <2>10. Stands(tr, dir, t, q) = StandsIn(tr, q, t, above)
    <3>1. d < Len(q)
      BY <1>1, <2>2
    <3> QED
      BY <1>1, <2>2, <3>1, StandsNext DEF above
  <2>11. n + 2 \in StandsIn(tr, q, t, above)
    BY <2>3, <2>4, <2>8, <2>9 DEF StandsIn
  <2> QED
    BY <2>10, <2>11 DEF q
<1> HIDE DEF S
<1>4. \A n \in Nat : n \in S
  BY <1>2, <1>3, ByNat
<1>5. l - 1 \in Nat /\ l - 1 < l /\ (l - 1) + 1 = l
  BY <1>1
<1>6. l \in Stands(tr, dir, t, below(l - 1))
  BY <1>4, <1>5 DEF S
<1> QED
  BY <1>1, <1>6

\* A file in the folder that a template writes out is found, if the last step fits its name.
LEMMA FoundInFolder ==
    ASSUME NEW tr, Grown(tr), NEW dir \in FilePath, NEW t, GoodSteps(t), LiteralFolder(t) # None,
           KeyInLastStep(t), NEW p \in Beneath(tr, dir), Readable(tr, p),
           Front(p) = dir \o FolderSteps(t), Matches(Last(t.steps), Last(p), t),
           \A n \in Len(dir) + 1 .. Len(p) - 1 : Opens(tr, SubSeq(p, 1, n))
    PROVE  p \in Found(tr, dir, t)
<1> DEFINE d == Len(dir)
           l == Len(t.steps)
           m == Len(p) - 1
           steps == FolderSteps(t)
<1>1. /\ p \in FilePath /\ p # <<>> /\ p \in Seq(FileName) /\ Len(p) \in Nat /\ d < Len(p)
      /\ d \in Nat /\ dir \in Seq(FileName) /\ \A i \in 1 .. d : p[i] = dir[i]
  BY BeneathFolder, LenProperties DEF FilePath
<1>2. /\ l \in Nat /\ l >= 1 /\ Len(steps) = l - 1 /\ \A i \in 1 .. l - 1 : steps[i] = t.steps[i]
  BY FolderStepsAre
<1>3. Front(p) = SubSeq(p, 1, m) /\ m \in Nat
  BY <1>1 DEF Front
<1>4. m = d + (l - 1) /\ \A i \in 1 .. l - 1 : p[d + i] = t.steps[i]
  <2> DEFINE X == FileName \cup Seq(STRING \ {"/"})
             w == dir \o steps
  <2>1. dir \in Seq(X) /\ steps \in Seq(X)
    <3>1. steps \in Seq(Seq(STRING \ {"/"}) \ {<<>>})
      BY FolderStepsAre
    <3>2. Seq(STRING \ {"/"}) \ {<<>>} \subseteq X /\ FileName \subseteq X
      OBVIOUS
    <3> HIDE DEF X, steps
    <3> QED
      BY <1>1, <3>1, <3>2, SeqMonotonic
  <2> HIDE DEF X, steps
  <2>2. /\ Len(w) = d + (l - 1)
        /\ \A i \in 1 .. d + (l - 1) : w[i] = IF i <= d THEN dir[i] ELSE steps[i - d]
    <3>1. Len(w) = d + Len(steps)
      BY <2>1, ConcatProperties
    <3>2. \A i \in 1 .. d + Len(steps) : w[i] = IF i <= d THEN dir[i] ELSE steps[i - d]
      BY <2>1, ConcatProperties
    <3> QED
      BY <1>2, <3>1, <3>2
  <2>3. /\ Len(SubSeq(p, 1, m)) = m /\ \A i \in 1 .. m : SubSeq(p, 1, m)[i] = p[i]
    <3>1. 1 \in 1 .. Len(p) + 1 /\ m \in Nat /\ m <= Len(p) /\ m - 1 + 1 = m
      BY <1>1, <1>3
    <3> HIDE DEF m
    <3>2. SubSeq(p, 1, m) = [i \in 1 .. m |-> p[i]]
      BY <1>1, <3>1
    <3> QED
      BY <1>1, <3>1, <3>2, LenProperties
  <2>4. w = SubSeq(p, 1, m)
    BY <1>3 DEF steps
  <2> DEFINE v == SubSeq(p, 1, m)
  <2> HIDE DEF v, w
  <2>5. Len(v) = d + (l - 1) /\ \A i \in 1 .. d + (l - 1) : v[i] = IF i <= d THEN dir[i] ELSE steps[i - d]
    BY <2>2, <2>4 DEF v
  <2>6. Len(v) = m /\ \A i \in 1 .. m : v[i] = p[i]
    BY <2>3 DEF v
  <2>7. m = d + (l - 1)
    BY <2>5, <2>6
  <2>8. ASSUME NEW i \in 1 .. l - 1 PROVE p[d + i] = t.steps[i]
    <3>1. d + i \in 1 .. d + (l - 1) /\ ~(d + i <= d) /\ (d + i) - d = i
      BY <1>1, <1>2
    <3>2. v[d + i] = steps[i]
      BY <2>5, <3>1
    <3>3. v[d + i] = p[d + i]
      BY <2>6, <2>7, <3>1
    <3>4. steps[i] = t.steps[i]
      BY <1>2
    <3> QED
      BY <3>2, <3>3, <3>4
  <2> QED
    BY <2>7, <2>8
<1>5. SubSeq(p, 1, d) = dir
  <2>1. SubSeq(p, 1, d) = SubSeq(dir, 1, d)
    BY <1>1, SamePrefix
  <2>2. SubSeq(dir, 1, d) = dir
    BY <1>1, SubSeqFull
  <2> QED
    BY <2>1, <2>2
<1>6. m <= Len(p) /\ \A n \in d + 1 .. m : Opens(tr, SubSeq(p, 1, n))
  BY <1>1
<1> HIDE DEF m, steps
<1>7. l \in Stands(tr, dir, t, SubSeq(p, 1, m))
  BY <1>1, <1>3, <1>4, <1>5, <1>6, StandsLiteral
<1>8. Takes(tr, p, t, l)
  <2>1. t.steps[l] = Last(t.steps)
    BY DEF Last
  <2>2. t.steps[l] # Folders
    <3> DEFINE keys == {i \in DOMAIN Folders : Folders[i] = "{key}"}
    <3>1. keys = {}
      <4>1. DOMAIN Folders = 1 .. 2 /\ Folders[1] = "*" /\ Folders[2] = "*"
        BY DEF Folders
      <4> HIDE DEF keys
      <4>2. ASSUME NEW i \in DOMAIN Folders PROVE Folders[i] = "*"
        <5>1. i = 1 \/ i = 2
          BY <4>1
        <5> QED
          BY <4>1, <5>1
      <4>3. \A i \in DOMAIN Folders : ~(Folders[i] = "{key}")
        BY <4>2
      <4> QED
        BY <4>3 DEF keys
    <3>2. KeysIn(Folders) = Cardinality(keys)
      BY DEF KeysIn
    <3> HIDE DEF keys
    <3>3. KeysIn(Folders) = 0
      BY <3>1, <3>2, FS_EmptySet
    <3> QED
      BY <2>1, <3>3 DEF KeyInLastStep
  <2> QED
    BY <2>1, <2>2 DEF Takes
<1> QED
  BY <1>3, <1>7, <1>8, DocumentIs DEF Beneath

\* A file in the folder that a template writes out is below the namespace folder.
LEMMA FolderHolds ==
    ASSUME NEW tr, Grown(tr), NEW dir \in FilePath, NEW t, GoodSteps(t), NEW p \in DOMAIN tr, p # <<>>,
           Front(p) = dir \o FolderSteps(t)
    PROVE  p \in Beneath(tr, dir)
<1> DEFINE d == Len(dir)
           v == Front(p)
           steps == FolderSteps(t)
           X == FileName \cup Seq(STRING \ {"/"})
           w == dir \o steps
<1>1. p \in FilePath /\ p \in Seq(FileName) /\ dir \in Seq(FileName) /\ Len(p) \in Nat /\ d \in Nat
  BY LenProperties DEF Grown, FilePath
<1>2. Len(v) = Len(p) - 1 /\ \A i \in 1 .. Len(p) - 1 : v[i] = p[i]
  <2> DEFINE m == Len(p) - 1
  <2>1. m \in Nat /\ m <= Len(p) /\ m + 1 = Len(p)
    BY <1>1, FrontIs
  <2>2. v = SubSeq(p, 1, m)
    BY DEF Front
  <2> HIDE DEF m, v
  <2>3. SubSeq(p, 1, m) = [i \in 1 .. m |-> p[i]]
    BY <1>1, <2>1
  <2>4. Len(v) = m /\ \A i \in 1 .. m : v[i] = p[i]
    BY <1>1, <2>1, <2>2, <2>3, LenProperties
  <2> QED
    BY <2>4 DEF m
<1>3. dir \in Seq(X) /\ steps \in Seq(X)
  <2>1. steps \in Seq(Seq(STRING \ {"/"}) \ {<<>>})
    BY FolderStepsAre
  <2>2. Seq(STRING \ {"/"}) \ {<<>>} \subseteq X /\ FileName \subseteq X
    OBVIOUS
  <2> HIDE DEF X, steps
  <2> QED
    BY <1>1, <2>1, <2>2, SeqMonotonic
<1>4. v = w
  BY DEF steps
<1> HIDE DEF X, steps, v, w
<1>5. Len(w) >= d /\ \A i \in 1 .. d : w[i] = dir[i]
  <2>1. Len(w) = d + Len(steps) /\ Len(steps) \in Nat
    BY <1>3, ConcatProperties, LenProperties DEF w
  <2>2. \A i \in 1 .. d + Len(steps) : w[i] = IF i <= d THEN dir[i] ELSE steps[i - d]
    BY <1>3, ConcatProperties DEF w
  <2> QED
    BY <1>1, <2>1, <2>2
<1>6. d < Len(p) /\ \A i \in 1 .. d : p[i] = dir[i]
  BY <1>1, <1>2, <1>4, <1>5
<1>7. SubSeq(dir, 1, d) = SubSeq(p, 1, d)
  BY <1>1, <1>6, SamePrefix
<1> QED
  BY <1>6, <1>7 DEF Beneath, IsPrefix

\* A file of the folder of a coded collection that none of them fits is a stray file.
LEMMA StrayIs ==
    ASSUME NEW tr, Grown(tr), NEW spaces, NEW list, NEW s \in Range(spaces), NEW m \in Scanned(list),
           NEW p \in DOMAIN tr, p # <<>>, Readable(tr, p), Front(p) = FolderOf(s, m.template),
           ~\E a \in Range(spaces), x \in Scanned(list) :
              /\ FolderOf(a, x.template) = Front(p)
              /\ Matches(Last(x.template.steps), Last(p), x.template)
    PROVE  p \in StrayFiles(tr, spaces, list)
<1> DEFINE dir == Front(p)
<1>1. /\ p \in FilePath /\ p \in Seq(FileName) /\ Len(p) \in Nat /\ Len(dir) = Len(p) - 1
      /\ Len(p) >= 1 /\ IsPrefix(dir, p)
  BY FrontIs, LenProperties DEF Grown, FilePath
<1>2. p \in List(tr, dir)
  BY <1>1 DEF List
<1>3. dir = SubSeq(p, 1, Len(dir))
  BY <1>1 DEF IsPrefix, Front
<1> HIDE DEF dir
<1>4. ASSUME NEW n \in 1 .. Len(dir) PROVE At(tr, SubSeq(dir, 1, n), "none") # "linkToFolder"
  <2>1. n \in Nat /\ n < Len(p) /\ n <= Len(dir) /\ Len(dir) <= Len(p) /\ Len(dir) \in Nat
    BY <1>1
  <2>2. SubSeq(SubSeq(p, 1, Len(dir)), 1, n) = SubSeq(p, 1, n)
    <3> DEFINE k == Len(dir)
    <3>1. k \in Nat /\ k >= 1 /\ k <= Len(p) /\ n <= k /\ p \in FilePath
      BY <1>1, <2>1
    <3> HIDE DEF k
    <3>2. SubSeq(SubSeq(p, 1, k), 1, n) = SubSeq(p, 1, n)
      BY <2>1, <3>1, PathPrefix
    <3> QED
      BY <3>2 DEF k
  <2>3. SubSeq(dir, 1, n) \in DOMAIN tr /\ tr[SubSeq(dir, 1, n)] = "folder"
    BY <1>3, <2>1, <2>2, Above
  <2> QED
    BY <2>3 DEF At
<1>5. p \in FilesIn(tr, dir)
  BY <1>2, <1>4 DEF FilesIn, Readable
<1>6. dir \in ScannedFolders(spaces, list)
  BY DEF ScannedFolders, dir
<1> QED
  BY <1>5, <1>6 DEF StrayFiles, Readable, dir

\* What a person sees of a namespace, as the walk does.
LEMMA VisibleIs ==
    ASSUME ReadInv, NEW s, s.folder \in FilePath, NEW p \in DOMAIN tree, Visible(s, p)
    PROVE  /\ p \in Beneath(tree, s.folder) /\ Readable(tree, p) /\ p # <<>>
           /\ \A n \in Len(s.folder) + 1 .. Len(p) - 1 : Opens(tree, SubSeq(p, 1, n))
<1>1. p \in Beneath(tree, s.folder) /\ Readable(tree, p)
  BY DEF Visible, Beneath, Readable
<1>2. p # <<>>
  BY <1>1, BeneathFolder DEF ReadInv
<1>3. ASSUME NEW n \in Len(s.folder) + 1 .. Len(p) - 1 PROVE Opens(tree, SubSeq(p, 1, n))
  <2>1. SubSeq(p, 1, n) \in FoldersAbove(s, p)
    BY DEF FoldersAbove
  <2> QED
    BY <2>1 DEF Visible, Opens
<1> QED
  BY <1>1, <1>2, <1>3

LEMMA NoneSilent == ReadInv => NothingSilent
<1> SUFFICES ASSUME ReadInv, report.done,
                    NEW s \in ScopeSpaces, NEW m \in Scanned(members), NEW p \in DOMAIN tree, Visible(s, p),
                    Front(p) = FolderOf(s, m.template)
             PROVE  p \in report.documents \cup report.overlapping \cup report.strays
  BY DEF NothingSilent
<1> DEFINE spaces == report.resolved.spaces
           index == report.index
<1>1. PICK run \in Runs : ReportSays(run, report.scope, report.resolved, report.index)
  BY ReportIs
<1>2. /\ spaces = ResolveNamespaces(tree, entries).spaces /\ index = Build(tree, spaces, members)
      /\ Grown(tree) /\ members \in MemberLists /\ GoodSpaces(spaces)
  BY <1>1, SpacesAre DEF ReportSays, ReadInv
<1>3. /\ \A q : q \in report.documents <=> q \in DOMAIN index.entries /\ Shown(report.scope, spaces, q)
      /\ \A q : q \in report.overlapping <=> q \in DOMAIN index.overlaps /\ Shown(report.scope, spaces, q)
      /\ \A q : q \in report.strays <=>
                   q \in StrayFiles(tree, spaces, members) /\ Shown(report.scope, spaces, q)
  BY <1>1 DEF ReportSays
<1>4. s \in Range(spaces) /\ s.name \in report.scope.namespaces
  BY DEF ScopeSpaces
<1> HIDE DEF spaces, index
<1>5. spaces \in Seq(Space) /\ DOMAIN spaces = 1 .. Len(spaces)
  BY <1>2, LenProperties DEF GoodSpaces
<1>6. PICK a \in 1 .. Len(spaces) : s = spaces[a]
  BY <1>4, <1>5 DEF Range
<1>7. s.folder \in FilePath
  BY <1>5, <1>6, SpaceFolder
<1>8. /\ p \in Beneath(tree, s.folder) /\ Readable(tree, p) /\ p # <<>>
      /\ \A n \in Len(s.folder) + 1 .. Len(p) - 1 : Opens(tree, SubSeq(p, 1, n))
  BY <1>7, VisibleIs
<1>9. Shown(report.scope, spaces, p)
  BY <1>2, <1>4, <1>6, <1>8, HoldingIs DEF Shown
<1> DEFINE Fits(b, x) == /\ FolderOf(b, x.template) = Front(p)
                         /\ Matches(Last(x.template.steps), Last(p), x.template)
<1>10. CASE ~\E b \in Range(spaces), x \in Scanned(members) : Fits(b, x)
  <2>1. p \in StrayFiles(tree, spaces, members)
    BY <1>2, <1>4, <1>8, <1>10, StrayIs
  <2> QED
    BY <1>3, <1>9, <2>1
<1>11. ASSUME NEW b \in Range(spaces), NEW x \in Scanned(members), Fits(b, x)
       PROVE  p \in report.documents \cup report.overlapping
  <2>1. x \in Range(members) /\ KeyInLastStep(x.template) /\ LiteralFolder(x.template) # None
    BY DEF Scanned
  <2>2. GoodSteps(x.template)
    BY <1>2, <2>1, StepsAre
  <2>3. PICK c \in 1 .. Len(spaces) : b = spaces[c]
    BY <1>5 DEF Range
  <2>4. b.folder \in FilePath
    BY <1>5, <2>3, SpaceFolder
  <2>5. Front(p) = b.folder \o FolderSteps(x.template)
    BY <1>11, <2>1, <2>2, FolderOfIs
  <2>6. p \in Beneath(tree, b.folder)
    BY <1>2, <1>8, <2>2, <2>4, <2>5, FolderHolds
  <2>7. a = c
    BY <1>2, <1>6, <1>8, <2>3, <2>6, OneSpace
  <2>8. p \in Found(tree, s.folder, x.template)
    BY <1>2, <1>6, <1>7, <1>8, <1>11, <2>1, <2>2, <2>3, <2>5, <2>7, FoundInFolder
  <2>9. PICK j \in 1 .. Len(members) : x = members[j]
    BY <1>2, <2>1, MembersAre DEF Range
  <2>10. Claim(tree, spaces, members, a, j, p)
    BY <1>6, <2>8, <2>9 DEF Claim
  <2>11. Answers(tree, spaces, members, index)
    BY <1>2, BuildAnswers
  <2>12. p \in DOMAIN index.entries \/ p \in DOMAIN index.overlaps
    BY <2>10, <2>11 DEF Answers
  <2> QED
    BY <1>3, <1>9, <2>12
<1> QED
  BY <1>10, <1>11

\* NothingSilent: every file in the folder of a coded collection is a document, an overlap or a stray
\* file of the report, unless it cannot be named or is a leftover, for any project folder, list of
\* namespaces and collections (index.rs stray_files).
THEOREM EveryFileNamed == Spec => []NothingSilent
BY NoneSilent, ReadingStarts, ReadingStays, PTL DEF Spec

-----------------------------------------------------------------------------
(* What a run reads is what the folders hold.                              *)

\* What there is when a report is there.
LEMMA DoneIs ==
    ASSUME ReadInv, report.done
    PROVE  LET spaces == report.resolved.spaces
               index == report.index
           IN  /\ Grown(tree) /\ members \in MemberLists /\ GoodSpaces(spaces)
               /\ spaces \in Seq(Space) /\ DOMAIN spaces = 1 .. Len(spaces)
               /\ report.resolved = ResolveNamespaces(tree, entries)
               /\ index = Build(tree, spaces, members) /\ Answers(tree, spaces, members, index)
               /\ \E run \in Runs : ReportSays(run, report.scope, report.resolved, index)
               /\ \A p : p \in report.documents <=> p \in DOMAIN index.entries /\ Shown(report.scope, spaces, p)
               /\ \A p : p \in report.overlapping <=> p \in DOMAIN index.overlaps /\ Shown(report.scope, spaces, p)
               /\ \A p : p \in report.uncollected <=>
                            p \in Uncollected(tree, spaces, members, index) /\ Shown(report.scope, spaces, p)
<1> DEFINE spaces == report.resolved.spaces
           index == report.index
<1>1. PICK run \in Runs : ReportSays(run, report.scope, report.resolved, index)
  BY ReportIs
<1>2. /\ report.resolved = ResolveNamespaces(tree, entries)
      /\ spaces = ResolveNamespaces(tree, entries).spaces /\ index = Build(tree, spaces, members)
      /\ Grown(tree) /\ members \in MemberLists /\ GoodSpaces(spaces)
  BY <1>1, SpacesAre DEF ReportSays, ReadInv
<1>3. /\ \A p : p \in report.documents <=> p \in DOMAIN index.entries /\ Shown(report.scope, spaces, p)
      /\ \A p : p \in report.overlapping <=> p \in DOMAIN index.overlaps /\ Shown(report.scope, spaces, p)
      /\ \A p : p \in report.uncollected <=>
                   p \in Uncollected(tree, spaces, members, index) /\ Shown(report.scope, spaces, p)
  BY <1>1 DEF ReportSays
<1> HIDE DEF spaces, index
<1>4. spaces \in Seq(Space) /\ DOMAIN spaces = 1 .. Len(spaces)
  BY <1>2, LenProperties DEF GoodSpaces
<1>5. Answers(tree, spaces, members, index)
  BY <1>2, BuildAnswers
<1> QED
  BY <1>1, <1>2, <1>3, <1>4, <1>5 DEF spaces, index

\* An answer of the index stands for a file of a namespace that a template takes.
LEMMA AnswerIs ==
    ASSUME NEW tr, NEW spaces, NEW list, NEW index, Answers(tr, spaces, list, index),
           NEW p \in DOMAIN index.entries \cup DOMAIN index.overlaps
    PROVE  \E s, j : Claim(tr, spaces, list, s, j, p)
BY DEF Answers

LEMMA TypeHolds == ReadInv => TypeOK
<1> SUFFICES ASSUME ReadInv PROVE TypeOK
  OBVIOUS
<1>1. /\ \A p \in DOMAIN tree : p # <<>> => Front(p) \in DOMAIN tree
      /\ \A p \in DOMAIN tree : tree[p] \in Kinds
      /\ entries \in Configs /\ members \in MemberLists
  BY DEF ReadInv, Grown
<1> SUFFICES ASSUME report.done
             PROVE  /\ report.documents \cup report.overlapping \cup report.uncollected \cup report.notRead
                         \subseteq DOMAIN tree
                    /\ \A k \in DOMAIN report.index.keys : report.index.keys[k] # <<>>
                    /\ \A p \in report.overlapping : Len(report.index.overlaps[p]) > 1
  BY <1>1 DEF TypeOK
<1> DEFINE spaces == report.resolved.spaces
           index == report.index
<1>2. /\ Grown(tree) /\ members \in MemberLists /\ GoodSpaces(spaces)
      /\ report.resolved = ResolveNamespaces(tree, entries)
      /\ index = Build(tree, spaces, members) /\ Answers(tree, spaces, members, index)
  BY DoneIs
<1>3. /\ \A p \in report.documents : p \in DOMAIN index.entries
      /\ \A p \in report.overlapping : p \in DOMAIN index.overlaps
      /\ \A p \in report.uncollected : p \in Uncollected(tree, spaces, members, index)
  BY DoneIs
<1>4. \A p \in report.notRead : \/ \E r \in Unreadable(tree, spaces, members) : p = r.path
                                \/ \E n \in report.resolved.skipped : p = <<n>>
  BY ReportIs DEF ReportSays
<1> HIDE DEF spaces, index
<1>5. ASSUME NEW p \in report.documents \cup report.overlapping PROVE p \in DOMAIN tree
  <2>1. PICK s, j : Claim(tree, spaces, members, s, j, p)
    BY <1>2, <1>3, AnswerIs
  <2> QED
    BY <2>1, ClaimFacts DEF Beneath
<1>6. ASSUME NEW p \in report.uncollected PROVE p \in DOMAIN tree
  BY <1>3 DEF Uncollected, AllMarkdownFiles, WalkEveryFile, Beneath
<1>7. ASSUME NEW p \in report.notRead PROVE p \in DOMAIN tree
  <2>1. CASE \E r \in Unreadable(tree, spaces, members) : p = r.path
    <3>1. PICK r, dir, t : r \in Walk(tree, dir, t) /\ p = r.path
      BY <2>1 DEF Unreadable
    <3> QED
      BY <3>1, WalkBeneath DEF Beneath
  <2>2. CASE \E n \in report.resolved.skipped : p = <<n>>
    <3>1. PICK n \in report.resolved.skipped : p = <<n>>
      BY <2>2
    <3>2. entries # NoEntries
      BY <1>2, <3>1 DEF ResolveNamespaces
    <3>3. Len(entries) \in Nat
      BY ListIs
    <3>4. report.resolved.skipped = ApplyEntries(tree, entries).skipped
      BY <1>2, <3>2, <3>3, ResolvedIs
    <3>5. n \in Entries_(tree)
      BY <3>1, <3>3, <3>4, EntriesDecide DEF Decided_
    <3>6. PICK q \in List(tree, <<>>) : n = q[1]
      BY <3>5 DEF Entries_
    <3>7. q \in DOMAIN tree /\ q \in Seq(FileName) /\ Len(q) = 1
      BY <1>2, <3>6 DEF List, Grown, FilePath
    <3>8. q = <<q[1]>>
      BY <3>7
    <3> QED
      BY <3>1, <3>6, <3>7, <3>8
  <2> QED
    BY <1>4, <2>1, <2>2
<1>8. ASSUME NEW k \in DOMAIN index.keys PROVE index.keys[k] # <<>>
  <2> DEFINE added == AddHits(Hits(tree, spaces, members))
  <2>1. index = Prune(added)
    BY <1>2 DEF Build
  <2>2. IsIndex(added)
    BY <1>2, BuildAnswers DEF Indexed
  <2> HIDE DEF added
  <2> QED
    BY <2>1, <2>2, PruneIs
<1>9. \A p \in report.overlapping : Len(index.overlaps[p]) > 1
  BY <1>2, <1>3 DEF Answers
<1> QED
  BY <1>5, <1>6, <1>7, <1>8, <1>9 DEF index

-----------------------------------------------------------------------------
(* A key finds the first of the documents that carry it.                   *)

Keyed(hits, gone, k, group) ==
    /\ \A b \in 1 .. Len(group) : \E i \in 1 .. Len(hits) :
          Carries(hits, i, k) /\ group[b] = hits[i].path /\ hits[i].path \notin gone
    /\ \A i \in 1 .. Len(hits) : Carries(hits, i, k) /\ hits[i].path \notin gone =>
          \E b \in 1 .. Len(group) : group[b] = hits[i].path
    /\ \A b, c \in 1 .. Len(group) : b < c =>
          \E i, j \in 1 .. Len(hits) : /\ i < j /\ Carries(hits, i, k) /\ Carries(hits, j, k)
                                       /\ group[b] = hits[i].path /\ group[c] = hits[j].path

LEMMA KeysAre ==
    ASSUME NEW hits, Len(hits) \in Nat, NEW added, Indexed(hits, Len(hits), added)
    PROVE  LET index == Prune(added)
               gone == DOMAIN added.overlaps
           IN  /\ \A k \in DOMAIN index.keys : /\ Keyed(hits, gone, k, index.keys[k])
                                               /\ index.keys[k] \in Seq(FilePath) /\ index.keys[k] # <<>>
               /\ \A i \in 1 .. Len(hits) : \A k :
                     Carries(hits, i, k) /\ hits[i].path \notin gone => k \in DOMAIN index.keys
<1> DEFINE index == Prune(added)
           gone == DOMAIN added.overlaps
           m == Len(hits)
<1>1. IsIndex(added) /\ KeysListed(hits, m, added.keys)
  BY DEF Indexed
<1>2. /\ \A k : k \in DOMAIN index.keys <=> k \in DOMAIN added.keys /\ Without(added.keys[k], gone) # <<>>
      /\ \A k \in DOMAIN index.keys : index.keys[k] = Without(added.keys[k], gone)
  BY <1>1, PruneIs
<1> HIDE DEF index, gone
<1>3. ASSUME NEW k \in DOMAIN added.keys
      PROVE  /\ Keyed(hits, gone, k, Without(added.keys[k], gone))
             /\ Without(added.keys[k], gone) \in Seq(FilePath)
  <2> DEFINE paths == added.keys[k]
             left == Without(paths, gone)
             l == Len(paths)
  <2>1. GroupListed(hits, m, k, paths)
    BY <1>1 DEF KeysListed
  <2>2. /\ paths \in Seq(FilePath)
        /\ \A a \in 1 .. l : \E i \in 1 .. m : Carries(hits, i, k) /\ paths[a] = hits[i].path
        /\ \A a, b \in 1 .. l : a < b =>
             \E i, j \in 1 .. m : /\ i < j /\ Carries(hits, i, k) /\ Carries(hits, j, k)
                                  /\ paths[a] = hits[i].path /\ paths[b] = hits[j].path
    BY <2>1 DEF GroupListed
  <2>3. \A i \in 1 .. m : Carries(hits, i, k) => \E a \in 1 .. l : paths[a] = hits[i].path
    BY <1>1 DEF KeysListed
  <2>4. left \in Seq(FilePath) /\ LeftOf(paths, l, gone, left)
    BY <2>2, WithoutIs
  <2> HIDE DEF paths, left, l
  <2>5. \A b \in 1 .. Len(left) : \E i \in 1 .. m :
           Carries(hits, i, k) /\ left[b] = hits[i].path /\ hits[i].path \notin gone
    <3> SUFFICES ASSUME NEW b \in 1 .. Len(left)
                 PROVE  \E i \in 1 .. m : Carries(hits, i, k) /\ left[b] = hits[i].path /\ hits[i].path \notin gone
      OBVIOUS
    <3>1. PICK a \in 1 .. l : left[b] = paths[a] /\ paths[a] \notin gone
      BY <2>4 DEF LeftOf
    <3>2. PICK i \in 1 .. m : Carries(hits, i, k) /\ paths[a] = hits[i].path
      BY <2>2
    <3> QED
      BY <3>1, <3>2
  <2>6. ASSUME NEW i \in 1 .. m, Carries(hits, i, k), hits[i].path \notin gone
        PROVE  \E b \in 1 .. Len(left) : left[b] = hits[i].path
    BY <2>3, <2>4, <2>6 DEF LeftOf
  <2>7. ASSUME NEW b \in 1 .. Len(left), NEW c \in 1 .. Len(left), b < c
        PROVE  \E i, j \in 1 .. m : /\ i < j /\ Carries(hits, i, k) /\ Carries(hits, j, k)
                                    /\ left[b] = hits[i].path /\ left[c] = hits[j].path
    <3>1. PICK a \in 1 .. l, d \in 1 .. l : a < d /\ left[b] = paths[a] /\ left[c] = paths[d]
      BY <2>4, <2>7 DEF LeftOf
    <3>2. PICK i \in 1 .. m, j \in 1 .. m : /\ i < j /\ Carries(hits, i, k) /\ Carries(hits, j, k)
                                            /\ paths[a] = hits[i].path /\ paths[d] = hits[j].path
      BY <2>2, <3>1
    <3> QED
      BY <3>1, <3>2
  <2> QED
    BY <2>4, <2>5, <2>6, <2>7 DEF Keyed, left, paths
<1>4. ASSUME NEW i \in 1 .. m, NEW k, Carries(hits, i, k), hits[i].path \notin gone
      PROVE  k \in DOMAIN index.keys
  <2>1. k \in DOMAIN added.keys
    BY <1>1, <1>4 DEF KeysListed
  <2>2. PICK b \in 1 .. Len(Without(added.keys[k], gone)) : TRUE
    BY <1>3, <1>4, <2>1 DEF Keyed
  <2>3. Without(added.keys[k], gone) # <<>>
    <3>1. Len(<<>>) = 0
      OBVIOUS
    <3> QED
      BY <2>2, <3>1
  <2> QED
    BY <1>2, <2>1, <2>3
<1> QED
  BY <1>2, <1>3, <1>4 DEF index, gone

LEMMA KeysHold == ReadInv => KeysFindDocuments
<1> SUFFICES ASSUME ReadInv, report.done PROVE KeysFindDocuments
  BY DEF KeysFindDocuments
<1> DEFINE spaces == report.resolved.spaces
           index == report.index
           hits == Hits(tree, spaces, members)
           added == AddHits(hits)
           m == Len(hits)
           gone == DOMAIN added.overlaps
           Carriers(k) == {p \in DOMAIN index.entries :
                             index.entries[p].namespace = k[1] /\ index.entries[p].key = k[2]}
           carried == {<<e.namespace, e.key>> : e \in {index.entries[p] : p \in DOMAIN index.entries}}
<1>1. /\ Grown(tree) /\ members \in MemberLists /\ GoodSpaces(spaces)
      /\ index = Build(tree, spaces, members)
  BY DoneIs
<1>2. HitsListed(tree, spaces, members, hits) /\ Indexed(hits, m, added) /\ m \in Nat
  BY <1>1, BuildAnswers
<1>3. index = Prune(added)
  BY <1>1 DEF Build
<1> HIDE DEF spaces, index, hits, added
<1>4. /\ IsIndex(added) /\ EntriesListed(hits, m, added.entries)
  BY <1>2 DEF Indexed
<1>5. /\ DOMAIN index.entries = DOMAIN added.entries \ gone
      /\ \A p \in DOMAIN index.entries : index.entries[p] = added.entries[p]
  BY <1>3, <1>4, PruneIs
<1>6. /\ \A k \in DOMAIN index.keys : /\ Keyed(hits, gone, k, index.keys[k])
                                      /\ index.keys[k] \in Seq(FilePath) /\ index.keys[k] # <<>>
      /\ \A i \in 1 .. m : \A k : Carries(hits, i, k) /\ hits[i].path \notin gone => k \in DOMAIN index.keys
  BY <1>2, <1>3, KeysAre
<1> HIDE DEF gone, m
<1>7. ASSUME NEW i \in 1 .. m, NEW k, Carries(hits, i, k), hits[i].path \notin gone
      PROVE  /\ hits[i].path \in DOMAIN index.entries
             /\ index.entries[hits[i].path] = EntryOf(hits[i])
             /\ k = <<index.entries[hits[i].path].namespace, index.entries[hits[i].path].key>>
             /\ k[1] = index.entries[hits[i].path].namespace /\ k[2] = index.entries[hits[i].path].key
  <2>1. hits[i].path \in DOMAIN index.entries
    BY <1>4, <1>5, <1>7 DEF EntriesListed
  <2>2. index.entries[hits[i].path] = EntryOf(hits[i])
    BY <1>4, <1>5, <1>7, <2>1 DEF EntriesListed, Carries
  <2>3. /\ EntryOf(hits[i]).namespace = hits[i].space.name
        /\ EntryOf(hits[i]).key = NameOf(hits[i]).key
    BY <1>7 DEF EntryOf, Carries
  <2>4. k = <<hits[i].space.name, NameOf(hits[i]).key>>
    BY <1>7 DEF Carries, KeyOf
  <2> QED
    BY <2>1, <2>2, <2>3, <2>4
<1>8. ASSUME NEW p \in DOMAIN index.entries
      PROVE  \E i \in 1 .. m : /\ First_(hits, i) /\ hits[i].path = p /\ p \notin gone
                               /\ index.entries[p] = EntryOf(hits[i])
  <2>1. PICK j \in 1 .. m : hits[j].path = p
    BY <1>4, <1>5 DEF EntriesListed
  <2>2. PICK i \in 1 .. m : First_(hits, i) /\ hits[i].path = p
    BY <1>2, <2>1, FirstIs DEF m
  <2> QED
    BY <1>4, <1>5, <2>2 DEF EntriesListed
<1>9. ASSUME NEW p \in DOMAIN index.entries, NEW k, k = <<index.entries[p].namespace, index.entries[p].key>>,
             index.entries[p].key # None
      PROVE  \E i \in 1 .. m : Carries(hits, i, k) /\ hits[i].path = p /\ p \notin gone
  <2>1. PICK i \in 1 .. m : /\ First_(hits, i) /\ hits[i].path = p /\ p \notin gone
                            /\ index.entries[p] = EntryOf(hits[i])
    BY <1>8
  <2>2. /\ EntryOf(hits[i]).namespace = hits[i].space.name
        /\ EntryOf(hits[i]).key = IF NameOf(hits[i]) = NotCoded THEN None ELSE NameOf(hits[i]).key
    BY DEF EntryOf
  <2>3. NameOf(hits[i]) # NotCoded /\ EntryOf(hits[i]).key = NameOf(hits[i]).key
    BY <1>9, <2>1, <2>2
  <2>4. KeyOf(hits[i]) = k
    BY <1>9, <2>1, <2>2, <2>3 DEF KeyOf
  <2> QED
    BY <2>1, <2>3, <2>4 DEF Carries
<1>10. ASSUME NEW k \in DOMAIN index.keys PROVE k \in carried
  <2>1. Keyed(hits, gone, k, index.keys[k]) /\ index.keys[k] \in Seq(FilePath) /\ index.keys[k] # <<>>
    BY <1>6
  <2>2. 1 \in 1 .. Len(index.keys[k])
    BY <2>1, EmptySeq, LenProperties
  <2>3. PICK i \in 1 .. m : Carries(hits, i, k) /\ hits[i].path \notin gone
    BY <2>1, <2>2 DEF Keyed, m
  <2> QED
    BY <1>7, <2>3
<1>11. ASSUME NEW k \in carried, k[2] # None
       PROVE  LET found == LookUpKey(index, k[1], k[2])
              IN  /\ found \in Carriers(k)
                  /\ \A p \in Carriers(k) \ {found} :
                       index.entries[p].collection = index.entries[found].collection
                         => Before(PathOf(found), PathOf(p))
                  /\ Range(KeyGroup(index, k[1], k[2])) = Carriers(k)
  <2> DEFINE group == index.keys[k]
  <2>1. PICK o \in DOMAIN index.entries : k = <<index.entries[o].namespace, index.entries[o].key>>
    OBVIOUS
  <2>2. k = <<k[1], k[2]>> /\ index.entries[o].key # None
    BY <1>11, <2>1
  <2>3. PICK h \in 1 .. m : Carries(hits, h, k) /\ hits[h].path = o /\ o \notin gone
    BY <1>9, <2>1, <2>2
  <2>4. k \in DOMAIN index.keys
    BY <1>6, <2>3
  <2>5. Keyed(hits, gone, k, group) /\ group \in Seq(FilePath) /\ group # <<>>
    BY <1>6, <2>4
  <2>6. KeyGroup(index, k[1], k[2]) = group /\ LookUpKey(index, k[1], k[2]) = group[1]
    <3>1. KeyGroup(index, k[1], k[2]) = group
      BY <2>2, <2>4 DEF KeyGroup, At
    <3> HIDE DEF group
    <3> QED
      BY <2>5, <3>1 DEF LookUpKey, Head
  <2> HIDE DEF group
  <2>7. Len(group) \in Nat /\ 1 \in 1 .. Len(group) /\ DOMAIN group = 1 .. Len(group)
    BY <2>5, EmptySeq, LenProperties
  <2>8. ASSUME NEW b \in 1 .. Len(group) PROVE group[b] \in Carriers(k)
    <3>1. PICK i \in 1 .. m : Carries(hits, i, k) /\ group[b] = hits[i].path /\ hits[i].path \notin gone
      BY <2>5 DEF Keyed, m
    <3> QED
      BY <1>7, <3>1
  <2>9. ASSUME NEW p \in Carriers(k) PROVE \E b \in 1 .. Len(group) : group[b] = p
    <3>1. p \in DOMAIN index.entries /\ k = <<index.entries[p].namespace, index.entries[p].key>>
          /\ index.entries[p].key # None
      BY <1>11, <2>2
    <3>2. PICK i \in 1 .. m : Carries(hits, i, k) /\ hits[i].path = p /\ p \notin gone
      BY <1>9, <3>1
    <3> QED
      BY <2>5, <3>2 DEF Keyed, m
  <2>10. Range(group) = Carriers(k)
    BY <2>7, <2>8, <2>9 DEF Range
  <2>11. ASSUME NEW p \in Carriers(k), p # group[1],
                index.entries[p].collection = index.entries[group[1]].collection
         PROVE  Before(PathOf(group[1]), PathOf(p))
    <3>1. PICK c \in 1 .. Len(group) : group[c] = p
      BY <2>9
    <3>2. 1 < c
      BY <2>7, <2>11, <3>1
    <3>3. PICK i \in 1 .. m, j \in 1 .. m : /\ i < j /\ Carries(hits, i, k) /\ Carries(hits, j, k)
                                            /\ group[1] = hits[i].path /\ p = hits[j].path
      <4>1. \A d, e \in 1 .. Len(group) : d < e =>
               \E i, j \in 1 .. m : /\ i < j /\ Carries(hits, i, k) /\ Carries(hits, j, k)
                                    /\ group[d] = hits[i].path /\ group[e] = hits[j].path
        BY <2>5 DEF Keyed, m
      <4>2. \E i, j \in 1 .. m : /\ i < j /\ Carries(hits, i, k) /\ Carries(hits, j, k)
                                 /\ group[1] = hits[i].path /\ group[c] = hits[j].path
        BY <2>7, <3>2, <4>1
      <4> QED
        BY <3>1, <4>2
    <3>4. PICK s, a, u, t, b, q :
             /\ IsHit(tree, spaces, members, s, a, u, hits[i])
             /\ IsHit(tree, spaces, members, t, b, q, hits[j])
             /\ After_(s, a, u, t, b, q)
      BY <1>2, <3>3 DEF HitsListed, m
    <3>5. /\ s \in 1 .. Len(spaces) /\ a \in 1 .. Len(members)
          /\ u = group[1] /\ hits[i].member = members[a] /\ hits[i].space = spaces[s]
      BY <3>3, <3>4, IsHitFacts
    <3>6. /\ t \in 1 .. Len(spaces) /\ b \in 1 .. Len(members)
          /\ q = p /\ hits[j].member = members[b] /\ hits[j].space = spaces[t]
      BY <3>3, <3>4, IsHitFacts
    <3>7. hits[i].space.name = hits[j].space.name
      BY <3>3 DEF Carries, KeyOf
    <3>8. s = t
      BY <1>1, <3>5, <3>6, <3>7 DEF GoodSpaces
    <3>9. group[1] \notin gone /\ p \notin gone
      <4>1. group[1] \in DOMAIN index.entries /\ p \in DOMAIN index.entries
        BY <2>7, <2>8
      <4> QED
        BY <1>5, <4>1
    <3>10. /\ index.entries[group[1]] = EntryOf(hits[i]) /\ index.entries[p] = EntryOf(hits[j])
      BY <1>7, <3>3, <3>9
    <3>11. EntryOf(hits[i]).collection = hits[i].member.name /\ EntryOf(hits[j]).collection = hits[j].member.name
      BY DEF EntryOf
    <3>12. members[a].name = members[b].name
      BY <2>11, <3>5, <3>6, <3>10, <3>11
    <3>13. a = b
      BY <1>1, <3>5, <3>6, <3>12, MembersAre
    <3>14. Len(spaces) \in Nat /\ Len(members) \in Nat
      BY <1>1, MembersAre, LenProperties DEF GoodSpaces
    <3>15. Earlier(u, q)
      BY <3>4, <3>5, <3>6, <3>8, <3>13, <3>14 DEF After_
    <3> QED
      BY <3>5, <3>6, <3>15 DEF Earlier
  <2> QED
    BY <2>6, <2>7, <2>8, <2>10, <2>11
<1> QED
  BY <1>10, <1>11 DEF KeysFindDocuments, index

-----------------------------------------------------------------------------
(* Every Markdown file is in a report exactly once.                        *)

\* A walk stands at steps of its template, and where it comes to it has come from above.
LEMMA StandsStep ==
    ASSUME NEW tr, NEW dir, Len(dir) \in Nat, NEW t, GoodSteps(t), NEW q \in FilePath, Len(dir) < Len(q),
           Stands(tr, dir, t, Front(q)) \subseteq 1 .. Len(t.steps)
    PROVE  /\ Stands(tr, dir, t, q) \subseteq 1 .. Len(t.steps)
           /\ Stands(tr, dir, t, q) # {} =>
                /\ Stands(tr, dir, t, Front(q)) # {} /\ Opens(tr, q)
                /\ Hidden(Last(q)) => Last(q) \in LiteralFolderNames(t)
<1> DEFINE l == Len(t.steps)
           above == Stands(tr, dir, t, Front(q))
           here == Stands(tr, dir, t, q)
           name == Last(q)
<1>1. l \in Nat /\ l >= 1
  BY FolderStepsAre
<1>2. here = StandsIn(tr, q, t, above)
  BY StandsNext
<1>3. name \in FileName
  <2>1. q \in Seq(FileName) /\ Len(q) \in Nat /\ Len(q) \in 1 .. Len(q)
    BY LenProperties DEF FilePath
  <2>2. name = q[Len(q)]
    BY DEF Last
  <2> HIDE DEF name
  <2> QED
    BY <2>1, <2>2, ElementOfSeq
<1> HIDE DEF above, here, name
<1>4. ASSUME NEW k \in here
      PROVE  k \in 1 .. l /\ \E at \in above : Enters(tr, q, t, at) # {}
  <2>1. PICK at \in above : \E e \in Enters(tr, q, t, at) : k \in From(t, e)
    BY <1>2 DEF StandsIn
  <2>2. at \in 1 .. l
    BY DEF above
  <2> PICK e \in Enters(tr, q, t, at) : k \in From(t, e)
    BY <2>1
  <2>3. e = at \/ e = at + 1
    BY DEF Enters
  <2>4. k \in e .. l
    BY DEF From
  <2>5. k \in 1 .. l
    BY <1>1, <2>2, <2>3, <2>4
  <2> QED
    BY <2>1, <2>5
<1>5. here # {} => Opens(tr, q)
  BY <1>2 DEF StandsIn
<1>6. ASSUME NEW at \in above, Enters(tr, q, t, at) # {}, Hidden(name)
      PROVE  name \in LiteralFolderNames(t)
  <2> DEFINE step == t.steps[at]
  <2>1. at \in 1 .. l
    BY DEF above
  <2>2. step # Folders /\ at < l /\ MatchesFolder(step, name, t)
    BY <1>6 DEF Enters, name
  <2>3. step \in Seq(STRING \ {"/"})
    BY <2>1 DEF GoodSteps
  <2>4. FolderSteps(t)[at] = step /\ at \in DOMAIN FolderSteps(t)
    <3>1. /\ \A i \in 1 .. l - 1 : FolderSteps(t)[i] = t.steps[i]
          /\ DOMAIN FolderSteps(t) = 1 .. l - 1
      BY FolderStepsAre
    <3>2. at \in 1 .. l - 1
      BY <1>1, <2>1, <2>2
    <3> QED
      BY <3>1, <3>2
  <2> HIDE DEF step
  <2>5. IsLiteral(step) /\ Matches(step, name, t)
    BY <1>6, <2>2 DEF MatchesFolder
  <2>6. Literal(step)
    BY <2>3, <2>5, IsLiteralIs
  <2>7. name = step
    BY <1>3, <2>3, <2>5, <2>6, LiteralIs DEF FileName
  <2> QED
    BY <2>4, <2>5, <2>7 DEF LiteralFolderNames, Range
<1> QED
  BY <1>4, <1>5, <1>6 DEF above, here, name

\* From a folder down to a path, n folders below it.
LEMMA StandsWithin ==
    ASSUME NEW tr, NEW dir \in FilePath, NEW t, GoodSteps(t), NEW p \in FilePath, NEW n \in Nat,
           Len(dir) + n <= Len(p), SubSeq(p, 1, Len(dir)) = dir
    PROVE  Stands(tr, dir, t, SubSeq(p, 1, Len(dir) + n)) \subseteq 1 .. Len(t.steps)
<1> DEFINE d == Len(dir)
           l == Len(t.steps)
           S == {k \in Nat : d + k <= Len(p) => Stands(tr, dir, t, SubSeq(p, 1, d + k)) \subseteq 1 .. l}
<1>1. d \in Nat /\ l \in Nat /\ l >= 1 /\ p \in Seq(FileName) /\ Len(p) \in Nat
  BY FolderStepsAre, LenProperties DEF FilePath
<1>2. 0 \in S
  <2>1. SubSeq(p, 1, d + 0) = dir
    BY <1>1
  <2>2. Stands(tr, dir, t, dir) = From(t, 1)
    BY <1>1, StandsFirst
  <2>3. From(t, 1) \subseteq 1 .. l
    BY DEF From
  <2> QED
    BY <2>1, <2>2, <2>3
<1>3. ASSUME NEW k \in Nat, k \in S PROVE k + 1 \in S
  <2> SUFFICES ASSUME d + (k + 1) <= Len(p)
               PROVE  Stands(tr, dir, t, SubSeq(p, 1, d + (k + 1))) \subseteq 1 .. l
    OBVIOUS
  <2> DEFINE q == SubSeq(p, 1, d + (k + 1))
  <2>1. /\ d + (k + 1) = (d + k) + 1 /\ d + k \in Nat /\ d + k <= Len(p)
        /\ d + (k + 1) \in Nat /\ d + (k + 1) >= 1 /\ (d + (k + 1)) - 1 = d + k
    BY <1>1
  <2>2. q \in FilePath /\ Len(q) = d + (k + 1) /\ Front(q) = SubSeq(p, 1, d + k)
    BY <2>1, PathPrefix
  <2>3. Stands(tr, dir, t, SubSeq(p, 1, d + k)) \subseteq 1 .. l
    BY <1>3, <2>1
  <2> HIDE DEF q
  <2>4. d < Len(q)
    BY <1>1, <2>2
  <2>5. Stands(tr, dir, t, q) \subseteq 1 .. l
    BY <1>1, <2>2, <2>3, <2>4, StandsStep
  <2> QED
    BY <2>5 DEF q
<1> HIDE DEF S
<1>4. \A k \in Nat : k \in S
  BY <1>2, <1>3, ByNat
<1> QED
  BY <1>4 DEF S

LEMMA StandsThrough ==
    ASSUME NEW tr, NEW dir \in FilePath, NEW t, GoodSteps(t), NEW p \in FilePath, NEW m \in Nat,
           m <= Len(p), SubSeq(p, 1, Len(dir)) = dir, Stands(tr, dir, t, SubSeq(p, 1, m)) # {},
           NEW n \in Len(dir) + 1 .. m
    PROVE  /\ Opens(tr, SubSeq(p, 1, n))
           /\ Hidden(p[n]) => p[n] \in LiteralFolderNames(t)
<1> DEFINE d == Len(dir)
           l == Len(t.steps)
           S == {k \in Nat : d <= m - k => Stands(tr, dir, t, SubSeq(p, 1, m - k)) # {}}
<1>1. d \in Nat /\ l \in Nat /\ l >= 1 /\ p \in Seq(FileName) /\ Len(p) \in Nat
  BY FolderStepsAre, LenProperties DEF FilePath
<1>2. ASSUME NEW k \in Nat, d < k, k <= m
      PROVE  /\ Len(SubSeq(p, 1, k)) = k /\ SubSeq(p, 1, k) \in FilePath
             /\ Last(SubSeq(p, 1, k)) = p[k]
             /\ Stands(tr, dir, t, SubSeq(p, 1, k)) # {} =>
                  /\ Stands(tr, dir, t, SubSeq(p, 1, k - 1)) # {} /\ Opens(tr, SubSeq(p, 1, k))
                  /\ Hidden(p[k]) => p[k] \in LiteralFolderNames(t)
  <2> DEFINE j == k - 1
             q == SubSeq(p, 1, k)
  <2>1. j \in Nat /\ j + 1 = k /\ k >= 1 /\ k <= Len(p) /\ j - d \in Nat /\ d + (j - d) = j
    BY <1>1, <1>2
  <2>2. q \in FilePath /\ Len(q) = k /\ Front(q) = SubSeq(p, 1, j) /\ Last(q) = p[k]
    BY <2>1, PathPrefix
  <2> HIDE DEF j
  <2> HIDE DEF q
  <2>3. Stands(tr, dir, t, Front(q)) \subseteq 1 .. l
    <3> DEFINE i == j - d
    <3>1. i \in Nat /\ d + i = j /\ d + i <= Len(p)
      BY <1>1, <2>1
    <3> HIDE DEF i
    <3>2. Stands(tr, dir, t, SubSeq(p, 1, d + i)) \subseteq 1 .. l
      BY <3>1, StandsWithin
    <3> QED
      BY <2>2, <3>1, <3>2
  <2>4. /\ Stands(tr, dir, t, q) # {} =>
             /\ Stands(tr, dir, t, Front(q)) # {} /\ Opens(tr, q)
             /\ Hidden(Last(q)) => Last(q) \in LiteralFolderNames(t)
    BY <1>1, <1>2, <2>1, <2>2, <2>3, StandsStep
  <2>5. k - 1 = j
    BY DEF j
  <2> QED
    BY <2>1, <2>2, <2>4, <2>5 DEF q
<1>3. 0 \in S
  <2>1. m - 0 = m
    OBVIOUS
  <2> QED
    BY <2>1
<1>4. ASSUME NEW k \in Nat, k \in S PROVE k + 1 \in S
  <2> SUFFICES ASSUME d <= m - (k + 1) PROVE Stands(tr, dir, t, SubSeq(p, 1, m - (k + 1))) # {}
    OBVIOUS
  <2> DEFINE i == m - k
  <2>1. i \in Nat /\ d < i /\ i <= m /\ d <= i /\ i - 1 = m - (k + 1)
    BY <1>1
  <2>2. Stands(tr, dir, t, SubSeq(p, 1, i)) # {}
    BY <1>4, <2>1
  <2> HIDE DEF i
  <2>3. Stands(tr, dir, t, SubSeq(p, 1, i - 1)) # {}
    BY <1>2, <2>1, <2>2
  <2> QED
    BY <2>1, <2>3
<1> HIDE DEF S
<1>5. \A k \in Nat : k \in S
  BY <1>3, <1>4, ByNat
<1>6. m - n \in Nat /\ m - (m - n) = n /\ d <= n /\ d < n /\ n <= m /\ n \in Nat
  BY <1>1
<1>7. Stands(tr, dir, t, SubSeq(p, 1, n)) # {}
  <2>1. m - n \in S
    BY <1>5, <1>6
  <2> QED
    BY <1>6, <2>1 DEF S
<1> QED
  BY <1>2, <1>6, <1>7

\* What the walk finds, a person sees.
LEMMA FoundVisible ==
    ASSUME ReadInv, NEW s, s.folder \in FilePath, NEW m \in Range(members),
           NEW p \in Found(tree, s.folder, m.template)
    PROVE  Visible(s, p)
<1> DEFINE t == m.template
           d == Len(s.folder)
           l == Len(p) - 1
<1>1. /\ p \in Beneath(tree, s.folder) /\ Readable(tree, p)
      /\ Stands(tree, s.folder, t, Front(p)) # {}
  BY DocumentIs
<1>2. Grown(tree) /\ members \in MemberLists
  BY DEF ReadInv
<1>3. /\ p \in DOMAIN tree /\ p \in FilePath /\ p # <<>> /\ d < Len(p)
      /\ \A i \in 1 .. d : p[i] = s.folder[i]
  BY <1>1, <1>2, BeneathFolder
<1>4. /\ p \in Seq(FileName) /\ s.folder \in Seq(FileName) /\ Len(p) \in Nat /\ d \in Nat /\ l \in Nat /\ l <= Len(p)
  BY <1>3, LenProperties DEF FilePath
<1>5. SubSeq(p, 1, d) = s.folder
  <2> DEFINE dir == s.folder
             k == Len(dir)
  <2>1. dir \in Seq(FileName) /\ k \in Nat /\ k <= Len(p) /\ \A i \in 1 .. k : p[i] = dir[i]
    BY <1>3, <1>4
  <2> HIDE DEF dir
  <2>2. SubSeq(p, 1, k) = SubSeq(dir, 1, k)
    BY <1>4, <2>1, SamePrefix
  <2>3. SubSeq(dir, 1, k) = dir
    BY <2>1, SubSeqFull
  <2> QED
    BY <2>2, <2>3 DEF dir
<1>6. Front(p) = SubSeq(p, 1, l)
  BY DEF Front
<1>7. GoodSteps(t)
  BY <1>2, StepsAre
<1> HIDE DEF t, l
<1>8. ASSUME NEW dir \in FoldersAbove(s, p)
      PROVE  Opens(tree, dir) /\ (Hidden(Last(dir)) => Last(dir) \in NamedFolders)
  <2>1. PICK n \in d + 1 .. Len(p) - 1 : dir = SubSeq(p, 1, n)
    BY DEF FoldersAbove
  <2>2. n \in d + 1 .. l
    BY <2>1 DEF l
  <2>3. /\ Opens(tree, SubSeq(p, 1, n))
        /\ Hidden(p[n]) => p[n] \in LiteralFolderNames(t)
    BY <1>1, <1>3, <1>4, <1>5, <1>6, <1>7, <2>2, StandsThrough
  <2>4. Last(dir) = p[n]
    <3>1. n \in Nat /\ n >= 1 /\ n <= Len(p)
      BY <1>4, <2>1
    <3>2. Last(SubSeq(p, 1, n)) = p[n]
      BY <1>3, <3>1, PathPrefix
    <3> QED
      BY <2>1, <3>2
  <2>5. p[n] \in LiteralFolderNames(t) => p[n] \in NamedFolders
    BY DEF NamedFolders, t
  <2> QED
    BY <2>1, <2>3, <2>4, <2>5
<1> QED
  BY <1>1, <1>8 DEF Visible, Readable, Beneath, Opens

LEMMA FilesAnswered == ReadInv => EveryFileAnswered
<1> SUFFICES ASSUME ReadInv, report.done PROVE EveryFileAnswered
  BY DEF EveryFileAnswered
<1> DEFINE spaces == report.resolved.spaces
           index == report.index
           Markdown(paths) == {p \in paths : IsMarkdown(Last(p))}
           visible == UNION {{p \in DOMAIN tree : Visible(s, p)} : s \in ScopeSpaces}
           named == UNION {LiteralFolderNames(m.template) : m \in Range(members)}
<1>1. /\ Grown(tree) /\ members \in MemberLists /\ GoodSpaces(spaces)
      /\ spaces \in Seq(Space) /\ DOMAIN spaces = 1 .. Len(spaces)
      /\ Answers(tree, spaces, members, index)
  BY DoneIs
<1>2. /\ \A p : p \in report.documents <=> p \in DOMAIN index.entries /\ Shown(report.scope, spaces, p)
      /\ \A p : p \in report.overlapping <=> p \in DOMAIN index.overlaps /\ Shown(report.scope, spaces, p)
      /\ \A p : p \in report.uncollected <=>
                   p \in Uncollected(tree, spaces, members, index) /\ Shown(report.scope, spaces, p)
  BY DoneIs
<1>3. ScopeSpaces = {s \in Range(spaces) : s.name \in report.scope.namespaces}
  BY DEF ScopeSpaces
<1>4. named = NamedFolders
  BY DEF NamedFolders
<1> HIDE DEF spaces, index, visible, named
<1>5. ASSUME NEW a \in 1 .. Len(spaces) PROVE spaces[a].folder \in FilePath /\ spaces[a] \in Range(spaces)
  BY <1>1, SpaceFolder DEF Range
<1>6. ASSUME NEW a \in 1 .. Len(spaces), NEW p \in Beneath(tree, spaces[a].folder)
      PROVE  Shown(report.scope, spaces, p) <=> spaces[a] \in ScopeSpaces
  BY <1>1, <1>3, <1>5, HoldingIs DEF Shown
<1>7. ASSUME NEW p \in report.documents \cup report.overlapping PROVE p \in visible
  <2>1. p \in DOMAIN index.entries \cup DOMAIN index.overlaps /\ Shown(report.scope, spaces, p)
    BY <1>2
  <2>2. PICK a, j : Claim(tree, spaces, members, a, j, p)
    BY <1>1, <2>1, AnswerIs
  <2>3. /\ a \in 1 .. Len(spaces) /\ j \in 1 .. Len(members)
        /\ p \in Found(tree, spaces[a].folder, members[j].template)
        /\ p \in Beneath(tree, spaces[a].folder)
    BY <2>2, ClaimFacts
  <2>4. members[j] \in Range(members)
    BY <1>1, <2>3, MembersAre DEF Range
  <2>5. Visible(spaces[a], p)
    BY <1>5, <2>3, <2>4, FoundVisible
  <2>6. spaces[a] \in ScopeSpaces /\ p \in DOMAIN tree
    BY <1>6, <2>1, <2>3 DEF Beneath
  <2> QED
    BY <2>5, <2>6 DEF visible
<1>8. ASSUME NEW p \in report.uncollected PROVE p \in visible /\ IsMarkdown(Last(p))
  <2>1. p \in AllMarkdownFiles(tree, spaces, members) /\ Shown(report.scope, spaces, p)
    BY <1>2 DEF Uncollected
  <2>2. PICK s \in Range(spaces) : p \in WalkEveryFile(tree, s.folder, named)
    BY <2>1 DEF AllMarkdownFiles, named
  <2>3. PICK a \in 1 .. Len(spaces) : s = spaces[a]
    BY <1>1 DEF Range
  <2>4. /\ p \in Beneath(tree, s.folder) /\ p \in DOMAIN tree /\ p # s.folder /\ IsPrefix(s.folder, p)
        /\ tree[p] = "file" /\ Utf8(Last(p)) /\ IsMarkdown(Last(p)) /\ ~IsTempName(Last(p))
    BY <2>2 DEF WalkEveryFile, Beneath
  <2>5. \A n \in Len(s.folder) + 1 .. Len(p) - 1 :
           /\ Opens(tree, SubSeq(p, 1, n))
           /\ Hidden(Last(SubSeq(p, 1, n))) => Last(SubSeq(p, 1, n)) \in NamedFolders
    BY <1>4, <2>2 DEF WalkEveryFile
  <2>6. Visible(s, p)
    BY <2>4, <2>5 DEF Visible, FoldersAbove, Opens
  <2>7. s \in ScopeSpaces
    BY <1>6, <2>1, <2>3, <2>4
  <2> QED
    BY <2>4, <2>6, <2>7 DEF visible
<1>9. ASSUME NEW p \in visible, IsMarkdown(Last(p))
      PROVE  p \in report.documents \cup report.overlapping \cup report.uncollected
  <2>1. PICK s \in ScopeSpaces : p \in DOMAIN tree /\ Visible(s, p)
    BY DEF visible
  <2>2. PICK a \in 1 .. Len(spaces) : s = spaces[a]
    BY <1>1, <1>3 DEF Range
  <2>3. /\ p \in Beneath(tree, s.folder) /\ Readable(tree, p)
        /\ \A n \in Len(s.folder) + 1 .. Len(p) - 1 : Opens(tree, SubSeq(p, 1, n))
    BY <1>5, <2>1, <2>2, VisibleIs
  <2>4. Shown(report.scope, spaces, p)
    BY <1>6, <2>2, <2>3
  <2>5. p \in WalkEveryFile(tree, s.folder, named)
    <3>1. \A n \in Len(s.folder) + 1 .. Len(p) - 1 :
             Hidden(Last(SubSeq(p, 1, n))) => Last(SubSeq(p, 1, n)) \in named
      BY <1>4, <2>1 DEF Visible, FoldersAbove
    <3> QED
      BY <1>9, <2>3, <3>1 DEF WalkEveryFile, Readable
  <2>6. p \in AllMarkdownFiles(tree, spaces, members)
    <3>1. s \in Range(spaces)
      BY <1>3
    <3> QED
      BY <2>5, <3>1 DEF AllMarkdownFiles, named
  <2> QED
    BY <1>2, <2>4, <2>6 DEF Uncollected
<1>10. Markdown(report.documents) \cup Markdown(report.overlapping) \cup report.uncollected = Markdown(visible)
  BY <1>7, <1>8, <1>9
<1>11. report.documents \cap report.overlapping = {}
  <2>1. \A p \in DOMAIN index.entries : p \notin DOMAIN index.overlaps
    BY <1>1 DEF Answers
  <2> QED
    BY <1>2, <2>1
<1>12. report.documents \cup report.overlapping \subseteq visible
  BY <1>7
<1> QED
  BY <1>10, <1>11, <1>12 DEF EveryFileAnswered, visible

-----------------------------------------------------------------------------
(* A walk and Template::matches_path take the same files.                  *)

FitBy(f, steps, names, t) ==
    /\ f[0] = {Len(names)} /\ (FitsSteps(steps, names, t) <=> 0 \in f[Len(steps)])
    /\ \A n \in Nat : n < Len(steps) =>
         f[n + 1] = StepFits(steps, names, t, Len(steps) - (n + 1) + 1, f[n])

\* After how many names the last n steps fit.
IsStepsFit(f, steps, names, t, m) == f =
    [n \in 0 .. m |-> IF n = 0 THEN {Len(names)} ELSE StepFits(steps, names, t, Len(steps) - n + 1, f[n - 1])]

LEMMA StepsExist ==
    ASSUME NEW steps, NEW names, NEW t, NEW m \in Nat
    PROVE  \E f : IsStepsFit(f, steps, names, t, m)
<1> DEFINE Is(f, k) == f = [n \in 0 .. k |->
                         IF n = 0 THEN {Len(names)} ELSE StepFits(steps, names, t, Len(steps) - n + 1, f[n - 1])]
           S == {k \in Nat : \E f : Is(f, k)}
<1>1. 0 \in S
  <2> DEFINE f == [n \in 0 .. 0 |-> {Len(names)}]
  <2>1. \A n \in 0 .. 0 : n = 0
    OBVIOUS
  <2>2. Is(f, 0)
    BY <2>1
  <2> QED
    BY <2>2
<1>2. ASSUME NEW k \in Nat, k \in S PROVE k + 1 \in S
  <2>1. PICK f : Is(f, k)
    BY <1>2
  <2> DEFINE g == [n \in 0 .. k + 1 |->
                     IF n = k + 1 THEN StepFits(steps, names, t, Len(steps) - (k + 1) + 1, f[k]) ELSE f[n]]
  <2>2. \A n \in 0 .. k : f[n] =
          IF n = 0 THEN {Len(names)} ELSE StepFits(steps, names, t, Len(steps) - n + 1, f[n - 1])
    BY <2>1
  <2>3. ASSUME NEW n \in 0 .. k + 1 PROVE g[n] =
          IF n = 0 THEN {Len(names)} ELSE StepFits(steps, names, t, Len(steps) - n + 1, g[n - 1])
    <3>1. CASE n = k + 1
      <4>1. n # 0 /\ n - 1 = k /\ k \in 0 .. k + 1 /\ k # k + 1
        BY <1>2, <3>1
      <4>2. g[k] = f[k] /\ g[n] = StepFits(steps, names, t, Len(steps) - n + 1, f[k])
        BY <3>1, <4>1
      <4> QED
        BY <4>1, <4>2
    <3>2. CASE n # k + 1 /\ n # 0
      <4>1. n \in 0 .. k /\ n - 1 \in 0 .. k + 1 /\ n - 1 # k + 1
        BY <1>2, <3>2
      <4>2. g[n] = f[n] /\ g[n - 1] = f[n - 1]
        BY <3>2, <4>1
      <4> QED
        BY <2>2, <3>2, <4>1, <4>2
    <3>3. CASE n # k + 1 /\ n = 0
      <4>1. n \in 0 .. k
        BY <1>2, <3>3
      <4>2. g[n] = f[n]
        BY <3>3
      <4> QED
        BY <2>2, <3>3, <4>1, <4>2
    <3> QED
      BY <3>1, <3>2, <3>3
  <2>4. g = [n \in 0 .. k + 1 |-> g[n]]
    OBVIOUS
  <2>5. Is(g, k + 1)
    <3> HIDE DEF g
    <3> QED
      BY <2>3, <2>4
  <2>6. k + 1 \in Nat /\ \E f_ : Is(f_, k + 1)
    <3> HIDE DEF Is, g
    <3> QED
      BY <2>5
  <2> QED
    BY <2>6
<1>3. Nat \subseteq S
  <2> HIDE DEF S
  <2> QED
    BY <1>1, <1>2, ByNat
<1> QED
  BY <1>3 DEF IsStepsFit

LEMMA StepsFit ==
    ASSUME NEW steps, NEW names, NEW t, Len(steps) \in Nat
    PROVE  \E f : FitBy(f, steps, names, t)
<1> DEFINE m == Len(steps)
           chosen == CHOOSE f : f = [n \in 0 .. m |->
                   IF n = 0 THEN {Len(names)} ELSE StepFits(steps, names, t, Len(steps) - n + 1, f[n - 1])]
<1>1. \E f : IsStepsFit(f, steps, names, t, m)
  BY StepsExist
<1>2. chosen = [n \in 0 .. m |->
        IF n = 0 THEN {Len(names)} ELSE StepFits(steps, names, t, Len(steps) - n + 1, chosen[n - 1])]
  BY <1>1, Zenon DEF IsStepsFit
<1>3. FitsSteps(steps, names, t) <=> 0 \in chosen[m]
  BY DEF FitsSteps
<1> HIDE DEF chosen
<1>4. \A n \in 0 .. m : chosen[n] =
        IF n = 0 THEN {Len(names)} ELSE StepFits(steps, names, t, Len(steps) - n + 1, chosen[n - 1])
  BY <1>2
<1>5. ASSUME NEW n \in Nat, n < m
      PROVE  chosen[n + 1] = StepFits(steps, names, t, Len(steps) - (n + 1) + 1, chosen[n])
  <2>1. n + 1 \in 0 .. m /\ n + 1 # 0 /\ n + 1 - 1 = n
    BY <1>5
  <2> QED
    BY <1>4, <2>1
<1>6. chosen[0] = {Len(names)}
  BY <1>4
<1>7. FitBy(chosen, steps, names, t)
  BY <1>3, <1>5, <1>6 DEF FitBy
<1> QED
  BY <1>7

\* After how many names each step and those after it fit.
FitFrom(b, steps, names, t) ==
    /\ b[Len(steps) + 1] = {Len(names)}
    /\ \A j \in 1 .. Len(steps) : b[j] = StepFits(steps, names, t, j, b[j + 1])
    /\ FitsSteps(steps, names, t) <=> 0 \in b[1]

LEMMA FitFromIs ==
    ASSUME NEW steps, Len(steps) \in Nat, NEW names, NEW t
    PROVE  \E b : FitFrom(b, steps, names, t)
<1> DEFINE l == Len(steps)
<1>1. PICK f : FitBy(f, steps, names, t)
  BY StepsFit
<1> DEFINE b == [j \in 1 .. l + 1 |-> f[l + 1 - j]]
<1>2. b[l + 1] = {Len(names)}
  <2>1. l + 1 \in 1 .. l + 1 /\ l + 1 - (l + 1) = 0
    OBVIOUS
  <2> QED
    BY <1>1, <2>1 DEF FitBy
<1>3. ASSUME NEW j \in 1 .. l PROVE b[j] = StepFits(steps, names, t, j, b[j + 1])
  <2> DEFINE n == l - j
  <2>1. /\ n \in Nat /\ n < l /\ l + 1 - j = n + 1 /\ l + 1 - (j + 1) = n /\ l - (n + 1) + 1 = j
        /\ j \in 1 .. l + 1 /\ j + 1 \in 1 .. l + 1
    OBVIOUS
  <2>2. b[j] = f[n + 1] /\ b[j + 1] = f[n]
    BY <2>1
  <2> HIDE DEF n, b
  <2>3. f[n + 1] = StepFits(steps, names, t, l - (n + 1) + 1, f[n])
    BY <1>1, <2>1 DEF FitBy
  <2> QED
    BY <2>1, <2>2, <2>3
<1>4. FitsSteps(steps, names, t) <=> 0 \in b[1]
  <2>1. 1 \in 1 .. l + 1 /\ l + 1 - 1 = l
    OBVIOUS
  <2>2. b[1] = f[l]
    BY <2>1
  <2> QED
    BY <1>1, <2>2 DEF FitBy
<1>5. FitFrom(b, steps, names, t)
  <2> HIDE DEF b
  <2> QED
    BY <1>2, <1>3, <1>4 DEF FitFrom
<1> QED
  BY <1>5

LEMMA FitAt ==
    ASSUME NEW b, NEW steps, NEW names, NEW t, FitFrom(b, steps, names, t), Len(steps) \in Nat, Len(names) \in Nat,
           NEW j \in 1 .. Len(steps)
    PROVE  /\ b[j] \subseteq 0 .. Len(names)
           /\ steps[j] = Folders =>
                \A n : n \in b[j] <=> n \in 0 .. Len(names) /\ \E m \in b[j + 1] : n <= m
           /\ steps[j] # Folders =>
                \A n : n \in b[j] <=>
                  /\ n \in 0 .. Len(names) - 1 /\ n + 1 \in b[j + 1]
                  /\ IF j = Len(steps) THEN Matches(steps[j], names[n + 1], t)
                     ELSE MatchesFolder(steps[j], names[n + 1], t)
<1>1. b[j] = StepFits(steps, names, t, j, b[j + 1])
  BY DEF FitFrom
<1>2. CASE steps[j] = Folders
  <2>1. b[j] = {n \in 0 .. Len(names) : \E m \in b[j + 1] : n <= m}
    BY <1>1, <1>2 DEF StepFits
  <2> QED
    BY <1>2, <2>1
<1>3. CASE steps[j] # Folders
  <2>1. b[j] = {n \in 0 .. Len(names) - 1 :
                  /\ n + 1 \in b[j + 1]
                  /\ IF j = Len(steps) THEN Matches(steps[j], names[n + 1], t)
                     ELSE MatchesFolder(steps[j], names[n + 1], t)}
    BY <1>1, <1>3 DEF StepFits
  <2>2. 0 .. Len(names) - 1 \subseteq 0 .. Len(names)
    OBVIOUS
  <2> QED
    BY <1>3, <2>1, <2>2
<1> QED
  BY <1>2, <1>3

\* A star takes any name.
LEMMA StarMatches ==
    ASSUME NEW Y, NEW name \in Seq(Y), name # <<>>, NEW t
    PROVE  Matches(<<"*">>, name, t)
<1> DEFINE parts == <<"*">>
<1>1. Len(parts) = 1 /\ parts[1] = "*" /\ Len(parts) \in Nat
  OBVIOUS
<1>2. Len(name) \in Nat
  BY LenProperties
<1> HIDE DEF parts
<1>3. PICK f : FitsBy(f, parts, name, t)
  BY <1>1, FittingIs
<1>4. f[0] = FitsNone(name) /\ FitsCapture(parts, name, t) = f[1][0]
  BY <1>1, <1>3 DEF FitsBy
<1>5. f[1] = FitsLast("*", name, t, f[0])
  <2>1. 0 \in Nat /\ 0 < Len(parts) /\ 0 + 1 = 1 /\ Len(parts) - (0 + 1) + 1 = 1
    BY <1>1
  <2>2. f[0 + 1] = FitsLast(parts[Len(parts) - (0 + 1) + 1], name, t, f[0])
    BY <1>3, <2>1 DEF FitsBy
  <2> QED
    BY <1>1, <2>1, <2>2
<1> DEFINE later == f[0]
           cuts == {n \in 0 .. Len(name) : later[n] # NoFit}
<1>6. later[Len(name)] # NoFit /\ Len(name) \in 0 .. Len(name)
  <2>1. later[Len(name)] = Captured(None, None)
    BY <1>2, <1>4 DEF FitsNone
  <2> QED
    BY <1>2, <2>1, CapturedFits
<1>7. FitsPart("*", name, t, later, 0) = IF cuts = {} THEN NoFit ELSE later[Min(cuts)]
  BY DEF FitsPart
<1> HIDE DEF later
<1>8. cuts # {} /\ cuts \subseteq Nat
  BY <1>2, <1>6
<1>9. Min(cuts) \in cuts
  BY <1>8, MinNat
<1>10. FitsPart("*", name, t, later, 0) # NoFit
  BY <1>7, <1>8, <1>9
<1>11. f[1][0] = FitsPart("*", name, t, later, 0)
  BY <1>2, <1>5 DEF FitsLast, later
<1> QED
  BY <1>4, <1>10, <1>11 DEF Matches, parts

\* The steps a walk can stand at: behind a `**`, at the step after it as well.
Closed(w, t) ==
    /\ w \subseteq 1 .. Len(t.steps)
    /\ \A at \in w : t.steps[at] = Folders /\ at < Len(t.steps) => at + 1 \in w

LEMMA FromClosed ==
    ASSUME NEW t, Len(t.steps) \in Nat, NEW first \in Nat, first >= 1
    PROVE  Closed(From(t, first), t)
<1> DEFINE l == Len(t.steps)
<1>1. From(t, first) \subseteq 1 .. l
  BY DEF From
<1>2. ASSUME NEW at \in From(t, first), t.steps[at] = Folders, at < l PROVE at + 1 \in From(t, first)
  <2>1. at \in first .. l /\ \A j \in first .. at - 1 : t.steps[j] = Folders
    BY DEF From
  <2>2. at + 1 \in first .. l /\ \A j \in first .. (at + 1) - 1 : j \in first .. at - 1 \/ j = at
    BY <1>2, <2>1
  <2> QED
    BY <1>2, <2>1, <2>2 DEF From
<1> QED
  BY <1>1, <1>2 DEF Closed

LEMMA StandsClosed ==
    ASSUME NEW tr, NEW here, NEW t, Len(t.steps) \in Nat, NEW above, above \subseteq 1 .. Len(t.steps)
    PROVE  Closed(StandsIn(tr, here, t, above), t)
<1> DEFINE l == Len(t.steps)
           w == StandsIn(tr, here, t, above)
<1>1. ASSUME NEW k \in w
      PROVE  \E first \in Nat : first >= 1 /\ k \in From(t, first) /\ From(t, first) \subseteq w
  <2>1. PICK e \in UNION {Enters(tr, here, t, at) : at \in above} : k \in From(t, e)
    BY <1>1 DEF StandsIn
  <2>2. PICK at \in above : e \in Enters(tr, here, t, at)
    BY <2>1
  <2>3. e = at \/ e = at + 1
    BY <2>2 DEF Enters
  <2>4. e \in Nat /\ e >= 1
    BY <2>3
  <2>5. From(t, e) \subseteq w
    BY <1>1, <2>1 DEF StandsIn
  <2> QED
    BY <2>1, <2>4, <2>5
<1> HIDE DEF w
<1>2. w \subseteq 1 .. l
  BY <1>1, FromClosed DEF Closed
<1>3. ASSUME NEW at \in w, t.steps[at] = Folders, at < l PROVE at + 1 \in w
  <2>1. PICK first \in Nat : first >= 1 /\ at \in From(t, first) /\ From(t, first) \subseteq w
    BY <1>1
  <2>2. at + 1 \in From(t, first)
    BY <1>3, <2>1, FromClosed DEF Closed
  <2> QED
    BY <2>1, <2>2
<1> QED
  BY <1>2, <1>3 DEF Closed, w

\* A template as its walk reads it: a `**` at its end takes what is in a folder.
ReadAs(steps, t) ==
    \/ steps = t.steps /\ Last(t.steps) # Folders
    \/ steps = Append(t.steps, <<"*">>) /\ Last(t.steps) = Folders

LEMMA ReadIs ==
    ASSUME NEW t, GoodSteps(t), NEW steps, ReadAs(steps, t)
    PROVE  LET l == Len(t.steps)
           IN  /\ Len(steps) \in Nat /\ l \in Nat /\ l >= 1 /\ \A j \in 1 .. l : steps[j] = t.steps[j]
               /\ steps[Len(steps)] # Folders
               /\ t.steps[l] # Folders => Len(steps) = l
               /\ t.steps[l] = Folders => Len(steps) = l + 1 /\ steps[l + 1] = <<"*">>
<1> DEFINE l == Len(t.steps)
           X == Seq(STRING \ {"/"}) \ {<<>>}
<1>1. t.steps \in Seq(X) /\ l \in Nat /\ l >= 1 /\ Last(t.steps) = t.steps[l]
  BY FolderStepsAre DEF GoodSteps, Last
<1>2. <<"*">> # Folders
  <2>1. Len(<<"*">>) = 1 /\ Len(Folders) = 2
    BY DEF Folders
  <2> QED
    BY <2>1
<1>3. CASE steps = t.steps /\ Last(t.steps) # Folders
  BY <1>1, <1>3
<1>4. CASE steps = Append(t.steps, <<"*">>) /\ Last(t.steps) = Folders
  <2> DEFINE old == t.steps
             star == <<"*">>
             Y == X \cup {star}
  <2>1. old \in Seq(Y) /\ star \in Y /\ steps = Append(old, star)
    <3>1. X \subseteq Y
      OBVIOUS
    <3> HIDE DEF X, star
    <3> QED
      BY <1>1, <1>4, <3>1, SeqMonotonic DEF star
  <2> HIDE DEF old, star, Y
  <2>2. /\ Len(steps) = Len(old) + 1 /\ steps[Len(old) + 1] = star
        /\ \A i \in 1 .. Len(old) : steps[i] = old[i]
    BY <2>1, AppendFacts
  <2> QED
    BY <1>1, <1>2, <1>4, <2>2 DEF old, star
<1> QED
  BY <1>3, <1>4 DEF ReadAs

\* No name is left for the last step of a template if all fit before it.
LEMMA OneIsLeft ==
    ASSUME NEW b, NEW steps, NEW names, NEW t, FitFrom(b, steps, names, t), Len(steps) \in Nat, Len(names) \in Nat,
           steps[Len(steps)] # Folders, NEW j \in 1 .. Len(steps)
    PROVE  Len(names) \notin b[j]
<1> DEFINE l == Len(steps)
           S == {n \in Nat : n < l => Len(names) \notin b[l - n]}
<1>1. 0 \in S
  <2> SUFFICES ASSUME 0 < l PROVE Len(names) \notin b[l]
    OBVIOUS
  <2>1. l \in 1 .. l /\ Len(names) \notin 0 .. Len(names) - 1
    OBVIOUS
  <2> QED
    BY <2>1, FitAt
<1>2. ASSUME NEW n \in Nat, n \in S PROVE n + 1 \in S
  <2> SUFFICES ASSUME n + 1 < l PROVE Len(names) \notin b[l - (n + 1)]
    OBVIOUS
  <2> DEFINE i == l - (n + 1)
  <2>1. i \in 1 .. l /\ i + 1 \in 1 .. l /\ i + 1 = l - n /\ Len(names) \notin 0 .. Len(names) - 1
    OBVIOUS
  <2> HIDE DEF i
  <2>2. Len(names) \notin b[i + 1] /\ b[i + 1] \subseteq 0 .. Len(names)
    <3> DEFINE h == i + 1
    <3>1. h \in 1 .. l
      BY <2>1
    <3>2. Len(names) \notin b[h]
      BY <1>2, <2>1
    <3> HIDE DEF h
    <3>3. b[h] \subseteq 0 .. Len(names)
      BY <3>1, FitAt
    <3> QED
      BY <3>2, <3>3 DEF h
  <2>3. ~\E m \in b[i + 1] : Len(names) <= m
    <3> SUFFICES ASSUME NEW m \in b[i + 1], Len(names) <= m PROVE FALSE
      OBVIOUS
    <3>1. m = Len(names)
      BY <2>2
    <3> QED
      BY <2>2, <3>1
  <2>4. Len(names) \notin b[i]
    BY <2>1, <2>3, FitAt
  <2> QED
    BY <2>4 DEF i
<1> HIDE DEF S
<1>3. \A n \in Nat : n \in S
  BY <1>1, <1>2, ByNat
<1>4. l - j \in Nat /\ l - j < l /\ l - (l - j) = j
  OBVIOUS
<1>5. l - j \in S
  BY <1>3, <1>4
<1> QED
  BY <1>4, <1>5 DEF S

\* What fits from a step on fits from the `**` before it on.
LEMMA FitsFrom ==
    ASSUME NEW t, GoodSteps(t), NEW steps, ReadAs(steps, t), NEW b, NEW names, FitFrom(b, steps, names, t),
           Len(names) \in Nat, NEW at \in 1 .. Len(t.steps), NEW k
    PROVE  (\E e \in From(t, at) : k \in b[e]) <=> k \in b[at]
<1> DEFINE l == Len(t.steps)
<1>1. Len(steps) \in Nat /\ l \in Nat /\ l <= Len(steps) /\ \A j \in 1 .. l : steps[j] = t.steps[j]
  BY ReadIs
<1>2. k \in b[at] => \E e \in From(t, at) : k \in b[e]
  BY <1>1, FromHere
<1>3. ASSUME NEW e \in From(t, at), k \in b[e] PROVE k \in b[at]
  <2>1. e \in at .. l /\ \A j \in at .. e - 1 : t.steps[j] = Folders
    BY DEF From
  <2> DEFINE m == e - at
             S == {n \in Nat : k \in b[e - n]}
  <2>2. m \in Nat /\ 0 \in S
    BY <1>1, <1>3, <2>1
  <2>3. ASSUME NEW n \in Nat, n < m, n \in S PROVE n + 1 \in S
    <3> DEFINE j == e - (n + 1)
    <3>1. j \in 1 .. Len(steps) /\ j \in 1 .. l /\ j \in at .. e - 1 /\ j + 1 = e - n
          /\ (j + 1 \in 1 .. Len(steps))
      BY <1>1, <2>1, <2>3
    <3>2. k \in b[j + 1]
      BY <2>3, <3>1
    <3> HIDE DEF j
    <3>3. steps[j] = Folders
      BY <1>1, <2>1, <3>1
    <3>4. k \in 0 .. Len(names)
      <4> DEFINE h == j + 1
      <4>1. h \in 1 .. Len(steps) /\ k \in b[h]
        BY <3>1, <3>2
      <4> HIDE DEF h
      <4> QED
        BY <1>1, <4>1, FitAt
    <3>5. k \in b[j]
      <4>1. \A u : u \in b[j] <=> u \in 0 .. Len(names) /\ \E h \in b[j + 1] : u <= h
        BY <1>1, <3>1, <3>3, FitAt
      <4>2. k <= k
        BY <3>4
      <4> QED
        BY <3>2, <3>4, <4>1, <4>2
    <3> QED
      BY <3>5 DEF j
  <2> HIDE DEF S, m
  <2>4. m \in S
    <3>1. 0 \in S /\ \A n \in Nat : n < m /\ n \in S => n + 1 \in S
      BY <2>2, <2>3
    <3>2. \A n \in 0 .. m : n \in S
      BY <2>2, <3>1, UpTo
    <3> QED
      BY <2>2, <3>2
  <2>5. e - m = at
    BY <2>1 DEF m
  <2> QED
    BY <2>4, <2>5 DEF S
<1> QED
  BY <1>2, <1>3

LEMMA FitWithin ==
    ASSUME NEW b, NEW steps, NEW names, NEW t, FitFrom(b, steps, names, t), Len(steps) \in Nat, Len(names) \in Nat,
           NEW j \in 1 .. Len(steps) + 1
    PROVE  /\ b[j] \subseteq 0 .. Len(names)
           /\ \A n : n \in b[Len(steps) + 1] <=> n = Len(names)
<1>1. b[Len(steps) + 1] = {Len(names)}
  BY DEF FitFrom
<1>2. CASE j = Len(steps) + 1
  BY <1>1, <1>2
<1>3. CASE j \in 1 .. Len(steps)
  BY <1>1, <1>3, FitAt
<1> QED
  BY <1>2, <1>3

Ahead(w, b, k) == \E at \in w : k \in b[at]

\* Where a walk stands at a step from which the rest fits, it does so in the next folder, and back.
LEMMA Onward ==
    ASSUME NEW t, GoodSteps(t), NEW steps, ReadAs(steps, t), NEW b, NEW names, FitFrom(b, steps, names, t),
           Len(names) \in Nat, NEW w, Closed(w, t), NEW k \in Nat, k + 1 < Len(names),
           NEW tr, NEW q, Opens(tr, q), Last(q) = names[k + 1], ~Hidden(names[k + 1])
    PROVE  Ahead(w, b, k) <=> Ahead(StandsIn(tr, q, t, w), b, k + 1)
<1> DEFINE l == Len(t.steps)
           z == Len(steps)
           m == Len(names)
<1>1. /\ z \in Nat /\ l \in Nat /\ l >= 1 /\ l <= z /\ \A j \in 1 .. l : steps[j] = t.steps[j]
      /\ steps[z] # Folders
      /\ t.steps[l] # Folders => z = l
      /\ t.steps[l] = Folders => z = l + 1
  BY ReadIs
<1>2. w \subseteq 1 .. l /\ \A at \in w : t.steps[at] = Folders /\ at < l => at + 1 \in w
  BY DEF Closed
<1>3. FolderLike(tr, q)
  BY DEF Opens, FolderLike
<1>4. \A n : n \in b[z + 1] <=> n = m
  BY <1>1, FitWithin
<1>5. ASSUME NEW at \in w, NEW e \in Enters(tr, q, t, at) PROVE e \in 1 .. l
  <2>1. CASE t.steps[at] = Folders
    BY <1>2, <2>1 DEF Enters
  <2>2. CASE t.steps[at] # Folders
    <3>1. e = at + 1 /\ at < l
      BY <2>2 DEF Enters
    <3> QED
      BY <1>1, <1>2, <3>1
  <2> QED
    BY <2>1, <2>2
<1>6. ASSUME NEW at \in w, NEW e \in Enters(tr, q, t, at), k + 1 \in b[e] PROVE k \in b[at]
  <2>1. at \in 1 .. l /\ at \in 1 .. z /\ at + 1 \in 1 .. z + 1 /\ steps[at] = t.steps[at]
    BY <1>1, <1>2
  <2>2. CASE t.steps[at] = Folders
    <3>1. e = at
      BY <2>2 DEF Enters
    <3>2. \A n : n \in b[at] <=> n \in 0 .. m /\ \E h \in b[at + 1] : n <= h
      BY <1>1, <2>1, <2>2, FitAt
    <3>3. PICK h \in b[at + 1] : k + 1 <= h
      BY <1>6, <3>1, <3>2
    <3>4. h \in 0 .. m
      <4> DEFINE a == at + 1
      <4>1. a \in 1 .. z + 1 /\ h \in b[a]
        BY <2>1
      <4> HIDE DEF a
      <4> QED
        BY <1>1, <4>1, FitWithin
    <3>5. k <= h /\ k \in 0 .. m
      BY <3>3, <3>4
    <3> QED
      BY <3>2, <3>5
  <2>3. CASE t.steps[at] # Folders
    <3>1. e = at + 1 /\ at < l /\ MatchesFolder(t.steps[at], Last(q), t)
      BY <2>3 DEF Enters
    <3>2. \A n : n \in b[at] <=>
             /\ n \in 0 .. m - 1 /\ n + 1 \in b[at + 1]
             /\ IF at = z THEN Matches(steps[at], names[n + 1], t) ELSE MatchesFolder(steps[at], names[n + 1], t)
      BY <1>1, <2>1, <2>3, FitAt
    <3>3. k \in 0 .. m - 1 /\ at # z
      BY <1>1, <3>1
    <3> QED
      BY <1>6, <2>1, <3>1, <3>2, <3>3
  <2> QED
    BY <2>2, <2>3
<1>7. ASSUME NEW first \in w, k \in b[first]
      PROVE  \E at \in w : \E e \in Enters(tr, q, t, at) : k + 1 \in b[e]
  <2> DEFINE T == {at \in w : k \in b[at]}
             h == Max(T)
  <2>1. h \in T /\ \A at \in T : at <= h
    <3>1. T \subseteq 0 .. l /\ T # {}
      <4>1. w \subseteq 0 .. l
        BY <1>1, <1>2
      <4>2. first \in T
        BY <1>7
      <4>3. T \subseteq w
        OBVIOUS
      <4> HIDE DEF T
      <4> QED
        BY <4>1, <4>2, <4>3
    <3> HIDE DEF T
    <3> QED
      BY <1>1, <3>1, MaxNat
  <2>2. h \in w /\ k \in b[h] /\ \A at \in w : k \in b[at] => at <= h
    BY <2>1
  <2> HIDE DEF h, T
  <2>3. h \in 1 .. l /\ h \in 1 .. z /\ h + 1 \in 1 .. z + 1 /\ steps[h] = t.steps[h] /\ h + 1 # h /\ ~(h + 1 <= h)
    BY <1>1, <1>2, <2>2
  <2>4. CASE t.steps[h] = Folders
    <3>1. \A n : n \in b[h] <=> n \in 0 .. m /\ \E o \in b[h + 1] : n <= o
      BY <1>1, <2>3, <2>4, FitAt
    <3>2. PICK o \in b[h + 1] : k <= o
      BY <2>2, <3>1
    <3>3. o \in 0 .. m
      <4> DEFINE a == h + 1
      <4>1. a \in 1 .. z + 1 /\ o \in b[a]
        BY <2>3
      <4> HIDE DEF a
      <4> QED
        BY <1>1, <4>1, FitWithin
    <3>4. o # k
      <4>1. CASE h < l
        BY <1>2, <2>2, <2>3, <2>4, <4>1
      <4>2. CASE h = l
        <5> DEFINE a == l + 1
        <5>1. a = z /\ a \in 1 .. z /\ steps[a] # Folders
          BY <1>1, <2>4, <4>2
        <5> HIDE DEF a
        <5>2. k \in b[a] => k + 1 \in b[a + 1]
          BY <1>1, <5>1, FitAt
        <5>3. k + 1 \notin b[a + 1]
          BY <1>4, <5>1
        <5> QED
          BY <4>2, <5>2, <5>3 DEF a
      <4> QED
        BY <1>1, <2>3, <4>1, <4>2
    <3>5. k + 1 <= o /\ k + 1 \in 0 .. m
      BY <3>2, <3>3, <3>4
    <3>6. k + 1 \in b[h]
      BY <3>1, <3>5
    <3>7. h \in Enters(tr, q, t, h)
      BY <1>3, <2>4 DEF Enters
    <3> QED
      BY <2>2, <3>6, <3>7
  <2>5. CASE t.steps[h] # Folders
    <3>1. \A n : n \in b[h] <=>
             /\ n \in 0 .. m - 1 /\ n + 1 \in b[h + 1]
             /\ IF h = z THEN Matches(steps[h], names[n + 1], t) ELSE MatchesFolder(steps[h], names[n + 1], t)
      BY <1>1, <2>3, <2>5, FitAt
    <3>2. k + 1 \in b[h + 1]
      BY <2>2, <3>1
    <3>3. h # l
      BY <1>1, <1>4, <2>5, <3>2
    <3>4. h < l /\ h # z
      BY <1>1, <2>3, <3>3
    <3>5. MatchesFolder(t.steps[h], Last(q), t)
      BY <2>2, <2>3, <3>1, <3>4
    <3>6. h + 1 \in Enters(tr, q, t, h)
      BY <2>5, <3>4, <3>5 DEF Enters
    <3> QED
      BY <2>2, <3>2, <3>6
  <2> QED
    BY <2>4, <2>5
<1>8. ASSUME NEW e \in 1 .. l PROVE (\E x \in From(t, e) : k + 1 \in b[x]) <=> k + 1 \in b[e]
  BY FitsFrom
<1>9. StandsIn(tr, q, t, w) = UNION {From(t, e) : e \in UNION {Enters(tr, q, t, at) : at \in w}}
  BY DEF StandsIn
<1>10. (\E at \in w : k \in b[at]) => \E e \in StandsIn(tr, q, t, w) : k + 1 \in b[e]
  <2> SUFFICES ASSUME NEW first \in w, k \in b[first] PROVE \E e \in StandsIn(tr, q, t, w) : k + 1 \in b[e]
    OBVIOUS
  <2>1. PICK at \in w : \E e \in Enters(tr, q, t, at) : k + 1 \in b[e]
    BY <1>7
  <2>2. PICK e \in Enters(tr, q, t, at) : k + 1 \in b[e]
    BY <2>1
  <2>3. PICK x \in From(t, e) : k + 1 \in b[x]
    BY <1>5, <1>8, <2>2
  <2>4. x \in StandsIn(tr, q, t, w)
    BY <1>9, <2>3
  <2> QED
    BY <2>3, <2>4
<1>11. (\E e \in StandsIn(tr, q, t, w) : k + 1 \in b[e]) => \E at \in w : k \in b[at]
  <2> SUFFICES ASSUME NEW x \in StandsIn(tr, q, t, w), k + 1 \in b[x] PROVE \E at \in w : k \in b[at]
    OBVIOUS
  <2>1. PICK e \in UNION {Enters(tr, q, t, at) : at \in w} : x \in From(t, e)
    BY <1>9
  <2>2. PICK at \in w : e \in Enters(tr, q, t, at)
    BY <2>1
  <2>3. k + 1 \in b[e]
    BY <1>5, <1>8, <2>1, <2>2
  <2> QED
    BY <1>6, <2>2, <2>3
<1> QED
  BY <1>10, <1>11 DEF Ahead

\* And in the folder of the file it takes the file.
LEMMA AtEnd ==
    ASSUME NEW t, GoodSteps(t), NEW steps, ReadAs(steps, t), NEW b, NEW names, FitFrom(b, steps, names, t),
           Len(names) \in Nat, Len(names) >= 1, NEW w, Closed(w, t),
           NEW tr, NEW p, ~FolderLike(tr, p), Last(p) = names[Len(names)],
           names[Len(names)] \in FileName
    PROVE  (\E at \in w : Len(names) - 1 \in b[at]) <=> (\E at \in w : Takes(tr, p, t, at))
<1> DEFINE l == Len(t.steps)
           z == Len(steps)
           m == Len(names)
           k == m - 1
<1>1. /\ z \in Nat /\ l \in Nat /\ l >= 1 /\ l <= z /\ \A j \in 1 .. l : steps[j] = t.steps[j]
      /\ steps[z] # Folders
      /\ t.steps[l] # Folders => z = l
      /\ t.steps[l] = Folders => z = l + 1 /\ steps[l + 1] = <<"*">>
  BY ReadIs
<1>2. w \subseteq 1 .. l /\ \A at \in w : t.steps[at] = Folders /\ at < l => at + 1 \in w
  BY DEF Closed
<1>3. \A n : n \in b[z + 1] <=> n = m
  BY <1>1, FitWithin
<1>4. k \in Nat /\ k + 1 = m /\ k \in 0 .. m /\ k \in 0 .. m - 1 /\ k # m
  OBVIOUS
<1> HIDE DEF k
<1>5. ASSUME NEW at \in w, Takes(tr, p, t, at) PROVE k \in b[l] /\ l \in w
  <2>1. at = l /\ l \in 1 .. z /\ l \in w /\ steps[l] = t.steps[l]
    BY <1>1, <1>2, <1>5 DEF Takes
  <2>2. CASE t.steps[l] = Folders
    <3> DEFINE a == l + 1
    <3>1. a = z /\ a \in 1 .. z /\ steps[a] # Folders /\ steps[a] = <<"*">>
      BY <1>1, <2>2
    <3>2. Matches(<<"*">>, names[m], t)
      BY StarMatches DEF FileName
    <3> HIDE DEF a
    <3>3. k \in b[a] <=> /\ k \in 0 .. m - 1 /\ k + 1 \in b[a + 1]
                         /\ IF a = z THEN Matches(steps[a], names[k + 1], t)
                            ELSE MatchesFolder(steps[a], names[k + 1], t)
      <4>1. \A n : n \in b[a] <=>
               /\ n \in 0 .. m - 1 /\ n + 1 \in b[a + 1]
               /\ IF a = z THEN Matches(steps[a], names[n + 1], t) ELSE MatchesFolder(steps[a], names[n + 1], t)
        <5>1. z \in Nat /\ a \in 1 .. Len(steps) /\ steps[a] # Folders
          BY <1>1, <3>1
        <5> QED
          BY <5>1, FitAt
      <4> QED
        BY <4>1
    <3>4. k + 1 \in b[a + 1]
      BY <1>3, <1>4, <3>1
    <3>5. k \in b[l + 1]
      BY <1>4, <3>1, <3>2, <3>3, <3>4 DEF a
    <3>6. \A n : n \in b[l] <=> n \in 0 .. m /\ \E o \in b[l + 1] : n <= o
      BY <1>1, <2>1, <2>2, FitAt
    <3>7. k <= k
      BY <1>4
    <3> QED
      BY <1>4, <2>1, <3>5, <3>6, <3>7
  <2>3. CASE t.steps[l] # Folders
    <3>1. z = l /\ Matches(t.steps[l], Last(p), t)
      BY <1>1, <1>5, <2>1, <2>3 DEF Takes
    <3>2. k \in b[l] <=> /\ k \in 0 .. m - 1 /\ k + 1 \in b[l + 1]
                         /\ IF l = z THEN Matches(steps[l], names[k + 1], t)
                            ELSE MatchesFolder(steps[l], names[k + 1], t)
      BY <1>1, <2>1, <2>3, FitAt
    <3>3. k + 1 \in b[l + 1]
      BY <1>3, <1>4, <3>1
    <3> QED
      BY <1>4, <2>1, <3>1, <3>2, <3>3
  <2> QED
    BY <2>2, <2>3
<1>6. ASSUME NEW first \in w, k \in b[first] PROVE \E at \in w : Takes(tr, p, t, at)
  <2> DEFINE T == {at \in w : k \in b[at]}
             h == Max(T)
  <2>1. h \in T /\ \A at \in T : at <= h
    <3>1. T \subseteq 0 .. l /\ T # {}
      <4>1. w \subseteq 0 .. l
        BY <1>1, <1>2
      <4>2. first \in T
        BY <1>6
      <4>3. T \subseteq w
        OBVIOUS
      <4> HIDE DEF T
      <4> QED
        BY <4>1, <4>2, <4>3
    <3> HIDE DEF T
    <3> QED
      BY <1>1, <3>1, MaxNat
  <2>2. h \in w /\ k \in b[h] /\ \A at \in w : k \in b[at] => at <= h
    BY <2>1
  <2> HIDE DEF h, T
  <2>3. h \in 1 .. l /\ h \in 1 .. z /\ steps[h] = t.steps[h] /\ ~(h + 1 <= h)
    BY <1>1, <1>2, <2>2
  <2>4. ASSUME h < l PROVE h + 1 \in 1 .. z /\ m \notin b[h + 1] /\ b[h + 1] \subseteq 0 .. m
    <3> DEFINE a == h + 1
    <3>1. a \in 1 .. z /\ a \in 1 .. z + 1
      BY <1>1, <2>3, <2>4
    <3> HIDE DEF a
    <3>2. m \notin b[a] /\ b[a] \subseteq 0 .. m
      BY <1>1, <3>1, FitWithin, OneIsLeft
    <3> QED
      BY <3>1, <3>2 DEF a
  <2>5. CASE t.steps[h] = Folders
    <3>1. \A n : n \in b[h] <=> n \in 0 .. m /\ \E o \in b[h + 1] : n <= o
      BY <1>1, <2>3, <2>5, FitAt
    <3>2. PICK o \in b[h + 1] : k <= o
      BY <2>2, <3>1
    <3>3. ~(h < l)
      <4> SUFFICES ASSUME h < l PROVE FALSE
        OBVIOUS
      <4>1. o # m /\ o \in 0 .. m
        BY <2>4, <3>2
      <4>2. o = k
        BY <1>4, <3>2, <4>1
      <4>3. h + 1 \in w
        BY <1>2, <2>2, <2>5
      <4> QED
        BY <2>2, <2>3, <3>2, <4>2, <4>3
    <3>4. h = l
      BY <1>1, <2>3, <3>3
    <3> QED
      BY <2>2, <2>5, <3>4 DEF Takes
  <2>6. CASE t.steps[h] # Folders
    <3>1. k \in b[h] <=> /\ k \in 0 .. m - 1 /\ k + 1 \in b[h + 1]
                         /\ IF h = z THEN Matches(steps[h], names[k + 1], t)
                            ELSE MatchesFolder(steps[h], names[k + 1], t)
      BY <1>1, <2>3, <2>6, FitAt
    <3>2. ~(h < l)
      BY <1>4, <2>2, <2>4, <3>1
    <3>3. h = l /\ z = l
      BY <1>1, <2>3, <2>6, <3>2
    <3>4. Matches(t.steps[h], Last(p), t)
      BY <1>4, <2>2, <2>3, <3>1, <3>3
    <3> QED
      BY <2>2, <2>6, <3>3, <3>4 DEF Takes
  <2> QED
    BY <2>5, <2>6
<1> QED
  BY <1>5, <1>6 DEF k

LEMMA ClosedWithin ==
    ASSUME NEW tr, NEW dir \in FilePath, NEW t, GoodSteps(t), NEW p \in FilePath, NEW n \in Nat,
           Len(dir) + n <= Len(p), SubSeq(p, 1, Len(dir)) = dir
    PROVE  Closed(Stands(tr, dir, t, SubSeq(p, 1, Len(dir) + n)), t)
<1> DEFINE d == Len(dir)
<1>1. d \in Nat /\ Len(t.steps) \in Nat /\ p \in Seq(FileName) /\ Len(p) \in Nat
  BY FolderStepsAre, LenProperties DEF FilePath
<1>2. CASE n = 0
  <2>1. SubSeq(p, 1, d + n) = dir
    BY <1>1, <1>2
  <2>2. Stands(tr, dir, t, dir) = From(t, 1)
    BY <1>1, StandsFirst
  <2>3. Closed(From(t, 1), t)
    BY <1>1, FromClosed
  <2> QED
    BY <2>1, <2>2, <2>3
<1>3. CASE n # 0
  <2> DEFINE k == n - 1
             q == SubSeq(p, 1, (d + k) + 1)
             above == Stands(tr, dir, t, SubSeq(p, 1, d + k))
  <2>1. /\ k \in Nat /\ d + k <= Len(p) /\ d + k \in Nat /\ (d + k) + 1 = d + n /\ (d + k) + 1 <= Len(p)
        /\ (d + k) + 1 \in Nat /\ (d + k) + 1 >= 1 /\ ((d + k) + 1) - 1 = d + k
    BY <1>1, <1>3
  <2> HIDE DEF k
  <2>2. above \subseteq 1 .. Len(t.steps)
    BY <2>1, StandsWithin
  <2>3. q \in FilePath /\ Len(q) = (d + k) + 1 /\ Front(q) = SubSeq(p, 1, d + k)
    BY <2>1, PathPrefix
  <2> HIDE DEF q
  <2>4. d < Len(q)
    BY <1>1, <2>1, <2>3
  <2>5. Stands(tr, dir, t, q) = StandsIn(tr, q, t, above)
    BY <1>1, <2>3, <2>4, StandsNext
  <2> HIDE DEF above
  <2>6. Closed(StandsIn(tr, q, t, above), t)
    BY <1>1, <2>2, StandsClosed
  <2> QED
    BY <2>1, <2>5, <2>6 DEF q
<1> QED
  BY <1>2, <1>3

\* The walk takes a file outside hidden folders if and only if its path fits.
LEMMA WalkFits ==
    ASSUME NEW tr, NEW dir \in FilePath, NEW t, GoodSteps(t), NEW steps, ReadAs(steps, t),
           NEW p \in FilePath, SubSeq(p, 1, Len(dir)) = dir,
           NEW m \in Nat, m >= 1, Len(p) = Len(dir) + m,
           NEW names, Len(names) = m, \A i \in 1 .. m : names[i] = p[Len(dir) + i],
           ~FolderLike(tr, p),
           \A n \in Len(dir) + 1 .. Len(p) - 1 : Opens(tr, SubSeq(p, 1, n)) /\ ~Hidden(p[n])
    PROVE  (\E at \in Stands(tr, dir, t, Front(p)) : Takes(tr, p, t, at)) <=> FitsSteps(steps, names, t)
<1> DEFINE d == Len(dir)
           Here(k) == Stands(tr, dir, t, SubSeq(p, 1, d + k))
<1>1. /\ d \in Nat /\ p \in Seq(FileName) /\ Len(p) = d + m /\ Len(names) \in Nat
      /\ Len(t.steps) \in Nat /\ Len(t.steps) >= 1 /\ Len(steps) \in Nat /\ Len(steps) >= 1
  <2>1. d \in Nat /\ p \in Seq(FileName)
    BY LenProperties DEF FilePath
  <2> QED
    BY <2>1, ReadIs
<1>2. PICK b : FitFrom(b, steps, names, t)
  BY <1>1, FitFromIs
<1> DEFINE S == {k \in Nat : (\E at \in Here(k) : k \in b[at]) <=> 0 \in b[1]}
<1>3. 0 \in S
  <2>1. SubSeq(p, 1, d + 0) = dir
    BY <1>1
  <2>2. Stands(tr, dir, t, dir) = From(t, 1)
    BY <1>1, StandsFirst
  <2>3. (\E e \in From(t, 1) : 0 \in b[e]) <=> 0 \in b[1]
    <3>1. 1 \in 1 .. Len(t.steps)
      BY <1>1
    <3> QED
      BY <1>1, <1>2, <3>1, FitsFrom
  <2>4. Here(0) = From(t, 1)
    BY <2>1, <2>2
  <2> QED
    BY <2>3, <2>4
<1>4. ASSUME NEW n \in Nat, n < m - 1, n \in S PROVE n + 1 \in S
  <2> DEFINE w == Here(n)
             q == SubSeq(p, 1, (d + n) + 1)
  <2>1. /\ d + n <= Len(p) /\ d + n \in Nat /\ (d + n) + 1 = d + (n + 1) /\ (d + n) + 1 <= Len(p)
        /\ n + 1 \in 1 .. m /\ n + 1 < m /\ (d + n) + 1 \in d + 1 .. Len(p) - 1
        /\ (d + n) + 1 \in Nat /\ (d + n) + 1 >= 1 /\ ((d + n) + 1) - 1 = d + n
    BY <1>1, <1>4
  <2>2. Closed(w, t)
    BY <2>1, ClosedWithin
  <2>3. q \in FilePath /\ Len(q) = (d + n) + 1 /\ Front(q) = SubSeq(p, 1, d + n) /\ Last(q) = p[(d + n) + 1]
    BY <2>1, PathPrefix
  <2>4. Opens(tr, q) /\ ~Hidden(p[(d + n) + 1])
    BY <2>1
  <2>5. Last(q) = names[n + 1] /\ ~Hidden(names[n + 1]) /\ n + 1 < Len(names)
    <3>1. names[n + 1] = p[d + (n + 1)]
      BY <2>1
    <3>2. Last(q) = names[n + 1] /\ ~Hidden(names[n + 1])
      <4> HIDE DEF q
      <4> QED
        BY <2>1, <2>3, <2>4, <3>1
    <3> QED
      BY <2>1, <3>2
  <2>6. Here(n + 1) = Stands(tr, dir, t, q)
    BY <2>1
  <2> HIDE DEF q
  <2>7. Stands(tr, dir, t, q) = StandsIn(tr, q, t, w)
    <3>1. d < Len(q)
      BY <1>1, <2>1, <2>3
    <3> QED
      BY <1>1, <2>3, <3>1, StandsNext
  <2>8. (\E at \in w : n \in b[at]) <=> 0 \in b[1]
    BY <1>4
  <2> HIDE DEF w, Here
  <2>9. Ahead(w, b, n) <=> Ahead(StandsIn(tr, q, t, w), b, n + 1)
    <3>1. Len(names) \in Nat /\ FitFrom(b, steps, names, t)
      BY <1>1, <1>2
    <3>2. Opens(tr, q) /\ Closed(w, t)
      BY <2>2, <2>4
    <3> QED
      BY <2>5, <3>1, <3>2, Onward
  <2> QED
    BY <2>6, <2>7, <2>8, <2>9 DEF Ahead
<1> DEFINE k == m - 1
<1>5. k \in Nat /\ k + 1 = m /\ d + k <= Len(p) /\ d + k \in Nat /\ (d + k) + 1 = Len(p)
  BY <1>1
<1>6. k \in S
  <2>1. 0 \in S /\ \A n \in Nat : n < k /\ n \in S => n + 1 \in S
    BY <1>3, <1>4
  <2> HIDE DEF S, k
  <2>2. \A n \in 0 .. k : n \in S
    BY <1>5, <2>1, UpTo
  <2> QED
    BY <1>5, <2>2
<1>7. Front(p) = SubSeq(p, 1, d + k) /\ Last(p) = names[m]
  <2>1. Len(p) - 1 = d + k /\ m \in 1 .. m /\ Len(p) = d + m
    BY <1>1, <1>5
  <2>2. names[m] = p[d + m]
    BY <2>1
  <2> QED
    BY <2>1, <2>2 DEF Front, Last
<1>8. (\E at \in Here(k) : k \in b[at]) <=> 0 \in b[1]
  BY <1>6
<1> HIDE DEF k
<1>9. Closed(Here(k), t)
  BY <1>5, ClosedWithin
<1>10. names[m] \in FileName
  <2>1. d + m \in 1 .. Len(p) /\ m \in 1 .. m
    BY <1>1
  <2>2. p[d + m] \in FileName
    BY <1>1, <2>1, ElementOfSeq
  <2> QED
    BY <2>1, <2>2
<1>11. (\E at \in Here(k) : m - 1 \in b[at]) <=> (\E at \in Here(k) : Takes(tr, p, t, at))
  <2> DEFINE w == Here(k)
  <2>1. /\ Len(names) \in Nat /\ Len(names) >= 1 /\ names[Len(names)] \in FileName
        /\ Last(p) = names[Len(names)]
    BY <1>1, <1>7, <1>10
  <2>2. Closed(w, t)
    BY <1>9
  <2> HIDE DEF w
  <2>3. (\E at \in w : Len(names) - 1 \in b[at]) <=> (\E at \in w : Takes(tr, p, t, at))
    BY <1>2, <2>1, <2>2, AtEnd
  <2> QED
    BY <2>3 DEF w
<1>12. FitsSteps(steps, names, t) <=> 0 \in b[1]
  BY <1>2 DEF FitFrom
<1>13. m - 1 = k
  BY DEF k
<1> QED
  BY <1>7, <1>8, <1>11, <1>12, <1>13

\* What fits with a name more behind the last `**` fits without.
LEMMA FitsAsFolder ==
    ASSUME NEW t, GoodSteps(t), Last(t.steps) = Folders, NEW names, Len(names) \in Nat,
           FitsSteps(Append(t.steps, <<"*">>), names, t)
    PROVE  FitsSteps(t.steps, names, t)
<1> DEFINE old == t.steps
           steps == Append(t.steps, <<"*">>)
           l == Len(old)
           m == Len(names)
<1>1. /\ Len(steps) = l + 1 /\ l \in Nat /\ l >= 1 /\ \A j \in 1 .. l : steps[j] = old[j]
      /\ old[l] = Folders
  <2>1. ReadAs(steps, t)
    BY DEF ReadAs
  <2>2. Last(t.steps) = t.steps[l]
    BY DEF Last
  <2> QED
    BY <2>1, <2>2, ReadIs
<1> HIDE DEF steps, old
<1>2. PICK b : FitFrom(b, steps, names, t)
  <2>1. Len(steps) \in Nat
    BY <1>1
  <2> QED
    BY <2>1, FitFromIs
<1>3. PICK c : FitFrom(c, old, names, t)
  BY <1>1, FitFromIs
<1> DEFINE S == {n \in Nat : n < l => b[l - n] \subseteq c[l - n]}
<1>4. 0 \in S
  <2>1. l \in 1 .. l /\ l \in 1 .. l + 1 /\ l - 0 = l /\ m \in 0 .. m /\ \A n \in 0 .. m : n <= m
    BY <1>1
  <2>2. b[l] \subseteq 0 .. m
    BY <1>1, <1>2, <2>1, FitAt
  <2>3. \A n : n \in c[l] <=> n \in 0 .. m /\ \E h \in c[l + 1] : n <= h
    BY <1>1, <1>3, <2>1, FitAt
  <2>4. c[l + 1] = {m}
    BY <1>3 DEF FitFrom
  <2>5. b[l] \subseteq c[l]
    BY <2>1, <2>2, <2>3, <2>4
  <2> QED
    BY <2>1, <2>5
<1>5. ASSUME NEW n \in Nat, n \in S PROVE n + 1 \in S
  <2> SUFFICES ASSUME n + 1 < l PROVE b[l - (n + 1)] \subseteq c[l - (n + 1)]
    OBVIOUS
  <2> DEFINE j == l - (n + 1)
  <2>1. j \in 1 .. l /\ j \in 1 .. l + 1 /\ j + 1 = l - n /\ j # l /\ j # l + 1 /\ n < l
    BY <1>1
  <2>2. b[j + 1] \subseteq c[j + 1]
    <3> DEFINE e == l - n
    <3>1. n < l => b[e] \subseteq c[e]
      BY <1>5, Zenon
    <3>2. n < l /\ j + 1 = e
      BY <2>1, Zenon
    <3> HIDE DEF e, S
    <3>3. b[e] \subseteq c[e]
      BY <3>1, <3>2, Zenon
    <3> HIDE DEF j
    <3> QED
      BY <3>2, <3>3, Zenon
  <2> HIDE DEF j
  <2>3. steps[j] = old[j] /\ j \in 1 .. Len(steps) /\ Len(steps) \in Nat
    BY <1>1, <2>1
  <2>4. CASE old[j] = Folders
    <3>1. \A i : i \in b[j] <=> i \in 0 .. m /\ \E h \in b[j + 1] : i <= h
      <4>1. steps[j] = Folders
        BY <2>3, <2>4
      <4> QED
        BY <1>2, <2>3, <4>1, FitAt
    <3>2. \A i : i \in c[j] <=> i \in 0 .. m /\ \E h \in c[j + 1] : i <= h
      BY <1>1, <1>3, <2>1, <2>4, FitAt
    <3>3. b[j] \subseteq c[j]
      BY <2>2, <3>1, <3>2
    <3> QED
      BY <3>3 DEF j
  <2>5. CASE old[j] # Folders
    <3>1. \A i : i \in b[j] <=>
             /\ i \in 0 .. m - 1 /\ i + 1 \in b[j + 1]
             /\ IF j = Len(steps) THEN Matches(steps[j], names[i + 1], t)
                ELSE MatchesFolder(steps[j], names[i + 1], t)
      <4>1. steps[j] # Folders
        BY <2>3, <2>5
      <4> QED
        BY <1>2, <2>3, <4>1, FitAt
    <3>2. \A i : i \in c[j] <=>
             /\ i \in 0 .. m - 1 /\ i + 1 \in c[j + 1]
             /\ IF j = l THEN Matches(old[j], names[i + 1], t) ELSE MatchesFolder(old[j], names[i + 1], t)
      BY <1>1, <1>3, <2>1, <2>5, FitAt
    <3>3. \A i : i \in b[j] => i \in 0 .. m - 1 /\ i + 1 \in b[j + 1] /\ MatchesFolder(old[j], names[i + 1], t)
      BY <1>1, <2>1, <2>3, <3>1
    <3>4. \A i : i \in c[j] <=> i \in 0 .. m - 1 /\ i + 1 \in c[j + 1] /\ MatchesFolder(old[j], names[i + 1], t)
      BY <2>1, <3>2
    <3>5. b[j] \subseteq c[j]
      BY <2>2, <3>3, <3>4
    <3> QED
      BY <3>5 DEF j
  <2> QED
    BY <2>4, <2>5
<1> HIDE DEF S
<1>6. \A n \in Nat : n \in S
  BY <1>4, <1>5, ByNat
<1>7. b[1] \subseteq c[1]
  <2>1. l - 1 \in Nat /\ l - (l - 1) = 1 /\ l - 1 < l
    BY <1>1
  <2>2. l - 1 \in S
    BY <1>6, <2>1
  <2> QED
    BY <2>1, <2>2 DEF S
<1> QED
  BY <1>2, <1>3, <1>7 DEF FitFrom, steps, old

\* The names of a path below a namespace folder.
LEMMA NamesBelow ==
    ASSUME NEW s, s.folder \in FilePath, NEW p \in FilePath, Len(s.folder) < Len(p)
    PROVE  LET d == Len(s.folder)
               names == SubSeq(p, d + 1, Len(p))
           IN  /\ d \in Nat /\ Len(p) \in Nat /\ Len(names) = Len(p) - d
               /\ \A i \in 1 .. Len(p) - d : names[i] = p[d + i]
               /\ BelowSpace(s, p) # <<>> /\ Segments(BelowSpace(s, p)) = names
<1> DEFINE d == Len(s.folder)
           X == Character \ {"/"}
           Y == Seq(X) \ {<<>>}
           names == SubSeq(p, d + 1, Len(p))
<1>1. p \in Seq(Y) /\ s.folder \in Seq(Y) /\ "/" \notin X
  BY NamesHaveNoSlash
<1>2. d \in Nat /\ Len(p) \in Nat /\ d < Len(p)
  BY <1>1, LenProperties
<1> HIDE DEF d, X, Y
<1>3. names \in Seq(Y) /\ Len(names) = Len(p) - d /\ \A i \in 1 .. Len(p) - d : names[i] = p[d + i]
  <2>1. \A i \in d + 1 .. Len(p) : p[i] \in Y
    BY <1>1, <1>2, ElementOfSeq
  <2>2. names \in Seq(Y)
    BY <1>2, <2>1, SubSeqProperties
  <2>3. Len(names) = Len(p) - d
    BY <1>1, <1>2, <2>1, SubSeqProperties
  <2>4. \A i \in 1 .. Len(p) - d : names[i] = p[d + i]
    BY <1>1, <1>2
  <2> QED
    BY <2>2, <2>3, <2>4
<1> HIDE DEF names
<1>4. names # <<>>
  BY <1>2, <1>3
<1>5. Segments(PathOf(names)) = names /\ PathOf(names) # <<>>
  BY <1>1, <1>3, <1>4, PathIsThere DEF Y
<1>6. BelowSpace(s, p) = PathOf(names)
  BY DEF BelowSpace, names, d
<1> QED
  BY <1>2, <1>3, <1>5, <1>6 DEF names, d

\* A file outside hidden folders is found by the walk if and only if its path matches.
LEMMA FoundMatches ==
    ASSUME NEW tr, Grown(tr), NEW s, s.folder \in FilePath, NEW t, GoodSteps(t),
           NEW p \in Beneath(tr, s.folder), Readable(tr, p),
           \A n \in Len(s.folder) + 1 .. Len(p) - 1 : Opens(tr, SubSeq(p, 1, n)) /\ ~Hidden(p[n])
    PROVE  p \in Found(tr, s.folder, t) <=>
             MatchesPath(t, BelowSpace(s, p)) /\ ~OnlyAsFolder(t, BelowSpace(s, p))
<1> DEFINE dir == s.folder
           d == Len(dir)
           names == SubSeq(p, d + 1, Len(p))
           below == BelowSpace(s, p)
           m == Len(p) - d
<1>1. p \in FilePath /\ d < Len(p) /\ \A i \in 1 .. d : p[i] = dir[i]
  BY BeneathFolder
<1>2. /\ d \in Nat /\ Len(p) \in Nat /\ Len(names) = m /\ \A i \in 1 .. m : names[i] = p[d + i]
      /\ below # <<>> /\ Segments(below) = names
  BY <1>1, NamesBelow
<1>3. SubSeq(p, 1, d) = dir
  <2>1. dir \in Seq(FileName) /\ p \in Seq(FileName) /\ d <= Len(p)
    BY <1>1, <1>2 DEF FilePath
  <2> HIDE DEF dir
  <2>2. SubSeq(p, 1, d) = SubSeq(dir, 1, d)
    BY <1>1, <1>2, <2>1, SamePrefix
  <2>3. SubSeq(dir, 1, d) = dir
    BY <2>1, SubSeqFull
  <2> QED
    BY <2>2, <2>3
<1>4. ~FolderLike(tr, p)
  BY DEF Readable, FolderLike
<1> HIDE DEF names, below, m
<1>5. m \in Nat /\ m >= 1 /\ Len(p) = d + m
  BY <1>1, <1>2 DEF m
<1>6. p \in Found(tr, dir, t) <=> \E at \in Stands(tr, dir, t, Front(p)) : Takes(tr, p, t, at)
  BY DocumentIs
<1>7. ASSUME NEW steps, ReadAs(steps, t)
      PROVE  p \in Found(tr, dir, t) <=> FitsSteps(steps, names, t)
  BY <1>1, <1>2, <1>3, <1>4, <1>5, <1>6, <1>7, WalkFits
<1>8. MatchesPath(t, below) <=> FitsSteps(t.steps, names, t)
  BY <1>2 DEF MatchesPath
<1>9. CASE Last(t.steps) # Folders
  <2>1. ReadAs(t.steps, t) /\ ~OnlyAsFolder(t, below)
    BY <1>9 DEF ReadAs, OnlyAsFolder
  <2> QED
    BY <1>7, <1>8, <2>1 DEF below
<1>10. CASE Last(t.steps) = Folders
  <2> DEFINE steps == Append(t.steps, <<"*">>)
  <2>1. ReadAs(steps, t) /\ (OnlyAsFolder(t, below) <=> ~FitsSteps(steps, names, t))
    BY <1>2, <1>10 DEF ReadAs, OnlyAsFolder
  <2>2. FitsSteps(steps, names, t) => FitsSteps(t.steps, names, t)
    <3>1. Len(names) \in Nat
      BY <1>2, <1>5
    <3> QED
      BY <1>10, <3>1, FitsAsFolder
  <2> HIDE DEF steps
  <2>3. p \in Found(tr, dir, t) <=> FitsSteps(steps, names, t)
    BY <1>7, <2>1
  <2> QED
    BY <1>8, <2>1, <2>2, <2>3 DEF below
<1> QED
  BY <1>9, <1>10

LEMMA OneOrMore ==
    ASSUME NEW S, IsFiniteSet(S)
    PROVE  /\ Cardinality(S) = 1 <=> \E x : S = {x}
           /\ Cardinality(S) > 1 <=> \E x, y \in S : x # y
<1>1. Cardinality(S) \in Nat /\ (Cardinality(S) = 0 <=> S = {}) /\ (Cardinality(S) = 1 <=> \E x : S = {x})
  BY FS_CardinalityType, FS_EmptySet, FS_Singleton
<1>2. (\E x, y \in S : x # y) <=> S # {} /\ ~\E x : S = {x}
  <2>1. ASSUME S # {}, ~\E x : S = {x} PROVE \E x, y \in S : x # y
    <3>1. PICK x \in S : TRUE
      BY <2>1
    <3>2. S # {x}
      BY <2>1
    <3> QED
      BY <3>1, <3>2
  <2>2. ASSUME NEW x \in S, NEW y \in S, x # y PROVE S # {} /\ ~\E z : S = {z}
    BY <2>2
  <2> QED
    BY <2>1, <2>2
<1> QED
  BY <1>1, <1>2

LEMMA WalkAgrees == ReadInv => WalkAgreesWithMatch
<1> SUFFICES ASSUME ReadInv, report.done PROVE WalkAgreesWithMatch
  BY DEF WalkAgreesWithMatch
<1> DEFINE spaces == report.resolved.spaces
           index == report.index
<1>1. /\ Grown(tree) /\ members \in MemberLists /\ GoodSpaces(spaces)
      /\ spaces \in Seq(Space) /\ DOMAIN spaces = 1 .. Len(spaces)
      /\ Answers(tree, spaces, members, index)
  BY DoneIs
<1>2. /\ \A p : p \in report.documents <=> p \in DOMAIN index.entries /\ Shown(report.scope, spaces, p)
      /\ \A p : p \in report.overlapping <=> p \in DOMAIN index.overlaps /\ Shown(report.scope, spaces, p)
  BY DoneIs
<1>3. ScopeSpaces = {s \in Range(spaces) : s.name \in report.scope.namespaces}
  BY DEF ScopeSpaces
<1>4. /\ DOMAIN members = 1 .. Len(members) /\ Len(members) \in Nat
      /\ \A i, j \in 1 .. Len(members) : members[i].name = members[j].name => i = j
  BY <1>1, MembersAre
<1> HIDE DEF spaces, index
<1> SUFFICES ASSUME NEW s \in ScopeSpaces, NEW p \in {q \in DOMAIN tree : Plain(s, q)}
             PROVE  LET below == BelowSpace(s, p)
                        Claims(m) == MatchesPath(m.template, below) /\ ~OnlyAsFolder(m.template, below)
                        claims == {m.name : m \in {x \in Range(members) : Claims(x)}}
                    IN  /\ (p \in report.documents) <=> (Cardinality(claims) = 1)
                        /\ (p \in report.overlapping) <=> (Cardinality(claims) > 1)
                        /\ p \in report.documents => report.index.entries[p].collection \in claims
                        /\ p \in report.overlapping => Range(report.index.overlaps[p]) = claims
  BY DEF WalkAgreesWithMatch
<1> DEFINE below == BelowSpace(s, p)
           Claims(m) == MatchesPath(m.template, below) /\ ~OnlyAsFolder(m.template, below)
           claims == {m.name : m \in {x \in Range(members) : Claims(x)}}
           d == Len(s.folder)
<1>5. PICK a \in 1 .. Len(spaces) : s = spaces[a]
  BY <1>1, <1>3 DEF Range
<1>6. s.folder \in FilePath
  BY <1>1, <1>5, SpaceFolder
<1>7. /\ p \in Beneath(tree, s.folder) /\ Readable(tree, p)
      /\ \A n \in d + 1 .. Len(p) - 1 : Opens(tree, SubSeq(p, 1, n))
  BY <1>6, VisibleIs DEF Plain
<1>8. Shown(report.scope, spaces, p)
  BY <1>1, <1>3, <1>5, <1>7, HoldingIs DEF Shown
<1>9. \A n \in d + 1 .. Len(p) - 1 : ~Hidden(p[n])
  <2> TAKE n \in d + 1 .. Len(p) - 1
  <2>1. p \in FilePath /\ Len(p) \in Nat /\ d \in Nat
    BY <1>1, <1>6, <1>7, BeneathFolder, LenProperties DEF FilePath
  <2>2. n \in Nat /\ n >= 1 /\ n <= Len(p)
    BY <2>1
  <2>3. Last(SubSeq(p, 1, n)) = p[n]
    BY <2>1, <2>2, PathPrefix
  <2>4. ~Hidden(Last(SubSeq(p, 1, n)))
    BY DEF Plain, FoldersAbove
  <2> QED
    BY <2>3, <2>4
<1>10. ASSUME NEW j \in 1 .. Len(members)
       PROVE  Claim(tree, spaces, members, a, j, p) <=> Claims(members[j])
  <2> DEFINE t == members[j].template
  <2>1. GoodSteps(t)
    <3>1. members[j] \in Range(members)
      BY <1>4 DEF Range
    <3> QED
      BY <1>1, <3>1, StepsAre
  <2>2. Claims(members[j]) <=> MatchesPath(t, BelowSpace(s, p)) /\ ~OnlyAsFolder(t, BelowSpace(s, p))
    OBVIOUS
  <2>3. Claim(tree, spaces, members, a, j, p) <=> p \in Found(tree, s.folder, t)
    BY <1>5 DEF Claim
  <2> HIDE DEF t, Claims
  <2>4. \A n \in Len(s.folder) + 1 .. Len(p) - 1 : Opens(tree, SubSeq(p, 1, n)) /\ ~Hidden(p[n])
    BY <1>7, <1>9
  <2> QED
    BY <1>1, <1>6, <1>7, <2>1, <2>2, <2>3, <2>4, FoundMatches
<1> HIDE DEF Claims
<1>11. ASSUME NEW b, NEW j, Claim(tree, spaces, members, b, j, p) PROVE b = a /\ j \in 1 .. Len(members)
  <2>1. b \in 1 .. Len(spaces) /\ j \in 1 .. Len(members) /\ p \in Beneath(tree, spaces[b].folder)
    BY <1>11, ClaimFacts
  <2> QED
    BY <1>1, <1>5, <1>7, <2>1, OneSpace
<1>12. \A c : c \in claims <=> \E j \in 1 .. Len(members) : Claims(members[j]) /\ c = members[j].name
  BY <1>4 DEF Range
<1>13. IsFiniteSet(claims)
  <2> DEFINE f == [j \in 1 .. Len(members) |-> members[j].name]
             image == {f[j] : j \in 1 .. Len(members)}
  <2>1. IsFiniteSet(1 .. Len(members)) /\ f \in [1 .. Len(members) -> image]
    <3>1. IsFiniteSet(1 .. Len(members))
      BY <1>4, FS_Interval
    <3> QED
      BY <3>1
  <2>2. IsFiniteSet(image)
    <3>1. f \in Surjection(1 .. Len(members), image)
      BY <2>1 DEF Surjection
    <3> HIDE DEF f, image
    <3> QED
      BY <2>1, <3>1, FS_Surjection
  <2>3. claims \subseteq image
    <3> SUFFICES ASSUME NEW c \in claims PROVE c \in image
      OBVIOUS
    <3>1. PICK j \in 1 .. Len(members) : c = members[j].name
      <4> HIDE DEF claims
      <4> QED
        BY <1>12
    <3>2. c = f[j]
      BY <3>1
    <3> QED
      BY <3>2
  <2> HIDE DEF claims, image
  <2> QED
    BY <2>2, <2>3, FS_Subset
<1> HIDE DEF claims
<1>14. p \in DOMAIN index.overlaps <=> \E x, y \in claims : x # y
  <2>1. p \in DOMAIN index.overlaps <=>
          \E b, j, l : j # l /\ Claim(tree, spaces, members, b, j, p) /\ Claim(tree, spaces, members, b, l, p)
    BY <1>1 DEF Answers
  <2>2. ASSUME NEW b, NEW j, NEW l, j # l,
               Claim(tree, spaces, members, b, j, p), Claim(tree, spaces, members, b, l, p)
        PROVE  \E x, y \in claims : x # y
    <3>1. b = a /\ j \in 1 .. Len(members) /\ l \in 1 .. Len(members)
      BY <1>11, <2>2
    <3>2. members[j].name \in claims /\ members[l].name \in claims /\ members[j].name # members[l].name
      BY <1>4, <1>10, <1>12, <2>2, <3>1
    <3> QED
      BY <3>2
  <2>3. ASSUME NEW x \in claims, NEW y \in claims, x # y
        PROVE  \E b, j, l : j # l /\ Claim(tree, spaces, members, b, j, p) /\ Claim(tree, spaces, members, b, l, p)
    <3>1. PICK j \in 1 .. Len(members) : Claims(members[j]) /\ x = members[j].name
      BY <1>12
    <3>2. PICK l \in 1 .. Len(members) : Claims(members[l]) /\ y = members[l].name
      BY <1>12
    <3>3. j # l
      BY <2>3, <3>1, <3>2
    <3> QED
      BY <1>10, <3>1, <3>2, <3>3
  <2> QED
    BY <2>1, <2>2, <2>3
<1>15. p \in DOMAIN index.entries <=> \E x : claims = {x}
  <2>1. p \in DOMAIN index.entries <=>
          p \notin DOMAIN index.overlaps /\ \E b, j : Claim(tree, spaces, members, b, j, p)
    BY <1>1 DEF Answers
  <2>2. (\E b, j : Claim(tree, spaces, members, b, j, p)) <=> claims # {}
    <3>1. ASSUME NEW b, NEW j, Claim(tree, spaces, members, b, j, p) PROVE claims # {}
      BY <1>10, <1>11, <1>12, <3>1
    <3>2. ASSUME NEW x \in claims PROVE \E b, j : Claim(tree, spaces, members, b, j, p)
      BY <1>10, <1>12
    <3> QED
      BY <3>1, <3>2
  <2>3. (\E x : claims = {x}) <=> claims # {} /\ ~\E x, y \in claims : x # y
    <3>1. ASSUME NEW x \in claims, ~\E y, z \in claims : y # z PROVE claims = {x}
      BY <3>1
    <3> QED
      BY <3>1
  <2> QED
    BY <1>14, <2>1, <2>2, <2>3
<1>16. ASSUME p \in DOMAIN index.entries PROVE index.entries[p].collection \in claims
  <2>1. PICK b, j : Claim(tree, spaces, members, b, j, p)
    BY <1>1, <1>16 DEF Answers
  <2>2. index.entries[p].collection = members[j].name
    BY <1>1, <1>16, <2>1 DEF Answers
  <2>3. b = a /\ j \in 1 .. Len(members)
    BY <1>11, <2>1
  <2> QED
    BY <1>10, <1>12, <2>1, <2>2, <2>3
<1>17. ASSUME p \in DOMAIN index.overlaps PROVE Range(index.overlaps[p]) = claims
  <2>1. \A c : c \in Range(index.overlaps[p])
                 <=> \E b, j : Claim(tree, spaces, members, b, j, p) /\ c = members[j].name
    BY <1>1, <1>17 DEF Answers
  <2>2. \A c : (\E b, j : Claim(tree, spaces, members, b, j, p) /\ c = members[j].name) <=> c \in claims
    BY <1>10, <1>11, <1>12
  <2> QED
    BY <2>1, <2>2
<1>18. /\ Cardinality(claims) = 1 <=> \E x : claims = {x}
       /\ Cardinality(claims) > 1 <=> \E x, y \in claims : x # y
  BY <1>13, OneOrMore
<1>19. /\ (p \in report.documents) <=> (Cardinality(claims) = 1)
       /\ (p \in report.overlapping) <=> (Cardinality(claims) > 1)
       /\ p \in report.documents => report.index.entries[p].collection \in claims
       /\ p \in report.overlapping => Range(report.index.overlaps[p]) = claims
  BY <1>2, <1>8, <1>14, <1>15, <1>16, <1>17, <1>18 DEF index
<1> QED
  BY <1>19 DEF claims, Claims

\* IndexSound: whichever way a file is looked at, by the walk of its collection, by the audit's own
\* walk, by matching its path or by its key, a run gives one answer, for any project folder, list of
\* namespaces and collections (index.rs walk, build, walk_every_file, key; template.rs matches_path).
THEOREM OneIndex == Spec => []IndexSound
<1>1. ReadInv => IndexSound
  BY TypeHolds, FilesAnswered, WalkAgrees, KeysHold DEF IndexSound
<1> QED
  BY <1>1, ReadingStarts, ReadingStays, PTL DEF Spec

=============================================================================
