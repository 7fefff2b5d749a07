--------------------------- MODULE EditingProofs ---------------------------
(***************************************************************************)
(* Proofs about the text the write commands leave: SetChangesWhatItSays,   *)
(* NoCommandBreaksTheBlock and LinksFollow of Editing, for any schema, any *)
(* files, any assignments and any names.                                   *)
(*                                                                         *)
(* A command is a list of calls of the writer. One call touches one field  *)
(* and leaves every other as it was and where it was (CallKeeps); so do    *)
(* all of them (ToldKeeps). What the writer then writes is read back as    *)
(* the same values (ReadsBack), for those a file was read from.            *)
(*                                                                         *)
(* LinksFollow comes last. The links of a line are rewritten from its end: *)
(* after each splice the links before it stand where they stood and those  *)
(* behind it have moved together, with the words they had (LineFollows).   *)
(* The refs in fields are rewritten in any order, item by item: for each   *)
(* item that still has its old name a call is left (CallsFollow).          *)
(***************************************************************************)
EXTENDS Editing, TLAPS, FiniteSetTheorems, SequenceTheorems, WellFoundedInduction

-----------------------------------------------------------------------------
(* Sequences.                                                              *)

LEMMA SeqFacts ==
    ASSUME NEW s, Sequence(s)
    PROVE  /\ Len(s) \in Nat /\ DOMAIN s = 1 .. Len(s) /\ s \in Seq(ToSet(s))
           /\ \A i \in 1 .. Len(s) : s[i] \in ToSet(s)
BY LenProperties, ElementOfSeq DEF Sequence

LEMMA SeqIn ==
    ASSUME NEW S, NEW s \in Seq(S)
    PROVE  Sequence(s)
<1>1. Len(s) \in Nat /\ DOMAIN s = 1 .. Len(s) /\ s \in [1 .. Len(s) -> S]
  BY LenProperties
<1>2. \A i \in 1 .. Len(s) : s[i] \in ToSet(s)
  BY <1>1 DEF ToSet
<1>3. s \in [1 .. Len(s) -> ToSet(s)]
  BY <1>1, <1>2
<1> QED
  BY <1>1, <1>3, SeqDef DEF Sequence

LEMMA SeqMade ==
    ASSUME NEW n \in Nat, NEW s, s = [i \in 1 .. n |-> s[i]]
    PROVE  Sequence(s) /\ Len(s) = n /\ DOMAIN s = 1 .. n
<1>1. DOMAIN s = 1 .. n
  OBVIOUS
<1>2. s \in [1 .. n -> ToSet(s)]
  BY <1>1 DEF ToSet
<1>3. s \in Seq(ToSet(s))
  BY <1>2, SeqDef
<1>4. Len(s) = n
  BY <1>1, <1>3, LenProperties
<1> QED
  BY <1>1, <1>3, <1>4 DEF Sequence

LEMMA SeqAppend ==
    ASSUME NEW s, Sequence(s), NEW x
    PROVE  /\ Sequence(Append(s, x)) /\ Len(Append(s, x)) = Len(s) + 1
           /\ \A i \in 1 .. Len(s) : Append(s, x)[i] = s[i]
           /\ Append(s, x)[Len(s) + 1] = x
<1> DEFINE S == ToSet(s) \cup {x}
<1>1. s \in Seq(S) /\ x \in S
  BY SeqFacts, SeqMonotonic
<1> HIDE DEF S
<1>2. Append(s, x) \in Seq(S) /\ Len(Append(s, x)) = Len(s) + 1
      /\ (\A i \in 1 .. Len(s) : Append(s, x)[i] = s[i])
      /\ Append(s, x)[Len(s) + 1] = x
  BY <1>1
<1> QED
  BY <1>2, SeqIn

LEMMA SeqExcept ==
    ASSUME NEW s, Sequence(s), NEW k, NEW x, NEW t, t = [s EXCEPT ![k] = x]
    PROVE  /\ Sequence(t) /\ Len(t) = Len(s)
           /\ \A i \in 1 .. Len(s) : t[i] = IF i = k THEN x ELSE s[i]
<1>1. Len(s) \in Nat /\ DOMAIN s = 1 .. Len(s)
  BY SeqFacts
<1>2. t = [i \in 1 .. Len(s) |-> t[i]] /\ \A i \in 1 .. Len(s) : t[i] = IF i = k THEN x ELSE s[i]
  BY <1>1
<1> QED
  BY <1>1, <1>2, SeqMade

LEMMA SeqRemove ==
    ASSUME NEW s, Sequence(s), NEW k \in 1 .. Len(s)
    PROVE  LET t == RemoveAt(s, k)
           IN  /\ Sequence(t) /\ Len(t) = Len(s) - 1
               /\ \A i \in 1 .. Len(s) - 1 : t[i] = IF i < k THEN s[i] ELSE s[i + 1]
<1> DEFINE S == ToSet(s)
           a == SubSeq(s, 1, k - 1)
           b == SubSeq(s, k + 1, Len(s))
<1>1. Len(s) \in Nat /\ \A i \in 1 .. Len(s) : s[i] \in S
  BY SeqFacts
<1> HIDE DEF S
<1>2. /\ a \in Seq(S) /\ Len(a) = k - 1
      /\ \A i \in 1 .. k - 1 : a[i] = s[i]
  <2>1. 1 \in Int /\ k - 1 \in Int /\ \A i \in 1 .. k - 1 : s[i] \in S
    BY <1>1
  <2>2. Len(a) = IF 1 <= k - 1 THEN k - 1 - 1 + 1 ELSE 0
    BY <2>1, SubSeqProperties
  <2>3. a \in Seq(S) /\ \A i \in 1 .. k - 1 - 1 + 1 : a[i] = s[1 + i - 1]
    BY <2>1, SubSeqProperties
  <2> HIDE DEF a
  <2>4. Len(a) = k - 1
    BY <1>1, <2>2
  <2>5. ASSUME NEW i \in 1 .. k - 1 PROVE a[i] = s[i]
    <3>1. i \in 1 .. k - 1 - 1 + 1 /\ 1 + i - 1 = i
      BY <1>1
    <3> QED
      BY <2>3, <3>1
  <2> QED
    BY <2>3, <2>4, <2>5
<1>3. /\ b \in Seq(S) /\ Len(b) = Len(s) - k
      /\ \A i \in 1 .. Len(s) - k : b[i] = s[k + i]
  <2>1. k + 1 \in Int /\ Len(s) \in Int /\ \A i \in k + 1 .. Len(s) : s[i] \in S
    BY <1>1
  <2>2. Len(b) = IF k + 1 <= Len(s) THEN Len(s) - (k + 1) + 1 ELSE 0
    BY <2>1, SubSeqProperties
  <2>3. b \in Seq(S) /\ \A i \in 1 .. Len(s) - (k + 1) + 1 : b[i] = s[k + 1 + i - 1]
    BY <2>1, SubSeqProperties
  <2> HIDE DEF b
  <2>4. Len(b) = Len(s) - k
    BY <1>1, <2>2
  <2>5. ASSUME NEW i \in 1 .. Len(s) - k PROVE b[i] = s[k + i]
    <3>1. i \in 1 .. Len(s) - (k + 1) + 1 /\ k + 1 + i - 1 = k + i
      BY <1>1
    <3> QED
      BY <2>3, <3>1
  <2> QED
    BY <2>3, <2>4, <2>5
<1> DEFINE t == a \o b
<1> HIDE DEF a, b
<1>4. /\ t \in Seq(S) /\ Len(t) = Len(a) + Len(b)
      /\ \A i \in 1 .. Len(a) + Len(b) : t[i] = IF i <= Len(a) THEN a[i] ELSE b[i - Len(a)]
  BY <1>2, <1>3, ConcatProperties
<1> HIDE DEF t
<1>5. Sequence(t) /\ Len(t) = Len(s) - 1
  BY <1>1, <1>2, <1>3, <1>4, SeqIn
<1>6. ASSUME NEW i \in 1 .. Len(s) - 1 PROVE t[i] = IF i < k THEN s[i] ELSE s[i + 1]
  <2>1. i \in 1 .. Len(a) + Len(b)
    BY <1>1, <1>2, <1>3
  <2>2. CASE i < k
    BY <1>1, <1>2, <1>4, <2>1, <2>2
  <2>3. CASE ~(i < k)
    <3>1. ~(i <= Len(a)) /\ i - Len(a) \in 1 .. Len(s) - k /\ k + (i - Len(a)) = i + 1
      BY <1>1, <1>2, <2>3
    <3> QED
      BY <1>3, <1>4, <2>1, <2>3, <3>1
  <2> QED
    BY <2>2, <2>3
<1> QED
  BY <1>5, <1>6 DEF t, a, b, RemoveAt

-----------------------------------------------------------------------------
(* The fields of a document: one of a name.                                *)

Fine(fields) ==
    /\ Sequence(fields)
    /\ \A i \in 1 .. Len(fields) :
         /\ fields[i] = [name |-> fields[i].name, value |-> fields[i].value]
         /\ Sequence(fields[i].value.items)
    /\ \A i, j \in 1 .. Len(fields) : fields[i].name = fields[j].name => i = j

LEMMA Found ==
    ASSUME NEW fields, Fine(fields), NEW name
    PROVE  /\ HasField(fields, name) \in BOOLEAN
           /\ FieldAt(fields, name) \in Nat
           /\ ~HasField(fields, name) => FieldAt(fields, name) = 0
           /\ HasField(fields, name) =>
                /\ FieldAt(fields, name) \in 1 .. Len(fields)
                /\ fields[FieldAt(fields, name)].name = name
                /\ FieldValue(fields, name) = fields[FieldAt(fields, name)].value
           /\ \A i \in 1 .. Len(fields) :
                fields[i].name = name => /\ HasField(fields, name) /\ FieldAt(fields, name) = i
                                         /\ FieldValue(fields, name) = fields[i].value
<1> DEFINE at == {j \in DOMAIN fields : fields[j].name = name}
<1>1. Len(fields) \in Nat /\ DOMAIN fields = 1 .. Len(fields)
  BY SeqFacts DEF Fine
<1>2. ASSUME NEW i \in 1 .. Len(fields), fields[i].name = name PROVE FieldAt(fields, name) = i
  <2>1. at = {i}
    BY <1>1, <1>2 DEF Fine
  <2>2. Min(at) = i
    BY <1>2, <2>1 DEF Min
  <2> QED
    BY <2>1, <2>2 DEF FieldAt
<1>3. CASE at = {}
  <2>1. FieldAt(fields, name) = 0 /\ \A i \in 1 .. Len(fields) : fields[i].name # name
    BY <1>1, <1>3 DEF FieldAt
  <2> QED
    BY <2>1 DEF HasField
<1>4. CASE at # {}
  <2>1. PICK i \in 1 .. Len(fields) : fields[i].name = name
    BY <1>1, <1>4
  <2>2. FieldAt(fields, name) = i /\ i # 0 /\ i \in Nat
    BY <1>1, <1>2, <2>1
  <2>3. \A k \in 1 .. Len(fields) : fields[k].name = name => k = i
    BY <1>2, <2>2
  <2> QED
    BY <2>1, <2>2, <2>3 DEF HasField, FieldValue
<1> QED
  BY <1>3, <1>4

LEMMA PutIs ==
    ASSUME NEW fields, Fine(fields), NEW name, NEW value, Sequence(value.items)
    PROVE  LET put == Put(fields, name, value)
           IN  /\ Fine(put) /\ HasField(put, name) /\ FieldValue(put, name) = value
               /\ HasField(fields, name) => FieldAt(put, name) = FieldAt(fields, name)
               /\ \A other : other # name =>
                    /\ (HasField(put, other) <=> HasField(fields, other))
                    /\ HasField(fields, other) => FieldValue(put, other) = FieldValue(fields, other)
                    /\ HasField(fields, other) => FieldAt(put, other) = FieldAt(fields, other)
<1> DEFINE put == Put(fields, name, value)
           k == FieldAt(fields, name)
           n == Len(fields)
<1>1. n \in Nat /\ DOMAIN fields = 1 .. n
  BY SeqFacts DEF Fine
<1>2. CASE HasField(fields, name)
  <2> DEFINE new == [fields[k] EXCEPT !.value = value]
  <2>1. k \in 1 .. n /\ fields[k].name = name
    BY <1>2, Found
  <2>2. fields[k] = [name |-> fields[k].name, value |-> fields[k].value]
    BY <2>1 DEF Fine
  <2>3. new = [name |-> name, value |-> value]
    <3>1. \A r, v : r = [name |-> name, value |-> v] => [r EXCEPT !.value = value] = [name |-> name, value |-> value]
      OBVIOUS
    <3> HIDE DEF k
    <3> QED
      BY <2>1, <2>2, <3>1
  <2>4. put = [fields EXCEPT ![k] = new]
    BY <1>2 DEF Put
  <2> HIDE DEF put, k, new, n
  <2>5. /\ Sequence(put) /\ Len(put) = n
        /\ \A i \in 1 .. n : put[i] = IF i = k THEN new ELSE fields[i]
    <3>1. put = [i \in 1 .. n |-> put[i]] /\ \A i \in 1 .. n : put[i] = IF i = k THEN new ELSE fields[i]
      BY <1>1, <2>4
    <3> QED
      BY <1>1, <3>1, SeqMade
  <2>6. \A i \in 1 .. n : put[i].name = fields[i].name
    BY <2>1, <2>3, <2>5
  <2>7. Fine(put)
    <3>1. ASSUME NEW i \in 1 .. n
          PROVE  put[i] = [name |-> put[i].name, value |-> put[i].value] /\ Sequence(put[i].value.items)
      <4>1. CASE i = k
        BY <2>3, <2>5, <4>1
      <4>2. CASE i # k
        BY <2>5, <4>2 DEF Fine, n
      <4> QED
        BY <4>1, <4>2
    <3>2. \A i, j \in 1 .. n : put[i].name = put[j].name => i = j
      BY <2>6 DEF Fine, n
    <3> QED
      BY <2>5, <3>1, <3>2 DEF Fine
  <2>8. HasField(put, name) /\ FieldValue(put, name) = value /\ FieldAt(put, name) = k
    <3>1. k \in 1 .. Len(put) /\ put[k].name = name /\ put[k].value = value
      BY <2>1, <2>3, <2>5, <2>6
    <3> QED
      BY <2>7, <3>1, Found
  <2>9. ASSUME NEW other, other # name
        PROVE  /\ (HasField(put, other) <=> HasField(fields, other))
               /\ HasField(fields, other) => FieldValue(put, other) = FieldValue(fields, other)
               /\ HasField(fields, other) => FieldAt(put, other) = FieldAt(fields, other)
    <3>1. CASE \E i \in 1 .. n : fields[i].name = other
      <4>1. PICK i \in 1 .. n : fields[i].name = other
        BY <3>1
      <4>2. i # k /\ put[i] = fields[i]
        BY <2>1, <2>5, <2>9, <4>1
      <4>3. HasField(fields, other) /\ FieldAt(fields, other) = i /\ FieldValue(fields, other) = fields[i].value
        BY <4>1, Found DEF n
      <4>4. HasField(put, other) /\ FieldAt(put, other) = i /\ FieldValue(put, other) = put[i].value
        BY <2>5, <2>7, <4>1, <4>2, Found
      <4> QED
        BY <4>2, <4>3, <4>4
    <3>2. CASE ~\E i \in 1 .. n : fields[i].name = other
      <4>1. ~HasField(fields, other)
        BY <3>2, Found DEF n
      <4>2. ~HasField(put, other)
        BY <2>5, <2>6, <2>7, <3>2, Found
      <4> QED
        BY <4>1, <4>2
    <3> QED
      BY <3>1, <3>2
  <2> QED
    BY <2>7, <2>8, <2>9 DEF put, k
<1>3. CASE ~HasField(fields, name)
  <2> DEFINE new == [name |-> name, value |-> value]
  <2>1. put = Append(fields, new)
    BY <1>3 DEF Put
  <2>2. \A i \in 1 .. n : fields[i].name # name
    BY <1>3, Found
  <2>3. new.name = name /\ new.value = value
    OBVIOUS
  <2>4. new = [name |-> new.name, value |-> new.value]
    OBVIOUS
  <2> HIDE DEF put, k, new, n
  <2>5. /\ Sequence(put) /\ Len(put) = n + 1 /\ put[n + 1] = new
        /\ \A i \in 1 .. n : put[i] = fields[i]
    BY <2>1, SeqAppend DEF Fine, n
  <2>6. \A i \in 1 .. n + 1 : i \in 1 .. n \/ i = n + 1
    BY <1>1
  <2>7. Fine(put)
    <3>1. ASSUME NEW i \in 1 .. n + 1
          PROVE  put[i] = [name |-> put[i].name, value |-> put[i].value] /\ Sequence(put[i].value.items)
      <4>1. CASE i = n + 1
        BY <2>3, <2>4, <2>5, <4>1
      <4>2. CASE i \in 1 .. n
        BY <2>5, <4>2 DEF Fine, n
      <4> QED
        BY <2>6, <4>1, <4>2
    <3>2. ASSUME NEW i \in 1 .. n + 1, NEW j \in 1 .. n + 1, put[i].name = put[j].name PROVE i = j
      <4>1. CASE i = n + 1 /\ j = n + 1
        BY <4>1
      <4>2. CASE i \in 1 .. n /\ j \in 1 .. n
        BY <2>5, <3>2, <4>2 DEF Fine, n
      <4>3. CASE i \in 1 .. n /\ j = n + 1
        BY <2>2, <2>3, <2>5, <3>2, <4>3
      <4>4. CASE i = n + 1 /\ j \in 1 .. n
        BY <2>2, <2>3, <2>5, <3>2, <4>4
      <4> QED
        BY <2>6, <4>1, <4>2, <4>3, <4>4
    <3> QED
      BY <2>5, <3>1, <3>2 DEF Fine
  <2>8. HasField(put, name) /\ FieldValue(put, name) = value
    <3>1. n + 1 \in 1 .. Len(put) /\ put[n + 1].name = name /\ put[n + 1].value = value
      BY <1>1, <2>3, <2>5
    <3> QED
      BY <2>7, <3>1, Found
  <2>9. ASSUME NEW other, other # name
        PROVE  /\ (HasField(put, other) <=> HasField(fields, other))
               /\ HasField(fields, other) => FieldValue(put, other) = FieldValue(fields, other)
               /\ HasField(fields, other) => FieldAt(put, other) = FieldAt(fields, other)
    <3>1. CASE \E i \in 1 .. n : fields[i].name = other
      <4>1. PICK i \in 1 .. n : fields[i].name = other
        BY <3>1
      <4>2. put[i] = fields[i] /\ i \in 1 .. n + 1
        BY <1>1, <2>5, <4>1
      <4>3. HasField(fields, other) /\ FieldAt(fields, other) = i /\ FieldValue(fields, other) = fields[i].value
        BY <4>1, Found DEF n
      <4>4. HasField(put, other) /\ FieldAt(put, other) = i /\ FieldValue(put, other) = put[i].value
        BY <2>5, <2>7, <4>1, <4>2, Found
      <4> QED
        BY <4>2, <4>3, <4>4
    <3>2. CASE ~\E i \in 1 .. n : fields[i].name = other
      <4>1. ~HasField(fields, other)
        BY <3>2, Found DEF n
      <4>2. \A i \in 1 .. Len(put) : put[i].name # other
        BY <2>3, <2>5, <2>6, <2>9, <3>2
      <4>3. ~HasField(put, other)
        BY <2>7, <4>2, Found
      <4> QED
        BY <4>1, <4>3
    <3> QED
      BY <3>1, <3>2
  <2> QED
    BY <1>3, <2>7, <2>8, <2>9 DEF put
<1> QED
  BY <1>2, <1>3, Found

LEMMA RemoveIs ==
    ASSUME NEW fields, Fine(fields), NEW name
    PROVE  LET left == remove_field(fields, name)
           IN  /\ Fine(left)
               /\ \A other : other # name =>
                    /\ (HasField(left, other) <=> HasField(fields, other))
                    /\ HasField(fields, other) => FieldValue(left, other) = FieldValue(fields, other)
               /\ \A a, b : a # name /\ b # name /\ HasField(fields, a) /\ HasField(fields, b) =>
                    ((FieldAt(left, a) < FieldAt(left, b)) <=> (FieldAt(fields, a) < FieldAt(fields, b)))
<1> DEFINE left == remove_field(fields, name)
           k == FieldAt(fields, name)
           n == Len(fields)
<1>1. n \in Nat /\ DOMAIN fields = 1 .. n
  BY SeqFacts DEF Fine
<1>2. CASE ~HasField(fields, name)
  BY <1>2 DEF remove_field
<1>3. CASE HasField(fields, name)
  <2>1. k \in 1 .. n /\ fields[k].name = name
    BY <1>3, Found
  <2>2. left = RemoveAt(fields, k)
    BY <1>3 DEF remove_field
  <2> HIDE DEF left, k, n
  <2>3. /\ Sequence(left) /\ Len(left) = n - 1
        /\ \A i \in 1 .. n - 1 : left[i] = IF i < k THEN fields[i] ELSE fields[i + 1]
    BY <2>1, <2>2, SeqRemove DEF Fine, n
  <2> DEFINE Was(i) == IF i < k THEN i ELSE i + 1
  <2>4. \A i \in 1 .. n - 1 : Was(i) \in 1 .. n /\ left[i] = fields[Was(i)]
    BY <1>1, <2>1, <2>3
  <2>5. \A i, j \in 1 .. n - 1 : Was(i) = Was(j) => i = j
    BY <1>1, <2>1
  <2>6. Fine(left)
    <3> HIDE DEF Was
    <3>1. ASSUME NEW i \in 1 .. n - 1
          PROVE  left[i] = [name |-> left[i].name, value |-> left[i].value] /\ Sequence(left[i].value.items)
      BY <2>4 DEF Fine, n
    <3>2. \A i, j \in 1 .. n - 1 : left[i].name = left[j].name => i = j
      BY <2>4, <2>5 DEF Fine, n
    <3> QED
      BY <2>3, <3>1, <3>2 DEF Fine
  <2>7. ASSUME NEW other, other # name
        PROVE  /\ (HasField(left, other) <=> HasField(fields, other))
               /\ HasField(fields, other) =>
                    /\ FieldValue(left, other) = FieldValue(fields, other)
                    /\ FieldAt(fields, other) # k
                    /\ FieldAt(left, other) = IF FieldAt(fields, other) < k THEN FieldAt(fields, other)
                                              ELSE FieldAt(fields, other) - 1
    <3>1. CASE \E i \in 1 .. n : fields[i].name = other
      <4>1. PICK i \in 1 .. n : fields[i].name = other
        BY <3>1
      <4> DEFINE j == IF i < k THEN i ELSE i - 1
      <4>2. i # k
        BY <2>1, <2>7, <4>1
      <4>3. j \in 1 .. n - 1 /\ left[j] = fields[i]
        BY <1>1, <2>1, <2>3, <4>2
      <4>4. HasField(fields, other) /\ FieldAt(fields, other) = i /\ FieldValue(fields, other) = fields[i].value
        BY <4>1, Found DEF n
      <4> HIDE DEF j
      <4>5. HasField(left, other) /\ FieldAt(left, other) = j /\ FieldValue(left, other) = left[j].value
        BY <2>3, <2>6, <4>1, <4>3, Found
      <4> QED
        BY <4>2, <4>3, <4>4, <4>5 DEF j
    <3>2. CASE ~\E i \in 1 .. n : fields[i].name = other
      <4>1. ~HasField(fields, other)
        BY <3>2, Found DEF n
      <4>2. \A i \in 1 .. Len(left) : left[i].name # other
        <5> HIDE DEF Was
        <5> QED
          BY <2>3, <2>4, <3>2
      <4>3. ~HasField(left, other)
        BY <2>6, <4>2, Found
      <4> QED
        BY <4>1, <4>3
    <3> QED
      BY <3>1, <3>2
  <2>8. ASSUME NEW a, NEW b, a # name, b # name, HasField(fields, a), HasField(fields, b)
        PROVE  (FieldAt(left, a) < FieldAt(left, b)) <=> (FieldAt(fields, a) < FieldAt(fields, b))
    <3>1. FieldAt(fields, a) \in Nat /\ FieldAt(fields, b) \in Nat /\ k \in Nat
      BY <1>1, <2>1, Found
    <3>2. /\ FieldAt(fields, a) # k /\ FieldAt(fields, b) # k
          /\ FieldAt(left, a) = IF FieldAt(fields, a) < k THEN FieldAt(fields, a) ELSE FieldAt(fields, a) - 1
          /\ FieldAt(left, b) = IF FieldAt(fields, b) < k THEN FieldAt(fields, b) ELSE FieldAt(fields, b) - 1
      BY <2>7, <2>8
    <3> QED
      BY <3>1, <3>2
  <2> QED
    BY <2>6, <2>7, <2>8 DEF left
<1> QED
  BY <1>2, <1>3

-----------------------------------------------------------------------------
(* What calls of the writer leave alone: fields of other names, and the    *)
(* order of those that are not removed.                                    *)

Keeps(before, after, touched, gone) ==
    /\ Fine(after)
    /\ \A name : name \notin touched =>
         /\ (HasField(after, name) <=> HasField(before, name))
         /\ HasField(before, name) => FieldValue(after, name) = FieldValue(before, name)
    /\ \A name : name \notin gone /\ HasField(before, name) => HasField(after, name)
    /\ \A a, b : a \notin gone /\ b \notin gone /\ HasField(before, a) /\ HasField(before, b) =>
         ((FieldAt(after, a) < FieldAt(after, b)) <=> (FieldAt(before, a) < FieldAt(before, b)))

LEMMA KeepsItself ==
    ASSUME NEW fields, Fine(fields), NEW touched, NEW gone
    PROVE  Keeps(fields, fields, touched, gone)
BY DEF Keeps

LEMMA KeepsOn ==
    ASSUME NEW F, NEW G, NEW H, NEW touched, NEW gone,
           Keeps(F, G, touched, gone), Keeps(G, H, touched, gone)
    PROVE  Keeps(F, H, touched, gone)
BY DEF Keeps

LEMMA KeepsMore ==
    ASSUME NEW F, NEW G, NEW touched, NEW gone, NEW more, NEW further,
           Keeps(F, G, touched, gone), touched \subseteq more, gone \subseteq further
    PROVE  Keeps(F, G, more, further)
BY DEF Keeps

Calls == {"put", "remove", "replace", "none"}
Touches(c) == IF c.call = "none" THEN {} ELSE {c.field}
Removes(c) == IF c.call = "remove" THEN {c.field} ELSE {}
Typed(c) == c.call \in Calls /\ (c.call = "put" => Sequence(c.value.items))

LEMMA PutKeeps ==
    ASSUME NEW fields, Fine(fields), NEW name, NEW value, Sequence(value.items)
    PROVE  Keeps(fields, Put(fields, name, value), {name}, {})
<1> DEFINE put == Put(fields, name, value)
<1>1. /\ Fine(put) /\ HasField(put, name)
      /\ HasField(fields, name) => FieldAt(put, name) = FieldAt(fields, name)
      /\ \A other : other # name =>
           /\ (HasField(put, other) <=> HasField(fields, other))
           /\ HasField(fields, other) => FieldValue(put, other) = FieldValue(fields, other)
           /\ HasField(fields, other) => FieldAt(put, other) = FieldAt(fields, other)
  BY PutIs
<1> HIDE DEF put
<1>2. \A other : HasField(fields, other) => HasField(put, other) /\ FieldAt(put, other) = FieldAt(fields, other)
  BY <1>1
<1> QED
  BY <1>1, <1>2 DEF Keeps, put

LEMMA ReplacedIs ==
    ASSUME NEW fields, Fine(fields), NEW name, NEW old, NEW new
    PROVE  \/ replace_item(fields, name, old, new) = fields
           \/ \E items : /\ Sequence(items) /\ HoldsList(fields, name)
                         /\ replace_item(fields, name, old, new) = Put(fields, name, ListValue(items))
<1>1. CASE HoldsList(fields, name) /\ Contains(FieldValue(fields, name).items, old)
  <2> DEFINE items == FieldValue(fields, name).items
             at == Min({i \in DOMAIN items : items[i] = old})
             then == [items EXCEPT ![at] = new]
  <2>1. Sequence(items)
    BY <1>1, Found DEF HoldsList, Fine
  <2>2. replace_item(fields, name, old, new) = Put(fields, name, ListValue(then))
    BY <1>1 DEF replace_item
  <2> HIDE DEF items, at
  <2>3. Sequence(then)
    BY <2>1, SeqExcept
  <2> HIDE DEF then
  <2> QED
    BY <1>1, <2>2, <2>3
<1>2. CASE ~(HoldsList(fields, name) /\ Contains(FieldValue(fields, name).items, old))
  BY <1>2 DEF replace_item
<1> QED
  BY <1>1, <1>2

LEMMA CallKeeps ==
    ASSUME NEW fields, Fine(fields), NEW c, Typed(c)
    PROVE  Keeps(fields, Called(fields, c), Touches(c), Removes(c))
<1>1. CASE c.call = "put"
  <2>1. Called(fields, c) = Put(fields, c.field, c.value) /\ Touches(c) = {c.field} /\ Removes(c) = {}
    BY <1>1 DEF Called, Touches, Removes
  <2> QED
    BY <1>1, <2>1, PutKeeps DEF Typed
<1>2. CASE c.call = "remove"
  <2>1. Called(fields, c) = remove_field(fields, c.field) /\ Touches(c) = {c.field} /\ Removes(c) = {c.field}
    BY <1>2 DEF Called, Touches, Removes
  <2> DEFINE left == remove_field(fields, c.field)
  <2>2. /\ Fine(left)
        /\ \A other : other # c.field =>
             /\ (HasField(left, other) <=> HasField(fields, other))
             /\ HasField(fields, other) => FieldValue(left, other) = FieldValue(fields, other)
        /\ \A a, b : a # c.field /\ b # c.field /\ HasField(fields, a) /\ HasField(fields, b) =>
             ((FieldAt(left, a) < FieldAt(left, b)) <=> (FieldAt(fields, a) < FieldAt(fields, b)))
    BY RemoveIs
  <2> HIDE DEF left
  <2>3. Keeps(fields, left, {c.field}, {c.field})
    BY <2>2 DEF Keeps
  <2> QED
    BY <2>1, <2>3 DEF left
<1>3. CASE c.call = "replace"
  <2>1. Called(fields, c) = replace_item(fields, c.field, c.old, c.new) /\ Touches(c) = {c.field} /\ Removes(c) = {}
    BY <1>3 DEF Called, Touches, Removes
  <2>2. CASE replace_item(fields, c.field, c.old, c.new) = fields
    BY <2>1, <2>2, KeepsItself
  <2>3. CASE \E items : /\ Sequence(items) /\ HoldsList(fields, c.field)
                        /\ replace_item(fields, c.field, c.old, c.new) = Put(fields, c.field, ListValue(items))
    <3>1. PICK items : Sequence(items) /\ replace_item(fields, c.field, c.old, c.new) = Put(fields, c.field, ListValue(items))
      BY <2>3
    <3>2. Sequence(ListValue(items).items)
      BY <3>1 DEF ListValue
    <3> QED
      BY <2>1, <3>1, <3>2, PutKeeps
  <2> QED
    BY <2>2, <2>3, ReplacedIs
<1>4. CASE c.call = "none"
  <2>1. Called(fields, c) = fields
    BY <1>4 DEF Called
  <2> QED
    BY <2>1, KeepsItself
<1> QED
  BY <1>1, <1>2, <1>3, <1>4 DEF Typed, Calls

-----------------------------------------------------------------------------
(* Induction over the numbers, with the property as a set.                 *)

LEMMA LeastNat ==
    ASSUME NEW T, T \subseteq Nat, T # {}
    PROVE  \E m \in T : \A k \in T : m <= k
<1> DEFINE R == OpToRel(<, Nat)
<1>1. IsWellFoundedOn(R, Nat)
  BY NatLessThanWellFounded
<1>2. \A x, y \in Nat : <<y, x>> \in R <=> y < x
  BY DEF OpToRel
<1> HIDE DEF R
<1>3. PICK x \in T : \A y \in T : ~(<<y, x>> \in R)
  BY <1>1, WFMin, Zenon
<1>4. ASSUME NEW y \in T PROVE x <= y
  <2>1. ~(<<y, x>> \in R)
    BY <1>3
  <2>2. x \in Nat /\ y \in Nat
    BY <1>4
  <2>3. ~(y < x)
    BY <1>2, <2>1, <2>2
  <2> QED
    BY <2>2, <2>3
<1> QED
  BY <1>4

LEMMA ByNat ==
    ASSUME NEW S, 0 \in S, \A n \in Nat : n \in S => n + 1 \in S
    PROVE  Nat \subseteq S
<1> SUFFICES ASSUME Nat \ S # {} PROVE FALSE
  OBVIOUS
<1>1. PICK m \in Nat \ S : \A k \in Nat \ S : m <= k
  BY LeastNat
<1>2. m - 1 \in Nat /\ m - 1 \in S
  BY <1>1
<1> QED
  BY <1>1, <1>2

\* The same, up to a bound.
LEMMA UpTo ==
    ASSUME NEW m \in Nat, NEW S, 0 \in S, \A n \in Nat : n < m /\ n \in S => n + 1 \in S
    PROVE  \A n \in 0 .. m : n \in S
<1> DEFINE T == {n \in Nat : n <= m => n \in S}
<1>1. 0 \in T
  OBVIOUS
<1>2. \A n \in Nat : n \in T => n + 1 \in T
  OBVIOUS
<1> HIDE DEF T
<1>3. Nat \subseteq T
  BY <1>1, <1>2, ByNat
<1> QED
  BY <1>3 DEF T

-----------------------------------------------------------------------------
(* Calls, one after another.                                               *)

\* What the fields are after each of the calls.
IsTold(f, fields, calls, m) == f = [n \in 0 .. m |-> IF n = 0 THEN fields ELSE Called(f[n - 1], calls[n])]

LEMMA ToldExists ==
    ASSUME NEW fields, NEW calls, NEW m \in Nat
    PROVE  \E f : IsTold(f, fields, calls, m)
<1> DEFINE Is(f, k) == f = [n \in 0 .. k |-> IF n = 0 THEN fields ELSE Called(f[n - 1], calls[n])]
           S == {k \in Nat : \E f : Is(f, k)}
<1>1. 0 \in S
  <2> DEFINE f == [n \in 0 .. 0 |-> fields]
  <2>1. \A n \in 0 .. 0 : n = 0
    OBVIOUS
  <2>2. Is(f, 0)
    BY <2>1
  <2> QED
    BY <2>2
<1>2. ASSUME NEW k \in Nat, k \in S PROVE k + 1 \in S
  <2>1. PICK f : Is(f, k)
    BY <1>2
  <2> DEFINE g == [n \in 0 .. k + 1 |-> IF n = k + 1 THEN Called(f[k], calls[k + 1]) ELSE f[n]]
  <2>2. \A n \in 0 .. k : f[n] = IF n = 0 THEN fields ELSE Called(f[n - 1], calls[n])
    BY <2>1
  <2>3. ASSUME NEW n \in 0 .. k + 1 PROVE g[n] = IF n = 0 THEN fields ELSE Called(g[n - 1], calls[n])
    <3>1. CASE n = k + 1
      <4>1. n # 0 /\ n - 1 = k /\ k \in 0 .. k + 1 /\ k # k + 1
        BY <1>2, <3>1
      <4>2. g[k] = f[k] /\ g[n] = Called(f[k], calls[n])
        BY <3>1, <4>1
      <4> QED
        BY <4>1, <4>2
    <3>2. CASE n # k + 1 /\ n # 0
      <4>1. n \in 0 .. k /\ n - 1 \in 0 .. k + 1 /\ n - 1 # k + 1
        BY <1>2, <3>2
      <4>2. g[n] = f[n] /\ g[n - 1] = f[n - 1]
        BY <3>2, <4>1
      <4> QED
        BY <2>2, <3>2, <4>1, <4>2
    <3>3. CASE n # k + 1 /\ n = 0
      <4>1. n \in 0 .. k
        BY <1>2, <3>3
      <4>2. g[n] = f[n]
        BY <3>3
      <4> QED
        BY <2>2, <3>3, <4>1, <4>2
    <3> QED
      BY <3>1, <3>2, <3>3
  <2>4. g = [n \in 0 .. k + 1 |-> g[n]]
    OBVIOUS
  <2>5. Is(g, k + 1)
    <3> HIDE DEF g
    <3> QED
      BY <2>3, <2>4
  <2>6. k + 1 \in Nat /\ \E f_ : Is(f_, k + 1)
    <3> HIDE DEF Is, g
    <3> QED
      BY <2>5
  <2> QED
    BY <2>6
<1>3. Nat \subseteq S
  <2> HIDE DEF S
  <2> QED
    BY <1>1, <1>2, ByNat
<1> QED
  BY <1>3 DEF IsTold

LEMMA ToldIs ==
    ASSUME NEW fields, NEW calls, Len(calls) \in Nat
    PROVE  \E f : /\ f[0] = fields /\ Told(fields, calls) = f[Len(calls)]
                  /\ \A n \in Nat : n < Len(calls) => f[n + 1] = Called(f[n], calls[n + 1])
<1> DEFINE m == Len(calls)
           told == CHOOSE f : f = [n \in 0 .. m |-> IF n = 0 THEN fields ELSE Called(f[n - 1], calls[n])]
<1>1. \E f : IsTold(f, fields, calls, m)
  BY ToldExists
<1>2. told = [n \in 0 .. m |-> IF n = 0 THEN fields ELSE Called(told[n - 1], calls[n])]
  BY <1>1, Zenon DEF IsTold
<1>3. Told(fields, calls) = told[m]
  BY DEF Told
<1> HIDE DEF told
<1>4. \A n \in 0 .. m : told[n] = IF n = 0 THEN fields ELSE Called(told[n - 1], calls[n])
  BY <1>2
<1>5. ASSUME NEW n \in Nat, n < m PROVE told[n + 1] = Called(told[n], calls[n + 1])
  <2>1. n + 1 \in 0 .. m /\ n + 1 # 0 /\ n + 1 - 1 = n
    BY <1>5
  <2> QED
    BY <1>4, <2>1
<1>6. told[0] = fields
  BY <1>4
<1> QED
  BY <1>3, <1>5, <1>6

LEMMA ToldKeeps ==
    ASSUME NEW fields, Fine(fields), NEW calls, Len(calls) \in Nat, NEW touched, NEW gone,
           \A n \in 1 .. Len(calls) : /\ Typed(calls[n]) /\ Touches(calls[n]) \subseteq touched
                                      /\ Removes(calls[n]) \subseteq gone
    PROVE  Keeps(fields, Told(fields, calls), touched, gone)
<1>1. PICK f : /\ f[0] = fields /\ Told(fields, calls) = f[Len(calls)]
               /\ \A n \in Nat : n < Len(calls) => f[n + 1] = Called(f[n], calls[n + 1])
  BY ToldIs
<1> DEFINE S == {n \in Nat : Keeps(fields, f[n], touched, gone)}
<1>2. 0 \in S
  BY <1>1, KeepsItself
<1>3. ASSUME NEW n \in Nat, n < Len(calls), n \in S PROVE n + 1 \in S
  <2>1. Fine(f[n]) /\ Keeps(fields, f[n], touched, gone)
    BY <1>3 DEF Keeps
  <2>2. n + 1 \in 1 .. Len(calls)
    BY <1>3
  <2>3. Keeps(f[n], f[n + 1], Touches(calls[n + 1]), Removes(calls[n + 1]))
    BY <1>1, <1>3, <2>1, <2>2, CallKeeps
  <2>4. Keeps(f[n], f[n + 1], touched, gone)
    BY <2>2, <2>3, KeepsMore
  <2> QED
    BY <2>1, <2>4, KeepsOn
<1> HIDE DEF S
<1>4. \A n \in 0 .. Len(calls) : n \in S
  BY <1>2, <1>3, UpTo
<1> QED
  BY <1>1, <1>4 DEF S

\* Calls that all put one value, or nothing: the fields they name hold it.
LEMMA ToldPuts ==
    ASSUME NEW fields, Fine(fields), NEW calls, Len(calls) \in Nat, NEW value, Sequence(value.items),
           \A n \in 1 .. Len(calls) : calls[n] = NoCall \/ \E name : calls[n] = PutCall(name, value),
           NEW k \in 1 .. Len(calls), NEW name, calls[k] = PutCall(name, value)
    PROVE  HasField(Told(fields, calls), name) /\ FieldValue(Told(fields, calls), name) = value
<1>1. PICK f : /\ f[0] = fields /\ Told(fields, calls) = f[Len(calls)]
               /\ \A n \in Nat : n < Len(calls) => f[n + 1] = Called(f[n], calls[n + 1])
  BY ToldIs
<1> DEFINE Held(n) == HasField(f[n], name) /\ FieldValue(f[n], name) = value
           S == {n \in Nat : Fine(f[n]) /\ (n >= k => Held(n))}
<1>2. 0 \in S
  BY <1>1
<1>3. ASSUME NEW n \in Nat, n < Len(calls), n \in S PROVE n + 1 \in S
  <2>1. Fine(f[n]) /\ n + 1 \in 1 .. Len(calls) /\ f[n + 1] = Called(f[n], calls[n + 1])
    BY <1>1, <1>3
  <2>2. CASE calls[n + 1] = NoCall
    <3>1. f[n + 1] = f[n]
      BY <2>1, <2>2 DEF Called, NoCall
    <3>2. n + 1 # k
      BY <2>2 DEF NoCall, PutCall
    <3> QED
      BY <1>3, <3>1, <3>2
  <2>3. CASE \E other : calls[n + 1] = PutCall(other, value)
    <3>1. PICK other : calls[n + 1] = PutCall(other, value)
      BY <2>3
    <3>2. f[n + 1] = Put(f[n], other, value)
      BY <2>1, <3>1 DEF Called, PutCall
    <3>3. /\ Fine(f[n + 1]) /\ HasField(f[n + 1], other) /\ FieldValue(f[n + 1], other) = value
          /\ \A o : o # other =>
               /\ HasField(f[n + 1], o) <=> HasField(f[n], o)
               /\ HasField(f[n], o) => FieldValue(f[n + 1], o) = FieldValue(f[n], o)
      BY <2>1, <3>2, PutIs
    <3>4. n + 1 = k => other = name
      BY <3>1 DEF PutCall
    <3> QED
      BY <1>3, <3>3, <3>4
  <2> QED
    BY <2>1, <2>2, <2>3
<1> HIDE DEF S
<1>4. \A n \in 0 .. Len(calls) : n \in S
  BY <1>2, <1>3, UpTo
<1> QED
  BY <1>1, <1>4 DEF S

-----------------------------------------------------------------------------
(* What an assignment says.                                                *)

ReadOK(read) == "items" \in DOMAIN read /\ Sequence(read.items)

LEMMA OneItem ==
    ASSUME NEW x
    PROVE  Sequence(<<x>>)
BY EmptySeq, SeqIn, <<x>> \in Seq({x})

LEMMA CharKeeps ==
    ASSUME NEW read, ReadOK(read), NEW char, NEW split
    PROVE  ReadOK(unescape_char(read, char, split))
<1> DEFINE t == [read.items EXCEPT ![Len(read.items)] = Append(@, char)]
           kept == [read EXCEPT !.items = t, !.escaped = FALSE]
           bad == [read EXCEPT !.good = FALSE]
           begun == [read EXCEPT !.escaped = TRUE]
           split_ == [read EXCEPT !.items = Append(@, NoText)]
<1>0. "items" \in DOMAIN read /\ Sequence(read.items)
  BY DEF ReadOK
<1>1. ReadOK(kept)
  <2>1. Len(read.items) \in Nat /\ DOMAIN read.items = 1 .. Len(read.items)
    BY <1>0, SeqFacts
  <2>2. t = [i \in 1 .. Len(read.items) |-> t[i]]
    BY <2>1
  <2>3. kept.items = t /\ DOMAIN kept = DOMAIN read
    <3> HIDE DEF t
    <3> QED
      BY <1>0
  <2> HIDE DEF t, kept
  <2>4. Sequence(t)
    BY <2>1, <2>2, SeqMade
  <2> QED
    BY <1>0, <2>3, <2>4 DEF ReadOK
<1>2. ReadOK(bad)
  <2>1. bad.items = read.items /\ DOMAIN bad = DOMAIN read
    BY <1>0
  <2> HIDE DEF bad
  <2> QED
    BY <1>0, <2>1 DEF ReadOK
<1>3. ReadOK(begun)
  <2>1. begun.items = read.items /\ DOMAIN begun = DOMAIN read
    BY <1>0
  <2> HIDE DEF begun
  <2> QED
    BY <1>0, <2>1 DEF ReadOK
<1>4. ReadOK(split_)
  <2>1. split_.items = Append(read.items, NoText) /\ DOMAIN split_ = DOMAIN read
    BY <1>0
  <2> HIDE DEF split_
  <2> QED
    BY <1>0, <2>1, SeqAppend DEF ReadOK
<1>5. \/ unescape_char(read, char, split) = read
      \/ unescape_char(read, char, split) = kept
      \/ unescape_char(read, char, split) = bad
      \/ unescape_char(read, char, split) = begun
      \/ unescape_char(read, char, split) = split_
  BY Zenon DEF unescape_char
<1> HIDE DEF t, kept, bad, begun, split_
<1> QED
  BY <1>1, <1>2, <1>3, <1>4, <1>5

IsRead(f, raw, split, m) ==
    f = [n \in 0 .. m |-> IF n = 0 THEN Begun ELSE unescape_char(f[n - 1], raw[n], split)]

LEMMA ReadExists ==
    ASSUME NEW raw, NEW split, NEW m \in Nat
    PROVE  \E f : IsRead(f, raw, split, m)
<1> DEFINE Is(f, k) == f = [n \in 0 .. k |-> IF n = 0 THEN Begun ELSE unescape_char(f[n - 1], raw[n], split)]
           S == {k \in Nat : \E f : Is(f, k)}
<1>1. 0 \in S
  <2> DEFINE f == [n \in 0 .. 0 |-> Begun]
  <2>1. \A n \in 0 .. 0 : n = 0
    OBVIOUS
  <2>2. Is(f, 0)
    BY <2>1
  <2> QED
    BY <2>2
<1>2. ASSUME NEW k \in Nat, k \in S PROVE k + 1 \in S
  <2>1. PICK f : Is(f, k)
    BY <1>2
  <2> DEFINE g == [n \in 0 .. k + 1 |-> IF n = k + 1 THEN unescape_char(f[k], raw[k + 1], split) ELSE f[n]]
  <2>2. \A n \in 0 .. k : f[n] = IF n = 0 THEN Begun ELSE unescape_char(f[n - 1], raw[n], split)
    BY <2>1
  <2>3. ASSUME NEW n \in 0 .. k + 1
        PROVE  g[n] = IF n = 0 THEN Begun ELSE unescape_char(g[n - 1], raw[n], split)
    <3>1. CASE n = k + 1
      <4>1. n # 0 /\ n - 1 = k /\ k \in 0 .. k + 1 /\ k # k + 1
        BY <1>2, <3>1
      <4>2. g[k] = f[k] /\ g[n] = unescape_char(f[k], raw[n], split)
        BY <3>1, <4>1
      <4> QED
        BY <4>1, <4>2
    <3>2. CASE n # k + 1 /\ n # 0
      <4>1. n \in 0 .. k /\ n - 1 \in 0 .. k + 1 /\ n - 1 # k + 1
        BY <1>2, <3>2
      <4>2. g[n] = f[n] /\ g[n - 1] = f[n - 1]
        BY <3>2, <4>1
      <4> QED
        BY <2>2, <3>2, <4>1, <4>2
    <3>3. CASE n # k + 1 /\ n = 0
      <4>1. n \in 0 .. k
        BY <1>2, <3>3
      <4>2. g[n] = f[n]
        BY <3>3
      <4> QED
        BY <2>2, <3>3, <4>1, <4>2
    <3> QED
      BY <3>1, <3>2, <3>3
  <2>4. g = [n \in 0 .. k + 1 |-> g[n]]
    OBVIOUS
  <2>5. Is(g, k + 1)
    <3> HIDE DEF g
    <3> QED
      BY <2>3, <2>4
  <2>6. k + 1 \in Nat /\ \E f_ : Is(f_, k + 1)
    <3> HIDE DEF Is, g
    <3> QED
      BY <2>5
  <2> QED
    BY <2>6
<1>3. Nat \subseteq S
  <2> HIDE DEF S
  <2> QED
    BY <1>1, <1>2, ByNat
<1> QED
  BY <1>3 DEF IsRead

LEMMA ReadsItems ==
    ASSUME NEW raw, Len(raw) \in Nat, NEW split
    PROVE  Sequence(unescape_set_value(raw, split).items)
<1> DEFINE m == Len(raw)
           read == CHOOSE f : f = [n \in 0 .. m |-> IF n = 0 THEN Begun ELSE unescape_char(f[n - 1], raw[n], split)]
           S == {n \in Nat : ReadOK(read[n])}
<1>1. \E f : IsRead(f, raw, split, m)
  BY ReadExists
<1>2. read = [n \in 0 .. m |-> IF n = 0 THEN Begun ELSE unescape_char(read[n - 1], raw[n], split)]
  BY <1>1, Zenon DEF IsRead
<1>3. unescape(raw, split) = read[m]
  BY DEF unescape
<1> HIDE DEF read
<1>4. \A n \in 0 .. m : read[n] = IF n = 0 THEN Begun ELSE unescape_char(read[n - 1], raw[n], split)
  BY <1>2
<1>5. 0 \in S
  <2>1. Begun.items = <<NoText>> /\ "items" \in DOMAIN Begun
    BY DEF Begun
  <2>2. read[0] = Begun
    BY <1>4
  <2> QED
    BY <2>1, <2>2, OneItem DEF ReadOK
<1>6. ASSUME NEW n \in Nat, n < m, n \in S PROVE n + 1 \in S
  <2>1. n + 1 \in 0 .. m /\ n + 1 # 0 /\ n + 1 - 1 = n
    BY <1>6
  <2>2. read[n + 1] = unescape_char(read[n], raw[n + 1], split)
    BY <1>4, <2>1
  <2> QED
    BY <1>6, <2>2, CharKeeps
<1> HIDE DEF S
<1>7. \A n \in 0 .. m : n \in S
  BY <1>5, <1>6, UpTo
<1>8. ReadOK(unescape(raw, split))
  BY <1>3, <1>7 DEF S
<1>9. [Begun EXCEPT !.items = <<>>].items = <<>> /\ Sequence(<<>>)
  BY EmptySeq, SeqIn DEF Begun
<1> QED
  BY <1>8, <1>9 DEF unescape_set_value, ReadOK

-----------------------------------------------------------------------------
(* What the lists of calls the commands make keep.                         *)

OpsOK(ops) == Sequence(ops) /\ \A i \in 1 .. Len(ops) : Len(ops[i].raw) \in Nat
Resolves(s) ==
    /\ Sequence(s.fields)
    /\ \A i, j \in 1 .. Len(s.fields) : s.fields[i].name = s.fields[j].name => i = j
    /\ \A i \in 1 .. Len(s.fields) :
         /\ s.fields[i].transitions # <<>> => s.fields[i].kind = "enum"
         /\ s.fields[i].auto = "moves" => s.fields[i].kind = "list"
         /\ s.fields[i].default # <<>> => Sequence(s.fields[i].default[1].items)

LEMMA PutTyped ==
    ASSUME NEW name, NEW value, Sequence(value.items)
    PROVE  /\ Typed(PutCall(name, value)) /\ Touches(PutCall(name, value)) = {name}
           /\ Removes(PutCall(name, value)) = {}
BY DEF Typed, Touches, Removes, PutCall, Calls

LEMMA NoneTyped ==
    /\ Typed(NoCall) /\ Touches(NoCall) = {} /\ Removes(NoCall) = {}
BY DEF Typed, Touches, Removes, NoCall, Calls

LEMMA OpTyped ==
    ASSUME NEW op, Len(op.raw) \in Nat
    PROVE  /\ Typed(OpCall(op)) /\ Touches(OpCall(op)) = {op.field}
           /\ op.kind # "remove" => Removes(OpCall(op)) = {}
           /\ op.kind = "remove" => Removes(OpCall(op)) = {op.field}
<1>1. CASE op.kind = "remove"
  BY <1>1 DEF OpCall, RemoveCall, Typed, Touches, Removes, Calls
<1>2. CASE op.kind # "remove"
  <2> DEFINE value == IF TakesList(op.field) THEN ListValue(ReadRaw(op).items) ELSE TextValue(ReadRaw(op).items[1])
  <2>1. Sequence(value.items)
    BY ReadsItems, OneItem DEF ReadRaw, ListValue, TextValue
  <2>2. OpCall(op) = PutCall(op.field, value)
    BY <1>2 DEF OpCall
  <2> HIDE DEF value
  <2> QED
    BY <1>2, <2>1, <2>2, PutTyped
<1> QED
  BY <1>1, <1>2

LEMMA AppliedKeeps ==
    ASSUME NEW fields, Fine(fields), NEW ops, OpsOK(ops)
    PROVE  Keeps(fields, apply_ops(fields, ops), NamedBy(ops), Taken(ops))
<1> DEFINE calls == [i \in DOMAIN ops |-> OpCall(ops[i])]
<1>1. Len(ops) \in Nat /\ DOMAIN ops = 1 .. Len(ops)
  BY SeqFacts DEF OpsOK
<1>2. calls = [i \in 1 .. Len(ops) |-> calls[i]] /\ \A i \in 1 .. Len(ops) : calls[i] = OpCall(ops[i])
  BY <1>1
<1>3. apply_ops(fields, ops) = Told(fields, calls)
  BY DEF apply_ops
<1> HIDE DEF calls
<1>4. Len(calls) = Len(ops)
  BY <1>1, <1>2, SeqMade
<1>5. ASSUME NEW n \in 1 .. Len(ops)
      PROVE  /\ Typed(calls[n]) /\ Touches(calls[n]) \subseteq NamedBy(ops)
             /\ Removes(calls[n]) \subseteq Taken(ops)
  <2>1. ops[n].field \in NamedBy(ops) /\ (ops[n].kind = "remove" => ops[n].field \in Taken(ops))
    BY <1>1 DEF NamedBy, Taken
  <2> QED
    BY <1>2, <2>1, OpTyped DEF OpsOK
<1> QED
  BY <1>1, <1>3, <1>4, <1>5, ToldKeeps

\* Stamps are put in the fields that are for them, and nowhere else.
LEMMA StampKeeps ==
    ASSUME NEW fields, Fine(fields), NEW kinds, Resolves(schema)
    PROVE  /\ Keeps(fields, Stamp(fields, kinds), {f.name : f \in AutoFields(kinds)}, {})
           /\ \A name \in {f.name : f \in AutoFields(kinds)} :
                /\ HasField(Stamp(fields, kinds), name)
                /\ FieldValue(Stamp(fields, kinds), name) = TextValue(Now)
<1> DEFINE n == Len(schema.fields)
           calls == [i \in DOMAIN schema.fields |->
                       IF schema.fields[i].auto \in kinds THEN PutCall(schema.fields[i].name, TextValue(Now)) ELSE NoCall]
           names == {f.name : f \in AutoFields(kinds)}
           value == TextValue(Now)
<1>1. n \in Nat /\ DOMAIN schema.fields = 1 .. n
  BY SeqFacts DEF Resolves
<1>2. calls = [i \in 1 .. n |-> calls[i]]
  BY <1>1
<1>3. Stamp(fields, kinds) = Told(fields, calls)
  BY DEF Stamp
<1>4. Sequence(value.items)
  BY OneItem DEF TextValue
<1>5. \A i \in 1 .. n : schema.fields[i].auto \in kinds => schema.fields[i].name \in names
  BY <1>1 DEF AutoFields, ToSet
<1>6. \A name \in names : \E i \in 1 .. n : schema.fields[i].auto \in kinds /\ schema.fields[i].name = name
  BY <1>1 DEF AutoFields, ToSet
<1>7. \A i \in 1 .. n : /\ schema.fields[i].auto \in kinds => calls[i] = PutCall(schema.fields[i].name, value)
                        /\ schema.fields[i].auto \notin kinds => calls[i] = NoCall
  BY <1>1
<1> HIDE DEF calls, names, value, n
<1>8. Len(calls) = n
  BY <1>1, <1>2, SeqMade
<1>9. ASSUME NEW i \in 1 .. n
      PROVE  Typed(calls[i]) /\ Touches(calls[i]) \subseteq names /\ Removes(calls[i]) \subseteq {}
  <2>1. CASE schema.fields[i].auto \in kinds
    BY <1>2, <1>4, <1>5, <1>7, <2>1, PutTyped
  <2>2. CASE schema.fields[i].auto \notin kinds
    BY <1>2, <1>7, <2>2, NoneTyped
  <2> QED
    BY <2>1, <2>2
<1>10. Keeps(fields, Told(fields, calls), names, {})
  BY <1>1, <1>8, <1>9, ToldKeeps
<1>11. ASSUME NEW name \in names
       PROVE  HasField(Told(fields, calls), name) /\ FieldValue(Told(fields, calls), name) = value
  <2>1. \A i \in 1 .. n : calls[i] = NoCall \/ \E other : calls[i] = PutCall(other, value)
    BY <1>2, <1>7
  <2>2. PICK k \in 1 .. n : schema.fields[k].auto \in kinds /\ schema.fields[k].name = name
    BY <1>6
  <2>3. calls[k] = PutCall(name, value)
    BY <1>2, <1>7, <2>2
  <2>4. Len(calls) \in Nat /\ k \in 1 .. Len(calls)
    BY <1>1, <1>8
  <2>5. \A i \in 1 .. Len(calls) : calls[i] = NoCall \/ \E other : calls[i] = PutCall(other, value)
    BY <1>8, <2>1
  <2> QED
    BY <1>4, <2>3, <2>4, <2>5, ToldPuts
<1> QED
  BY <1>3, <1>10, <1>11 DEF names, value

LEMMA NewFine ==
    ASSUME Resolves(schema), NEW ops, OpsOK(ops)
    PROVE  Fine(new_block(ops))
<1> DEFINE n == Len(schema.fields)
           calls == [i \in DOMAIN schema.fields |-> DefaultCall(schema.fields[i])]
           defaults == Told(<<>>, calls)
           stamped == Stamp(defaults, {"create", "update"})
<1>1. n \in Nat /\ DOMAIN schema.fields = 1 .. n
  BY SeqFacts DEF Resolves
<1>2. calls = [i \in 1 .. n |-> calls[i]] /\ \A i \in 1 .. n : calls[i] = DefaultCall(schema.fields[i])
  BY <1>1
<1>3. new_block(ops) = apply_ops(stamped, ops)
  BY DEF new_block
<1> HIDE DEF calls, n
<1>4. Len(calls) = n
  BY <1>1, <1>2, SeqMade
<1>5. Fine(<<>>)
  <2>1. Sequence(<<>>) /\ Len(<<>>) = 0
    BY EmptySeq, SeqIn
  <2> QED
    BY <2>1 DEF Fine
<1> DEFINE names == {schema.fields[i].name : i \in 1 .. n}
<1>6. ASSUME NEW i \in 1 .. n
      PROVE  Typed(calls[i]) /\ Touches(calls[i]) \subseteq names /\ Removes(calls[i]) \subseteq {}
  <2>1. CASE schema.fields[i].default = <<>>
    BY <1>2, <2>1, NoneTyped DEF DefaultCall
  <2>2. CASE schema.fields[i].default # <<>>
    BY <1>2, <2>2, PutTyped DEF DefaultCall, Resolves, n
  <2> QED
    BY <2>1, <2>2
<1> HIDE DEF names
<1>7. Fine(defaults)
  BY <1>1, <1>4, <1>5, <1>6, ToldKeeps DEF Keeps
<1> HIDE DEF defaults
<1>8. Fine(stamped)
  BY <1>7, StampKeeps DEF Keeps
<1> HIDE DEF stamped
<1> QED
  BY <1>3, <1>8, AppliedKeeps DEF Keeps

-----------------------------------------------------------------------------
(* What is written is read again.                                          *)

TextFile(f) ==
    /\ f = [block |-> f.block, entries |-> f.entries, body |-> f.body]
    /\ f.block # "closed" => f.entries = <<>>
    /\ Sequence(f.entries) /\ \A i \in 1 .. Len(f.entries) : Sequence(f.entries[i].items)

Shape(v) ==
    \/ v = EmptyValue
    \/ \E text : v = TextValue(text)
    \/ \E items : v = ListValue(items) /\ Sequence(items)

\* The value a field of the name has when the shape is read; the shape that is written of a value.
TypedBy(s, name, v) == IF Declares(s, name) THEN coerce(Declared(s, name).kind, v) ELSE v
WrittenOf(v) ==
    CASE v.type = "List" -> ListValue(v.items)
      [] v.type = "Empty" -> EmptyValue
      [] OTHER -> TextValue(v.items[1])
ReadAs(s, name, v) == TypedBy(s, name, WrittenOf(v))

LEMMA ShapeOK ==
    ASSUME NEW entry, Sequence(entry.items)
    PROVE  Shape(ShapeValue(entry))
BY DEF Shape, ShapeValue

LEMMA ShapeFacts ==
    ASSUME NEW v, Shape(v)
    PROVE  Sequence(v.items) /\ v.type \in {"Text", "List", "Empty"}
<1>1. CASE v = EmptyValue
  <2>1. v.items = <<>> /\ v.type = "Empty"
    BY <1>1 DEF EmptyValue
  <2>2. Sequence(<<>>)
    BY EmptySeq, SeqIn
  <2> QED
    BY <2>1, <2>2
<1>2. CASE \E text : v = TextValue(text)
  <2>1. PICK text : v.items = <<text>> /\ v.type = "Text"
    BY <1>2 DEF TextValue
  <2> QED
    BY <2>1, OneItem
<1>3. CASE \E items : v = ListValue(items) /\ Sequence(items)
  <2>1. PICK items : v.items = items /\ v.type = "List" /\ Sequence(items)
    BY <1>3 DEF ListValue
  <2> QED
    BY <2>1
<1> QED
  BY <1>1, <1>2, <1>3 DEF Shape

LEMMA WrittenIs ==
    ASSUME NEW v, Sequence(v.items)
    PROVE  Shape(WrittenOf(v))
BY DEF WrittenOf, Shape

\* A value that is read keeps its texts, and what is no scalar is read as it stands.
LEMMA CoerceText ==
    ASSUME NEW kind, NEW text
    PROVE  \E type \in {"Text", "Number", "Bool", "Date", "Datetime"} :
             /\ coerce(kind, TextValue(text)) = [type |-> type, items |-> <<text>>]
             /\ kind \notin {"number", "bool", "date", "datetime"} => type = "Text"
<1> DEFINE v == [type |-> "Text", items |-> <<text>>]
           c == coerce(kind, v)
<1>1. v.type = "Text" /\ v.items[1] = text
  OBVIOUS
<1>2. \/ c = v
      \/ kind = "number" /\ c = [v EXCEPT !.type = "Number"]
      \/ kind = "bool" /\ c = [v EXCEPT !.type = "Bool"]
      \/ kind = "date" /\ c = [v EXCEPT !.type = "Date"]
      \/ kind = "datetime" /\ c = [v EXCEPT !.type = "Datetime"]
  <2> HIDE DEF v
  <2>1. CASE kind = "number" /\ IsNumber(text)
    BY <1>1, <2>1 DEF coerce
  <2>2. CASE kind = "bool" /\ text \in {<<"true">>, <<"false">>}
    BY <1>1, <2>2 DEF coerce
  <2>3. CASE kind = "date" /\ date(text)
    BY <1>1, <2>3 DEF coerce
  <2>4. CASE kind = "datetime" /\ datetime(text)
    BY <1>1, <2>4 DEF coerce
  <2>5. CASE /\ ~(kind = "number" /\ IsNumber(text)) /\ ~(kind = "bool" /\ text \in {<<"true">>, <<"false">>})
             /\ ~(kind = "date" /\ date(text)) /\ ~(kind = "datetime" /\ datetime(text))
    BY <1>1, <2>5 DEF coerce
  <2> QED
    BY <2>1, <2>2, <2>3, <2>4, <2>5
<1>3. /\ [v EXCEPT !.type = "Number"] = [type |-> "Number", items |-> <<text>>]
      /\ [v EXCEPT !.type = "Bool"] = [type |-> "Bool", items |-> <<text>>]
      /\ [v EXCEPT !.type = "Date"] = [type |-> "Date", items |-> <<text>>]
      /\ [v EXCEPT !.type = "Datetime"] = [type |-> "Datetime", items |-> <<text>>]
  OBVIOUS
<1>4. TextValue(text) = v
  BY DEF TextValue
<1> HIDE DEF c
<1> QED
  BY <1>2, <1>3, <1>4 DEF c

LEMMA CoerceOther ==
    ASSUME NEW kind, NEW v, v.type # "Text"
    PROVE  coerce(kind, v) = v
BY DEF coerce

LEMMA TypedIs ==
    ASSUME NEW s, NEW name, NEW v, Shape(v)
    PROVE  /\ Sequence(TypedBy(s, name, v).items)
           /\ WrittenOf(TypedBy(s, name, v)) = v
           /\ TypedBy(s, name, v).items = v.items
           /\ v.type # "Text" => TypedBy(s, name, v) = v
           /\ ~(Declares(s, name) /\ Declared(s, name).kind \in {"number", "bool", "date", "datetime"}) =>
                TypedBy(s, name, v) = v
<1> DEFINE c == TypedBy(s, name, v)
<1>1. CASE v = EmptyValue
  <2>1. v.type # "Text" /\ v.type = "Empty"
    BY <1>1 DEF EmptyValue
  <2>2. c = v
    BY <2>1, CoerceOther DEF TypedBy
  <2> HIDE DEF c
  <2>3. WrittenOf(v) = v
    BY <1>1, <2>1 DEF WrittenOf
  <2> QED
    BY <2>2, <2>3, ShapeFacts DEF c
<1>2. CASE \E items : v = ListValue(items) /\ Sequence(items)
  <2>1. v.type # "Text" /\ v.type = "List" /\ ListValue(v.items) = v
    BY <1>2 DEF ListValue
  <2>2. c = v
    BY <2>1, CoerceOther DEF TypedBy
  <2> HIDE DEF c
  <2>3. WrittenOf(v) = v
    BY <2>1 DEF WrittenOf
  <2> QED
    BY <2>2, <2>3, ShapeFacts DEF c
<1>3. CASE \E text : v = TextValue(text)
  <2>1. PICK text : v = TextValue(text)
    BY <1>3
  <2>2. v = [type |-> "Text", items |-> <<text>>]
    BY <2>1 DEF TextValue
  <2>3. PICK type \in {"Text", "Number", "Bool", "Date", "Datetime"} :
          /\ c = [type |-> type, items |-> <<text>>]
          /\ ~(Declares(s, name) /\ Declared(s, name).kind \in {"number", "bool", "date", "datetime"}) => type = "Text"
    <3>1. CASE Declares(s, name)
      BY <2>1, <3>1, CoerceText DEF TypedBy
    <3>2. CASE ~Declares(s, name)
      BY <2>2, <3>2 DEF TypedBy
    <3> QED
      BY <3>1, <3>2
  <2> HIDE DEF c
  <2>4. c.type # "List" /\ c.type # "Empty" /\ c.items = <<text>> /\ c.items[1] = text
    BY <2>3
  <2>5. WrittenOf(c) = v
    BY <2>1, <2>4 DEF WrittenOf
  <2> QED
    BY <2>2, <2>3, <2>4, <2>5, OneItem DEF c
<1> QED
  BY <1>1, <1>2, <1>3 DEF Shape

\* The fields of a text that can be read.
LEMMA ReadIs ==
    ASSUME NEW f, TextFile(f), Readable(f), NEW s
    PROVE  LET fields == ReadFields(f, s)
           IN  /\ Fine(fields) /\ Len(fields) = Len(f.entries)
               /\ \A i \in 1 .. Len(f.entries) :
                    /\ fields[i].name = f.entries[i].name
                    /\ fields[i].value = TypedBy(s, f.entries[i].name, ShapeValue(f.entries[i]))
<1> DEFINE fields == ReadFields(f, s)
           n == Len(f.entries)
<1>1. n \in Nat /\ DOMAIN f.entries = 1 .. n
  BY SeqFacts DEF TextFile
<1>2. /\ fields = [i \in 1 .. n |-> fields[i]]
      /\ \A i \in 1 .. n : fields[i] = [name |-> f.entries[i].name,
                                        value |-> TypedBy(s, f.entries[i].name, ShapeValue(f.entries[i]))]
  BY <1>1 DEF ReadFields, TypedBy
<1>3. \A i, j \in 1 .. n : f.entries[i].name = f.entries[j].name => i = j
  <2>1. \A i \in 1 .. n : \A j \in 1 .. i - 1 : f.entries[j].name # f.entries[i].name
    BY <1>1 DEF Readable
  <2>2. ASSUME NEW i \in 1 .. n, NEW j \in 1 .. n, f.entries[i].name = f.entries[j].name PROVE i = j
    <3>1. ~(j < i)
      BY <1>1, <2>1, <2>2
    <3>2. ~(i < j)
      BY <1>1, <2>1, <2>2
    <3> QED
      BY <1>1, <3>1, <3>2
  <2> QED
    BY <2>2
<1>4. \A i \in 1 .. n : Sequence(TypedBy(s, f.entries[i].name, ShapeValue(f.entries[i])).items)
  BY ShapeOK, TypedIs DEF TextFile
<1> HIDE DEF fields, n
<1>5. Sequence(fields) /\ Len(fields) = n
  BY <1>1, <1>2, SeqMade
<1>6. \A i \in 1 .. n : /\ fields[i].name = f.entries[i].name
                        /\ fields[i].value = TypedBy(s, f.entries[i].name, ShapeValue(f.entries[i]))
                        /\ fields[i] = [name |-> fields[i].name, value |-> fields[i].value]
  BY <1>2
<1>7. Fine(fields)
  BY <1>3, <1>4, <1>5, <1>6 DEF Fine
<1> QED
  BY <1>5, <1>6, <1>7 DEF fields, n

\* Its values are written, and read again, as they are.
LEMMA Stable ==
    ASSUME NEW f, TextFile(f), Readable(f), NEW s, NEW name, HasField(ReadFields(f, s), name)
    PROVE  LET value == FieldValue(ReadFields(f, s), name)
           IN  ReadAs(s, name, value) = value
<1> DEFINE fields == ReadFields(f, s)
           k == FieldAt(fields, name)
<1>1. /\ Fine(fields) /\ Len(fields) = Len(f.entries)
      /\ \A i \in 1 .. Len(f.entries) :
           /\ fields[i].name = f.entries[i].name
           /\ fields[i].value = TypedBy(s, f.entries[i].name, ShapeValue(f.entries[i]))
  BY ReadIs
<1> HIDE DEF fields
<1>2. k \in 1 .. Len(f.entries) /\ fields[k].name = name /\ FieldValue(fields, name) = fields[k].value
  BY <1>1, Found DEF fields
<1>3. FieldValue(fields, name) = TypedBy(s, name, ShapeValue(f.entries[k])) /\ Shape(ShapeValue(f.entries[k]))
  BY <1>1, <1>2, ShapeOK DEF TextFile
<1>4. WrittenOf(FieldValue(fields, name)) = ShapeValue(f.entries[k])
  BY <1>3, TypedIs
<1> QED
  BY <1>3, <1>4 DEF ReadAs, fields

LEMMA FinishIs ==
    ASSUME NEW fields, Fine(fields), NEW body
    PROVE  LET f == splice(finish(fields), body)
           IN  /\ TextFile(f) /\ Readable(f) /\ Len(f.entries) = Len(fields)
               /\ \A i \in 1 .. Len(fields) :
                    /\ f.entries[i].name = fields[i].name
                    /\ ShapeValue(f.entries[i]) = WrittenOf(fields[i].value)
<1> DEFINE entries == finish(fields)
           n == Len(fields)
           f == splice(entries, body)
<1>1. n \in Nat /\ DOMAIN fields = 1 .. n
  BY SeqFacts DEF Fine
<1>2. f = [block |-> "closed", entries |-> entries, body |-> body]
  BY DEF splice, Closed
<1>3. entries = [i \in 1 .. n |-> entries[i]]
  BY <1>1 DEF finish
<1>4. ASSUME NEW i \in 1 .. n
      PROVE  /\ entries[i].name = fields[i].name /\ entries[i].shape # "mapping"
             /\ Sequence(entries[i].items) /\ ShapeValue(entries[i]) = WrittenOf(fields[i].value)
  <2> DEFINE name == fields[i].name
             v == fields[i].value
  <2>1. entries[i] = CASE v.type = "List" -> Items(name, v.items)
                       [] v.type = "Empty" -> Null(name, NoText)
                       [] OTHER -> Scalar(name, v.items[1])
    BY <1>1 DEF finish
  <2>2. Sequence(v.items)
    BY DEF Fine
  <2> HIDE DEF entries, v, name
  <2>3. CASE v.type = "List"
    <3>1. entries[i] = [name |-> name, shape |-> "list", items |-> v.items]
      BY <2>1, <2>3 DEF Items
    <3>2. ShapeValue(entries[i]) = ListValue(v.items)
      BY <3>1 DEF ShapeValue
    <3> QED
      BY <2>2, <2>3, <3>1, <3>2 DEF WrittenOf, v, name
  <2>4. CASE v.type = "Empty"
    <3>1. entries[i] = [name |-> name, shape |-> "null", items |-> <<NoText>>]
      BY <2>1, <2>4 DEF Null
    <3>2. ShapeValue(entries[i]) = EmptyValue
      BY <3>1 DEF ShapeValue
    <3> QED
      BY <2>4, <3>1, <3>2, OneItem DEF WrittenOf, v, name
  <2>5. CASE v.type # "List" /\ v.type # "Empty"
    <3>1. entries[i] = [name |-> name, shape |-> "scalar", items |-> <<v.items[1]>>]
      BY <2>1, <2>5 DEF Scalar
    <3>2. ShapeValue(entries[i]) = TextValue(v.items[1])
      BY <3>1 DEF ShapeValue
    <3> QED
      BY <2>5, <3>1, <3>2, OneItem DEF WrittenOf, v, name
  <2> QED
    BY <2>3, <2>4, <2>5
<1> HIDE DEF entries, n
<1>5. Sequence(entries) /\ Len(entries) = n /\ DOMAIN entries = 1 .. n
  BY <1>1, <1>3, SeqMade
<1>6. f.block = "closed" /\ f.entries = entries /\ f.body = body
  BY <1>2
<1>7. f = [block |-> f.block, entries |-> f.entries, body |-> f.body]
  BY <1>2
<1> HIDE DEF f
<1>8. TextFile(f)
  BY <1>4, <1>5, <1>6, <1>7 DEF TextFile
<1>9. Readable(f)
  <2>1. ASSUME NEW i \in 1 .. n, NEW j \in 1 .. i - 1 PROVE entries[j].name # entries[i].name
    <3>1. j \in 1 .. n /\ j # i
      BY <1>1, <2>1
    <3> QED
      BY <1>4, <3>1 DEF Fine, n
  <2> QED
    BY <1>4, <1>5, <1>6, <2>1 DEF Readable, Splits
<1> QED
  BY <1>4, <1>5, <1>6, <1>8, <1>9 DEF f, entries, n

LEMMA ReadsBack ==
    ASSUME NEW fields, Fine(fields), NEW body, NEW s
    PROVE  LET f == splice(finish(fields), body)
               back == ReadFields(f, s)
           IN  /\ TextFile(f) /\ Readable(f) /\ Fine(back)
               /\ \A name : /\ HasField(back, name) <=> HasField(fields, name)
                            /\ FieldAt(back, name) = FieldAt(fields, name)
                            /\ HasField(fields, name) =>
                                 FieldValue(back, name) = ReadAs(s, name, FieldValue(fields, name))
<1> DEFINE f == splice(finish(fields), body)
           back == ReadFields(f, s)
           n == Len(fields)
<1>1. /\ TextFile(f) /\ Readable(f) /\ Len(f.entries) = n
      /\ \A i \in 1 .. n : /\ f.entries[i].name = fields[i].name
                           /\ ShapeValue(f.entries[i]) = WrittenOf(fields[i].value)
  BY FinishIs
<1> HIDE DEF f
<1>2. /\ Fine(back) /\ Len(back) = n
      /\ \A i \in 1 .. n : /\ back[i].name = f.entries[i].name
                           /\ back[i].value = TypedBy(s, f.entries[i].name, ShapeValue(f.entries[i]))
  BY <1>1, ReadIs
<1> HIDE DEF back, n
<1>3. \A i \in 1 .. n : back[i].name = fields[i].name /\ back[i].value = ReadAs(s, fields[i].name, fields[i].value)
  BY <1>1, <1>2 DEF ReadAs
<1>4. ASSUME NEW name
      PROVE  /\ HasField(back, name) <=> HasField(fields, name)
             /\ FieldAt(back, name) = FieldAt(fields, name)
             /\ HasField(fields, name) => FieldValue(back, name) = ReadAs(s, name, FieldValue(fields, name))
  <2>1. CASE \E i \in 1 .. n : fields[i].name = name
    <3>1. PICK i \in 1 .. n : fields[i].name = name
      BY <2>1
    <3>2. HasField(fields, name) /\ FieldAt(fields, name) = i /\ FieldValue(fields, name) = fields[i].value
      BY <3>1, Found DEF n
    <3>3. HasField(back, name) /\ FieldAt(back, name) = i /\ FieldValue(back, name) = back[i].value
      BY <1>2, <1>3, <3>1, Found
    <3> QED
      BY <1>3, <3>1, <3>2, <3>3
  <2>2. CASE ~\E i \in 1 .. n : fields[i].name = name
    <3>1. ~HasField(fields, name)
      BY <2>2, Found DEF n
    <3>2. ~HasField(back, name)
      BY <1>2, <1>3, <2>2, Found
    <3> QED
      BY <1>2, <3>1, <3>2, Found
  <2> QED
    BY <2>1, <2>2
<1> QED
  BY <1>1, <1>2, <1>4 DEF f, back

\* What calls keep of the fields of a text is kept in the text that is written of them.
LEMMA WrittenKeeps ==
    ASSUME NEW f, TextFile(f), Readable(f), NEW s, NEW written, NEW touched, NEW gone, NEW body,
           Keeps(ReadFields(f, s), written, touched, gone)
    PROVE  Keeps(ReadFields(f, s), ReadFields(splice(finish(written), body), s), touched, gone)
<1> DEFINE before == ReadFields(f, s)
           after == ReadFields(splice(finish(written), body), s)
<1>1. Fine(written)
  BY DEF Keeps
<1>2. /\ Fine(after)
      /\ \A name : /\ HasField(after, name) <=> HasField(written, name)
                   /\ FieldAt(after, name) = FieldAt(written, name)
                   /\ HasField(written, name) =>
                        FieldValue(after, name) = ReadAs(s, name, FieldValue(written, name))
  BY <1>1, ReadsBack
<1>3. \A name : HasField(before, name) => ReadAs(s, name, FieldValue(before, name)) = FieldValue(before, name)
  BY Stable
<1>4. Keeps(before, written, touched, gone)
  OBVIOUS
<1> HIDE DEF before, after
<1>5. Keeps(before, after, touched, gone)
  BY <1>2, <1>3, <1>4 DEF Keeps
<1> QED
  BY <1>5 DEF before, after

LEMMA SameIs ==
    ASSUME NEW before, NEW after, NEW name, HasField(after, name) <=> HasField(before, name),
           HasField(before, name) => FieldValue(after, name) = FieldValue(before, name)
    PROVE  SameField(before, after, name)
<1>1. HasField(before, name) \in BOOLEAN /\ HasField(after, name) \in BOOLEAN
  BY DEF HasField
<1>2. HasField(before, name) = HasField(after, name)
  BY <1>1
<1>3. \A v : SameValue(v, v)
  BY DEF SameValue
<1> QED
  BY <1>2, <1>3 DEF SameField

LEMMA NamedIs ==
    ASSUME NEW fields, Fine(fields), NEW name
    PROVE  name \in NamesOf(fields) <=> HasField(fields, name)
<1>1. DOMAIN fields = 1 .. Len(fields)
  BY SeqFacts DEF Fine
<1>2. name \in NamesOf(fields) <=> \E i \in 1 .. Len(fields) : fields[i].name = name
  BY <1>1 DEF NamesOf
<1> QED
  BY <1>2, Found

-----------------------------------------------------------------------------
(* set                                                                     *)

UpdatedOf(s) == {f.name : f \in {g \in ToSet(s.fields) : g.auto \in {"update"}}}

\* SetChangesWhatItSays, of two texts.
Says(s, f, g, ops, tick) ==
    LET before == ReadFields(f, s)
        after == ReadFields(g, s)
    IN  /\ g.body = f.body
        /\ \A name \in (NamesOf(before) \cup NamesOf(after)) \ (NamedBy(ops) \cup UpdatedOf(s)) :
             SameField(before, after, name)
        /\ Readable(g) /\ InOrder(before, after, (NamesOf(before) \cap NamesOf(after)) \ Taken(ops))
        /\ \A stamp \in UpdatedOf(s) :
             IF \E name \in NamesOf(before) \cup NamesOf(after) :
                  name \notin UpdatedOf(s) /\ ~SameField(before, after, name)
             THEN HasField(after, stamp) /\ FieldValue(after, stamp).items = <<TimeAt(tick)>>
             ELSE SameField(before, after, stamp)

LEMMA SpliceIs ==
    ASSUME NEW block, NEW body
    PROVE  splice(block, body).body = body
BY DEF splice, Closed

\* The parts of Says that hold whatever was stamped.
LEMMA KeepsSays ==
    ASSUME NEW before, NEW after, NEW touched, NEW gone, Fine(before), Keeps(before, after, touched, gone)
    PROVE  /\ \A name : name \notin touched => SameField(before, after, name)
           /\ InOrder(before, after, (NamesOf(before) \cap NamesOf(after)) \ gone)
<1>1. \A name : name \notin touched => SameField(before, after, name)
  BY SameIs DEF Keeps
<1>2. ASSUME NEW a \in (NamesOf(before) \cap NamesOf(after)) \ gone,
             NEW b \in (NamesOf(before) \cap NamesOf(after)) \ gone
      PROVE  (FieldAt(before, a) < FieldAt(before, b)) <=> (FieldAt(after, a) < FieldAt(after, b))
  <2>1. HasField(before, a) /\ HasField(before, b)
    BY NamedIs
  <2> QED
    BY <2>1 DEF Keeps
<1> QED
  BY <1>1, <1>2 DEF InOrder

LEMMA AutoIs ==
    ASSUME NEW s, NEW ops, check_auto_direct(s, ops) = {}
    PROVE  UpdatedOf(s) \cap NamedBy(ops) = {}
<1> SUFFICES ASSUME NEW name \in UpdatedOf(s), name \in NamedBy(ops) PROVE FALSE
  OBVIOUS
<1>1. PICK g \in ToSet(s.fields) : g.auto = "update" /\ g.name = name
  BY DEF UpdatedOf
<1>2. name \in {f.name : f \in {h \in ToSet(s.fields) : h.auto # ""}}
  BY <1>1
<1>3. name \in {ops[i].field : i \in DOMAIN ops}
  BY DEF NamedBy
<1>4. TypesError(name) \in check_auto_direct(s, ops)
  BY <1>2, <1>3 DEF check_auto_direct
<1> QED
  BY <1>4

LEMMA LooseSays ==
    ASSUME TextFile(file), Readable(file), NEW ops, OpsOK(ops), UpdatedOf(schema) = {}
    PROVE  LET g == splice(finish(apply_ops(Fields(file), ops)), file.body)
           IN  TextFile(g) /\ Says(schema, file, g, ops, clock)
<1> DEFINE before == ReadFields(file, schema)
           written == apply_ops(before, ops)
           g == splice(finish(written), file.body)
           after == ReadFields(g, schema)
<1>1. Fine(before)
  BY ReadIs
<1>2. Keeps(before, written, NamedBy(ops), Taken(ops))
  BY <1>1, AppliedKeeps
<1>3. Keeps(before, after, NamedBy(ops), Taken(ops))
  BY <1>2, WrittenKeeps
<1>4. TextFile(g) /\ Readable(g) /\ g.body = file.body
  BY <1>2, ReadsBack, SpliceIs DEF Keeps
<1>5. /\ \A name : name \notin NamedBy(ops) => SameField(before, after, name)
      /\ InOrder(before, after, (NamesOf(before) \cap NamesOf(after)) \ Taken(ops))
  <2> HIDE DEF before, after
  <2> QED
    BY <1>1, <1>3, KeepsSays
<1>6. Fields(file) = before
  BY DEF Fields
<1> HIDE DEF g
<1>7. Says(schema, file, g, ops, clock)
  BY <1>4, <1>5 DEF Says
<1> QED
  BY <1>4, <1>6, <1>7 DEF g

LEMMA SetSays ==
    ASSUME TextFile(file), Readable(file), NEW ops, OpsOK(ops), Resolves(schema),
           check_auto_direct(schema, ops) = {}
    PROVE  LET g == splice(finish(SetFields(Fields(file), ops)), file.body)
           IN  TextFile(g) /\ Says(schema, file, g, ops, clock)
<1> DEFINE before == ReadFields(file, schema)
           assigned == apply_ops(before, ops)
           back == ReadFields(splice(finish(assigned), <<>>), schema)
           written == SetFields(before, ops)
           g == splice(finish(written), file.body)
           after == ReadFields(g, schema)
           N == NamedBy(ops)
           U == UpdatedOf(schema)
           T == Taken(ops)
<1>1. Fine(before)
  BY ReadIs
<1>2. Keeps(before, assigned, N, T)
  BY <1>1, AppliedKeeps
<1>3. Keeps(before, back, N, T)
  BY <1>2, WrittenKeeps
<1>4. /\ Fine(assigned) /\ Fine(back)
      /\ \A name : /\ HasField(back, name) <=> HasField(assigned, name)
                   /\ HasField(assigned, name) =>
                        FieldValue(back, name) = ReadAs(schema, name, FieldValue(assigned, name))
  BY <1>2, ReadsBack DEF Keeps
<1>5. \A name : name \notin N => SameField(before, back, name)
  <2> HIDE DEF before, back
  <2> QED
    BY <1>1, <1>3, KeepsSays
<1>6. U \cap N = {}
  BY AutoIs
<1>7. Fields(file) = before /\ Fields(splice(finish(assigned), <<>>)) = back
  BY DEF Fields
<1>8. /\ fields_changed(before, back) => written = Stamp(assigned, {"update"})
      /\ ~fields_changed(before, back) => written = assigned
  BY <1>7 DEF SetFields
<1>9. fields_changed(before, back) <=> \E name : name \notin U /\ ~SameField(before, back, name)
  <2> HIDE DEF before, back, assigned, N, U
  <2>1. ASSUME NEW name, ~SameField(before, back, name)
        PROVE  name \in NamesOf(before) \cup NamesOf(back) /\ name \notin U
    <3>1. name \in N
      BY <1>5, <2>1
    <3>2. HasField(before, name) \/ HasField(back, name)
      <4> SUFFICES ASSUME ~HasField(before, name), ~HasField(back, name) PROVE FALSE
        OBVIOUS
      <4>1. SameField(before, back, name)
        BY SameIs
      <4> QED
        BY <2>1, <4>1
    <3> QED
      BY <1>1, <1>4, <1>6, <3>1, <3>2, NamedIs
  <2> QED
    BY <2>1 DEF fields_changed
<1>10. {f.name : f \in AutoFields({"update"})} = U
  BY DEF AutoFields, UpdatedOf
<1>11. /\ Keeps(assigned, written, U, {})
       /\ fields_changed(before, back) =>
            \A name \in U : HasField(written, name) /\ FieldValue(written, name) = TextValue(Now)
  <2>1. /\ Keeps(assigned, Stamp(assigned, {"update"}), {f.name : f \in AutoFields({"update"})}, {})
        /\ \A name \in {f.name : f \in AutoFields({"update"})} :
             /\ HasField(Stamp(assigned, {"update"}), name)
             /\ FieldValue(Stamp(assigned, {"update"}), name) = TextValue(Now)
    BY <1>4, StampKeeps
  <2>2. /\ Keeps(assigned, Stamp(assigned, {"update"}), U, {})
        /\ \A name \in U : /\ HasField(Stamp(assigned, {"update"}), name)
                           /\ FieldValue(Stamp(assigned, {"update"}), name) = TextValue(Now)
    <3> HIDE DEF U
    <3> QED
      BY <1>10, <2>1
  <2>3. Keeps(assigned, assigned, U, {})
    BY <1>4, KeepsItself
  <2> HIDE DEF before, back, assigned, written, U
  <2> QED
    BY <1>8, <2>2, <2>3
<1>12. Keeps(before, written, N \cup U, T)
  <2>1. Keeps(before, assigned, N \cup U, T)
    <3> HIDE DEF before, assigned, N, U, T
    <3> QED
      BY <1>2, KeepsMore
  <2>2. Keeps(assigned, written, N \cup U, T)
    <3> HIDE DEF before, assigned, written, N, U, T
    <3> QED
      BY <1>11, KeepsMore
  <2> HIDE DEF before, assigned, written, N, U, T
  <2> QED
    BY <2>1, <2>2, KeepsOn
<1>13. Keeps(before, after, N \cup U, T)
  <2> HIDE DEF written, N, U, T
  <2> QED
    BY <1>12, WrittenKeeps
<1>14. /\ TextFile(g) /\ Readable(g) /\ g.body = file.body /\ Fine(written) /\ Fine(after)
       /\ \A name : /\ HasField(after, name) <=> HasField(written, name)
                    /\ HasField(written, name) =>
                         FieldValue(after, name) = ReadAs(schema, name, FieldValue(written, name))
  <2>1. Fine(written)
    BY <1>12 DEF Keeps
  <2> HIDE DEF written
  <2> QED
    BY <2>1, ReadsBack, SpliceIs
<1>15. \A name : name \notin U => (SameField(before, after, name) <=> SameField(before, back, name))
  <2> HIDE DEF before, assigned, written, back, after, g, N, U, T
  <2>1. ASSUME NEW name, name \notin U
        PROVE  /\ HasField(after, name) <=> HasField(back, name)
               /\ HasField(back, name) => FieldValue(after, name) = FieldValue(back, name)
    BY <1>4, <1>11, <1>14, <2>1 DEF Keeps
  <2>2. \A name : HasField(after, name) \in BOOLEAN /\ HasField(back, name) \in BOOLEAN
    BY DEF HasField
  <2>3. ASSUME NEW name, name \notin U PROVE SameField(before, after, name) <=> SameField(before, back, name)
    <3>1. HasField(after, name) = HasField(back, name)
      BY <2>1, <2>2, <2>3
    <3>2. HasField(back, name) => FieldValue(after, name) = FieldValue(back, name)
      BY <2>1, <2>3
    <3>3. CASE HasField(before, name) = HasField(back, name)
      BY <3>1, <3>2, <3>3 DEF SameField
    <3>4. CASE HasField(before, name) # HasField(back, name)
      BY <3>1, <3>4 DEF SameField
    <3> QED
      BY <3>3, <3>4
  <2> QED
    BY <2>3
<1>16. /\ \A name : name \notin N \cup U => SameField(before, after, name)
       /\ InOrder(before, after, (NamesOf(before) \cap NamesOf(after)) \ T)
  <2> HIDE DEF before, after, N, U, T
  <2> QED
    BY <1>1, <1>13, KeepsSays
<1>17. ASSUME NEW stamp \in U
       PROVE  IF \E name \in NamesOf(before) \cup NamesOf(after) : name \notin U /\ ~SameField(before, after, name)
              THEN HasField(after, stamp) /\ FieldValue(after, stamp).items = <<TimeAt(clock)>>
              ELSE SameField(before, after, stamp)
  <2>1. CASE fields_changed(before, back)
    <3>1. \E name \in NamesOf(before) \cup NamesOf(after) : name \notin U /\ ~SameField(before, after, name)
      <4> HIDE DEF before, assigned, written, back, after, g, N, U, T
      <4>1. PICK name : name \notin U /\ ~SameField(before, back, name)
        BY <1>9, <2>1
      <4>2. ~SameField(before, after, name)
        BY <1>15, <4>1
      <4>3. HasField(before, name) \/ HasField(after, name)
        <5> SUFFICES ASSUME ~HasField(before, name), ~HasField(after, name) PROVE FALSE
          OBVIOUS
        <5>1. SameField(before, after, name)
          BY SameIs
        <5> QED
          BY <4>2, <5>1
      <4>4. name \in NamesOf(before) \cup NamesOf(after)
        BY <1>1, <1>14, <4>3, NamedIs
      <4> QED
        BY <4>1, <4>2, <4>4
    <3>2. HasField(after, stamp) /\ FieldValue(after, stamp) = ReadAs(schema, stamp, TextValue(Now))
      <4> HIDE DEF before, assigned, written, back, after, g, N, U, T
      <4> QED
        BY <1>11, <1>14, <2>1
    <3>3. ReadAs(schema, stamp, TextValue(Now)).items = <<TimeAt(clock)>>
      <4>1. Shape(TextValue(Now)) /\ TextValue(Now).items = <<Now>> /\ WrittenOf(TextValue(Now)) = TextValue(Now)
        BY DEF Shape, TextValue, WrittenOf
      <4> QED
        BY <4>1, TypedIs DEF ReadAs, Now
    <3> HIDE DEF before, assigned, written, back, after, g, N, U, T
    <3> QED
      BY <3>1, <3>2, <3>3
  <2>2. CASE ~fields_changed(before, back)
    <3> HIDE DEF before, back, N, U, T
    <3>1. ~\E name : name \notin U /\ ~SameField(before, back, name)
      BY <1>9, <2>2
    <3>2. ~\E name \in NamesOf(before) \cup NamesOf(after) : name \notin U /\ ~SameField(before, after, name)
      <4> HIDE DEF after
      <4> QED
        BY <1>15, <3>1
    <3>3. written = assigned
      BY <1>8, <2>2
    <3>4. SameField(before, after, stamp)
      <4>1. stamp \notin N
        BY <1>6
      <4>2. Keeps(before, written, N, T)
        BY <1>2, <3>3
      <4>3. Keeps(before, after, N, T)
        <5> HIDE DEF written
        <5> QED
          BY <4>2, WrittenKeeps DEF before
      <4> HIDE DEF after
      <4> QED
        BY <1>1, <4>1, <4>3, KeepsSays
    <3> HIDE DEF after
    <3> QED
      BY <3>2, <3>4
  <2> QED
    BY <2>1, <2>2
<1>18. Says(schema, file, g, ops, clock)
  <2>1. g.body = file.body /\ Readable(g)
    BY <1>14
  <2> HIDE DEF g, written, back, assigned
  <2> QED
    BY <1>16, <1>17, <2>1 DEF Says
<1> QED
  BY <1>7, <1>14, <1>18

-----------------------------------------------------------------------------
(* The refs a scan finds are finitely many, and in fields that hold refs.  *)

LEMMA FiniteRange ==
    ASSUME NEW n \in Nat, NEW f, f = [i \in 1 .. n |-> f[i]]
    PROVE  IsFiniteSet({f[i] : i \in 1 .. n})
<1> DEFINE T == {f[i] : i \in 1 .. n}
<1>1. f \in Surjection(1 .. n, T)
  BY DEF Surjection
<1>2. IsFiniteSet(1 .. n)
  BY FS_Interval
<1> HIDE DEF T
<1>3. IsFiniteSet(T)
  BY <1>1, <1>2, FS_Surjection
<1> QED
  BY <1>3 DEF T

LEMMA SeqOfSet ==
    ASSUME NEW S, IsFiniteSet(S)
    PROVE  LET s == SetToSeq(S)
           IN  Len(s) \in Nat /\ DOMAIN s = 1 .. Len(s) /\ \A i \in 1 .. Len(s) : s[i] \in S
<1> DEFINE n == Cardinality(S)
           Is(f) == f \in [1 .. n -> S] /\ IsInjective(f)
           s == SetToSeq(S)
<1>1. n \in Nat
  BY FS_CardinalityType
<1>2. \E f : f \in Bijection(1 .. n, S)
  BY FS_CardinalityType DEF ExistsBijection
<1>3. \E f : Is(f)
  BY <1>2 DEF Bijection, Injection, IsInjective
<1>4. s = CHOOSE f \in [1 .. n -> S] : IsInjective(f)
  BY DEF SetToSeq
<1>5. s \in [1 .. n -> S]
  <2> HIDE DEF s, n
  <2> QED
    BY <1>3, <1>4
<1> HIDE DEF s, n
<1>6. s \in Seq(S)
  BY <1>1, <1>5, SeqDef
<1> QED
  BY <1>6, LenProperties, ElementOfSeq DEF s

RefKinds == {"ref", "ref[]"}
RefAt(fields, i, n) == [field |-> fields[i].name, written |-> fields[i].value.items[n], line |-> 0, col |-> n]
RefsAt(fields, i) == {RefAt(fields, i, n) : n \in 1 .. Len(fields[i].value.items)}

ScanOK(refs) ==
    /\ IsFiniteSet(FieldRefs(refs))
    /\ \A r \in FieldRefs(refs) : Declares(schema, r.field) /\ Declared(schema, r.field).kind \in RefKinds

LEMMA FiniteRefs ==
    ASSUME NEW fields, Fine(fields)
    PROVE  IsFiniteSet(UNION {RefsAt(fields, i) : i \in 1 .. Len(fields)})
<1>1. Len(fields) \in Nat
  BY SeqFacts DEF Fine
<1>2. ASSUME NEW i \in 1 .. Len(fields) PROVE IsFiniteSet(RefsAt(fields, i))
  <2> DEFINE m == Len(fields[i].value.items)
             f == [n \in 1 .. m |-> RefAt(fields, i, n)]
  <2>1. m \in Nat
    BY SeqFacts DEF Fine
  <2>2. f = [n \in 1 .. m |-> f[n]]
    OBVIOUS
  <2>3. RefsAt(fields, i) = {f[n] : n \in 1 .. m}
    BY DEF RefsAt
  <2> HIDE DEF f, m
  <2> QED
    BY <2>1, <2>2, <2>3, FiniteRange
<1> DEFINE g == [i \in 1 .. Len(fields) |-> RefsAt(fields, i)]
           S == {g[i] : i \in 1 .. Len(fields)}
<1>3. {RefsAt(fields, i) : i \in 1 .. Len(fields)} = S
  OBVIOUS
<1>4. g = [i \in 1 .. Len(fields) |-> g[i]]
  OBVIOUS
<1>5. \A i \in 1 .. Len(fields) : IsFiniteSet(g[i])
  BY <1>2
<1> HIDE DEF g
<1>6. IsFiniteSet(S) /\ \A T \in S : IsFiniteSet(T)
  BY <1>1, <1>4, <1>5, FiniteRange
<1> HIDE DEF S
<1>7. IsFiniteSet(UNION S)
  BY <1>6, FS_UNION
<1> QED
  BY <1>3, <1>7

LEMMA NoFields ==
    Fine(<<>>) /\ Len(<<>>) = 0
<1>1. Sequence(<<>>) /\ Len(<<>>) = 0
  BY EmptySeq, SeqIn
<1> QED
  BY <1>1 DEF Fine

ItemRefs(fields, r) ==
    {[field |-> r.field, written |-> r.written, line |-> 0, col |-> n] :
       n \in {m \in DOMAIN FieldValue(fields, r.field).items : FieldValue(fields, r.field).items[m] = r.written}}

LEMMA ScanFinds ==
    ASSUME TextFile(file)
    PROVE  ScanOK(ScanRefs(file))
<1> DEFINE fields == IF Readable(file) THEN Fields(file) ELSE <<>>
           refs == ScanRefs(file)
           all == UNION {RefsAt(fields, i) : i \in 1 .. Len(fields)}
<1>1. Fine(fields)
  BY NoFields, ReadIs DEF Fields
<1>2. Len(fields) \in Nat /\ DOMAIN fields = 1 .. Len(fields)
  BY <1>1, SeqFacts DEF Fine
<1>3. ASSUME NEW x \in FieldRefs(refs)
      PROVE  x \in all /\ Declares(schema, x.field) /\ Declared(schema, x.field).kind \in RefKinds
  <2>1. x \in refs /\ x.field # "$body"
    BY DEF FieldRefs
  <2> DEFINE Q == {q \in RefsIn(fields) : q.written \in DOMAIN Renamed}
  <2>2. \E r \in Q : x \in ItemRefs(Fields(file), r)
    <3> DEFINE L == UNION {{[field |-> "$body", written |-> l.written, line |-> LinesAbove(file) + i, col |-> l.col] :
                              l \in {k \in LinksOn(file.body[i]) : Destination(k.written) \in DOMAIN Renamed}} :
                            i \in IF Splits(file) THEN DOMAIN file.body ELSE {}}
    <3>1. refs = (UNION {ItemRefs(Fields(file), r) : r \in Q}) \cup L
      BY DEF ScanRefs, ItemRefs
    <3>2. \A y \in L : y.field = "$body"
      OBVIOUS
    <3>3. x \notin L
      <4> HIDE DEF L
      <4> QED
        BY <2>1, <3>2
    <3> HIDE DEF refs, L, Q
    <3>4. x \in UNION {ItemRefs(Fields(file), r) : r \in Q}
      BY <2>1, <3>1, <3>3, Zenon
    <3> QED
      BY <3>4, Zenon
  <2>3. PICK r \in Q : x \in ItemRefs(Fields(file), r)
    BY <2>2
  <2>4. r \in RefsIn(fields)
    OBVIOUS
  <2>5. PICK n \in DOMAIN FieldValue(Fields(file), r.field).items :
          /\ FieldValue(Fields(file), r.field).items[n] = r.written
          /\ x = [field |-> r.field, written |-> r.written, line |-> 0, col |-> n]
    BY <2>3 DEF ItemRefs
  <2> HIDE DEF Q
  <2>6. PICK i \in 1 .. Len(fields) :
          /\ Declares(schema, fields[i].name) /\ Declared(schema, fields[i].name).kind \in RefKinds
          /\ r.field = fields[i].name
    <3> HIDE DEF fields
    <3> QED
      BY <1>2, <2>4 DEF RefsIn, RefKinds
  <2>7. Readable(file) /\ fields = Fields(file)
    <3>1. Len(fields) # 0
      BY <1>2, <2>6
    <3> QED
      BY <3>1, NoFields
  <2>8. FieldValue(Fields(file), r.field) = fields[i].value
    <3> HIDE DEF fields
    <3> QED
      BY <1>1, <2>6, <2>7, Found
  <2>9. n \in 1 .. Len(fields[i].value.items)
    <3> HIDE DEF fields
    <3> QED
      BY <1>1, <2>5, <2>6, <2>8, SeqFacts DEF Fine
  <2>10. x = RefAt(fields, i, n)
    <3> HIDE DEF fields
    <3> QED
      BY <2>5, <2>6, <2>8 DEF RefAt
  <2> HIDE DEF fields
  <2> QED
    BY <2>5, <2>6, <2>9, <2>10 DEF RefsAt
<1> HIDE DEF fields, refs
<1>4. IsFiniteSet(all)
  BY <1>1, FiniteRefs
<1> HIDE DEF all
<1>5. IsFiniteSet(FieldRefs(refs))
  BY <1>3, <1>4, FS_Subset
<1> QED
  BY <1>3, <1>5 DEF ScanOK, refs

-----------------------------------------------------------------------------
(* The fields `mv` writes: a list stays a list, and another value becomes  *)
(* a text.                                                                 *)

Rewritten(before, after) ==
    \A name : HasField(before, name) =>
      IF FieldValue(before, name).type = "List" THEN FieldValue(after, name).type = "List"
      ELSE \/ FieldValue(after, name) = FieldValue(before, name)
           \/ \E text : FieldValue(after, name) = TextValue(text)

LEMMA RewriteTyped ==
    ASSUME NEW original, NEW r
    PROVE  /\ Typed(RewriteCall(original, r)) /\ Touches(RewriteCall(original, r)) = {r.field}
           /\ Removes(RewriteCall(original, r)) = {}
<1>1. CASE HoldsList(original, r.field)
  BY <1>1 DEF RewriteCall, ReplaceCall, Typed, Touches, Removes, Calls
<1>2. CASE ~HoldsList(original, r.field)
  <2>1. Sequence(TextValue(moved_name(r)).items)
    BY OneItem DEF TextValue
  <2> QED
    BY <1>2, <2>1, PutTyped DEF RewriteCall
<1> QED
  BY <1>1, <1>2

LEMMA RewriteStep ==
    ASSUME NEW original, NEW fields, Fine(fields),
           \A name : HasField(original, name) => HasField(fields, name),
           Rewritten(original, fields), NEW r
    PROVE  Rewritten(original, Called(fields, RewriteCall(original, r)))
<1> DEFINE after == Called(fields, RewriteCall(original, r))
<1>1. ASSUME HoldsList(original, r.field) PROVE Rewritten(original, after)
  <2>1. after = replace_item(fields, r.field, r.written, moved_name(r))
    BY <1>1 DEF RewriteCall, ReplaceCall, Called
  <2> HIDE DEF after
  <2>2. CASE after = fields
    BY <2>2 DEF Rewritten
  <2>3. CASE \E items : Sequence(items) /\ HoldsList(fields, r.field) /\ after = Put(fields, r.field, ListValue(items))
    <3>1. PICK items : Sequence(items) /\ after = Put(fields, r.field, ListValue(items))
      BY <2>3
    <3>2. Sequence(ListValue(items).items) /\ ListValue(items).type = "List"
      BY <3>1 DEF ListValue
    <3>3. /\ FieldValue(after, r.field).type = "List"
          /\ \A other : other # r.field /\ HasField(fields, other) => FieldValue(after, other) = FieldValue(fields, other)
      BY <3>1, <3>2, PutIs
    <3>4. \A name : HasField(original, name) /\ name # r.field => FieldValue(after, name) = FieldValue(fields, name)
      BY <3>3
    <3>5. FieldValue(original, r.field).type = "List"
      BY <1>1 DEF HoldsList
    <3> QED
      BY <3>3, <3>4, <3>5 DEF Rewritten
  <2> QED
    BY <2>1, <2>2, <2>3, ReplacedIs
<1>2. ASSUME ~HoldsList(original, r.field) PROVE Rewritten(original, after)
  <2>1. after = Put(fields, r.field, TextValue(moved_name(r)))
    BY <1>2 DEF RewriteCall, PutCall, Called
  <2>2. Sequence(TextValue(moved_name(r)).items)
    BY OneItem DEF TextValue
  <2> HIDE DEF after
  <2>3. /\ FieldValue(after, r.field) = TextValue(moved_name(r))
        /\ \A other : other # r.field /\ HasField(fields, other) => FieldValue(after, other) = FieldValue(fields, other)
    BY <2>1, <2>2, PutIs
  <2>4. \A name : HasField(original, name) /\ name # r.field => FieldValue(after, name) = FieldValue(fields, name)
    BY <2>3
  <2>5. HasField(original, r.field) => FieldValue(original, r.field).type # "List"
    BY <1>2 DEF HoldsList
  <2> QED
    BY <2>3, <2>4, <2>5 DEF Rewritten
<1> QED
  BY <1>1, <1>2

LEMMA RewriteKeeps ==
    ASSUME NEW fields, Fine(fields), NEW refs, IsFiniteSet(FieldRefs(refs))
    PROVE  /\ Keeps(fields, RewriteFields(fields, refs), {r.field : r \in FieldRefs(refs)}, {})
           /\ Rewritten(fields, RewriteFields(fields, refs))
<1> DEFINE found == SetToSeq(FieldRefs(refs))
           m == Len(found)
           calls == [n \in DOMAIN found |-> RewriteCall(fields, found[n])]
           touched == {r.field : r \in FieldRefs(refs)}
<1>1. m \in Nat /\ DOMAIN found = 1 .. m /\ \A i \in 1 .. m : found[i] \in FieldRefs(refs)
  BY SeqOfSet
<1>2. RewriteFields(fields, refs) = Told(fields, calls)
  BY DEF RewriteFields
<1>3. calls = [n \in 1 .. m |-> calls[n]] /\ \A n \in 1 .. m : calls[n] = RewriteCall(fields, found[n])
  BY <1>1
<1>4. \A n \in 1 .. m : found[n].field \in touched
  BY <1>1
<1> HIDE DEF found, m, calls, touched
<1>5. Len(calls) = m
  BY <1>1, <1>3, SeqMade
<1>6. \A n \in 1 .. m : Typed(calls[n]) /\ Touches(calls[n]) \subseteq touched /\ Removes(calls[n]) \subseteq {}
  BY <1>3, <1>4, RewriteTyped
<1>7. Keeps(fields, Told(fields, calls), touched, {})
  BY <1>1, <1>5, <1>6, ToldKeeps
<1>8. Rewritten(fields, Told(fields, calls))
  <2>1. PICK f : /\ f[0] = fields /\ Told(fields, calls) = f[m]
                 /\ \A n \in Nat : n < m => f[n + 1] = Called(f[n], calls[n + 1])
    BY <1>1, <1>5, ToldIs
  <2> DEFINE S == {n \in Nat : /\ Keeps(fields, f[n], touched, {}) /\ Rewritten(fields, f[n])}
  <2>2. 0 \in S
    BY <2>1, KeepsItself DEF Rewritten
  <2>3. ASSUME NEW n \in Nat, n < m, n \in S PROVE n + 1 \in S
    <3>1. /\ Keeps(fields, f[n], touched, {}) /\ Rewritten(fields, f[n]) /\ n + 1 \in 1 .. m
          /\ f[n + 1] = Called(f[n], calls[n + 1])
      BY <1>1, <2>1, <2>3
    <3>2. Fine(f[n]) /\ \A name : HasField(fields, name) => HasField(f[n], name)
      BY <3>1 DEF Keeps
    <3>3. Keeps(f[n], f[n + 1], touched, {})
      <4>1. Keeps(f[n], f[n + 1], Touches(calls[n + 1]), Removes(calls[n + 1]))
        BY <1>6, <3>1, <3>2, CallKeeps
      <4> QED
        BY <1>6, <3>1, <4>1, KeepsMore
    <3>4. Keeps(fields, f[n + 1], touched, {})
      BY <3>1, <3>3, KeepsOn
    <3>5. Rewritten(fields, f[n + 1])
      BY <1>3, <3>1, <3>2, RewriteStep
    <3> QED
      BY <3>4, <3>5
  <2> HIDE DEF S
  <2>4. \A n \in 0 .. m : n \in S
    BY <1>1, <2>2, <2>3, UpTo
  <2> QED
    BY <1>1, <2>1, <2>4 DEF S
<1> QED
  BY <1>2, <1>7, <1>8 DEF touched

-----------------------------------------------------------------------------
(* No command breaks the block.                                            *)

Errors(f, s) == {e \in check_document(f, s, How) : e.level = "error"}

\* NoCommandBreaksTheBlock, of two texts.
Unbroken(s, f, g, op) ==
    LET before == ReadFields(f, s)
        after == ReadFields(g, s)
    IN  /\ \A e \in Errors(g, s) : op \notin {"set", "new"} /\ (e \in Errors(f, s) \/ ~HasField(before, e.field))
        /\ check_transitions(s, before, after) = {}

LEMMA UnrefusedIs ==
    ASSUME NEW s, NEW f, NEW g, NEW op, NEW found, NEW before, NEW after,
           before = ReadFields(f, s), after = ReadFields(g, s),
           check_document(g, s, How) \subseteq found, check_transitions(s, before, after) \subseteq found,
           ~Refused(found)
    PROVE  Unbroken(s, f, g, op)
<1>1. Errors(g, s) = {}
  BY DEF Errors, Refused
<1>2. check_transitions(s, before, after) = {}
  <2>1. \A e \in check_transitions(s, before, after) : e.level = "error"
    <3>1. \A r, n : Finding("error", r, n).level = "error"
      BY DEF Finding
    <3> QED
      BY <3>1, Zenon DEF check_transitions
  <2> QED
    BY <2>1 DEF Refused
<1> QED
  BY <1>1, <1>2 DEF Unbroken

\* What a document says of one field, and of those it has to have.
FieldFindings(s, name, value) ==
    LET level == effective_level("warn", "frontmatter.unknown", How.global, How.collection, How.strict, How.audit)
    IN  IF ~Declares(s, name) THEN AtLevel(level, "frontmatter.unknown", name, 0)
        ELSE IF \/ ~fits(Declared(s, name).kind, value)
                \/ Declared(s, name).kind = "enum" /\ ~Contains(Declared(s, name).values, enum_text(value))
             THEN {TypesError(name)} ELSE {}

LEMMA FoundIn ==
    ASSUME NEW s, NEW f, Readable(f), NEW e
    PROVE  e \in check_document(f, s, How) <=>
             LET fields == ReadFields(f, s)
             IN  \/ \E field \in ToSet(s.fields) : /\ field.required /\ ~HasField(fields, field.name)
                                                   /\ e = TypesError(field.name)
                 \/ \E i \in DOMAIN fields : e \in FieldFindings(s, fields[i].name, fields[i].value)
<1> DEFINE fields == ReadFields(f, s)
           Missing == {TypesError(field.name) : field \in {x \in ToSet(s.fields) : x.required /\ ~HasField(fields, x.name)}}
           each == UNION {FieldFindings(s, fields[i].name, fields[i].value) : i \in DOMAIN fields}
<1>1. check_document(f, s, How) = Missing \cup each
  BY DEF check_document, FieldFindings
<1>2. e \in Missing <=> \E field \in ToSet(s.fields) : /\ field.required /\ ~HasField(fields, field.name)
                                                       /\ e = TypesError(field.name)
  OBVIOUS
<1>3. e \in each <=> \E i \in DOMAIN fields : e \in FieldFindings(s, fields[i].name, fields[i].value)
  OBVIOUS
<1> HIDE DEF Missing, each
<1> QED
  BY <1>1, <1>2, <1>3

LEMMA FieldFindingIs ==
    ASSUME NEW s, NEW name, NEW value, NEW e \in FieldFindings(s, name, value)
    PROVE  e.field = name
BY DEF FieldFindings, AtLevel, FindingAt, TypesError, Finding

LEMMA DeclaredIs ==
    ASSUME NEW s, Resolves(s), NEW i \in 1 .. Len(s.fields)
    PROVE  Declares(s, s.fields[i].name) /\ Declared(s, s.fields[i].name) = s.fields[i]
<1>1. DOMAIN s.fields = 1 .. Len(s.fields)
  BY SeqFacts DEF Resolves
<1>2. \A j \in DOMAIN s.fields : s.fields[j].name = s.fields[i].name => j = i
  BY <1>1 DEF Resolves
<1> QED
  BY <1>1, <1>2 DEF Declares, Declared

\* The texts differ in fields that hold refs or moves, and none of these fits less than it did.
Milder(s, before, after, touched) ==
    \A name \in touched : HasField(before, name) =>
      /\ Declares(s, name) /\ Declared(s, name).kind \in {"ref", "ref[]", "list"}
      /\ \/ fits(Declared(s, name).kind, FieldValue(after, name))
         \/ ~fits(Declared(s, name).kind, FieldValue(before, name))

LEMMA MilderIs ==
    ASSUME NEW s, Resolves(s), NEW f, NEW g, Readable(f), Readable(g), NEW op, op \notin {"set", "new"},
           NEW before, NEW after, before = ReadFields(f, s), after = ReadFields(g, s), Fine(before),
           NEW touched, Keeps(before, after, touched, {}), Milder(s, before, after, touched)
    PROVE  Unbroken(s, f, g, op)
<1>1. /\ Fine(after)
      /\ \A name : HasField(before, name) => HasField(after, name)
      /\ \A name : name \notin touched /\ HasField(before, name) => FieldValue(after, name) = FieldValue(before, name)
  BY DEF Keeps
<1>2. DOMAIN before = 1 .. Len(before) /\ DOMAIN after = 1 .. Len(after)
  BY <1>1, SeqFacts DEF Fine
<1>3. ASSUME NEW e \in Errors(g, s), HasField(before, e.field) PROVE e \in Errors(f, s)
  <2>1. e \in check_document(g, s, How) /\ e.level = "error"
    BY DEF Errors
  <2>2. CASE \E field \in ToSet(s.fields) : /\ field.required /\ ~HasField(after, field.name)
                                            /\ e = TypesError(field.name)
    <3>1. PICK field \in ToSet(s.fields) : field.required /\ ~HasField(after, field.name) /\ e = TypesError(field.name)
      BY <2>2
    <3>2. ~HasField(before, field.name)
      BY <1>1, <3>1
    <3>3. e \in check_document(f, s, How)
      BY <3>1, <3>2, FoundIn
    <3> QED
      BY <2>1, <3>3 DEF Errors
  <2>3. CASE \E i \in DOMAIN after : e \in FieldFindings(s, after[i].name, after[i].value)
    <3>1. PICK i \in DOMAIN after : e \in FieldFindings(s, after[i].name, after[i].value)
      BY <2>3
    <3> DEFINE name == after[i].name
               j == FieldAt(before, name)
    <3>2. e.field = name /\ HasField(before, name)
      BY <1>3, <3>1, FieldFindingIs
    <3>3. FieldValue(after, name) = after[i].value
      BY <1>1, <1>2, Found
    <3>4. j \in DOMAIN before /\ before[j].name = name /\ FieldValue(before, name) = before[j].value
      BY <1>2, <3>2, Found
    <3> HIDE DEF name, j
    <3>5. e \in FieldFindings(s, name, FieldValue(before, name))
      <4>1. e \in FieldFindings(s, name, FieldValue(after, name))
        BY <3>1, <3>3 DEF name
      <4>2. CASE name \notin touched
        BY <1>1, <3>2, <4>1, <4>2
      <4>3. CASE name \in touched
        <5>1. /\ Declares(s, name) /\ Declared(s, name).kind # "enum"
              /\ \/ fits(Declared(s, name).kind, FieldValue(after, name))
                 \/ ~fits(Declared(s, name).kind, FieldValue(before, name))
          BY <3>2, <4>3 DEF Milder
        <5>2. \A v : FieldFindings(s, name, v) = IF ~fits(Declared(s, name).kind, v) THEN {TypesError(name)} ELSE {}
          BY <5>1 DEF FieldFindings
        <5> QED
          BY <4>1, <5>1, <5>2
      <4> QED
        BY <4>2, <4>3
    <3>6. e \in check_document(f, s, How)
      BY <3>4, <3>5, FoundIn
    <3> QED
      BY <2>1, <3>6 DEF Errors
  <2> QED
    BY <2>1, <2>2, <2>3, FoundIn
<1>4. check_transitions(s, before, after) = {}
  <2> SUFFICES ASSUME NEW x \in check_transitions(s, before, after) PROVE FALSE
    OBVIOUS
  <2>1. PICK field \in ToSet(s.fields) :
          /\ field.transitions # <<>> /\ HasField(before, field.name)
          /\ ~SameValue(FieldValue(before, field.name), FieldValue(after, field.name))
    BY Zenon DEF check_transitions
  <2>2. PICK i \in 1 .. Len(s.fields) : s.fields[i] = field
    BY SeqFacts DEF Resolves, ToSet
  <2>3. Declared(s, field.name) = field /\ field.kind = "enum"
    BY <2>1, <2>2, DeclaredIs DEF Resolves
  <2>4. field.name \notin touched
    BY <2>1, <2>3 DEF Milder
  <2>5. FieldValue(after, field.name) = FieldValue(before, field.name)
    BY <1>1, <2>1, <2>4
  <2>6. \A v : SameValue(v, v)
    BY DEF SameValue
  <2> QED
    BY <2>1, <2>5, <2>6
<1> QED
  BY <1>3, <1>4 DEF Unbroken

\* A text that says the same breaks nothing either.
LEMMA SameBreaksNothing ==
    ASSUME NEW s, Resolves(s), NEW f, NEW g, TextFile(f), Readable(f), Readable(g), NEW op, op \notin {"set", "new"},
           ReadFields(g, s) = ReadFields(f, s)
    PROVE  Unbroken(s, f, g, op)
<1> DEFINE fields == ReadFields(f, s)
<1>1. Fine(fields)
  BY ReadIs
<1> HIDE DEF fields
<1>2. Keeps(fields, fields, {}, {}) /\ Milder(s, fields, fields, {})
  BY <1>1, KeepsItself DEF Milder
<1> QED
  BY <1>1, <1>2, MilderIs DEF fields

\* What `mv` writes.
LEMMA AssembledIs ==
    ASSUME NEW f, TextFile(f), Readable(f), NEW written, Fine(written), NEW body, NEW s
    PROVE  LET g == assemble_frontmatter(f.block = "closed", finish(written), body)
           IN  /\ TextFile(g) /\ Readable(g)
               /\ \/ g = splice(finish(written), body)
                  \/ ReadFields(g, s) = ReadFields(f, s)
<1> DEFINE g == assemble_frontmatter(f.block = "closed", finish(written), body)
<1>1. CASE f.block = "closed"
  BY <1>1, FinishIs DEF assemble_frontmatter
<1>2. CASE f.block # "closed"
  <2>1. g = [block |-> "none", entries |-> <<>>, body |-> body]
    BY <1>2 DEF assemble_frontmatter, NoBlock
  <2>2. f.entries = <<>> /\ Sequence(<<>>) /\ Len(<<>>) = 0 /\ DOMAIN <<>> = {}
    BY <1>2, EmptySeq, SeqIn DEF TextFile
  <2> HIDE DEF g
  <2>3. g.entries = f.entries /\ g.block = "none"
    BY <2>1, <2>2
  <2>4. TextFile(g)
    BY <2>1, <2>2 DEF TextFile
  <2>5. Readable(g)
    BY <2>2, <2>3 DEF Readable, Splits
  <2>6. ReadFields(g, s) = ReadFields(f, s)
    BY <2>3 DEF ReadFields
  <2> QED
    BY <2>4, <2>5, <2>6 DEF g
<1> QED
  BY <1>1, <1>2

LEMMA RewriteUnbroken ==
    ASSUME TextFile(file), Readable(file), Resolves(schema), NEW refs, ScanOK(refs)
    PROVE  LET g == rewrite_holder(file, refs)
           IN  TextFile(g) /\ Unbroken(schema, file, g, "mv")
<1> DEFINE before == ReadFields(file, schema)
           body == RewriteBody(file, refs)
           written == RewriteFields(before, refs)
           g == rewrite_holder(file, refs)
           touched == {r.field : r \in FieldRefs(refs)}
<1>1. Fine(before) /\ Fields(file) = before
  BY ReadIs DEF Fields
<1>2. CASE FieldRefs(refs) = {}
  <2>1. g = [file EXCEPT !.body = body]
    BY <1>2 DEF rewrite_holder
  <2> HIDE DEF body, g
  <2>2. g = [block |-> file.block, entries |-> file.entries, body |-> body]
    BY <2>1 DEF TextFile
  <2>3. TextFile(g)
    BY <2>2 DEF TextFile
  <2>4. Readable(g)
    BY <2>2 DEF Readable, Splits
  <2>5. ReadFields(g, schema) = ReadFields(file, schema)
    BY <2>2 DEF ReadFields
  <2>6. "mv" \notin {"set", "new"}
    OBVIOUS
  <2> QED
    BY <2>3, <2>4, <2>5, <2>6, SameBreaksNothing DEF g
<1>3. CASE FieldRefs(refs) # {}
  <2>1. g = assemble_frontmatter(file.block = "closed", finish(written), body)
    BY <1>1, <1>3 DEF rewrite_holder
  <2>2. Keeps(before, written, touched, {}) /\ Rewritten(before, written)
    <3> HIDE DEF before
    <3> QED
      BY <1>1, RewriteKeeps DEF ScanOK
  <2>3. Fine(written)
    BY <2>2 DEF Keeps
  <2> DEFINE after == ReadFields(splice(finish(written), body), schema)
  <2>4. Keeps(before, after, touched, {})
    <3> HIDE DEF written, touched, body
    <3> QED
      BY <2>2, WrittenKeeps
  <2>5. \A name : /\ HasField(after, name) <=> HasField(written, name)
                  /\ HasField(written, name) =>
                       FieldValue(after, name) = ReadAs(schema, name, FieldValue(written, name))
    <3> HIDE DEF written, body
    <3> QED
      BY <2>3, ReadsBack
  <2> HIDE DEF before, body, written, g, after
  <2>6. ASSUME NEW name \in touched, HasField(before, name)
        PROVE  /\ Declares(schema, name) /\ Declared(schema, name).kind \in RefKinds
               /\ \/ fits(Declared(schema, name).kind, FieldValue(after, name))
                  \/ ~fits(Declared(schema, name).kind, FieldValue(before, name))
    <3> DEFINE kind == Declared(schema, name).kind
    <3>1. Declares(schema, name) /\ kind \in RefKinds
      BY DEF ScanOK
    <3>2. HasField(written, name) /\ FieldValue(after, name) = ReadAs(schema, name, FieldValue(written, name))
      BY <2>2, <2>5, <2>6 DEF Keeps
    <3>3. ReadAs(schema, name, FieldValue(before, name)) = FieldValue(before, name)
      BY <2>6, Stable DEF before
    <3>4. ASSUME NEW v, v.type = "List" PROVE ReadAs(schema, name, v).type = "List"
      <4>1. WrittenOf(v) = ListValue(v.items)
        BY <3>4 DEF WrittenOf
      <4>2. ListValue(v.items).type = "List"
        BY DEF ListValue
      <4> QED
        BY <3>1, <4>1, <4>2, CoerceOther DEF ReadAs, TypedBy
    <3>5. ASSUME NEW text PROVE ReadAs(schema, name, TextValue(text)).type = "Text"
      <4>1. WrittenOf(TextValue(text)) = TextValue(text) /\ TextValue(text).type = "Text"
        BY DEF WrittenOf, TextValue
      <4>2. PICK type \in {"Text", "Number", "Bool", "Date", "Datetime"} :
              /\ coerce(kind, TextValue(text)) = [type |-> type, items |-> <<text>>]
              /\ kind \notin {"number", "bool", "date", "datetime"} => type = "Text"
        BY CoerceText
      <4>3. kind \notin {"number", "bool", "date", "datetime"}
        BY <3>1 DEF RefKinds
      <4> QED
        BY <3>1, <4>1, <4>2, <4>3 DEF ReadAs, TypedBy
    <3> HIDE DEF kind
    <3>6. CASE FieldValue(before, name).type = "List"
      <4>1. FieldValue(after, name).type = "List"
        BY <2>2, <2>6, <3>2, <3>4, <3>6 DEF Rewritten
      <4> QED
        BY <3>1, <3>6, <4>1 DEF fits, RefKinds, TextTypes, ListTypes, kind
    <3>7. CASE FieldValue(before, name).type # "List"
      <4>1. CASE FieldValue(written, name) = FieldValue(before, name)
        BY <3>1, <3>2, <3>3, <4>1 DEF kind
      <4>2. CASE \E text : FieldValue(written, name) = TextValue(text)
        <5>1. FieldValue(after, name).type = "Text"
          BY <3>2, <3>5, <4>2
        <5> QED
          BY <3>1, <3>7, <5>1 DEF fits, RefKinds, TextTypes, ListTypes, kind
      <4> QED
        BY <2>2, <2>6, <3>7, <4>1, <4>2 DEF Rewritten
    <3> QED
      BY <3>6, <3>7
  <2>7. Milder(schema, before, after, touched)
    <3> HIDE DEF touched
    <3> QED
      BY <2>6 DEF Milder, RefKinds
  <2>8. TextFile(g) /\ Readable(g) /\ (g = splice(finish(written), body) \/ ReadFields(g, schema) = ReadFields(file, schema))
    BY <2>1, <2>3, AssembledIs
  <2>9. "mv" \notin {"set", "new"}
    OBVIOUS
  <2>10. CASE g = splice(finish(written), body)
    <3>1. after = ReadFields(g, schema)
      BY <2>10 DEF after
    <3> HIDE DEF touched
    <3> QED
      BY <1>1, <2>4, <2>7, <2>8, <2>9, <3>1, MilderIs DEF before, g
  <2>11. CASE ReadFields(g, schema) = ReadFields(file, schema)
    BY <2>8, <2>9, <2>11, SameBreaksNothing DEF g
  <2> QED
    BY <2>8, <2>10, <2>11
<1> QED
  BY <1>2, <1>3

LEMMA RecordUnbroken ==
    ASSUME TextFile(file), Readable(file), Resolves(schema), AutoFields({"moves"}) # {}
    PROVE  LET g == RecordMove(file)
           IN  TextFile(g) /\ Unbroken(schema, file, g, "mvItself")
<1> DEFINE name == MovesField.name
           before == ReadFields(file, schema)
           value == ListValue(IF HoldsList(before, name) THEN Append(FieldValue(before, name).items, PreviousName)
                              ELSE <<PreviousName>>)
           written == Put(before, name, value)
           g == RecordMove(file)
           assembled == assemble_frontmatter(file.block = "closed", finish(written), file.body)
<1>1. Fine(before) /\ Fields(file) = before
  BY ReadIs DEF Fields
<1>2. "mvItself" \notin {"set", "new"}
  OBVIOUS
<1>3. g = file \/ g = assembled
  BY <1>1, Zenon DEF RecordMove, append_item
<1>4. CASE g = file
  BY <1>2, <1>4, SameBreaksNothing
<1>5. CASE g = assembled
  <2>1. Declares(schema, name) /\ Declared(schema, name).kind = "list"
    <3> DEFINE T == {i \in 1 .. Len(schema.fields) : schema.fields[i].auto = "moves"}
    <3>1. Len(schema.fields) \in Nat /\ DOMAIN schema.fields = 1 .. Len(schema.fields)
      BY SeqFacts DEF Resolves
    <3>2. T # {} /\ T \subseteq Nat
      BY <3>1 DEF AutoFields, ToSet
    <3>3. PICK m \in T : \A k \in T : m <= k
      BY <3>2, LeastNat
    <3>4. \E i \in 1 .. Len(schema.fields) : schema.fields[i].auto = "moves" /\ MovesField = schema.fields[i]
      BY <3>1, <3>3 DEF MovesField
    <3> QED
      BY <3>4, DeclaredIs DEF Resolves
  <2>2. Sequence(value.items) /\ value.type = "List"
    <3>1. CASE HoldsList(before, name)
      <4> HIDE DEF before, name
      <4>1. Sequence(FieldValue(before, name).items)
        <5>1. HasField(before, name)
          BY <3>1 DEF HoldsList
        <5>2. FieldAt(before, name) \in 1 .. Len(before) /\ FieldValue(before, name) = before[FieldAt(before, name)].value
          BY <1>1, <5>1, Found
        <5> QED
          BY <1>1, <5>2 DEF Fine
      <4> QED
        BY <3>1, <4>1, SeqAppend DEF ListValue
    <3>2. CASE ~HoldsList(before, name)
      BY <3>2, OneItem DEF ListValue
    <3> QED
      BY <3>1, <3>2
  <2> HIDE DEF name, value
  <2>3. Keeps(before, written, {name}, {}) /\ FieldValue(written, name) = value /\ HasField(written, name) /\ Fine(written)
    <3> HIDE DEF before
    <3> QED
      BY <1>1, <2>2, PutIs, PutKeeps
  <2> DEFINE after == ReadFields(splice(finish(written), file.body), schema)
  <2> HIDE DEF written
  <2>4. Keeps(before, after, {name}, {})
    BY <2>3, WrittenKeeps
  <2>5. FieldValue(after, name) = ReadAs(schema, name, value)
    BY <2>3, ReadsBack
  <2>6. ReadAs(schema, name, value).type = "List"
    <3>1. WrittenOf(value) = ListValue(value.items) /\ ListValue(value.items).type = "List"
      BY <2>2 DEF WrittenOf, ListValue
    <3> QED
      BY <2>1, <3>1, CoerceOther DEF ReadAs, TypedBy
  <2> HIDE DEF before, g, after
  <2>7. Milder(schema, before, after, {name})
    <3>1. fits("list", FieldValue(after, name))
      BY <2>5, <2>6 DEF fits, ListTypes
    <3> QED
      BY <2>1, <3>1 DEF Milder
  <2>8. TextFile(g) /\ Readable(g) /\ (g = splice(finish(written), file.body) \/ ReadFields(g, schema) = ReadFields(file, schema))
    BY <1>5, <2>3, AssembledIs
  <2>9. CASE g = splice(finish(written), file.body)
    <3>1. after = ReadFields(g, schema)
      BY <2>9 DEF after
    <3> QED
      BY <1>1, <1>2, <2>4, <2>7, <2>8, <3>1, MilderIs DEF before, g
  <2>10. CASE ReadFields(g, schema) = ReadFields(file, schema)
    BY <1>2, <2>8, <2>10, SameBreaksNothing DEF g
  <2> QED
    BY <2>8, <2>9, <2>10 DEF g
<1> QED
  BY <1>3, <1>4, <1>5

-----------------------------------------------------------------------------
(* The inductive invariant: what the last command left says what it says,  *)
(* and a scan, however old, names fields of refs.                          *)

EditInv ==
    /\ schema \in Schemas \cup {NoSchema}
    /\ TextFile(file)
    /\ ScanOK(scan.refs)
    /\ report.op = "set" =>
         /\ Says(schema, report.before, file, report.ops, report.clock)
         /\ report.fields = Fields(file)
    /\ report.op # "hand" /\ file # Absent /\ Collected => Unbroken(schema, report.before, file, report.op)

LEMMA SchemaResolves ==
    ASSUME NEW s \in Schemas \cup {NoSchema}
    PROVE  Resolves(s)
<1>1. /\ Sequence(s.fields)
      /\ \A i, j \in DOMAIN s.fields : s.fields[i].name = s.fields[j].name => i = j
      /\ \A i \in DOMAIN s.fields :
           /\ s.fields[i].transitions # <<>> => s.fields[i].kind = "enum"
           /\ s.fields[i].auto = "moves" => s.fields[i].kind = "list"
           /\ s.fields[i].default # <<>> => Sequence(s.fields[i].default[1].items)
  BY SchemasAreResolved, Zenon
<1>2. DOMAIN s.fields = 1 .. Len(s.fields)
  BY <1>1, SeqFacts
<1> QED
  BY <1>1, <1>2 DEF Resolves

LEMMA SetOK ==
    ASSUME NEW ops \in Sets
    PROVE  OpsOK(ops)
<1>1. Sequence(ops) /\ \A i \in DOMAIN ops : Sequence(ops[i].raw)
  BY SetsAreTexts
<1>2. DOMAIN ops = 1 .. Len(ops)
  BY <1>1, SeqFacts
<1>3. ASSUME NEW i \in 1 .. Len(ops)
      PROVE  Len(ops[i].raw) \in Nat
  <2>1. Sequence(ops[i].raw)
    BY <1>1, <1>2
  <2> QED
    BY <2>1, SeqFacts
<1> QED
  BY <1>1, <1>3 DEF OpsOK

LEMMA NewOK ==
    ASSUME NEW ops \in Sets
    PROVE  OpsOK(NewOps(ops))
<1>1. OpsOK(ops)
  BY SetOK
<1>2. CASE schema.code = NoText
  BY <1>1, <1>2 DEF NewOps
<1>3. CASE schema.code # NoText
  <2> DEFINE all == <<Title>> \o ops
             S == ToSet(ops) \cup {Title}
  <2>1. ops \in Seq(S) /\ <<Title>> \in Seq(S) /\ Len(<<Title>>) = 1 /\ <<Title>>[1] = Title
    <3>1. ops \in Seq(ToSet(ops))
      BY <1>1 DEF OpsOK, Sequence
    <3> HIDE DEF Title
    <3> QED
      BY <3>1
  <2>2. all \in Seq(S)
    BY <2>1 DEF Title
  <2>3. ASSUME NEW i \in 1 .. Len(all)
        PROVE  Len(all[i].raw) \in Nat
    <3>1. all[i] \in S
      BY <2>2
    <3>2. Len(Title.raw) \in Nat
      BY DEF Title
    <3>3. \A op \in ToSet(ops) : Len(op.raw) \in Nat
      BY <1>1, SeqFacts DEF OpsOK, ToSet
    <3> QED
      BY <3>1, <3>2, <3>3
  <2>4. Sequence(all)
    BY <2>2, SeqIn
  <2>5. NewOps(ops) = all
    BY <1>3 DEF NewOps
  <2> HIDE DEF all
  <2> QED
    BY <2>3, <2>4, <2>5 DEF OpsOK
<1> QED
  BY <1>2, <1>3

LEMMA LeftIsText ==
    ASSUME NEW f \in HandFiles \cup {Absent}
    PROVE  TextFile(f)
<1>1. CASE f = Absent
  <2>1. Sequence(<<>>)
    BY SeqMade DEF Sequence
  <2> QED
    BY <1>1, <2>1 DEF TextFile, Absent
<1>2. CASE f \in HandFiles
  <2>1. /\ f = [block |-> f.block, entries |-> f.entries, body |-> f.body]
        /\ f.block # "closed" => f.entries = <<>>
        /\ Sequence(f.entries) /\ \A i \in DOMAIN f.entries : Sequence(f.entries[i].items)
    BY <1>2, FilesAreTexts, Zenon
  <2>2. DOMAIN f.entries = 1 .. Len(f.entries)
    BY <2>1, SeqFacts
  <2> QED
    BY <2>1, <2>2 DEF TextFile
<1> QED
  BY <1>1, <1>2

LEMMA NothingFound ==
    ScanOK(Idle.refs)
<1>1. FieldRefs(Idle.refs) = {}
  BY DEF FieldRefs, Idle
<1> QED
  BY <1>1, FS_EmptySet DEF ScanOK

\* A schema that is none updates nothing, and a body changes no field.
LEMMA NoneUpdates ==
    UpdatedOf(NoSchema) = {}
BY DEF UpdatedOf, NoSchema, ToSet

LEMMA BodyApart ==
    ASSUME NEW block, NEW body, NEW other, NEW s
    PROVE  ReadFields(splice(block, body), s) = ReadFields(splice(block, other), s)
BY DEF ReadFields, splice, Closed

\* The last report, part by part.
LEMMA ReportIs ==
    ASSUME NEW op, NEW ops, NEW before, NEW fields
    PROVE  LET r == Report(op, ops, before, fields)
           IN  r.op = op /\ r.ops = ops /\ r.before = before /\ r.fields = fields /\ r.clock = clock
BY DEF Report

LEMMA SetStep ==
    ASSUME EditInv, NEW ops \in Sets, NEW ifs \in Ifs, set_collected(ops, ifs)
    PROVE  EditInv'
<1> DEFINE before == Fields(file)
           candidate == splice(finish(SetFields(before, ops)), file.body)
           after == Fields(candidate)
<1>1. Resolves(schema) /\ OpsOK(ops) /\ TextFile(file) /\ Readable(file) /\ check_auto_direct(schema, ops) = {}
  BY SchemaResolves, SetOK DEF EditInv, set_collected
<1>2. /\ ~Refused(SetFindings(before, candidate, after))
      /\ file' = candidate /\ report' = Report("set", ops, file, after)
      /\ schema' = schema /\ scan' = scan
  BY DEF set_collected
<1>3. TextFile(candidate) /\ Says(schema, file, candidate, ops, clock)
  BY <1>1, SetSays
<1>4. Unbroken(schema, file, candidate, "set")
  BY <1>2, UnrefusedIs DEF SetFindings, Fields
<1>5. /\ report'.op = "set" /\ report'.ops = ops /\ report'.before = file /\ report'.fields = after
      /\ report'.clock = clock
  BY <1>2, ReportIs
<1>6. ScanOK(scan.refs)' /\ Fields(file)' = after
  BY <1>2 DEF EditInv, ScanOK, Fields
<1> HIDE DEF candidate, after
<1> QED
  BY <1>2, <1>3, <1>4, <1>5, <1>6 DEF EditInv

LEMMA LooseStep ==
    ASSUME EditInv, NEW ops \in Sets, NEW ifs \in Ifs, set_loose(ops, ifs)
    PROVE  EditInv'
<1> DEFINE block == finish(apply_ops(Fields(file), ops))
           written == splice(block, file.body)
<1>1. OpsOK(ops) /\ TextFile(file) /\ Readable(file) /\ schema = NoSchema
  BY SetOK DEF EditInv, set_loose, Collected
<1>2. /\ file' = written /\ report' = Report("set", ops, file, Fields(splice(block, <<>>)))
      /\ schema' = schema /\ scan' = scan
  BY DEF set_loose
<1>3. TextFile(written) /\ Says(schema, file, written, ops, clock)
  BY <1>1, NoneUpdates, LooseSays
<1>4. /\ report'.op = "set" /\ report'.ops = ops /\ report'.before = file
      /\ report'.fields = Fields(splice(block, <<>>)) /\ report'.clock = clock
  BY <1>2, ReportIs
<1>5. ScanOK(scan.refs)' /\ Fields(file)' = Fields(written)
  BY <1>2 DEF EditInv, ScanOK, Fields
<1>6. Fields(splice(block, <<>>)) = Fields(written)
  BY BodyApart DEF Fields
<1>7. ~Collected'
  BY <1>1, <1>2 DEF Collected
<1> HIDE DEF block, written
<1> QED
  BY <1>2, <1>3, <1>4, <1>5, <1>6, <1>7 DEF EditInv

\* A document that was not there had no field to move along its transitions.
LEMMA NewMovesNothing ==
    ASSUME NEW s, NEW after
    PROVE  check_transitions(s, ReadFields(Absent, s), after) = {}
<1>1. ReadFields(Absent, s) = <<>>
  BY DEF ReadFields, Absent
<1>2. \A name : ~HasField(<<>>, name)
  BY NoFields, Found
<1> QED
  BY <1>1, <1>2, Zenon DEF check_transitions

LEMMA NewStep ==
    ASSUME EditInv, NEW ops \in Sets, new_document(ops)
    PROVE  EditInv'
<1> DEFINE all == NewOps(ops)
           candidate == splice(finish(new_block(all)), <<>>)
           fields == Fields(candidate)
           found == check_document(candidate, schema, How) \cup check_refs(fields) \cup CyclesFormed(<<>>, fields)
<1>1. Resolves(schema) /\ OpsOK(all) /\ file = Absent
  BY SchemaResolves, NewOK DEF EditInv, new_document
<1>2. /\ ~Refused(found)
      /\ file' = candidate /\ report' = Report("new", all, file, fields)
      /\ schema' = schema /\ scan' = scan
  BY DEF new_document
<1>3. TextFile(candidate)
  BY <1>1, NewFine, FinishIs
<1>4. Unbroken(schema, file, candidate, "new")
  <2> HIDE DEF candidate
  <2>1. check_transitions(schema, ReadFields(file, schema), ReadFields(candidate, schema)) = {}
    BY <1>1, NewMovesNothing
  <2> QED
    BY <1>2, <2>1, UnrefusedIs
<1>5. report'.op = "new" /\ report'.before = file
  BY <1>2, ReportIs
<1>6. ScanOK(scan.refs)'
  BY <1>2 DEF EditInv, ScanOK
<1> HIDE DEF all, candidate, fields, found
<1> QED
  BY <1>2, <1>3, <1>4, <1>5, <1>6 DEF EditInv

LEMMA MvStep ==
    ASSUME EditInv, MvScan \/ MvRewrite \/ MvItself
    PROVE  EditInv'
<1>1. Resolves(schema) /\ TextFile(file) /\ ScanOK(scan.refs)
  BY SchemaResolves DEF EditInv
<1>2. CASE MvScan
  <2>1. /\ schema' = schema /\ file' = file /\ report' = report
        /\ scan' = [at |-> file, refs |-> ScanRefs(file)]
    BY <1>2 DEF MvScan
  <2>2. ScanOK(ScanRefs(file))
    BY <1>1, ScanFinds
  <2>3. scan'.refs = ScanRefs(file)
    BY <2>1
  <2>4. ScanOK(scan.refs)'
    BY <2>1, <2>2, <2>3 DEF ScanOK
  <2>5. Fields(file)' = Fields(file) /\ (Collected' <=> Collected)
    BY <2>1 DEF Fields, Collected
  <2> QED
    BY <2>1, <2>4, <2>5 DEF EditInv
<1>3. CASE MvRewrite
  <2>1. schema' = schema /\ scan' = Idle
    BY <1>3 DEF MvRewrite
  <2>2. ScanOK(scan.refs)'
    BY <2>1, NothingFound DEF ScanOK
  <2>3. CASE Readable(file)
    <3>1. file' = rewrite_holder(file, scan.refs)
      BY <1>3, <2>3 DEF MvRewrite
    <3>2. report'.op = "mv" /\ report'.before = file
      BY <1>3, <2>3 DEF MvRewrite
    <3>3. TextFile(file') /\ Unbroken(schema, file, file', "mv")
      BY <1>1, <2>3, <3>1, RewriteUnbroken
    <3> QED
      BY <2>1, <2>2, <3>2, <3>3 DEF EditInv
  <2>4. CASE ~Readable(file)
    <3>1. file' = file /\ report' = report
      BY <1>3, <2>4 DEF MvRewrite
    <3>2. Fields(file)' = Fields(file) /\ (Collected' <=> Collected)
      BY <2>1, <3>1 DEF Fields, Collected
    <3> QED
      BY <2>1, <2>2, <3>1, <3>2 DEF EditInv
  <2> QED
    BY <2>3, <2>4
<1>4. CASE MvItself
  <2>1. /\ schema' = schema /\ scan' = scan /\ file' = RecordMove(file)
        /\ report' = Report("mvItself", <<>>, file, <<>>)
        /\ Readable(file) /\ AutoFields({"moves"}) # {}
    BY <1>4 DEF MvItself
  <2>2. TextFile(file') /\ Unbroken(schema, file, file', "mvItself")
    BY <1>1, <2>1, RecordUnbroken
  <2>3. report'.op = "mvItself" /\ report'.before = file
    BY <2>1, ReportIs
  <2>4. ScanOK(scan.refs)'
    BY <1>1, <2>1 DEF ScanOK
  <2> QED
    BY <2>1, <2>2, <2>3, <2>4 DEF EditInv
<1> QED
  BY <1>2, <1>3, <1>4

LEMMA HandStep ==
    ASSUME EditInv, EditByHand
    PROVE  EditInv'
<1>1. /\ schema' = schema /\ scan' = scan /\ file' \in HandFiles \cup {Absent}
      /\ report' = Report("hand", <<>>, file, <<>>)
  BY DEF EditByHand
<1>2. report'.op = "hand"
  BY <1>1, ReportIs
<1>3. TextFile(file')
  BY <1>1, LeftIsText
<1>4. ScanOK(scan.refs)'
  BY <1>1 DEF ScanOK, EditInv
<1> QED
  BY <1>1, <1>2, <1>3, <1>4 DEF EditInv

LEMMA SameKeeps ==
    ASSUME EditInv, UNCHANGED vars
    PROVE  EditInv'
<1>1. schema' = schema /\ file' = file /\ scan' = scan /\ report' = report
  BY DEF vars
<1>2. ScanOK(scan.refs)'
  BY <1>1 DEF ScanOK, EditInv
<1>3. Fields(file)' = Fields(file) /\ (Collected' <=> Collected)
  BY <1>1 DEF Fields, Collected
<1> QED
  BY <1>1, <1>2, <1>3 DEF EditInv

LEMMA EditStarts ==
    ASSUME Init
    PROVE  EditInv
<1>1. /\ schema \in Schemas \cup {NoSchema} /\ file \in HandFiles \cup {Absent} /\ scan = Idle
      /\ report = Report("hand", <<>>, Absent, <<>>)
  BY DEF Init
<1>2. report.op = "hand"
  BY <1>1, ReportIs
<1>3. TextFile(file) /\ ScanOK(scan.refs)
  BY <1>1, LeftIsText, NothingFound
<1> QED
  BY <1>1, <1>2, <1>3 DEF EditInv

\* However set, new, mv and a hand take turns, the invariant holds: the file is a text, what the
\* last command left is what it says, and the scan `mv` goes by names fields of refs.
THEOREM EditSafe == Spec => []EditInv
<1>1. Init => EditInv
  BY EditStarts
<1>2. EditInv /\ [Next]_vars => EditInv'
  <2> SUFFICES ASSUME EditInv, [Next]_vars
               PROVE  EditInv'
    OBVIOUS
  <2>1. \A ops \in Sets, ifs \in Ifs : set_collected(ops, ifs) \/ set_loose(ops, ifs) => EditInv'
    BY SetStep, LooseStep
  <2>2. \A ops \in Sets : new_document(ops) => EditInv'
    BY NewStep
  <2>3. MvScan \/ MvRewrite \/ MvItself => EditInv'
    BY MvStep
  <2>4. EditByHand => EditInv'
    BY HandStep
  <2>5. UNCHANGED vars => EditInv'
    BY SameKeeps
  <2> QED
    BY <2>1, <2>2, <2>3, <2>4, <2>5 DEF Next
<1> QED
  BY <1>1, <1>2, PTL DEF Spec

\* `set` writes the whole block anew and leaves every field it was not told to write with its
\* value and in its place, the body as it was, the stamps right, and prints what the file holds:
\* for any schema, any file it can read and any assignments.
THEOREM SetSaysSo == Spec => []SetChangesWhatItSays
<1>1. EditInv => SetChangesWhatItSays
  <2> SUFFICES ASSUME EditInv, report.op = "set"
               PROVE  SetChangesWhatItSays
    BY DEF SetChangesWhatItSays
  <2>1. Says(schema, report.before, file, report.ops, report.clock) /\ report.fields = Fields(file)
    BY DEF EditInv
  <2>2. Updated = UpdatedOf(schema)
    BY DEF Updated, UpdatedOf, AutoFields
  <2> QED
    BY <2>1, <2>2, Zenon DEF SetChangesWhatItSays, Says, Fields
<1> QED
  BY <1>1, EditSafe, PTL

\* set and new leave no error in the block, and mv adds none and moves no field along its
\* transitions, though it checks nothing it writes and its scan may be older than a write.
THEOREM CommandsBreakNothing == Spec => []NoCommandBreaksTheBlock
<1>1. EditInv => NoCommandBreaksTheBlock
  <2> SUFFICES ASSUME EditInv, report.op # "hand", file # Absent, Collected
               PROVE  NoCommandBreaksTheBlock
    BY DEF NoCommandBreaksTheBlock
  <2>1. Unbroken(schema, report.before, file, report.op)
    BY DEF EditInv
  <2> QED
    BY <2>1, Zenon DEF NoCommandBreaksTheBlock, Unbroken, Fields, ErrorsIn, Errors
<1> QED
  BY <1>1, EditSafe, PTL

-----------------------------------------------------------------------------
(* A line: its parts, and the links on it.                                 *)

LEMMA SubIs ==
    ASSUME NEW s, Sequence(s), NEW a \in Int, NEW b \in Int, 1 <= a, a <= b + 1, b <= Len(s)
    PROVE  LET t == SubSeq(s, a, b)
           IN  Sequence(t) /\ Len(t) = b - a + 1 /\ \A i \in 1 .. b - a + 1 : t[i] = s[a + i - 1]
<1> DEFINE S == ToSet(s)
           t == SubSeq(s, a, b)
<1>1. Len(s) \in Nat /\ \A i \in 1 .. Len(s) : s[i] \in S
  BY SeqFacts
<1> HIDE DEF S
<1>2. \A i \in a .. b : s[i] \in S
  BY <1>1
<1>3. Len(t) = IF a <= b THEN b - a + 1 ELSE 0
  BY <1>2, SubSeqProperties
<1>4. t \in Seq(S) /\ \A i \in 1 .. b - a + 1 : t[i] = s[a + i - 1]
  BY <1>2, SubSeqProperties
<1> HIDE DEF t
<1>5. Len(t) = b - a + 1
  BY <1>3
<1> QED
  BY <1>4, <1>5, SeqIn DEF t

Joined(s, t) == s \o t
IsJoined(j, s, t) ==
    /\ Sequence(j) /\ Len(j) = Len(s) + Len(t)
    /\ \A i \in 1 .. Len(s) : j[i] = s[i]
    /\ \A i \in 1 .. Len(t) : j[Len(s) + i] = t[i]

LEMMA JoinIs ==
    ASSUME NEW s, Sequence(s), NEW t, Sequence(t), NEW j, j = Joined(s, t)
    PROVE  IsJoined(j, s, t)
<1> DEFINE S == ToSet(s) \cup ToSet(t)
<1>1. s \in Seq(S) /\ t \in Seq(S) /\ Len(s) \in Nat /\ Len(t) \in Nat
  BY SeqFacts, SeqMonotonic
<1> HIDE DEF S
<1>2. /\ j \in Seq(S) /\ Len(j) = Len(s) + Len(t)
      /\ \A i \in 1 .. Len(s) + Len(t) : j[i] = IF i <= Len(s) THEN s[i] ELSE t[i - Len(s)]
  <2>1. j = s \o t
    BY DEF Joined
  <2> QED
    BY <1>1, <2>1, ConcatProperties
<1>3. \A i \in 1 .. Len(s) : j[i] = s[i]
  BY <1>1, <1>2
<1>4. ASSUME NEW i \in 1 .. Len(t) PROVE j[Len(s) + i] = t[i]
  <2>1. Len(s) + i \in 1 .. Len(s) + Len(t) /\ ~(Len(s) + i <= Len(s)) /\ Len(s) + i - Len(s) = i
    BY <1>1
  <2> QED
    BY <1>2, <2>1
<1> QED
  BY <1>2, <1>3, <1>4, SeqIn DEF IsJoined

LEMMA SeqSame ==
    ASSUME NEW s, Sequence(s), NEW t, Sequence(t), Len(s) = Len(t), \A i \in 1 .. Len(s) : s[i] = t[i]
    PROVE  s = t
<1>1. DOMAIN s = 1 .. Len(s) /\ DOMAIN t = 1 .. Len(t) /\ s \in Seq(ToSet(s)) /\ t \in Seq(ToSet(t))
  BY SeqFacts
<1>2. s = [i \in 1 .. Len(s) |-> s[i]] /\ t = [i \in 1 .. Len(s) |-> t[i]]
  BY <1>1, LenProperties
<1> QED
  BY <1>2

LEMMA LeastIs ==
    ASSUME NEW S, S \subseteq Int, NEW x \in S, \A y \in S : x <= y
    PROVE  Min(S) = x
<1>1. \A y \in S : (\A z \in S : y <= z) => y = x
  OBVIOUS
<1> QED
  BY <1>1 DEF Min

\* A link opens at p, its words end at e and its destination at c.
FlatLink(line, p, e, c) ==
    /\ p \in 1 .. Len(line) /\ e \in p + 1 .. Len(line) /\ c \in e + 1 .. Len(line)
    /\ line[p] \in Opens /\ line[e] = "]("
    /\ \A k \in p + 1 .. e - 1 : line[k] \notin Opens /\ line[k] # "]("
    /\ line[e + 1] = "<" => line[c] = ">" /\ \A k \in e + 2 .. c - 1 : line[k] \notin Marks
    /\ line[e + 1] # "<" => line[c] = ")" /\ \A k \in e + 1 .. c - 1 : line[k] \notin Marks
Flat(line) == Sequence(line) /\ \A p \in Openers(line) : \E e, c : FlatLink(line, p, e, c)
From(line, e) == IF line[e + 1] = "<" THEN e + 2 ELSE e + 1
EndAt(line, e, c) == IF line[e + 1] = "<" THEN c ELSE c - 1

LEMMA Tokens ==
    /\ "](" \notin Opens /\ "<" \notin Opens /\ ">" \notin Opens /\ ")" \notin Opens /\ Opens \subseteq Marks
    /\ "](" \in Marks /\ "<" \in Marks /\ ">" \in Marks /\ ")" \in Marks
BY DEF Opens, Marks

LEMMA InsideIs ==
    ASSUME NEW line, Sequence(line), NEW p, NEW e, NEW c, FlatLink(line, p, e, c)
    PROVE  /\ p \in Nat /\ e \in Nat /\ c \in Nat /\ Len(line) \in Nat
           /\ 1 <= p /\ p < e /\ e < c /\ c <= Len(line)
           /\ line[e + 1] = "<" => e + 2 <= c
           /\ \A q \in p + 1 .. c : line[q] \notin Opens
<1>1. /\ Len(line) \in Nat /\ p \in 1 .. Len(line) /\ e \in p + 1 .. Len(line) /\ c \in e + 1 .. Len(line)
      /\ line[e] = "](" /\ \A k \in p + 1 .. e - 1 : line[k] \notin Opens
  BY SeqFacts DEF FlatLink
<1>2. ASSUME NEW q \in p + 1 .. c PROVE line[q] \notin Opens
  <2>1. CASE q < e
    BY <1>1, <2>1
  <2>2. CASE q = e
    BY <1>1, <2>2, Tokens
  <2>3. CASE q > e
    <3>1. CASE line[e + 1] = "<"
      <4>1. line[c] = ">" /\ \A k \in e + 2 .. c - 1 : line[k] \notin Marks
        BY <3>1 DEF FlatLink
      <4>2. q = e + 1 \/ q = c \/ q \in e + 2 .. c - 1
        BY <1>1, <2>3
      <4> QED
        BY <3>1, <4>1, <4>2, Tokens
    <3>2. CASE line[e + 1] # "<"
      <4>1. line[c] = ")" /\ \A k \in e + 1 .. c - 1 : line[k] \notin Marks
        BY <3>2 DEF FlatLink
      <4>2. q = c \/ q \in e + 1 .. c - 1
        BY <1>1, <2>3
      <4> QED
        BY <4>1, <4>2, Tokens
    <3> QED
      BY <3>1, <3>2
  <2> QED
    BY <1>1, <2>1, <2>2, <2>3
<1>3. line[e + 1] = "<" => e + 2 <= c
  <2>1. line[e + 1] = "<" => c # e + 1
    BY DEF FlatLink
  <2> QED
    BY <1>1, <2>1
<1> QED
  BY <1>1, <1>2, <1>3

LEMMA LinkIs ==
    ASSUME NEW line, Sequence(line), NEW p, NEW e, NEW c, FlatLink(line, p, e, c)
    PROVE  /\ p \in Openers(line)
           /\ WordsEnd(line, p) = e /\ CloseOf(line, e + 1) = c
           /\ Min({k \in p .. Len(line) : line[k] = "]("}) = e
           /\ WrittenAt(line, p) = SubSeq(line, From(line, e), c - 1)
<1>1. /\ p \in Nat /\ e \in Nat /\ c \in Nat /\ Len(line) \in Nat
      /\ 1 <= p /\ p < e /\ e < c /\ c <= Len(line) /\ DOMAIN line = 1 .. Len(line)
      /\ line[e + 1] = "<" => e + 2 <= c
      /\ \A q \in p + 1 .. c : line[q] \notin Opens
  BY InsideIs, SeqFacts
<1>2. /\ line[p] \in Opens /\ line[e] = "]("
      /\ \A k \in p + 1 .. e - 1 : line[k] # "]("
      /\ line[e + 1] = "<" => line[c] = ">" /\ \A k \in e + 2 .. c - 1 : line[k] \notin Marks
      /\ line[e + 1] # "<" => line[c] = ")" /\ \A k \in e + 1 .. c - 1 : line[k] \notin Marks
  BY DEF FlatLink
<1>3. WordsEnd(line, p) = e
  <2> DEFINE openers == {i \in p + 1 .. e : line[i] \in Opens}
             ends == {i \in p + 1 .. e : line[i] = "]("}
  <2>1. openers = {} /\ ends = {e}
    BY <1>1, <1>2
  <2>2. Cardinality(openers) = 0 /\ Cardinality(ends) = 1
    BY <2>1, FS_EmptySet, FS_Singleton
  <2>3. e \in Ends(line, p)
    <3> HIDE DEF openers, ends
    <3>1. Cardinality(openers) < Cardinality(ends) /\ e \in p + 1 .. Len(line)
      BY <1>1, <2>2
    <3> QED
      BY <1>2, <3>1 DEF Ends, openers, ends
  <2>4. Ends(line, p) \subseteq {k \in p + 1 .. Len(line) : line[k] = "]("}
    BY DEF Ends
  <2>5. \A k \in Ends(line, p) : k \in Int /\ e <= k
    BY <1>1, <1>2, <2>4
  <2> QED
    BY <2>3, <2>5, LeastIs DEF WordsEnd
<1>4. CloseOf(line, e + 1) = c
  <2> DEFINE until == IF line[e + 1] = "<" THEN ">" ELSE ")"
             all == {k \in e + 1 .. Len(line) : line[k] = IF line[e + 1] = "<" THEN ">" ELSE ")"}
  <2>1. line[c] = until
    BY <1>2
  <2>2. c \in all
    BY <1>1, <2>1
  <2>3. ASSUME NEW k \in all PROVE k \in Int /\ c <= k
    <3>1. k \in e + 1 .. Len(line) /\ line[k] = until
      OBVIOUS
    <3>2. ASSUME k < c PROVE FALSE
      <4>1. CASE line[e + 1] = "<"
        <5>1. k = e + 1 \/ k \in e + 2 .. c - 1
          BY <1>1, <3>1, <3>2
        <5> QED
          BY <1>2, <3>1, <4>1, <5>1, Tokens
      <4>2. CASE line[e + 1] # "<"
        <5>1. k \in e + 1 .. c - 1
          BY <1>1, <3>1, <3>2
        <5> QED
          BY <1>2, <3>1, <4>2, <5>1, Tokens
      <4> QED
        BY <4>1, <4>2
    <3> QED
      BY <1>1, <3>1, <3>2
  <2>4. CloseOf(line, e + 1) = Min(all)
    BY DEF CloseOf
  <2> HIDE DEF all
  <2>5. all \subseteq Int
    BY <2>3
  <2> QED
    BY <2>2, <2>3, <2>4, <2>5, LeastIs
<1>5. Min({k \in p .. Len(line) : line[k] = "]("}) = e
  <2> DEFINE all == {k \in p .. Len(line) : line[k] = "]("}
  <2>1. e \in all /\ all \subseteq Int
    BY <1>1, <1>2
  <2>2. ASSUME NEW k \in all PROVE e <= k
    <3>1. k # p
      BY <1>2, Tokens
    <3> QED
      BY <1>1, <1>2, <3>1
  <2> HIDE DEF all
  <2>3. Min(all) = e
    BY <2>1, <2>2, LeastIs
  <2> QED
    BY <2>3 DEF all
<1>6. WrittenAt(line, p) = SubSeq(line, From(line, e), c - 1)
  <2>1. e + 1 + 1 = e + 2
    BY <1>1
  <2> QED
    BY <1>3, <1>4, <2>1 DEF WrittenAt, DestinationFrom, From
<1>7. p \in Openers(line)
  BY <1>1, <1>2 DEF Openers
<1> QED
  BY <1>3, <1>4, <1>5, <1>6, <1>7

\* Whole links, none around an image.
LEMMA FlatIs ==
    ASSUME NEW line, Whole(line), ~Nested(line)
    PROVE  Flat(line)
<1>1. Sequence(line) /\ Len(line) \in Nat /\ DOMAIN line = 1 .. Len(line)
  BY SeqFacts DEF Whole
<1>2. ASSUME NEW p \in Openers(line) PROVE \E e, c : FlatLink(line, p, e, c)
  <2> DEFINE e == WordsEnd(line, p)
             all == {k \in p .. Len(line) : line[k] = "]("}
  <2>1. p \in 1 .. Len(line) /\ line[p] \in Opens
    BY <1>1 DEF Openers
  <2>2. Ends(line, p) # {} /\ Ends(line, p) \subseteq all /\ Ends(line, p) \subseteq p + 1 .. Len(line)
    <3>1. Ends(line, p) # {}
      BY DEF Whole
    <3>2. \A k \in Ends(line, p) : k \in p + 1 .. Len(line) /\ line[k] = "]("
      BY DEF Ends
    <3> QED
      BY <1>1, <2>1, <3>1, <3>2
  <2>3. PICK c \in e + 1 .. Len(line) : IsDestination(line, e + 1, c)
    BY DEF Whole
  <2>4. e = Min(all)
    BY DEF Nested
  <2>5. PICK m \in all : \A k \in all : m <= k
    <3>1. all \subseteq Nat /\ all # {}
      BY <2>1, <2>2
    <3> HIDE DEF all
    <3> QED
      BY <3>1, LeastNat
  <2>6. e = m
    <3>1. all \subseteq Int
      BY <2>1
    <3> HIDE DEF all, e
    <3> QED
      BY <2>4, <2>5, <3>1, LeastIs
  <2>7. line[e] = "](" /\ e \in p .. Len(line) /\ \A k \in p .. Len(line) : line[k] = "](" => e <= k
    BY <2>5, <2>6
  <2>8. e \in p + 1 .. Len(line)
    <3>1. e # p
      BY <2>1, <2>7, Tokens
    <3> HIDE DEF e
    <3> QED
      BY <2>1, <2>7, <3>1
  <2>9. Min(Ends(line, p)) = e
    BY DEF WordsEnd
  <2>10. e \in Ends(line, p)
    <3>1. PICK x \in Ends(line, p) : \A y \in Ends(line, p) : x <= y
      <4>1. Ends(line, p) \subseteq Nat
        BY <2>1, <2>2
      <4> QED
        BY <2>2, <4>1, LeastNat
    <3>2. Min(Ends(line, p)) = x
      <4>1. Ends(line, p) \subseteq Int
        BY <2>1, <2>2
      <4> QED
        BY <3>1, <4>1, LeastIs
    <3> QED
      BY <2>9, <3>1, <3>2
  <2> HIDE DEF e, all
  <2>11. \A k \in p + 1 .. e - 1 : line[k] \notin Opens /\ line[k] # "]("
    <3> DEFINE openers == {i \in p + 1 .. e : line[i] \in Opens}
               ends == {i \in p + 1 .. e : line[i] = "]("}
    <3>1. Cardinality(openers) < Cardinality(ends)
      BY <2>10 DEF Ends
    <3>2. ends = {e}
      BY <2>1, <2>7, <2>8
    <3>3. Cardinality(ends) = 1
      BY <3>2, FS_Singleton
    <3>4. IsFiniteSet(openers)
      <4>1. IsFiniteSet(p + 1 .. e)
        BY <2>1, <2>8, FS_Interval
      <4> QED
        BY <4>1, FS_Subset
    <3>5. openers = {}
      <4> HIDE DEF openers, ends
      <4>1. Cardinality(openers) \in Nat /\ Cardinality(openers) < 1
        BY <3>1, <3>3, <3>4, FS_CardinalityType
      <4>2. Cardinality(openers) = 0
        BY <4>1
      <4> QED
        BY <3>4, <4>2, FS_EmptySet
    <3> QED
      BY <2>1, <2>7, <2>8, <3>5
  <2>12. FlatLink(line, p, e, c)
    <3>1. /\ line[c] = IF line[e + 1] = "<" THEN ">" ELSE ")"
          /\ \A k \in (IF line[e + 1] = "<" THEN e + 1 + 1 ELSE e + 1) .. c - 1 : line[k] \notin Marks
      BY <2>3 DEF IsDestination
    <3>2. e + 1 + 1 = e + 2
      BY <2>8
    <3> QED
      BY <2>1, <2>3, <2>7, <2>8, <2>11, <3>1, <3>2 DEF FlatLink
  <2> QED
    BY <2>12
<1> QED
  BY <1>1, <1>2 DEF Flat

\* What a line holds in its destinations, link by link.
LEMMA HeldIs ==
    ASSUME NEW line, Flat(line), NEW q
    PROVE  q \in InDestination(line) <=> \E p, e, c : FlatLink(line, p, e, c) /\ q \in e + 1 .. EndAt(line, e, c)
<1> DEFINE In(p) == LET from == WordsEnd(line, p) + 1
                    IN  from .. IF line[from] = "<" THEN CloseOf(line, from) ELSE CloseOf(line, from) - 1
<1>1. Sequence(line)
  BY DEF Flat
<1>2. ASSUME NEW p, NEW e, NEW c, FlatLink(line, p, e, c)
      PROVE  p \in Openers(line) /\ In(p) = e + 1 .. EndAt(line, e, c)
  <2>1. p \in Openers(line) /\ WordsEnd(line, p) = e /\ CloseOf(line, e + 1) = c
    BY <1>1, <1>2, LinkIs
  <2> QED
    BY <2>1 DEF EndAt
<1>3. InDestination(line) = UNION {In(p) : p \in Openers(line)}
  BY DEF InDestination
<1> HIDE DEF In
<1>4. ASSUME q \in InDestination(line) PROVE \E p, e, c : FlatLink(line, p, e, c) /\ q \in e + 1 .. EndAt(line, e, c)
  <2>1. PICK p \in Openers(line) : q \in In(p)
    BY <1>3, <1>4
  <2>2. PICK e, c : FlatLink(line, p, e, c)
    BY <2>1 DEF Flat
  <2>3. In(p) = e + 1 .. EndAt(line, e, c)
    BY <1>2, <2>2
  <2>4. q \in e + 1 .. EndAt(line, e, c)
    BY <2>1, <2>3
  <2> QED
    BY <2>2, <2>4
<1> QED
  BY <1>2, <1>3, <1>4

-----------------------------------------------------------------------------
(* A destination is written anew.                                          *)

Clean(w) == Sequence(w) /\ \A i \in 1 .. Len(w) : w[i] \notin Marks

LEMMA FirstIs ==
    ASSUME NEW mark, Len(mark) = 1, NEW text, Sequence(text)
    PROVE  FirstOf(mark, text) \in 0 .. Len(text)
<1> DEFINE at == {i \in 1 .. Len(text) - Len(mark) + 1 : SubSeq(text, i, i + Len(mark) - 1) = mark}
<1>1. Len(text) \in Nat
  BY SeqFacts
<1>2. at \subseteq 1 .. Len(text)
  BY <1>1
<1>3. FirstOf(mark, text) = IF at = {} THEN 0 ELSE Min(at)
  BY DEF FirstOf
<1> HIDE DEF at
<1>4. CASE at = {}
  BY <1>1, <1>3, <1>4
<1>5. CASE at # {}
  <2>1. PICK m \in at : \A k \in at : m <= k
    <3>1. at \subseteq Nat
      BY <1>1, <1>2
    <3> QED
      BY <1>5, <3>1, LeastNat
  <2>2. Min(at) = m
    <3>1. at \subseteq Int
      BY <1>1, <1>2
    <3> QED
      BY <2>1, <3>1, LeastIs
  <2> QED
    BY <1>1, <1>2, <1>3, <1>5, <2>1, <2>2
<1> QED
  BY <1>4, <1>5

LEMMA NewNameIs ==
    ASSUME NEW written, Clean(written), Destination(written) \in DOMAIN Renamed
    PROVE  Clean(moved_body_link(written))
<1> DEFINE d == Destination(written)
           k == FirstOf(<<"#">>, written)
           rest == SubSeq(written, Len(d) + 1, Len(written))
<1>1. Sequence(written) /\ Len(written) \in Nat /\ \A i \in 1 .. Len(written) : written[i] \notin Marks
  BY SeqFacts DEF Clean
<1>2. k \in 0 .. Len(written)
  <2>1. Len(<<"#">>) = 1
    OBVIOUS
  <2> QED
    BY <1>1, <2>1, FirstIs
<1>3. Len(d) \in 0 .. Len(written)
  <2>1. CASE Has(written, <<"#">>)
    <3>1. k > 0 /\ d = SubSeq(written, 1, k - 1)
      BY <2>1 DEF Destination, Left, Has
    <3> HIDE DEF d, k
    <3>2. Len(SubSeq(written, 1, k - 1)) = k - 1 - 1 + 1
      BY <1>1, <1>2, <3>1, SubIs
    <3> QED
      BY <1>1, <1>2, <3>1, <3>2
  <2>2. CASE ~Has(written, <<"#">>)
    <3>1. d = written
      BY <2>2 DEF Destination
    <3> QED
      BY <1>1, <3>1
  <2> QED
    BY <2>1, <2>2
<1>4. Sequence(Renamed[d]) /\ ToSet(Renamed[d]) \cap Marks = {}
  BY NamesAreWords
<1>5. moved_body_link(written) = Renamed[d] \o rest
  BY DEF moved_body_link
<1> HIDE DEF d
<1>6. Sequence(rest) /\ Len(rest) = Len(written) - (Len(d) + 1) + 1
      /\ \A i \in 1 .. Len(written) - (Len(d) + 1) + 1 : rest[i] = written[Len(d) + 1 + i - 1]
  BY <1>1, <1>3, SubIs
<1> HIDE DEF rest
<1>7. \A i \in 1 .. Len(rest) : rest[i] \notin Marks
  <2> TAKE i \in 1 .. Len(rest)
  <2>1. i \in 1 .. Len(written) - (Len(d) + 1) + 1 /\ Len(d) + 1 + i - 1 \in 1 .. Len(written)
    BY <1>1, <1>3, <1>6
  <2> QED
    BY <1>1, <1>6, <2>1
<1>8. \A i \in 1 .. Len(Renamed[d]) : Renamed[d][i] \notin Marks
  BY <1>4, SeqFacts
<1> DEFINE new == Renamed[d] \o rest
<1>0. new = Joined(Renamed[d], rest)
  BY DEF Joined
<1> HIDE DEF new
<1>9. /\ Sequence(new) /\ Len(new) = Len(Renamed[d]) + Len(rest)
      /\ \A i \in 1 .. Len(Renamed[d]) : new[i] = Renamed[d][i]
      /\ \A i \in 1 .. Len(rest) : new[Len(Renamed[d]) + i] = rest[i]
  <2>1. IsJoined(new, Renamed[d], rest)
    BY <1>4, <1>6, <1>0, JoinIs
  <2> QED
    BY <1>4, <1>6, <1>0, <2>1 DEF IsJoined
<1>10. Len(Renamed[d]) \in Nat /\ Len(rest) \in Nat
  BY <1>4, <1>6, SeqFacts
<1>11. ASSUME NEW i \in 1 .. Len(new) PROVE new[i] \notin Marks
  <2>1. CASE i <= Len(Renamed[d])
    BY <1>8, <1>9, <1>10, <2>1
  <2>2. CASE i > Len(Renamed[d])
    <3>1. i - Len(Renamed[d]) \in 1 .. Len(rest) /\ Len(Renamed[d]) + (i - Len(Renamed[d])) = i
      BY <1>9, <1>10, <2>2
    <3> QED
      BY <1>7, <1>9, <3>1
  <2> QED
    BY <1>9, <1>10, <2>1, <2>2
<1> QED
  BY <1>5, <1>9, <1>11 DEF Clean, new

Bracketed(w) == <<"<">> \o w \o <<">">>
Recoded(line, p, e, new) ==
    rewritten_body_destination(line[e + 1] = "<", Contains(WrittenAt(line, p), "%20"), new)

LEMMA CodedIs ==
    ASSUME NEW line, NEW p, NEW e, NEW new, Clean(new)
    PROVE  \E w : /\ Clean(w) /\ Decoded(w) = Decoded(new)
                  /\ \/ Recoded(line, p, e, new) = Bracketed(w)
                     \/ line[e + 1] # "<" /\ Recoded(line, p, e, new) = w
<1> DEFINE bracketed == line[e + 1] = "<"
           encoded == Contains(WrittenAt(line, p), "%20")
           R == rewritten_body_destination(bracketed, encoded, new)
<1>0. Recoded(line, p, e, new) = R
  BY DEF Recoded
<1> HIDE DEF encoded
<1>1. CASE bracketed \/ (~encoded /\ Contains(new, " "))
  <2>1. R = Bracketed(new)
    BY <1>1 DEF rewritten_body_destination, Bracketed
  <2> QED
    BY <1>0, <2>1
<1>2. CASE ~(bracketed \/ (~encoded /\ Contains(new, " "))) /\ encoded
  <2> DEFINE w == ReplaceAll(new, " ", "%20")
             n == Len(new)
  <2>1. n \in Nat /\ \A i \in 1 .. n : new[i] \notin Marks
    BY SeqFacts DEF Clean
  <2>2. w = [i \in 1 .. n |-> IF new[i] = " " THEN "%20" ELSE new[i]]
    BY DEF ReplaceAll
  <2> HIDE DEF w, n
  <2>3. w = [i \in 1 .. n |-> w[i]] /\ \A i \in 1 .. n : w[i] = IF new[i] = " " THEN "%20" ELSE new[i]
    BY <2>2
  <2>4. Sequence(w) /\ Len(w) = n
    BY <2>1, <2>3, SeqMade
  <2>5. "%20" \notin Marks
    BY DEF Marks, Opens
  <2>6. Clean(w)
    BY <2>1, <2>3, <2>4, <2>5 DEF Clean
  <2>7. Decoded(w) = [i \in 1 .. n |-> IF w[i] = "%20" THEN " " ELSE w[i]]
    BY <2>4 DEF Decoded, ReplaceAll
  <2>8. Decoded(new) = [i \in 1 .. n |-> IF new[i] = "%20" THEN " " ELSE new[i]]
    BY DEF Decoded, ReplaceAll, n
  <2>9. \A i \in 1 .. n : (IF w[i] = "%20" THEN " " ELSE w[i]) = (IF new[i] = "%20" THEN " " ELSE new[i])
    BY <2>3
  <2>10. Decoded(w) = Decoded(new)
    BY <2>7, <2>8, <2>9
  <2>11. ~bracketed /\ R = w
    BY <1>2 DEF rewritten_body_destination, w
  <2> QED
    BY <1>0, <2>6, <2>10, <2>11
<1>3. CASE ~(bracketed \/ (~encoded /\ Contains(new, " "))) /\ ~encoded
  <2>1. ~bracketed /\ R = new
    BY <1>3 DEF rewritten_body_destination
  <2> QED
    BY <1>0, <2>1
<1> QED
  BY <1>1, <1>2, <1>3

\* Where the line was cut: up to e it is as it was, and so it is after u, which is v now.
Spliced(old, new, e, u, v) ==
    /\ Sequence(old) /\ Sequence(new)
    /\ e \in 1 .. Len(old) /\ u \in e .. Len(old) /\ v \in e .. Len(new) /\ Len(new) - v = Len(old) - u
    /\ \A q \in 1 .. e : new[q] = old[q]
    /\ \A q \in 1 .. Len(old) - u : new[v + q] = old[u + q]

Cut(line, e, R, u) == SubSeq(line, 1, e) \o R \o SubSeq(line, u + 1, Len(line))

LEMMA CutIs ==
    ASSUME NEW line, Sequence(line), NEW p, NEW e, NEW c, FlatLink(line, p, e, c), NEW new
    PROVE  splice_body_destination(line, p, WrittenAt(line, p), new)
             = Cut(line, e, Recoded(line, p, e, new), EndAt(line, e, c))
<1> DEFINE old == WrittenAt(line, p)
           ends == {k \in p .. Len(line) : line[k] = "]("}
           open == Min(ends)
           bracketed == open < Len(line) /\ line[open + 1] = "<"
           start == IF bracketed THEN open + 2 ELSE open + 1
           close == start + Len(old)
<1>1. /\ p \in Nat /\ e \in Nat /\ c \in Nat /\ Len(line) \in Nat
      /\ 1 <= p /\ p < e /\ e < c /\ c <= Len(line)
      /\ line[e + 1] = "<" => e + 2 <= c
  BY InsideIs
<1>2. open = e /\ old = SubSeq(line, From(line, e), c - 1)
  BY LinkIs
<1>3. ends # {}
  <2>1. e \in ends
    BY <1>1 DEF FlatLink
  <2> QED
    BY <2>1
<1>4. splice_body_destination(line, p, old, new)
        = IF ends = {} \/ close - 1 > Len(line) \/ SubSeq(line, start, close - 1) # old THEN line
          ELSE SubSeq(line, 1, open)
               \o rewritten_body_destination(bracketed, Contains(old, "%20"), new)
               \o SubSeq(line, IF bracketed THEN close + 1 ELSE close, Len(line))
  BY DEF splice_body_destination
<1> HIDE DEF ends, open, old
<1>5. (bracketed <=> line[e + 1] = "<") /\ start = From(line, e)
  BY <1>1, <1>2 DEF From
<1>6. From(line, e) \in Nat /\ 1 <= From(line, e) /\ From(line, e) <= c
  BY <1>1 DEF From
<1>7. Len(old) = c - 1 - From(line, e) + 1
  BY <1>1, <1>2, <1>6, SubIs
<1>8. close = c
  <2> HIDE DEF start
  <2> QED
    BY <1>1, <1>5, <1>6, <1>7
<1> HIDE DEF close, start
<1>9. (IF bracketed THEN close + 1 ELSE close) = EndAt(line, e, c) + 1
  BY <1>1, <1>5, <1>8 DEF EndAt
<1>10. bracketed = (line[e + 1] = "<")
  <2> HIDE DEF bracketed
  <2>1. bracketed \in BOOLEAN
    BY DEF bracketed
  <2> QED
    BY <1>5, <2>1
<1> HIDE DEF bracketed
<1>11. ~(close - 1 > Len(line)) /\ SubSeq(line, start, close - 1) = old
  BY <1>1, <1>2, <1>5, <1>8
<1>12. splice_body_destination(line, p, old, new)
        = SubSeq(line, 1, open)
               \o rewritten_body_destination(bracketed, Contains(old, "%20"), new)
               \o SubSeq(line, IF bracketed THEN close + 1 ELSE close, Len(line))
  BY <1>3, <1>4, <1>11
<1>13. splice_body_destination(line, p, old, new)
        = SubSeq(line, 1, e)
               \o rewritten_body_destination(line[e + 1] = "<", Contains(old, "%20"), new)
               \o SubSeq(line, EndAt(line, e, c) + 1, Len(line))
  BY <1>2, <1>9, <1>10, <1>12
<1> QED
  BY <1>13 DEF old, Cut, Recoded

\* One link is written anew: the line is cut around its destination, and the link names what it
\* is told to.
LEMMA RelinkIs ==
    ASSUME NEW line, Sequence(line), NEW p, NEW e, NEW c, FlatLink(line, p, e, c), NEW new, Clean(new)
    PROVE  LET now == splice_body_destination(line, p, WrittenAt(line, p), new)
           IN  \E d : /\ FlatLink(now, p, e, d)
                      /\ Spliced(line, now, e, EndAt(line, e, c), EndAt(now, e, d))
                      /\ Decoded(WrittenAt(now, p)) = Decoded(new)
<1> DEFINE bracketed == line[e + 1] = "<"
           R == Recoded(line, p, e, new)
           u == EndAt(line, e, c)
           a == SubSeq(line, 1, e)
           t == SubSeq(line, u + 1, Len(line))
           now == a \o R \o t
<1>1. /\ p \in Nat /\ e \in Nat /\ c \in Nat /\ Len(line) \in Nat
      /\ 1 <= p /\ p < e /\ e < c /\ c <= Len(line)
      /\ line[e + 1] = "<" => e + 2 <= c
  BY InsideIs
<1>2. splice_body_destination(line, p, WrittenAt(line, p), new) = now
  <2>1. splice_body_destination(line, p, WrittenAt(line, p), new) = Cut(line, e, R, u)
    BY CutIs
  <2> QED
    BY <2>1 DEF Cut
<1>3. PICK w : /\ Clean(w) /\ Decoded(w) = Decoded(new)
               /\ R = Bracketed(w) \/ (~bracketed /\ R = w)
  BY CodedIs
<1>4. u \in Nat /\ e <= u /\ u <= Len(line)
  BY <1>1 DEF EndAt
<1>5. Sequence(a) /\ Len(a) = e /\ \A i \in 1 .. e : a[i] = line[i]
  <2> HIDE DEF u
  <2>1. /\ Sequence(a) /\ Len(a) = e - 1 + 1
        /\ \A i \in 1 .. e - 1 + 1 : a[i] = line[1 + i - 1]
    BY <1>1, SubIs
  <2> HIDE DEF a
  <2>2. e - 1 + 1 = e /\ \A i \in 1 .. e : 1 + i - 1 = i
    BY <1>1
  <2> QED
    BY <2>1, <2>2
<1>6. Sequence(t) /\ Len(t) = Len(line) - u /\ \A i \in 1 .. Len(line) - u : t[i] = line[u + i]
  <2> HIDE DEF u
  <2>1. /\ Sequence(t) /\ Len(t) = Len(line) - (u + 1) + 1
        /\ \A i \in 1 .. Len(line) - (u + 1) + 1 : t[i] = line[u + 1 + i - 1]
    BY <1>1, <1>4, SubIs
  <2> HIDE DEF t
  <2>2. Len(line) - (u + 1) + 1 = Len(line) - u /\ \A i \in 1 .. Len(line) - u : u + 1 + i - 1 = u + i
    BY <1>1, <1>4
  <2> QED
    BY <2>1, <2>2
<1>7. Sequence(w) /\ Len(w) \in Nat /\ \A i \in 1 .. Len(w) : w[i] \notin Marks
  BY <1>3, SeqFacts DEF Clean
<1>8. \* what stands there now, and where in it the name stands
      \E k \in {0, 1} :
        /\ Sequence(R) /\ Len(R) = Len(w) + 2 * k
        /\ \A i \in 1 .. Len(w) : R[k + i] = w[i]
        /\ k = 1 => R[1] = "<" /\ R[Len(w) + 2] = ">"
        /\ k = 0 => ~bracketed
  <2>1. CASE ~bracketed /\ R = w
    <3>1. \A i \in 1 .. Len(w) : 0 + i = i
      BY <1>7
    <3> QED
      BY <1>7, <2>1, <3>1
  <2>2. CASE R = Bracketed(w)
    <3> DEFINE l == <<"<">> \o w
               r == l \o <<">">>
    <3>1. Sequence(<<"<">>) /\ Sequence(<<">">>) /\ Len(<<"<">>) = 1 /\ Len(<<">">>) = 1
      BY OneItem
    <3>0. l = Joined(<<"<">>, w) /\ r = Joined(l, <<">">>)
      BY DEF Joined
    <3> HIDE DEF l, r
    <3>2. /\ Sequence(l) /\ Len(l) = 1 + Len(w)
          /\ \A i \in 1 .. 1 : l[i] = <<"<">>[i]
          /\ \A i \in 1 .. Len(w) : l[1 + i] = w[i]
      <4>1. IsJoined(l, <<"<">>, w)
        BY <1>7, <3>0, <3>1, JoinIs
      <4> QED
        BY <1>7, <3>0, <3>1, <4>1 DEF IsJoined
    <3>3. /\ Sequence(r) /\ Len(r) = 1 + Len(w) + 1
          /\ \A i \in 1 .. 1 + Len(w) : r[i] = l[i]
          /\ \A i \in 1 .. 1 : r[1 + Len(w) + i] = <<">">>[i]
      <4>1. IsJoined(r, l, <<">">>)
        BY <3>0, <3>1, <3>2, JoinIs
      <4> QED
        BY <3>0, <3>1, <3>2, <4>1 DEF IsJoined
    <3>4. R = r
      BY <2>2 DEF l, r, Bracketed
    <3> HIDE DEF R
    <3>5. r[1] = "<" /\ r[Len(w) + 2] = ">"
      <4>1. 1 \in 1 .. 1 /\ 1 \in 1 .. 1 + Len(w) /\ 1 + Len(w) + 1 = Len(w) + 2
        BY <1>7
      <4> QED
        BY <3>2, <3>3, <4>1
    <3>6. \A i \in 1 .. Len(w) : r[1 + i] = w[i]
      <4> TAKE i \in 1 .. Len(w)
      <4>1. 1 + i \in 1 .. 1 + Len(w)
        BY <1>7
      <4> QED
        BY <3>2, <3>3, <4>1
    <3>7. Len(r) = Len(w) + 2 * 1
      BY <1>7, <3>3
    <3> QED
      BY <3>3, <3>4, <3>5, <3>6, <3>7
  <2> QED
    BY <1>3, <2>1, <2>2
<1>9. PICK k \in {0, 1} :
        /\ Sequence(R) /\ Len(R) = Len(w) + 2 * k
        /\ \A i \in 1 .. Len(w) : R[k + i] = w[i]
        /\ k = 1 => R[1] = "<" /\ R[Len(w) + 2] = ">"
        /\ k = 0 => ~bracketed
  BY <1>8
<1> DEFINE m == Len(R)
           v == e + m
           d == IF k = 1 THEN v ELSE v + 1
<1>10. m \in Nat /\ m = Len(w) + 2 * k
  BY <1>7, <1>9
<1> HIDE DEF R, a, t, u
<1>11. /\ Sequence(now) /\ Len(now) = v + (Len(line) - u)
       /\ \A i \in 1 .. e : now[i] = line[i]
       /\ \A i \in 1 .. m : now[e + i] = R[i]
       /\ \A i \in 1 .. Len(line) - u : now[v + i] = line[u + i]
  <2> DEFINE b == a \o R
             n == b \o t
  <2>0. b = Joined(a, R) /\ n = Joined(b, t)
    BY DEF Joined
  <2> HIDE DEF b, n
  <2>1. /\ Sequence(b) /\ Len(b) = v
        /\ \A i \in 1 .. e : b[i] = a[i]
        /\ \A i \in 1 .. m : b[e + i] = R[i]
    <3>1. IsJoined(b, a, R)
      BY <1>5, <1>9, <2>0, JoinIs
    <3> QED
      BY <1>5, <1>9, <2>0, <3>1 DEF IsJoined
  <2>2. /\ Sequence(n) /\ Len(n) = v + (Len(line) - u)
        /\ \A i \in 1 .. v : n[i] = b[i]
        /\ \A i \in 1 .. Len(line) - u : n[v + i] = t[i]
    <3>1. IsJoined(n, b, t)
      BY <1>6, <2>0, <2>1, JoinIs
    <3> QED
      BY <1>6, <2>0, <2>1, <3>1 DEF IsJoined
  <2>3. now = n
    BY DEF b, n
  <2> HIDE DEF now, m
  <2>4. \A i \in 1 .. e : i \in 1 .. v
    BY <1>1, <1>10
  <2>5. \A i \in 1 .. m : e + i \in 1 .. v
    BY <1>1, <1>10
  <2> HIDE DEF v
  <2> QED
    BY <1>5, <1>6, <2>1, <2>2, <2>3, <2>4, <2>5
<1> HIDE DEF now, m
<1>12. /\ line[p] \in Opens /\ line[e] = "](" /\ \A j \in p + 1 .. e - 1 : line[j] \notin Opens /\ line[j] # "]("
       /\ ~bracketed => line[c] = ")"
  BY DEF FlatLink
<1>13. k = 0 => u = c - 1 /\ Len(line) - u >= 1 /\ now[v + 1] = ")"
  <2>1. ASSUME k = 0 PROVE u = c - 1
    BY <1>9, <2>1 DEF EndAt, u
  <2>2. ASSUME k = 0 PROVE Len(line) - u >= 1
    BY <1>1, <2>1, <2>2
  <2>3. ASSUME k = 0 PROVE now[v + 1] = ")"
    <3>1. 1 \in 1 .. Len(line) - u /\ u + 1 = c
      BY <1>1, <1>4, <2>1, <2>2, <2>3
    <3> QED
      BY <1>9, <1>11, <1>12, <2>3, <3>1
  <2> QED
    BY <2>1, <2>2, <2>3
<1>14. v \in Nat /\ v >= e /\ v <= Len(now) /\ Len(now) - v = Len(line) - u /\ Len(now) \in Nat
  BY <1>1, <1>4, <1>10, <1>11
<1>15. d \in Nat /\ e < d /\ d <= Len(now) /\ (k = 1 => e + 2 <= d)
  BY <1>1, <1>4, <1>7, <1>10, <1>11, <1>13
<1>16. now[e + 1] = "<" <=> k = 1
  <2>1. CASE k = 1
    <3>1. 1 \in 1 .. m
      BY <1>7, <1>10, <2>1
    <3> QED
      BY <1>9, <1>11, <2>1, <3>1
  <2>2. CASE k = 0 /\ Len(w) = 0
    <3>1. v + 1 = e + 1
      BY <1>1, <1>10, <2>2
    <3> QED
      BY <1>13, <2>2, <3>1
  <2>3. CASE k = 0 /\ Len(w) # 0
    <3>1. 1 \in 1 .. Len(w) /\ 1 \in 1 .. m /\ k + 1 = 1
      BY <1>7, <1>10, <2>3
    <3>2. now[e + 1] = w[1]
      BY <1>9, <1>11, <3>1
    <3> QED
      BY <1>7, <2>3, <3>1, <3>2, Tokens
  <2> QED
    BY <2>1, <2>2, <2>3
<1>17. \A i \in 1 .. Len(w) : now[e + k + i] = w[i]
  <2> TAKE i \in 1 .. Len(w)
  <2>1. k + i \in 1 .. m /\ e + (k + i) = e + k + i
    BY <1>1, <1>7, <1>10
  <2> QED
    BY <1>9, <1>11, <2>1
<1>18. k = 1 => now[d] = ">" /\ d = e + Len(w) + 2
  <2> SUFFICES ASSUME k = 1 PROVE now[d] = ">" /\ d = e + Len(w) + 2
    OBVIOUS
  <2>1. Len(w) + 2 \in 1 .. m /\ d = e + (Len(w) + 2) /\ d = e + Len(w) + 2
    BY <1>1, <1>7, <1>10
  <2>2. now[e + (Len(w) + 2)] = R[Len(w) + 2]
    BY <1>11, <2>1
  <2>3. R[Len(w) + 2] = ">"
    BY <1>9
  <2> HIDE DEF d
  <2> QED
    BY <2>1, <2>2, <2>3
<1>19. k = 0 => now[d] = ")" /\ d = e + Len(w) + 1
  BY <1>1, <1>7, <1>10, <1>13
<1> HIDE DEF v, d
<1>20. FlatLink(now, p, e, d)
  <2>1. p \in 1 .. Len(now) /\ e \in p + 1 .. Len(now) /\ d \in e + 1 .. Len(now)
    BY <1>1, <1>14, <1>15
  <2>2. now[p] \in Opens /\ now[e] = "](" /\ \A j \in p + 1 .. e - 1 : now[j] \notin Opens /\ now[j] # "]("
    BY <1>1, <1>11, <1>12
  <2>3. ASSUME now[e + 1] = "<" PROVE now[d] = ">" /\ \A j \in e + 2 .. d - 1 : now[j] \notin Marks
    <3>1. k = 1
      BY <1>16, <2>3
    <3>2. \A j \in e + 2 .. d - 1 : j - e - 1 \in 1 .. Len(w) /\ e + k + (j - e - 1) = j
      BY <1>1, <1>7, <1>18, <3>1
    <3> QED
      BY <1>7, <1>17, <1>18, <3>1, <3>2
  <2>4. ASSUME now[e + 1] # "<" PROVE now[d] = ")" /\ \A j \in e + 1 .. d - 1 : now[j] \notin Marks
    <3>1. k = 0
      BY <1>16, <2>4
    <3>2. \A j \in e + 1 .. d - 1 : j - e \in 1 .. Len(w) /\ e + k + (j - e) = j
      BY <1>1, <1>7, <1>19, <3>1
    <3> QED
      BY <1>7, <1>17, <1>19, <3>1, <3>2
  <2> QED
    BY <2>1, <2>2, <2>3, <2>4 DEF FlatLink
<1>21. EndAt(now, e, d) = v
  BY <1>14, <1>16 DEF EndAt, d
<1>22. Spliced(line, now, e, u, v)
  <2>1. e \in 1 .. Len(line) /\ u \in e .. Len(line) /\ v \in e .. Len(now)
    BY <1>1, <1>4, <1>14
  <2> QED
    BY <1>11, <1>14, <2>1 DEF Spliced
<1>23. WrittenAt(now, p) = w
  <2> DEFINE f == From(now, e)
             s == SubSeq(now, f, d - 1)
  <2>1. WrittenAt(now, p) = s
    BY <1>11, <1>20, LinkIs
  <2>2. f = e + k + 1 /\ f \in Int /\ 1 <= f /\ d - 1 - f + 1 = Len(w)
    BY <1>1, <1>7, <1>16, <1>18, <1>19 DEF From
  <2> HIDE DEF f
  <2>3. Sequence(s) /\ Len(s) = d - 1 - f + 1 /\ \A i \in 1 .. d - 1 - f + 1 : s[i] = now[f + i - 1]
    <3>1. f <= d - 1 + 1 /\ d - 1 <= Len(now) /\ d - 1 \in Int
      BY <1>7, <1>15, <2>2
    <3> QED
      BY <1>11, <2>2, <3>1, SubIs
  <2> HIDE DEF s
  <2>4. \A i \in 1 .. Len(w) : s[i] = w[i]
    <3> TAKE i \in 1 .. Len(w)
    <3>1. f + i - 1 = e + k + i
      BY <1>1, <1>7, <2>2
    <3> QED
      BY <1>17, <2>2, <2>3, <3>1
  <2> QED
    BY <1>7, <2>1, <2>2, <2>3, <2>4, SeqSame
<1> QED
  <2>1. Decoded(WrittenAt(now, p)) = Decoded(new)
    BY <1>3, <1>23
  <2>2. \E d_ : FlatLink(now, p, e, d_) /\ Spliced(line, now, e, u, EndAt(now, e, d_))
                /\ Decoded(WrittenAt(now, p)) = Decoded(new)
    BY <1>20, <1>21, <1>22, <2>1
  <2> QED
    BY <1>2, <2>2 DEF u

-----------------------------------------------------------------------------
(* The links of a line of which one was written anew.                      *)

LEMMA OneLink ==
    ASSUME NEW line, Sequence(line), NEW p, NEW e, NEW c, FlatLink(line, p, e, c),
           NEW f, NEW d, FlatLink(line, p, f, d)
    PROVE  e = f /\ c = d
<1>1. WordsEnd(line, p) = e /\ CloseOf(line, e + 1) = c
  BY LinkIs
<1>2. WordsEnd(line, p) = f /\ CloseOf(line, f + 1) = d
  BY LinkIs
<1> QED
  BY <1>1, <1>2

\* A link that stands elsewhere with the same words.
LEMMA LinkShift ==
    ASSUME NEW old, Sequence(old), NEW new, Sequence(new), NEW p, NEW e, NEW c, FlatLink(old, p, e, c),
           NEW k \in Int, \A q \in p .. c : q + k \in 1 .. Len(new) /\ new[q + k] = old[q]
    PROVE  /\ FlatLink(new, p + k, e + k, c + k)
           /\ EndAt(new, e + k, c + k) = EndAt(old, e, c) + k
           /\ WrittenAt(new, p + k) = WrittenAt(old, p)
<1>1. /\ p \in Nat /\ e \in Nat /\ c \in Nat /\ Len(old) \in Nat /\ Len(new) \in Nat
      /\ 1 <= p /\ p < e /\ e < c /\ c <= Len(old)
      /\ old[e + 1] = "<" => e + 2 <= c
  BY InsideIs, SeqFacts
<1>2. /\ old[p] \in Opens /\ old[e] = "](" /\ \A j \in p + 1 .. e - 1 : old[j] \notin Opens /\ old[j] # "]("
      /\ old[e + 1] = "<" => old[c] = ">" /\ \A j \in e + 2 .. c - 1 : old[j] \notin Marks
      /\ old[e + 1] # "<" => old[c] = ")" /\ \A j \in e + 1 .. c - 1 : old[j] \notin Marks
  BY DEF FlatLink
<1>3. p + k \in 1 .. Len(new) /\ e + k \in p + k + 1 .. Len(new) /\ c + k \in e + k + 1 .. Len(new)
  <2>1. p \in p .. c /\ e \in p .. c /\ c \in p .. c
    BY <1>1
  <2>2. p + k \in 1 .. Len(new) /\ e + k \in 1 .. Len(new) /\ c + k \in 1 .. Len(new)
    BY <2>1
  <2> QED
    BY <1>1, <2>2
<1> DEFINE p2 == p + k
           e2 == e + k
           c2 == c + k
<1>4. p2 \in Int /\ e2 \in Int /\ c2 \in Int
  BY <1>1
<1>5. ASSUME NEW j \in Int, NEW q \in p .. c, j = q + k PROVE j \in 1 .. Len(new) /\ new[j] = old[q]
  BY <1>5
<1>6. /\ new[p2] = old[p] /\ new[e2] = old[e] /\ new[c2] = old[c] /\ new[e2 + 1] = old[e + 1]
  <2>1. p \in p .. c /\ e \in p .. c /\ c \in p .. c /\ e + 1 \in p .. c /\ e2 + 1 \in Int /\ e2 + 1 = e + 1 + k
    BY <1>1
  <2>2. p2 = p + k /\ e2 = e + k /\ c2 = c + k
    OBVIOUS
  <2> HIDE DEF p2, e2, c2
  <2>3. new[p2] = old[p]
    BY <1>4, <1>5, <2>1, <2>2
  <2>4. new[e2] = old[e]
    BY <1>4, <1>5, <2>1, <2>2
  <2>5. new[c2] = old[c]
    BY <1>4, <1>5, <2>1, <2>2
  <2>6. new[e2 + 1] = old[e + 1]
    <3> DEFINE x == e2 + 1
               y == e + 1
    <3>1. x \in Int /\ y \in p .. c /\ x = y + k
      BY <2>1
    <3> HIDE DEF x, y
    <3>2. new[x] = old[y]
      BY <1>5, <3>1
    <3> QED
      BY <3>2 DEF x, y
  <2> QED
    BY <2>3, <2>4, <2>5, <2>6
<1>7. p2 = p + k /\ e2 = e + k /\ c2 = c + k
  OBVIOUS
<1> HIDE DEF p2, e2, c2
<1>8. FlatLink(new, p2, e2, c2)
  <2>1. new[p2] \in Opens /\ new[e2] = "]("
    BY <1>2, <1>6
  <2>2. \A j \in p2 + 1 .. e2 - 1 : new[j] \notin Opens /\ new[j] # "]("
    <3> TAKE j \in p2 + 1 .. e2 - 1
    <3>1. PICK q \in p + 1 .. e - 1 : j = q + k
      <4>1. j - k \in p + 1 .. e - 1 /\ j = (j - k) + k
        BY <1>1, <1>7
      <4> QED
        BY <4>1
    <3>2. j \in Int /\ q \in p .. c
      BY <1>1, <1>7
    <3>3. new[j] = old[q]
      BY <1>5, <3>1, <3>2
    <3> QED
      BY <1>2, <3>1, <3>3
  <2>3. ASSUME new[e2 + 1] = "<"
        PROVE  new[c2] = ">" /\ \A j \in e2 + 2 .. c2 - 1 : new[j] \notin Marks
    <3>1. old[c] = ">" /\ \A j \in e + 2 .. c - 1 : old[j] \notin Marks
      BY <1>2, <1>6, <2>3
    <3>2. ASSUME NEW j \in e2 + 2 .. c2 - 1 PROVE new[j] \notin Marks
      <4>1. PICK q \in e + 2 .. c - 1 : j = q + k
        <5>1. j - k \in e + 2 .. c - 1 /\ j = (j - k) + k
          BY <1>1, <1>7
        <5> QED
          BY <5>1
      <4>2. j \in Int /\ q \in p .. c
        BY <1>1, <1>7
      <4>3. new[j] = old[q]
        BY <1>5, <4>1, <4>2
      <4> QED
        BY <3>1, <4>1, <4>3
    <3> QED
      BY <1>6, <3>1, <3>2
  <2>4. ASSUME new[e2 + 1] # "<"
        PROVE  new[c2] = ")" /\ \A j \in e2 + 1 .. c2 - 1 : new[j] \notin Marks
    <3>1. old[c] = ")" /\ \A j \in e + 1 .. c - 1 : old[j] \notin Marks
      BY <1>2, <1>6, <2>4
    <3>2. ASSUME NEW j \in e2 + 1 .. c2 - 1 PROVE new[j] \notin Marks
      <4>1. PICK q \in e + 1 .. c - 1 : j = q + k
        <5>1. j - k \in e + 1 .. c - 1 /\ j = (j - k) + k
          BY <1>1, <1>7
        <5> QED
          BY <5>1
      <4>2. j \in Int /\ q \in p .. c
        BY <1>1, <1>7
      <4>3. new[j] = old[q]
        BY <1>5, <4>1, <4>2
      <4> QED
        BY <3>1, <4>1, <4>3
    <3> QED
      BY <1>6, <3>1, <3>2
  <2> QED
    BY <1>3, <1>7, <2>1, <2>2, <2>3, <2>4 DEF FlatLink
<1>9. EndAt(new, e2, c2) = EndAt(old, e, c) + k
  BY <1>1, <1>6, <1>7 DEF EndAt
<1>10. WrittenAt(new, p2) = WrittenAt(old, p)
  <2> DEFINE f == From(old, e)
             f2 == From(new, e2)
             s == SubSeq(old, f, c - 1)
             t == SubSeq(new, f2, c2 - 1)
  <2>1. f \in Nat /\ e + 1 <= f /\ f <= c /\ f2 = f + k
    <3>1. CASE old[e + 1] = "<"
      <4>1. f = e + 2 /\ f2 = e2 + 2
        BY <1>6, <3>1 DEF From
      <4> HIDE DEF f, f2
      <4> QED
        BY <1>1, <1>7, <3>1, <4>1
    <3>2. CASE old[e + 1] # "<"
      <4>1. f = e + 1 /\ f2 = e2 + 1
        BY <1>6, <3>2 DEF From
      <4> HIDE DEF f, f2
      <4> QED
        BY <1>1, <1>7, <3>2, <4>1
    <3> QED
      BY <3>1, <3>2
  <2>2. WrittenAt(old, p) = s /\ WrittenAt(new, p2) = t
    BY <1>8, LinkIs
  <2>3. f2 \in Nat /\ 1 <= f2 /\ f2 <= c2 /\ c2 \in Nat /\ c2 <= Len(new) /\ c2 - f2 = c - f
    BY <1>1, <1>3, <1>7, <2>1
  <2> HIDE DEF f, f2
  <2>4. Sequence(s) /\ Len(s) = c - 1 - f + 1 /\ \A i \in 1 .. c - 1 - f + 1 : s[i] = old[f + i - 1]
    <3>1. 1 <= f /\ f <= c - 1 + 1 /\ c - 1 <= Len(old) /\ c - 1 \in Int /\ f \in Int
      BY <1>1, <2>1
    <3> QED
      BY <3>1, SubIs
  <2>5. Sequence(t) /\ Len(t) = c2 - 1 - f2 + 1 /\ \A i \in 1 .. c2 - 1 - f2 + 1 : t[i] = new[f2 + i - 1]
    <3>1. 1 <= f2 /\ f2 <= c2 - 1 + 1 /\ c2 - 1 <= Len(new) /\ c2 - 1 \in Int /\ f2 \in Int
      BY <2>3
    <3> QED
      BY <3>1, SubIs
  <2> HIDE DEF s, t
  <2>6. Len(s) = Len(t)
    BY <1>1, <2>1, <2>3, <2>4, <2>5
  <2>7. \A i \in 1 .. Len(s) : s[i] = t[i]
    <3> TAKE i \in 1 .. Len(s)
    <3> DEFINE x == f2 + i - 1
               y == f + i - 1
    <3>1. i \in 1 .. c - 1 - f + 1 /\ i \in 1 .. c2 - 1 - f2 + 1
      BY <1>1, <2>1, <2>3, <2>4
    <3>2. x \in Int /\ y \in p .. c /\ x = y + k
      BY <1>1, <2>1, <3>1
    <3>3. s[i] = old[y] /\ t[i] = new[x]
      BY <2>4, <2>5, <3>1
    <3> HIDE DEF x, y
    <3> QED
      BY <1>5, <3>2, <3>3
  <2> QED
    BY <2>2, <2>4, <2>5, <2>6, <2>7, SeqSame
<1> QED
  BY <1>7, <1>8, <1>9, <1>10

LEMMA SplicedBack ==
    ASSUME NEW old, NEW new, NEW e, NEW u, NEW v, Spliced(old, new, e, u, v)
    PROVE  Spliced(new, old, e, v, u)
<1>1. /\ Sequence(old) /\ Sequence(new) /\ Len(old) \in Nat /\ Len(new) \in Nat
      /\ e \in 1 .. Len(old) /\ u \in e .. Len(old) /\ v \in e .. Len(new) /\ Len(new) - v = Len(old) - u
      /\ \A q \in 1 .. e : new[q] = old[q]
      /\ \A q \in 1 .. Len(old) - u : new[v + q] = old[u + q]
  BY SeqFacts DEF Spliced
<1>2. e \in 1 .. Len(new)
  BY <1>1
<1> QED
  BY <1>1, <1>2 DEF Spliced

\* The link at p is the one whose destination was written.
Relinked(old, new, p, e, c, d) ==
    /\ FlatLink(old, p, e, c) /\ FlatLink(new, p, e, d)
    /\ Spliced(old, new, e, EndAt(old, e, c), EndAt(new, e, d))

LEMMA EndIs ==
    ASSUME NEW line, Sequence(line), NEW p, NEW e, NEW c, FlatLink(line, p, e, c)
    PROVE  EndAt(line, e, c) \in Nat /\ e <= EndAt(line, e, c) /\ EndAt(line, e, c) <= c
BY InsideIs DEF EndAt

\* Every other link stands before it, as it was, or after it.
LEMMA LinkOver ==
    ASSUME NEW old, NEW new, NEW p, NEW e, NEW c, NEW d, Relinked(old, new, p, e, c, d),
           NEW q, NEW f, NEW g, FlatLink(old, q, f, g)
    PROVE  \/ q < p /\ g < p /\ FlatLink(new, q, f, g)
           \/ q = p /\ f = e /\ g = c
           \/ LET k == EndAt(new, e, d) - EndAt(old, e, c)
              IN  /\ q > c /\ q > EndAt(old, e, c) /\ FlatLink(new, q + k, f + k, g + k)
                  /\ EndAt(new, f + k, g + k) = EndAt(old, f, g) + k
                  /\ WrittenAt(new, q + k) = WrittenAt(old, q)
<1> DEFINE u == EndAt(old, e, c)
           v == EndAt(new, e, d)
           k == v - u
<1>1. /\ Sequence(old) /\ Sequence(new) /\ Len(old) \in Nat /\ Len(new) \in Nat
      /\ e \in 1 .. Len(old) /\ u \in e .. Len(old) /\ v \in e .. Len(new) /\ Len(new) - v = Len(old) - u
      /\ \A x \in 1 .. e : new[x] = old[x]
      /\ \A x \in 1 .. Len(old) - u : new[v + x] = old[u + x]
      /\ FlatLink(old, p, e, c)
  BY SeqFacts DEF Spliced, Relinked
<1>2. /\ p \in Nat /\ e \in Nat /\ c \in Nat /\ 1 <= p /\ p < e /\ e < c /\ c <= Len(old)
      /\ \A x \in p + 1 .. c : old[x] \notin Opens
  BY <1>1, InsideIs
<1>3. /\ q \in Nat /\ f \in Nat /\ g \in Nat /\ 1 <= q /\ q < f /\ f < g /\ g <= Len(old)
      /\ \A x \in q + 1 .. g : old[x] \notin Opens
  BY <1>1, InsideIs
<1>4. old[p] \in Opens /\ old[q] \in Opens
  BY <1>1 DEF FlatLink
<1>5. u \in Nat /\ v \in Nat /\ u <= c
  BY <1>1, <1>2, EndIs
<1> HIDE DEF u, v
<1>6. CASE q < p
  <2>1. g < p
    <3>1. p \notin q + 1 .. g
      BY <1>3, <1>4
    <3> QED
      BY <1>2, <1>3, <1>6, <3>1
  <2>2. \A x \in q .. g : x + 0 \in 1 .. Len(new) /\ new[x + 0] = old[x]
    <3> TAKE x \in q .. g
    <3>1. x \in 1 .. e /\ x + 0 = x /\ x \in 1 .. Len(new)
      BY <1>1, <1>2, <1>3, <2>1
    <3> QED
      BY <1>1, <3>1
  <2>3. FlatLink(new, q + 0, f + 0, g + 0)
    BY <1>1, <2>2, LinkShift
  <2>4. q + 0 = q /\ f + 0 = f /\ g + 0 = g
    BY <1>3
  <2> QED
    BY <1>6, <2>1, <2>3, <2>4
<1>7. CASE q = p
  <2>1. f = e /\ g = c
    BY <1>1, <1>7, OneLink
  <2> QED
    BY <1>7, <2>1
<1>8. CASE q > p
  <2>1. q > c /\ q > u
    <3>1. q \notin p + 1 .. c
      BY <1>2, <1>4
    <3> QED
      BY <1>2, <1>3, <1>5, <1>8, <3>1
  <2>2. \A x \in q .. g : x + k \in 1 .. Len(new) /\ new[x + k] = old[x]
    <3> TAKE x \in q .. g
    <3>1. x - u \in 1 .. Len(old) - u /\ v + (x - u) = x + k /\ u + (x - u) = x
      BY <1>3, <1>5, <2>1
    <3>2. x + k \in 1 .. Len(new)
      BY <1>1, <1>5, <3>1
    <3> QED
      BY <1>1, <3>1, <3>2
  <2>3. k \in Int
    BY <1>5
  <2> HIDE DEF k
  <2>4. /\ FlatLink(new, q + k, f + k, g + k)
        /\ EndAt(new, f + k, g + k) = EndAt(old, f, g) + k
        /\ WrittenAt(new, q + k) = WrittenAt(old, q)
    BY <1>1, <2>2, <2>3, LinkShift
  <2> QED
    BY <2>1, <2>4 DEF k, u, v
<1> QED
  BY <1>2, <1>3, <1>6, <1>7, <1>8

LEMMA RelinkedBack ==
    ASSUME NEW old, NEW new, NEW p, NEW e, NEW c, NEW d, Relinked(old, new, p, e, c, d)
    PROVE  Relinked(new, old, p, e, d, c)
BY SplicedBack DEF Relinked

LEMMA RelinkedFlat ==
    ASSUME NEW old, NEW new, NEW p, NEW e, NEW c, NEW d, Relinked(old, new, p, e, c, d), Flat(old)
    PROVE  Flat(new)
<1> DEFINE u == EndAt(old, e, c)
           v == EndAt(new, e, d)
           k == v - u
<1>1. /\ Sequence(old) /\ Sequence(new) /\ Len(old) \in Nat /\ Len(new) \in Nat
      /\ e \in 1 .. Len(old) /\ u \in e .. Len(old) /\ v \in e .. Len(new) /\ Len(new) - v = Len(old) - u
      /\ \A x \in 1 .. e : new[x] = old[x]
      /\ \A x \in 1 .. Len(old) - u : new[v + x] = old[u + x]
      /\ FlatLink(old, p, e, c) /\ FlatLink(new, p, e, d)
  BY SeqFacts DEF Spliced, Relinked
<1>2. /\ p \in Nat /\ e \in Nat /\ d \in Nat /\ 1 <= p /\ p < e /\ e < d
      /\ \A x \in p + 1 .. d : new[x] \notin Opens
  BY <1>1, InsideIs
<1>3. u \in Nat /\ v \in Nat /\ e <= u /\ v <= d
  BY <1>1, EndIs
<1>4. DOMAIN new = 1 .. Len(new) /\ DOMAIN old = 1 .. Len(old)
  BY <1>1, SeqFacts
<1>5. \A q, f, g : FlatLink(old, q, f, g) =>
           \/ q < p /\ g < p /\ FlatLink(new, q, f, g)
           \/ q = p /\ f = e /\ g = c
           \/ q > u /\ FlatLink(new, q + k, f + k, g + k)
  BY LinkOver
<1> HIDE DEF u, v
<1>6. ASSUME NEW q \in Openers(new) PROVE \E f, g : FlatLink(new, q, f, g)
  <2>1. q \in 1 .. Len(new) /\ new[q] \in Opens
    BY <1>4 DEF Openers
  <2>2. CASE q <= e
    <3>1. q \in Openers(old)
      BY <1>1, <1>4, <2>1, <2>2 DEF Openers
    <3>2. PICK f, g : FlatLink(old, q, f, g)
      BY <3>1 DEF Flat
    <3>3. ~(q > u)
      BY <1>2, <1>3, <2>1, <2>2
    <3> QED
      BY <1>1, <1>5, <3>2, <3>3
  <2>3. CASE q > e
    <3> DEFINE x == q - v
    <3>1. x \in 1 .. Len(old) - u /\ v + x = q
      <4>1. q \notin p + 1 .. d
        BY <1>2, <2>1
      <4> QED
        BY <1>1, <1>2, <1>3, <2>1, <2>3, <4>1
    <3> HIDE DEF x
    <3>2. u + x \in Openers(old)
      <4>1. u + x \in 1 .. Len(old)
        BY <1>1, <1>3, <3>1
      <4> QED
        BY <1>1, <1>4, <2>1, <3>1, <4>1 DEF Openers
    <3>3. PICK f, g : FlatLink(old, u + x, f, g)
      BY <3>2 DEF Flat
    <3>4. ~(u + x < p) /\ ~(u + x = p) /\ u + x + k = q
      BY <1>1, <1>2, <1>3, <3>1
    <3>5. FlatLink(new, u + x + k, f + k, g + k)
      BY <1>5, <3>3, <3>4
    <3> QED
      BY <3>4, <3>5
  <2> QED
    BY <1>2, <2>1, <2>2, <2>3
<1> QED
  BY <1>1, <1>6 DEF Flat

\* What a line shows at a link: its opening with the name, its words, and nothing of its destination.
LEMMA ShownLink ==
    ASSUME NEW line, Flat(line), NEW p, NEW e, NEW c, FlatLink(line, p, e, c)
    PROVE  /\ Shown(line, p) = <<[word |-> line[p], to |-> WrittenAt(line, p)]>>
           /\ \A x \in p + 1 .. e : Shown(line, x) = <<[word |-> line[x], to |-> NoText]>>
           /\ \A x \in e + 1 .. EndAt(line, e, c) : Shown(line, x) = <<>>
<1>1. Sequence(line)
  BY DEF Flat
<1>2. /\ p \in Nat /\ e \in Nat /\ c \in Nat /\ 1 <= p /\ p < e /\ e < c /\ c <= Len(line)
      /\ \A x \in p + 1 .. c : line[x] \notin Opens
  BY <1>1, InsideIs
<1>3. line[p] \in Opens
  BY DEF FlatLink
<1>4. ASSUME NEW x \in p .. e PROVE x \notin InDestination(line)
  <2> SUFFICES ASSUME x \in InDestination(line) PROVE FALSE
    OBVIOUS
  <2>1. PICK q, f, g : FlatLink(line, q, f, g) /\ x \in f + 1 .. EndAt(line, f, g)
    BY HeldIs
  <2>2. /\ q \in Nat /\ f \in Nat /\ g \in Nat /\ 1 <= q /\ q < f /\ f < g /\ g <= Len(line)
        /\ \A y \in q + 1 .. g : line[y] \notin Opens
    BY <1>1, <2>1, InsideIs
  <2>3. EndAt(line, f, g) \in Nat /\ EndAt(line, f, g) <= g /\ line[q] \in Opens
    BY <1>1, <2>1, EndIs DEF FlatLink
  <2>4. CASE q < p
    <3>1. p \in q + 1 .. g
      BY <1>2, <2>1, <2>2, <2>3, <2>4
    <3> QED
      BY <1>3, <2>2, <3>1
  <2>5. CASE q = p
    <3>1. f = e
      BY <1>1, <2>1, <2>5, OneLink
    <3> QED
      BY <1>2, <2>1, <2>2, <2>3, <3>1
  <2>6. CASE q > p
    <3>1. q \in p + 1 .. c
      BY <1>2, <2>1, <2>2, <2>3, <2>6
    <3> QED
      BY <1>2, <2>3, <3>1
  <2> QED
    BY <1>2, <2>2, <2>4, <2>5, <2>6
<1>5. Shown(line, p) = <<[word |-> line[p], to |-> WrittenAt(line, p)]>>
  <2>1. p \in p .. e
    BY <1>2
  <2> QED
    BY <1>3, <1>4, <2>1 DEF Shown
<1>6. ASSUME NEW x \in p + 1 .. e PROVE Shown(line, x) = <<[word |-> line[x], to |-> NoText]>>
  <2>1. x \in p .. e /\ x \in p + 1 .. c
    BY <1>2
  <2> QED
    BY <1>2, <1>4, <2>1 DEF Shown
<1>7. ASSUME NEW x \in e + 1 .. EndAt(line, e, c) PROVE Shown(line, x) = <<>>
  BY HeldIs DEF Shown
<1> QED
  BY <1>5, <1>6, <1>7

LEMMA HeldOver ==
    ASSUME NEW old, NEW new, NEW p, NEW e, NEW c, NEW d, Relinked(old, new, p, e, c, d),
           Flat(old), Flat(new), NEW x \in Nat, EndAt(old, e, c) + x \in InDestination(old), x >= 1
    PROVE  EndAt(new, e, d) + x \in InDestination(new)
<1> DEFINE u == EndAt(old, e, c)
           v == EndAt(new, e, d)
           k == v - u
<1>1. Sequence(old) /\ Sequence(new) /\ FlatLink(old, p, e, c) /\ FlatLink(new, p, e, d)
  BY DEF Flat, Relinked
<1>2. u \in Nat /\ v \in Nat /\ e <= u /\ p \in Nat /\ e \in Nat /\ p < e
  BY <1>1, EndIs, InsideIs
<1>3. PICK q, f, g : FlatLink(old, q, f, g) /\ u + x \in f + 1 .. EndAt(old, f, g)
  BY HeldIs
<1>4. q \in Nat /\ f \in Nat /\ g \in Nat /\ EndAt(old, f, g) \in Nat /\ EndAt(old, f, g) <= g
  BY <1>1, <1>3, EndIs, InsideIs
<1>5. \/ g < p
      \/ f = e /\ g = c
      \/ FlatLink(new, q + k, f + k, g + k) /\ EndAt(new, f + k, g + k) = EndAt(old, f, g) + k
  BY <1>3, LinkOver
<1>6. f = e /\ g = c => EndAt(old, f, g) = u
  OBVIOUS
<1> HIDE DEF u, v
<1>7. ~(g < p) /\ ~(f = e /\ g = c)
  BY <1>2, <1>3, <1>4, <1>6
<1>8. FlatLink(new, q + k, f + k, g + k) /\ v + x \in f + k + 1 .. EndAt(new, f + k, g + k)
  BY <1>2, <1>3, <1>4, <1>5, <1>7
<1> QED
  BY <1>8, HeldIs DEF v

LEMMA ShownOver ==
    ASSUME NEW old, NEW new, NEW p, NEW e, NEW c, NEW d, Relinked(old, new, p, e, c, d),
           Flat(old), Flat(new), NEW x \in 1 .. Len(old) - EndAt(old, e, c)
    PROVE  Shown(new, EndAt(new, e, d) + x) = Shown(old, EndAt(old, e, c) + x)
<1> DEFINE u == EndAt(old, e, c)
           v == EndAt(new, e, d)
           k == v - u
<1>1. /\ Sequence(old) /\ Sequence(new) /\ FlatLink(old, p, e, c) /\ FlatLink(new, p, e, d)
      /\ new[v + x] = old[u + x]
  BY DEF Flat, Relinked, Spliced
<1>2. /\ u \in Nat /\ v \in Nat /\ e <= u /\ p \in Nat /\ e \in Nat /\ p < e /\ Len(old) \in Nat
      /\ x \in Nat /\ x >= 1 /\ u + x \in 1 .. Len(old) /\ DOMAIN old = 1 .. Len(old)
  BY <1>1, EndIs, InsideIs, SeqFacts
<1>3. v + x \in InDestination(new) <=> u + x \in InDestination(old)
  <2>1. u + x \in InDestination(old) => v + x \in InDestination(new)
    BY <1>2, HeldOver
  <2>2. v + x \in InDestination(new) => u + x \in InDestination(old)
    BY <1>2, RelinkedBack, HeldOver
  <2> QED
    BY <2>1, <2>2
<1>4. ASSUME old[u + x] \in Opens PROVE WrittenAt(new, v + x) = WrittenAt(old, u + x)
  <2>1. u + x \in Openers(old)
    BY <1>2, <1>4 DEF Openers
  <2>2. PICK f, g : FlatLink(old, u + x, f, g)
    BY <2>1 DEF Flat
  <2>3. \/ u + x < p \/ u + x = p
        \/ WrittenAt(new, u + x + k) = WrittenAt(old, u + x)
    BY <2>2, LinkOver
  <2>4. ~(u + x < p) /\ ~(u + x = p) /\ u + x + k = v + x
    <3> HIDE DEF u, v
    <3> QED
      BY <1>2
  <2> HIDE DEF u, v, k
  <2> QED
    BY <2>3, <2>4
<1> HIDE DEF u, v
<1>5. Shown(new, v + x) = Shown(old, u + x)
  BY <1>1, <1>3, <1>4 DEF Shown
<1> QED
  BY <1>5 DEF u, v

-----------------------------------------------------------------------------
(* The folds over a line and over a block.                                 *)

FoldStep(data, x, n) ==
    CASE data.kind = "words" -> Joined(Shown(data.line, Len(data.line) + 1 - n), x)
      [] data.kind = "rewritten" -> SpliceAt(x, data.found, Len(data.line) + 1 - n)
      [] data.kind = "lines" -> x + EntryLines(data.entries[n])
IsFold(f, z, data, m) == f = [n \in 0 .. m |-> IF n = 0 THEN z ELSE FoldStep(data, f[n - 1], n)]

LEMMA FoldExists ==
    ASSUME NEW z, NEW data, NEW m \in Nat
    PROVE  \E f : IsFold(f, z, data, m)
<1> DEFINE Is(f, k) == f = [n \in 0 .. k |-> IF n = 0 THEN z ELSE FoldStep(data, f[n - 1], n)]
           S == {k \in Nat : \E f : Is(f, k)}
<1>1. 0 \in S
  <2> DEFINE f == [n \in 0 .. 0 |-> z]
  <2>1. \A n \in 0 .. 0 : n = 0
    OBVIOUS
  <2>2. Is(f, 0)
    BY <2>1
  <2> QED
    BY <2>2
<1>2. ASSUME NEW k \in Nat, k \in S PROVE k + 1 \in S
  <2>1. PICK f : Is(f, k)
    BY <1>2
  <2> DEFINE g == [n \in 0 .. k + 1 |-> IF n = k + 1 THEN FoldStep(data, f[k], k + 1) ELSE f[n]]
  <2>2. \A n \in 0 .. k : f[n] = IF n = 0 THEN z ELSE FoldStep(data, f[n - 1], n)
    BY <2>1
  <2>3. ASSUME NEW n \in 0 .. k + 1 PROVE g[n] = IF n = 0 THEN z ELSE FoldStep(data, g[n - 1], n)
    <3>1. CASE n = k + 1
      <4>1. n # 0 /\ n - 1 = k /\ k \in 0 .. k + 1 /\ k # k + 1
        BY <1>2, <3>1
      <4>2. g[k] = f[k] /\ g[n] = FoldStep(data, f[k], n)
        BY <3>1, <4>1
      <4> QED
        BY <4>1, <4>2
    <3>2. CASE n # k + 1 /\ n # 0
      <4>1. n \in 0 .. k /\ n - 1 \in 0 .. k + 1 /\ n - 1 # k + 1
        BY <1>2, <3>2
      <4>2. g[n] = f[n] /\ g[n - 1] = f[n - 1]
        BY <3>2, <4>1
      <4> QED
        BY <2>2, <3>2, <4>1, <4>2
    <3>3. CASE n # k + 1 /\ n = 0
      <4>1. n \in 0 .. k
        BY <1>2, <3>3
      <4>2. g[n] = f[n]
        BY <3>3
      <4> QED
        BY <2>2, <3>3, <4>1, <4>2
    <3> QED
      BY <3>1, <3>2, <3>3
  <2>4. g = [n \in 0 .. k + 1 |-> g[n]]
    OBVIOUS
  <2>5. Is(g, k + 1)
    <3> HIDE DEF g
    <3> QED
      BY <2>3, <2>4
  <2>6. k + 1 \in Nat /\ \E f_ : Is(f_, k + 1)
    <3> HIDE DEF Is, g
    <3> QED
      BY <2>5
  <2> QED
    BY <2>6
<1>3. Nat \subseteq S
  <2> HIDE DEF S
  <2> QED
    BY <1>1, <1>2, ByNat
<1> QED
  BY <1>3 DEF IsFold

\* The words of a line after a column.
WordsOf(line) ==
    CHOOSE f : f = [n \in 0 .. Len(line) |->
                      IF n = 0 THEN <<>> ELSE Shown(line, Len(line) + 1 - n) \o f[n - 1]]
Onward(line, x) == WordsOf(line)[Len(line) - x]

LEMMA AfterIs ==
    ASSUME NEW line, Sequence(line)
    PROVE  /\ Onward(line, Len(line)) = <<>> /\ Words(line) = Onward(line, 0)
           /\ \A x \in 1 .. Len(line) : Onward(line, x - 1) = Joined(Shown(line, x), Onward(line, x))
<1> DEFINE L == Len(line)
           w == WordsOf(line)
<1>1. L \in Nat
  BY SeqFacts
<1>2. \E f : f = [n \in 0 .. L |-> IF n = 0 THEN <<>> ELSE Shown(line, L + 1 - n) \o f[n - 1]]
  <2> DEFINE data == [kind |-> "words", line |-> line]
  <2>1. PICK f : IsFold(f, <<>>, data, L)
    BY <1>1, FoldExists
  <2>2. \A x, n : FoldStep(data, x, n) = Shown(line, L + 1 - n) \o x
    BY DEF FoldStep, Joined
  <2> HIDE DEF data
  <2>3. f = [n \in 0 .. L |-> IF n = 0 THEN <<>> ELSE FoldStep(data, f[n - 1], n)]
    BY <2>1 DEF IsFold
  <2>4. f = [n \in 0 .. L |-> IF n = 0 THEN <<>> ELSE Shown(line, L + 1 - n) \o f[n - 1]]
    BY <2>2, <2>3, Zenon
  <2> QED
    BY <2>4
<1>3. w = [n \in 0 .. L |-> IF n = 0 THEN <<>> ELSE Shown(line, L + 1 - n) \o w[n - 1]]
  BY <1>2, Zenon DEF WordsOf
<1>4. Words(line) = w[L]
  BY DEF Words, WordsOf
<1> HIDE DEF w
<1>5. w[0] = <<>> /\ \A n \in 1 .. L : w[n] = Joined(Shown(line, L + 1 - n), w[n - 1])
  BY <1>1, <1>3 DEF Joined
<1>6. L - L = 0 /\ L - 0 = L
  BY <1>1
<1>7. Onward(line, L) = <<>> /\ Words(line) = Onward(line, 0)
  BY <1>4, <1>5, <1>6 DEF Onward, w
<1>8. ASSUME NEW x \in 1 .. L PROVE Onward(line, x - 1) = Joined(Shown(line, x), Onward(line, x))
  <2> DEFINE n == L - (x - 1)
  <2>1. n \in 1 .. L /\ L + 1 - n = x /\ n - 1 = L - x
    BY <1>1
  <2> HIDE DEF n
  <2>2. w[n] = Joined(Shown(line, x), w[L - x])
    BY <1>5, <2>1
  <2> QED
    BY <2>2 DEF Onward, w, n
<1> QED
  BY <1>7, <1>8

LEMMA ShownIs ==
    ASSUME NEW line, NEW x
    PROVE  Sequence(Shown(line, x)) /\ Len(Shown(line, x)) \in Nat
<1>1. \A r : Sequence(<<r>>) /\ Sequence(<<>>) /\ Len(<<r>>) = 1 /\ Len(<<>>) = 0
  <2> TAKE r
  <2>1. <<r>> \in Seq({r}) /\ <<>> \in Seq({r})
    OBVIOUS
  <2> QED
    BY <2>1, SeqIn
<1> QED
  BY <1>1 DEF Shown

LEMMA AfterSeq ==
    ASSUME NEW line, Sequence(line), NEW x \in 0 .. Len(line)
    PROVE  Sequence(Onward(line, x))
<1> DEFINE L == Len(line)
           S == {n \in Nat : Sequence(Onward(line, L - n))}
<1>1. L \in Nat
  BY SeqFacts
<1>2. 0 \in S
  <2>1. Onward(line, L - 0) = <<>> /\ <<>> \in Seq({})
    BY <1>1, AfterIs
  <2> QED
    BY <2>1, SeqIn
<1>3. ASSUME NEW n \in Nat, n < L, n \in S PROVE n + 1 \in S
  <2> DEFINE y == L - n
  <2>1. y \in 1 .. L /\ L - (n + 1) = y - 1
    BY <1>1, <1>3
  <2>2. Sequence(Onward(line, y)) /\ Sequence(Shown(line, y))
    BY <1>3, ShownIs
  <2> HIDE DEF y
  <2>3. Onward(line, y - 1) = Joined(Shown(line, y), Onward(line, y))
    BY <2>1, AfterIs
  <2>4. Sequence(Onward(line, y - 1))
    BY <2>2, <2>3, JoinIs DEF IsJoined
  <2> QED
    BY <1>3, <2>1, <2>4
<1> HIDE DEF S
<1>4. \A n \in 0 .. L : n \in S
  BY <1>1, <1>2, <1>3, UpTo
<1>5. L - x \in 0 .. L /\ L - (L - x) = x
  BY <1>1
<1> QED
  BY <1>4, <1>5 DEF S

\* The next m columns show the same.
ShowAlike(old, new, u, v, m) == \A x \in 1 .. m : Shown(new, v + x) = Shown(old, u + x)

\* Two lines that show the same up to where they go on alike.
LEMMA AfterAlike ==
    ASSUME NEW old, Sequence(old), NEW new, Sequence(new),
           NEW u \in Nat, NEW v \in Nat, NEW m \in Nat,
           NEW a, a = u + m, a <= Len(old), NEW b, b = v + m, b <= Len(new),
           Onward(new, b) = Onward(old, a),
           ShowAlike(old, new, u, v, m)
    PROVE  Onward(new, v) = Onward(old, u)
<1> DEFINE S == {n \in Nat : Onward(new, v + m - n) = Onward(old, u + m - n)}
<1>1. Len(old) \in Nat /\ Len(new) \in Nat
  BY SeqFacts
<1>2. 0 \in S
  <2>1. v + m - 0 = v + m /\ u + m - 0 = u + m
    OBVIOUS
  <2> QED
    BY <2>1
<1>3. ASSUME NEW n \in Nat, n < m, n \in S PROVE n + 1 \in S
  <2> DEFINE x == u + m - n
             y == v + m - n
             k == m - n
  <2>1. x \in 1 .. Len(old) /\ y \in 1 .. Len(new) /\ u + m - (n + 1) = x - 1 /\ v + m - (n + 1) = y - 1
    BY <1>1, <1>3
  <2>2. k \in 1 .. m /\ x = u + k /\ y = v + k
    BY <1>3
  <2>3. Onward(new, y) = Onward(old, x)
    BY <1>3
  <2> HIDE DEF x, y, k
  <2>4. Shown(new, y) = Shown(old, x)
    BY <2>2 DEF ShowAlike
  <2>5. Onward(new, y - 1) = Onward(old, x - 1)
    BY <2>1, <2>3, <2>4, AfterIs
  <2> QED
    BY <1>3, <2>1, <2>5
<1> HIDE DEF S
<1>4. \A n \in 0 .. m : n \in S
  BY <1>2, <1>3, UpTo
<1>5. m \in 0 .. m /\ v + m - m = v /\ u + m - m = u
  OBVIOUS
<1> QED
  BY <1>4, <1>5 DEF S

LEMMA JoinNone ==
    ASSUME NEW t, Sequence(t)
    PROVE  Joined(<<>>, t) = t
<1>1. Sequence(<<>>) /\ Len(<<>>) = 0
  <2>1. <<>> \in Seq({})
    OBVIOUS
  <2> QED
    BY <2>1, SeqIn
<1> DEFINE j == Joined(<<>>, t)
<1>2. IsJoined(j, <<>>, t)
  BY <1>1, JoinIs
<1> HIDE DEF j
<1>3. Sequence(j) /\ Len(j) = Len(t) /\ \A i \in 1 .. Len(t) : j[i] = t[i]
  <2>1. Len(t) \in Nat
    BY SeqFacts
  <2> QED
    BY <1>1, <1>2, <2>1 DEF IsJoined
<1>4. j = t
  BY <1>3, SeqSame
<1> QED
  BY <1>4 DEF j

\* A line goes on as it does after what it does not show.
LEMMA AfterSkips ==
    ASSUME NEW line, Sequence(line), NEW u \in Nat, NEW m \in Nat, u + m <= Len(line),
           \A x \in u + 1 .. u + m : Shown(line, x) = <<>>
    PROVE  Onward(line, u) = Onward(line, u + m)
<1> DEFINE S == {n \in Nat : Onward(line, u + m - n) = Onward(line, u + m)}
<1>1. Len(line) \in Nat
  BY SeqFacts
<1>2. 0 \in S
  <2>1. u + m - 0 = u + m
    OBVIOUS
  <2> QED
    BY <2>1
<1>3. ASSUME NEW n \in Nat, n < m, n \in S PROVE n + 1 \in S
  <2> DEFINE x == u + m - n
  <2>1. x \in 1 .. Len(line) /\ u + m - (n + 1) = x - 1 /\ x \in u + 1 .. u + m /\ x \in 0 .. Len(line)
    BY <1>1, <1>3
  <2>2. Onward(line, x) = Onward(line, u + m)
    BY <1>3
  <2> HIDE DEF x
  <2>3. Onward(line, x - 1) = Joined(<<>>, Onward(line, x))
    BY <2>1, AfterIs
  <2>4. Onward(line, x - 1) = Onward(line, x)
    BY <2>1, <2>3, AfterSeq, JoinNone
  <2> QED
    BY <1>3, <2>1, <2>2, <2>4
<1> HIDE DEF S
<1>4. \A n \in 0 .. m : n \in S
  BY <1>2, <1>3, UpTo
<1>5. m \in 0 .. m /\ u + m - m = u
  OBVIOUS
<1> QED
  BY <1>4, <1>5 DEF S

\* What follows a link's opening is the same words when its destination is another.
LEMMA RelinkAfter ==
    ASSUME NEW old, NEW new, NEW p, NEW e, NEW c, NEW d, Relinked(old, new, p, e, c, d),
           Flat(old), Flat(new)
    PROVE  Onward(new, p) = Onward(old, p)
<1> DEFINE u == EndAt(old, e, c)
           v == EndAt(new, e, d)
<1>1. /\ Sequence(old) /\ Sequence(new) /\ FlatLink(old, p, e, c) /\ FlatLink(new, p, e, d)
      /\ Len(old) \in Nat /\ Len(new) \in Nat
      /\ u \in e .. Len(old) /\ v \in e .. Len(new) /\ Len(new) - v = Len(old) - u
      /\ \A x \in 1 .. e : new[x] = old[x]
  BY SeqFacts DEF Relinked, Spliced
<1>2. p \in Nat /\ e \in Nat /\ p < e /\ 1 <= p /\ u \in Nat /\ v \in Nat
  BY <1>1, InsideIs, EndIs
<1>3. \A x \in 1 .. Len(old) - u : Shown(new, v + x) = Shown(old, u + x)
  BY ShownOver
<1>4. /\ \A x \in e + 1 .. u : Shown(old, x) = <<>>
      /\ \A x \in e + 1 .. v : Shown(new, x) = <<>>
  BY <1>1, ShownLink
<1>5. \A x \in p + 1 .. e : Shown(new, x) = Shown(old, x)
  <2>1. \A x \in p + 1 .. e : Shown(old, x) = <<[word |-> old[x], to |-> NoText]>>
    BY <1>1, ShownLink
  <2>2. \A x \in p + 1 .. e : Shown(new, x) = <<[word |-> new[x], to |-> NoText]>>
    BY <1>1, ShownLink
  <2> QED
    BY <1>1, <1>2, <2>1, <2>2, SMTT(20)
<1> HIDE DEF u, v
<1>6. Onward(new, v) = Onward(old, u)
  <2> DEFINE m == Len(old) - u
  <2>1. m \in Nat /\ Len(old) = u + m /\ Len(new) = v + m
    BY <1>1, <1>2
  <2>2. Onward(old, Len(old)) = <<>> /\ Onward(new, Len(new)) = <<>>
    BY <1>1, AfterIs
  <2> HIDE DEF m
  <2>3. ShowAlike(old, new, u, v, m)
    BY <1>3 DEF m, ShowAlike
  <2> DEFINE a == Len(old)
             b == Len(new)
  <2>4. a = u + m /\ b = v + m /\ a <= Len(old) /\ b <= Len(new)
    BY <1>1, <2>1
  <2>5. Onward(new, b) = Onward(old, a)
    BY <2>2
  <2>6. Sequence(old) /\ Sequence(new) /\ m \in Nat /\ u \in Nat /\ v \in Nat
    BY <1>1, <1>2, <2>1
  <2> HIDE DEF a, b
  <2> QED
    BY <2>3, <2>4, <2>5, <2>6, AfterAlike
<1>7. Onward(old, e) = Onward(old, u)
  <2> DEFINE m == u - e
  <2>1. m \in Nat /\ e + m = u
    BY <1>1, <1>2
  <2> HIDE DEF m
  <2>2. e + m <= Len(old) /\ \A x \in e + 1 .. e + m : Shown(old, x) = <<>>
    BY <1>1, <1>4, <2>1
  <2>3. Onward(old, e) = Onward(old, e + m)
    BY <1>1, <1>2, <2>1, <2>2, AfterSkips
  <2> QED
    BY <2>1, <2>3
<1>8. Onward(new, e) = Onward(new, v)
  <2> DEFINE m == v - e
  <2>1. m \in Nat /\ e + m = v
    BY <1>1, <1>2
  <2> HIDE DEF m
  <2>2. e + m <= Len(new) /\ \A x \in e + 1 .. e + m : Shown(new, x) = <<>>
    BY <1>1, <1>4, <2>1
  <2>3. Onward(new, e) = Onward(new, e + m)
    BY <1>1, <1>2, <2>1, <2>2, AfterSkips
  <2> QED
    BY <2>1, <2>3
<1>9. Onward(new, p) = Onward(old, p)
  <2> DEFINE m == e - p
  <2>1. m \in Nat /\ p + m = e
    BY <1>2
  <2> HIDE DEF m
  <2>2. ShowAlike(old, new, p, p, m)
    <3> SUFFICES ASSUME NEW x \in 1 .. m PROVE Shown(new, p + x) = Shown(old, p + x)
      BY DEF ShowAlike
    <3>1. p + x \in p + 1 .. e
      BY <1>2, <2>1
    <3> QED
      BY <1>5, <3>1
  <2>3. e <= Len(old) /\ e <= Len(new) /\ Onward(new, e) = Onward(old, e)
    BY <1>1, <1>2, <1>6, <1>7, <1>8, <2>1
  <2>4. Sequence(old) /\ Sequence(new) /\ m \in Nat /\ p \in Nat
    BY <1>1, <1>2, <2>1
  <2> QED
    BY <2>1, <2>2, <2>3, <2>4, AfterAlike
<1> QED
  BY <1>9

-----------------------------------------------------------------------------
(* A line with its links rewritten.                                        *)

LEMMA NoneNamed ==
    NewName(NoText) = NoText
<1>1. Sequence(NoText) /\ Len(NoText) = 0 /\ Len(<<"#">>) = 1
  <2>1. NoText \in Seq({}) /\ Len(NoText) = 0
    BY DEF NoText
  <2> QED
    BY <2>1, SeqIn
<1>2. FirstOf(<<"#">>, NoText) \in 0 .. 0
  <2>1. FirstOf(<<"#">>, NoText) \in 0 .. Len(NoText)
    BY <1>1, FirstIs
  <2> QED
    BY <1>1, <2>1
<1>3. ~Has(NoText, <<"#">>)
  BY <1>2 DEF Has
<1>4. Destination(NoText) = NoText
  BY <1>3 DEF Destination
<1> QED
  BY <1>4, NamesAreWords DEF NewName

LEMMA OneFollows ==
    ASSUME NEW s, Sequence(s), NEW t, Sequence(t), Follow(s, t),
           NEW r, NEW q, r.word = q.word, Decoded(r.to) = Decoded(NewName(q.to))
    PROVE  Follow(Joined(<<r>>, s), Joined(<<q>>, t))
<1> DEFINE js == Joined(<<r>>, s)
           jt == Joined(<<q>>, t)
<1>1. \A x : Sequence(<<x>>) /\ Len(<<x>>) = 1 /\ <<x>>[1] = x
  <2> TAKE x
  <2>1. <<x>> \in Seq({x})
    OBVIOUS
  <2> QED
    BY <2>1, SeqIn
<1>2. IsJoined(js, <<r>>, s) /\ IsJoined(jt, <<q>>, t)
  <2>1. Sequence(<<r>>) /\ Sequence(<<q>>)
    BY <1>1
  <2>2. IsJoined(js, <<r>>, s)
    BY <2>1, JoinIs
  <2>3. IsJoined(jt, <<q>>, t)
    BY <2>1, JoinIs
  <2> QED
    BY <2>2, <2>3
<1> HIDE DEF js, jt
<1>3. Len(s) \in Nat /\ Len(t) = Len(s)
  BY SeqFacts DEF Follow
<1>4. /\ Len(js) = 1 + Len(s) /\ Len(jt) = 1 + Len(s) /\ js[1] = r /\ jt[1] = q
      /\ \A i \in 1 .. Len(s) : js[1 + i] = s[i] /\ jt[1 + i] = t[i]
  <2>1. Len(<<r>>) = 1 /\ Len(<<q>>) = 1 /\ <<r>>[1] = r /\ <<q>>[1] = q
    BY <1>1
  <2>2. 1 \in 1 .. 1
    OBVIOUS
  <2>3. Len(js) = 1 + Len(s) /\ Len(jt) = 1 + Len(s)
    BY <1>2, <1>3, <2>1 DEF IsJoined
  <2>4. js[1] = r /\ jt[1] = q
    BY <1>2, <2>1, <2>2 DEF IsJoined
  <2>5. \A i \in 1 .. Len(s) : js[1 + i] = s[i]
    BY <1>2, <2>1 DEF IsJoined
  <2>6. \A i \in 1 .. Len(s) : jt[1 + i] = t[i]
    BY <1>2, <1>3, <2>1 DEF IsJoined
  <2> QED
    BY <2>3, <2>4, <2>5, <2>6
<1>5. ASSUME NEW n \in 1 .. Len(jt)
      PROVE  js[n].word = jt[n].word /\ Decoded(js[n].to) = Decoded(NewName(jt[n].to))
  <2>1. CASE n = 1
    BY <1>4, <2>1
  <2>2. CASE n # 1
    <3> DEFINE i == n - 1
    <3>1. i \in 1 .. Len(s) /\ n = 1 + i
      BY <1>3, <1>4, <2>2
    <3> HIDE DEF i
    <3>2. js[n] = s[i] /\ jt[n] = t[i]
      BY <1>4, <3>1
    <3>3. s[i].word = t[i].word /\ Decoded(s[i].to) = Decoded(NewName(t[i].to))
      BY <1>3, <3>1 DEF Follow
    <3> QED
      BY <3>2, <3>3
  <2> QED
    BY <2>1, <2>2
<1>6. Len(js) = Len(jt)
  BY <1>4
<1>7. Follow(js, jt)
  BY <1>5, <1>6 DEF Follow
<1> QED
  BY <1>7 DEF js, jt

\* The refs the scan finds on a line are its links to the moved document, those it does not
\* have to write otherwise left out or not.
LineRefs(line, found) ==
    /\ \A r \in found : /\ r.field = "$body" /\ r.col \in Openers(line) /\ r.written = WrittenAt(line, r.col)
                        /\ Destination(r.written) \in DOMAIN Renamed
    /\ \A p \in Openers(line) :
         Destination(WrittenAt(line, p)) \in DOMAIN Renamed
         /\ moved_body_link(WrittenAt(line, p)) # WrittenAt(line, p) => \E r \in found : r.col = p

LEMMA SpliceIsAt ==
    ASSUME NEW line, NEW found, LineRefs(line, found), NEW now, NEW p
    PROVE  \/ /\ p \in Openers(line) /\ Destination(WrittenAt(line, p)) \in DOMAIN Renamed
              /\ SpliceAt(now, found, p)
                   = splice_body_destination(now, p, WrittenAt(line, p), moved_body_link(WrittenAt(line, p)))
           \/ /\ SpliceAt(now, found, p) = now
              /\ p \in Openers(line) => NewName(WrittenAt(line, p)) = WrittenAt(line, p)
<1>1. CASE \E q \in found : q.col = p
  <2> DEFINE r == CHOOSE q \in found : q.col = p
  <2>1. r \in found /\ r.col = p
    BY <1>1
  <2>2. SpliceAt(now, found, p) = splice_body_destination(now, p, r.written, moved_name(r))
    BY <1>1 DEF SpliceAt
  <2> HIDE DEF r
  <2>3. /\ r.field = "$body" /\ p \in Openers(line) /\ r.written = WrittenAt(line, p)
        /\ Destination(r.written) \in DOMAIN Renamed
    BY <2>1 DEF LineRefs
  <2>4. moved_name(r) = moved_body_link(WrittenAt(line, p))
    BY <2>3 DEF moved_name
  <2> QED
    BY <2>2, <2>3, <2>4
<1>2. CASE ~\E q \in found : q.col = p
  <2>1. SpliceAt(now, found, p) = now
    BY <1>2 DEF SpliceAt
  <2>2. ASSUME p \in Openers(line) PROVE NewName(WrittenAt(line, p)) = WrittenAt(line, p)
    <3>1. Destination(WrittenAt(line, p)) \in DOMAIN Renamed
          => moved_body_link(WrittenAt(line, p)) = WrittenAt(line, p)
      BY <1>2, <2>2 DEF LineRefs
    <3> QED
      BY <3>1 DEF NewName
  <2> QED
    BY <2>1, <2>2
<1> QED
  BY <1>1, <1>2

LEMMA CleanWritten ==
    ASSUME NEW line, Sequence(line), NEW p, NEW e, NEW c, FlatLink(line, p, e, c)
    PROVE  Clean(WrittenAt(line, p))
<1> DEFINE f == From(line, e)
           s == SubSeq(line, f, c - 1)
<1>1. /\ p \in Nat /\ e \in Nat /\ c \in Nat /\ Len(line) \in Nat /\ p < e /\ e < c /\ c <= Len(line)
      /\ line[e + 1] = "<" => e + 2 <= c
  BY InsideIs
<1>2. WrittenAt(line, p) = s
  BY LinkIs
<1>3. f \in Nat /\ e + 1 <= f /\ f <= c
  BY <1>1 DEF From
<1>4. \A k \in f .. c - 1 : line[k] \notin Marks
  BY DEF FlatLink, From
<1> HIDE DEF f
<1>5. Sequence(s) /\ Len(s) = c - 1 - f + 1 /\ \A i \in 1 .. c - 1 - f + 1 : s[i] = line[f + i - 1]
  <2>1. 1 <= f /\ f <= c - 1 + 1 /\ c - 1 <= Len(line) /\ c - 1 \in Int /\ f \in Int
    BY <1>1, <1>3
  <2> QED
    BY <2>1, SubIs
<1> HIDE DEF s
<1>6. ASSUME NEW i \in 1 .. Len(s) PROVE s[i] \notin Marks
  <2>1. i \in 1 .. c - 1 - f + 1 /\ f + i - 1 \in f .. c - 1
    BY <1>1, <1>3, <1>5
  <2> QED
    BY <1>4, <1>5, <2>1
<1> QED
  BY <1>2, <1>5, <1>6 DEF Clean

\* A link of a line that has not changed as far as the link goes.
LEMMA SameLink ==
    ASSUME NEW old, Sequence(old), NEW new, Sequence(new), NEW p, NEW e, NEW c, FlatLink(old, p, e, c),
           \A x \in 1 .. c : x <= Len(new) /\ new[x] = old[x]
    PROVE  /\ FlatLink(new, p, e, c) /\ EndAt(new, e, c) = EndAt(old, e, c)
           /\ WrittenAt(new, p) = WrittenAt(old, p)
<1>1. p \in Nat /\ e \in Nat /\ c \in Nat /\ 1 <= p /\ p < e /\ e < c /\ Len(new) \in Nat
  BY InsideIs, SeqFacts
<1>2. \A x \in p .. c : x + 0 \in 1 .. Len(new) /\ new[x + 0] = old[x]
  <2> TAKE x \in p .. c
  <2>1. x \in 1 .. c /\ x + 0 = x
    BY <1>1
  <2>2. x <= Len(new) /\ new[x] = old[x]
    BY <2>1
  <2> QED
    BY <1>1, <2>1, <2>2
<1>3. /\ FlatLink(new, p + 0, e + 0, c + 0)
      /\ EndAt(new, e + 0, c + 0) = EndAt(old, e, c) + 0
      /\ WrittenAt(new, p + 0) = WrittenAt(old, p)
  BY <1>2, LinkShift
<1>4. p + 0 = p /\ e + 0 = e /\ c + 0 = c /\ EndAt(old, e, c) + 0 = EndAt(old, e, c)
  BY <1>1, EndIs
<1> QED
  BY <1>3, <1>4

\* The line is as it was wherever no link that has been gone over stands before.
AsBefore(old, new, u) ==
    \A q \in 1 .. Len(old) : (\A x \in u + 1 .. q : old[x] \notin Opens) => q <= Len(new) /\ new[q] = old[q]

LEMMA HeldAlike ==
    ASSUME NEW old, Flat(old), NEW new, Flat(new), NEW u \in 1 .. Len(old), u <= Len(new),
           AsBefore(old, new, u), old[u] \notin Opens
    PROVE  u \in InDestination(new) <=> u \in InDestination(old)
<1>1. Sequence(old) /\ Sequence(new) /\ Len(old) \in Nat /\ Len(new) \in Nat /\ DOMAIN old = 1 .. Len(old)
  BY SeqFacts DEF Flat
<1>2. ASSUME NEW p, NEW e, NEW c, FlatLink(old, p, e, c), p < u
      PROVE  FlatLink(new, p, e, c) /\ EndAt(new, e, c) = EndAt(old, e, c)
  <2>1. /\ p \in Nat /\ e \in Nat /\ c \in Nat /\ 1 <= p /\ p < e /\ e < c /\ c <= Len(old)
        /\ \A x \in p + 1 .. c : old[x] \notin Opens
    BY <1>1, <1>2, InsideIs
  <2>2. ASSUME NEW x \in 1 .. c PROVE x <= Len(new) /\ new[x] = old[x]
    <3>1. x \in 1 .. Len(old) /\ \A y \in u + 1 .. x : y \in p + 1 .. c
      BY <1>1, <1>2, <2>1
    <3> QED
      BY <2>1, <3>1 DEF AsBefore
  <2> QED
    BY <1>1, <1>2, <2>2, SameLink
<1>3. ASSUME u \in InDestination(old) PROVE u \in InDestination(new)
  <2>1. PICK p, e, c : FlatLink(old, p, e, c) /\ u \in e + 1 .. EndAt(old, e, c)
    BY <1>3, HeldIs
  <2>2. p < u
    BY <1>1, <2>1, InsideIs
  <2>3. FlatLink(new, p, e, c) /\ u \in e + 1 .. EndAt(new, e, c)
    BY <1>2, <2>1, <2>2
  <2> QED
    BY <2>3, HeldIs
<1>4. ASSUME u \in InDestination(new) PROVE u \in InDestination(old)
  <2>1. PICK p, e, c : FlatLink(new, p, e, c) /\ u \in e + 1 .. EndAt(new, e, c)
    BY <1>4, HeldIs
  <2>2. p \in Nat /\ e \in Nat /\ 1 <= p /\ p < u /\ new[p] \in Opens
    <3>1. p \in Nat /\ e \in Nat /\ c \in Nat /\ 1 <= p /\ p < e
      BY <1>1, <2>1, InsideIs
    <3>2. new[p] \in Opens
      BY <2>1 DEF FlatLink
    <3> QED
      BY <1>1, <2>1, <3>1, <3>2
  <2>3. old[p] = new[p]
    <3>1. p \in 1 .. Len(old) /\ \A x \in u + 1 .. p : FALSE
      BY <1>1, <2>2
    <3> QED
      BY <3>1 DEF AsBefore
  <2>4. p \in Openers(old)
    BY <1>1, <2>2, <2>3 DEF Openers
  <2>5. PICK f, g : FlatLink(old, p, f, g)
    BY <2>4 DEF Flat
  <2>6. FlatLink(new, p, f, g) /\ EndAt(new, f, g) = EndAt(old, f, g)
    BY <1>2, <2>2, <2>5
  <2>7. f = e /\ g = c
    BY <1>1, <2>1, <2>6, OneLink
  <2> QED
    BY <2>1, <2>5, <2>6, <2>7, HeldIs
<1> QED
  BY <1>3, <1>4

Gone(old, now, u) ==
    /\ Flat(now) /\ u <= Len(now) /\ AsBefore(old, now, u)
    /\ Follow(Onward(now, u), Onward(old, u))

\* One more column, from the last to the first.
LEMMA LineStep ==
    ASSUME NEW old, Flat(old), NEW found, LineRefs(old, found), NEW u \in 1 .. Len(old),
           NEW now, Gone(old, now, u)
    PROVE  Gone(old, SpliceAt(now, found, u), u - 1)
<1> DEFINE next == SpliceAt(now, found, u)
           w == WrittenAt(old, u)
<1>1. /\ Sequence(old) /\ Sequence(now) /\ Len(old) \in Nat /\ Len(now) \in Nat
      /\ DOMAIN old = 1 .. Len(old) /\ Flat(now) /\ u <= Len(now) /\ AsBefore(old, now, u)
      /\ Follow(Onward(now, u), Onward(old, u))
  BY SeqFacts DEF Flat, Gone
<1>2. /\ Sequence(Onward(now, u)) /\ Sequence(Onward(old, u))
      /\ Onward(now, u - 1) = Joined(Shown(now, u), Onward(now, u))
      /\ Onward(old, u - 1) = Joined(Shown(old, u), Onward(old, u))
  <2>1. u \in 0 .. Len(old) /\ u \in 0 .. Len(now) /\ u \in 1 .. Len(now)
    BY <1>1
  <2> QED
    BY <1>1, <2>1, AfterIs, AfterSeq
<1>3. /\ u \in Openers(old) <=> old[u] \in Opens
      /\ now[u] = old[u]
  <2>1. \A x \in u + 1 .. u : FALSE
    OBVIOUS
  <2> QED
    BY <1>1, <2>1 DEF Openers, AsBefore
<1>4. CASE u \notin Openers(old)
  <2>1. next = now
    BY <1>4, SpliceIsAt
  <2>2. AsBefore(old, now, u - 1)
    <3> SUFFICES ASSUME NEW q \in 1 .. Len(old), \A x \in u - 1 + 1 .. q : old[x] \notin Opens
                 PROVE  q <= Len(now) /\ now[q] = old[q]
      BY DEF AsBefore
    <3>1. \A x \in u + 1 .. q : x \in u - 1 + 1 .. q
      OBVIOUS
    <3> QED
      BY <1>1, <3>1 DEF AsBefore
  <2>3. u \in InDestination(now) <=> u \in InDestination(old)
    BY <1>1, <1>3, <1>4, HeldAlike
  <2>4. Follow(Onward(now, u - 1), Onward(old, u - 1))
    <3>1. CASE u \in InDestination(old)
      <4>1. Shown(now, u) = <<>> /\ Shown(old, u) = <<>>
        BY <2>3, <3>1 DEF Shown
      <4>2. Onward(now, u - 1) = Onward(now, u) /\ Onward(old, u - 1) = Onward(old, u)
        BY <1>2, <4>1, JoinNone
      <4> QED
        BY <1>1, <4>2
    <3>2. CASE u \notin InDestination(old)
      <4> DEFINE r == [word |-> old[u], to |-> NoText]
      <4>1. Shown(now, u) = <<r>> /\ Shown(old, u) = <<r>>
        BY <1>3, <1>4, <2>3, <3>2 DEF Shown
      <4>2. r.to = NoText
        OBVIOUS
      <4>3. r.word = r.word /\ Decoded(r.to) = Decoded(NewName(r.to))
        BY <4>2, NoneNamed
      <4> HIDE DEF r
      <4>4. Follow(Joined(<<r>>, Onward(now, u)), Joined(<<r>>, Onward(old, u)))
        BY <1>1, <1>2, <4>3, OneFollows
      <4> QED
        BY <1>2, <4>1, <4>4
    <3> QED
      BY <3>1, <3>2
  <2> QED
    BY <1>1, <2>1, <2>2, <2>4 DEF Gone
<1>5. CASE u \in Openers(old)
  <2>1. PICK e, c : FlatLink(old, u, e, c)
    BY <1>5 DEF Flat
  <2>2. /\ u \in Nat /\ e \in Nat /\ c \in Nat /\ 1 <= u /\ u < e /\ e < c /\ c <= Len(old)
        /\ \A x \in u + 1 .. c : old[x] \notin Opens
    BY <1>1, <2>1, InsideIs
  <2>3. FlatLink(now, u, e, c) /\ WrittenAt(now, u) = w
    <3>1. ASSUME NEW x \in 1 .. c PROVE x <= Len(now) /\ now[x] = old[x]
      <4>1. x \in 1 .. Len(old) /\ \A y \in u + 1 .. x : y \in u + 1 .. c
        BY <1>1, <2>2
      <4> QED
        BY <1>1, <2>2, <4>1 DEF AsBefore
    <3> QED
      BY <1>1, <2>1, <3>1, SameLink
  <2>4. Shown(old, u) = <<[word |-> old[u], to |-> w]>>
    BY <2>1, ShownLink
  \* The line is cut at the link at the most.
  <2>5. ASSUME NEW line, Sequence(line), \A q \in 1 .. u : q <= Len(line) /\ line[q] = now[q]
        PROVE  AsBefore(old, line, u - 1) /\ u - 1 <= Len(line)
    <3>1. ASSUME NEW q \in 1 .. Len(old), \A x \in u - 1 + 1 .. q : old[x] \notin Opens
          PROVE  q <= Len(line) /\ line[q] = old[q]
      <4>1. q < u
        <5>1. u - 1 + 1 = u /\ (q >= u => u \in u .. q)
          OBVIOUS
        <5> QED
          BY <1>3, <1>5, <3>1, <5>1
      <4>2. q \in 1 .. u /\ \A x \in u + 1 .. q : FALSE
        BY <4>1
      <4>3. now[q] = old[q]
        BY <1>1, <4>2 DEF AsBefore
      <4> QED
        BY <2>5, <4>2, <4>3
    <3>2. u \in 1 .. u /\ Len(line) \in Nat
      BY <2>5, SeqFacts
    <3>3. u - 1 <= Len(line)
      BY <2>5, <3>2
    <3> QED
      BY <3>1, <3>3 DEF AsBefore
  <2>6. CASE next = now /\ NewName(w) = w
    <3>1. AsBefore(old, now, u - 1) /\ u - 1 <= Len(now)
      <4>1. \A q \in 1 .. u : q <= Len(now) /\ now[q] = now[q]
        BY <1>1
      <4> QED
        BY <1>1, <2>5, <4>1
    <3>2. Shown(now, u) = <<[word |-> old[u], to |-> w]>>
      BY <1>1, <1>3, <2>3, ShownLink
    <3>3. Follow(Onward(now, u - 1), Onward(old, u - 1))
      <4> DEFINE r == [word |-> old[u], to |-> w]
      <4>1. r.word = r.word /\ Decoded(r.to) = Decoded(NewName(r.to))
        BY <2>6
      <4>2. Shown(now, u) = <<r>> /\ Shown(old, u) = <<r>>
        BY <2>4, <3>2
      <4> HIDE DEF r
      <4>3. Follow(Joined(<<r>>, Onward(now, u)), Joined(<<r>>, Onward(old, u)))
        BY <1>1, <1>2, <4>1, OneFollows
      <4> QED
        BY <1>2, <4>2, <4>3
    <3> QED
      BY <1>1, <2>6, <3>1, <3>3 DEF Gone
  <2>7. CASE /\ Destination(w) \in DOMAIN Renamed
             /\ next = splice_body_destination(now, u, w, moved_body_link(w))
    <3> DEFINE new == moved_body_link(w)
    <3>1. NewName(w) = new
      BY <2>7 DEF NewName
    <3>2. Clean(new)
      <4>1. Clean(w)
        BY <1>1, <2>1, CleanWritten
      <4> QED
        BY <2>7, <4>1, NewNameIs
    <3>3. next = splice_body_destination(now, u, WrittenAt(now, u), new)
      BY <2>3, <2>7
    <3> HIDE DEF new
    <3>4. PICK d : /\ FlatLink(next, u, e, d)
                   /\ Spliced(now, next, e, EndAt(now, e, c), EndAt(next, e, d))
                   /\ Decoded(WrittenAt(next, u)) = Decoded(new)
      <4> DEFINE now2 == splice_body_destination(now, u, WrittenAt(now, u), new)
      <4>1. \E d : /\ FlatLink(now2, u, e, d)
                   /\ Spliced(now, now2, e, EndAt(now, e, c), EndAt(now2, e, d))
                   /\ Decoded(WrittenAt(now2, u)) = Decoded(new)
        BY <1>1, <2>3, <3>2, RelinkIs
      <4> QED
        BY <3>3, <4>1
    <3> HIDE DEF next
    <3>5. Relinked(now, next, u, e, c, d)
      BY <2>3, <3>4 DEF Relinked
    <3>6. Flat(next)
      BY <1>1, <3>5, RelinkedFlat
    <3>7. Sequence(next) /\ \A q \in 1 .. e : q <= Len(next) /\ next[q] = now[q]
      <4>1. /\ Sequence(next) /\ EndAt(next, e, d) \in e .. Len(next)
            /\ \A q \in 1 .. e : next[q] = now[q]
        BY <3>4 DEF Spliced
      <4> QED
        BY <2>2, <4>1, SeqFacts
    <3>8. AsBefore(old, next, u - 1) /\ u - 1 <= Len(next)
      <4>1. \A q \in 1 .. u : q \in 1 .. e
        BY <2>2
      <4>2. \A q \in 1 .. u : q <= Len(next) /\ next[q] = now[q]
        BY <3>7, <4>1
      <4> QED
        BY <2>5, <3>7, <4>2
    <3>9. Follow(Onward(next, u - 1), Onward(old, u - 1))
      <4> DEFINE r == [word |-> old[u], to |-> WrittenAt(next, u)]
                 q == [word |-> old[u], to |-> w]
      <4>1. Onward(next, u) = Onward(now, u)
        BY <1>1, <3>5, <3>6, RelinkAfter
      <4>2. next[u] = old[u] /\ u \in 1 .. Len(next)
        <5>1. u \in 1 .. e /\ Len(next) \in Nat
          BY <2>2, <3>7, SeqFacts
        <5> QED
          BY <1>3, <3>7, <5>1
      <4>3. Shown(next, u) = <<r>>
        BY <3>4, <3>6, <4>2, ShownLink
      <4>4. Shown(old, u) = <<q>>
        BY <2>4
      <4>5. r.word = q.word /\ Decoded(r.to) = Decoded(NewName(q.to))
        BY <3>1, <3>4
      <4> HIDE DEF r, q
      <4>6. Onward(next, u - 1) = Joined(<<r>>, Onward(now, u))
        BY <3>7, <4>1, <4>2, <4>3, AfterIs
      <4>7. Onward(old, u - 1) = Joined(<<q>>, Onward(old, u))
        BY <1>2, <4>4
      <4>8. Follow(Joined(<<r>>, Onward(now, u)), Joined(<<q>>, Onward(old, u)))
        BY <1>1, <1>2, <4>5, OneFollows
      <4> QED
        BY <4>6, <4>7, <4>8
    <3>10. Gone(old, next, u - 1)
      BY <3>6, <3>8, <3>9 DEF Gone
    <3> QED
      BY <3>10 DEF next
  <2>8. \/ /\ Destination(w) \in DOMAIN Renamed
           /\ next = splice_body_destination(now, u, w, moved_body_link(w))
        \/ next = now /\ NewName(w) = w
    BY <1>5, SpliceIsAt
  <2> QED
    BY <2>6, <2>7, <2>8
<1> QED
  BY <1>4, <1>5

LEMMA RewritingIs ==
    ASSUME NEW line, Sequence(line), NEW found
    PROVE  \E f : /\ f[0] = line /\ RewriteLine(line, found) = f[Len(line)]
                  /\ \A n \in Nat : n < Len(line) => f[n + 1] = SpliceAt(f[n], found, Len(line) - n)
<1> DEFINE L == Len(line)
           w == CHOOSE f : f = [n \in 0 .. L |-> IF n = 0 THEN line ELSE SpliceAt(f[n - 1], found, L + 1 - n)]
<1>1. L \in Nat
  BY SeqFacts
<1>2. \E f : f = [n \in 0 .. L |-> IF n = 0 THEN line ELSE SpliceAt(f[n - 1], found, L + 1 - n)]
  <2> DEFINE data == [kind |-> "rewritten", line |-> line, found |-> found]
  <2>1. PICK f : IsFold(f, line, data, L)
    BY <1>1, FoldExists
  <2>2. \A x, n : FoldStep(data, x, n) = SpliceAt(x, found, L + 1 - n)
    BY DEF FoldStep
  <2> HIDE DEF data
  <2>3. f = [n \in 0 .. L |-> IF n = 0 THEN line ELSE FoldStep(data, f[n - 1], n)]
    BY <2>1 DEF IsFold
  <2>4. f = [n \in 0 .. L |-> IF n = 0 THEN line ELSE SpliceAt(f[n - 1], found, L + 1 - n)]
    BY <2>2, <2>3, Zenon
  <2> QED
    BY <2>4
<1>3. w = [n \in 0 .. L |-> IF n = 0 THEN line ELSE SpliceAt(w[n - 1], found, L + 1 - n)]
  BY <1>2, Zenon
<1>4. RewriteLine(line, found) = w[L]
  BY DEF RewriteLine
<1> HIDE DEF w
<1>5. w[0] = line
  BY <1>1, <1>3
<1>6. ASSUME NEW n \in Nat, n < L PROVE w[n + 1] = SpliceAt(w[n], found, L - n)
  <2> DEFINE m == n + 1
  <2>1. m \in 0 .. L /\ m # 0 /\ m - 1 = n /\ L + 1 - m = L - n
    BY <1>1, <1>6
  <2> HIDE DEF m
  <2>2. w[m] = SpliceAt(w[m - 1], found, L + 1 - m)
    BY <1>3, <2>1
  <2> QED
    BY <2>1, <2>2 DEF m
<1> QED
  BY <1>4, <1>5, <1>6

\* However many links a line has, each names the document by its new name, and every other word
\* is the one it was.
LEMMA LineFollows ==
    ASSUME NEW line, Flat(line), NEW found, LineRefs(line, found)
    PROVE  /\ Follow(Words(RewriteLine(line, found)), Words(line))
           /\ Sequence(RewriteLine(line, found))
<1> DEFINE L == Len(line)
<1>1. L \in Nat /\ Sequence(line)
  BY SeqFacts DEF Flat
<1>2. PICK f : /\ f[0] = line /\ RewriteLine(line, found) = f[L]
               /\ \A n \in Nat : n < L => f[n + 1] = SpliceAt(f[n], found, L - n)
  BY <1>1, RewritingIs
<1> DEFINE S == {n \in Nat : Gone(line, f[n], L - n)}
<1>3. 0 \in S
  <2>1. L - 0 = L /\ L <= L
    BY <1>1
  <2>2. AsBefore(line, line, L)
    BY <1>1 DEF AsBefore
  <2>3. Follow(Onward(line, L), Onward(line, L))
    <3>1. Onward(line, L) = <<>> /\ Len(<<>>) = 0
      BY <1>1, AfterIs
    <3> QED
      BY <3>1 DEF Follow
  <2>4. Gone(line, line, L)
    BY <2>1, <2>2, <2>3 DEF Gone
  <2> QED
    BY <1>2, <2>1, <2>4
<1>4. ASSUME NEW n \in Nat, n < L, n \in S PROVE n + 1 \in S
  <2> DEFINE u == L - n
  <2>1. u \in 1 .. L /\ L - (n + 1) = u - 1
    BY <1>1, <1>4
  <2>2. Gone(line, f[n], u) /\ f[n + 1] = SpliceAt(f[n], found, u)
    BY <1>2, <1>4
  <2> HIDE DEF u
  <2>3. Gone(line, SpliceAt(f[n], found, u), u - 1)
    BY <2>1, <2>2, LineStep
  <2>4. Gone(line, f[n + 1], L - (n + 1))
    BY <2>1, <2>2, <2>3
  <2> QED
    BY <2>4
<1> HIDE DEF S
<1>5. \A n \in 0 .. L : n \in S
  BY <1>1, <1>3, <1>4, UpTo
<1>6. Gone(line, f[L], 0)
  <2>1. L \in 0 .. L /\ L - L = 0
    BY <1>1
  <2> QED
    BY <1>5, <2>1 DEF S
<1>7. Sequence(f[L]) /\ Follow(Onward(f[L], 0), Onward(line, 0))
  BY <1>6 DEF Gone, Flat
<1>8. Words(f[L]) = Onward(f[L], 0) /\ Words(line) = Onward(line, 0)
  BY <1>1, <1>7, AfterIs
<1> QED
  BY <1>2, <1>7, <1>8

-----------------------------------------------------------------------------
(* The refs in fields, call by call.                                       *)

LEMMA SeqCovers ==
    ASSUME NEW S, IsFiniteSet(S), NEW x \in S
    PROVE  \E i \in 1 .. Len(SetToSeq(S)) : SetToSeq(S)[i] = x
<1> DEFINE n == Cardinality(S)
           Is(f) == f \in [1 .. n -> S] /\ IsInjective(f)
           s == SetToSeq(S)
<1>1. n \in Nat
  BY FS_CardinalityType
<1>2. \E f : f \in Bijection(1 .. n, S)
  BY FS_CardinalityType DEF ExistsBijection
<1>3. \E f : Is(f)
  BY <1>2 DEF Bijection, Injection, IsInjective
<1>4. s = CHOOSE f \in [1 .. n -> S] : IsInjective(f)
  BY DEF SetToSeq
<1>5. s \in [1 .. n -> S] /\ IsInjective(s)
  <2> HIDE DEF s, n
  <2> QED
    BY <1>3, <1>4
<1> HIDE DEF s
<1>6. s \in Injection(1 .. n, S)
  BY <1>5 DEF Injection
<1>7. Cardinality(1 .. n) = n
  <2>1. 1 \in Int /\ n \in Int /\ (1 > n => n = 0) /\ n - 1 + 1 = n
    BY <1>1
  <2> HIDE DEF n
  <2>2. Cardinality(1 .. n) = IF 1 > n THEN 0 ELSE n - 1 + 1
    BY <2>1, FS_Interval
  <2> QED
    BY <2>1, <2>2
<1>8. s \in Surjection(1 .. n, S)
  BY <1>6, <1>7, FS_Injection
<1>9. Len(s) = n
  <2>1. s \in Seq(S)
    BY <1>1, <1>5, SeqDef
  <2>2. DOMAIN s = 1 .. Len(s) /\ Len(s) \in Nat /\ DOMAIN s = 1 .. n
    BY <1>5, <2>1, LenProperties
  <2> HIDE DEF n
  <2> QED
    BY <1>1, <1>5, <2>2, LenProperties
<1> QED
  BY <1>8, <1>9 DEF Surjection, s

\* The value of a field while the refs in it are written one after another: what is written
\* already has its new name, and a ref is left for each item that has not.
Ahead(found, n, name, w) == {k \in n + 1 .. Len(found) : found[k].field = name /\ found[k].written = w}
Holding(items, w) == {i \in 1 .. Len(items) : items[i] = w}
Partly(was, now, found, n, name) ==
    /\ Sequence(now) /\ Len(now) = Len(was)
    /\ \A i \in 1 .. Len(was) : now[i] = was[i] \/ (was[i] \in Old /\ now[i] = Renamed[was[i]])
    /\ \A w \in Old : Cardinality(Holding(now, w)) <= Cardinality(Ahead(found, n, name, w))

LEMMA OldNew ==
    ASSUME NEW w \in Old
    PROVE  w \in DOMAIN Renamed /\ Renamed[w] \notin Old /\ Renamed[w] # w
BY NamesAreWords DEF Old

LEMMA AheadIs ==
    ASSUME NEW found, Len(found) \in Nat, NEW n \in Nat, NEW name, NEW w
    PROVE  IsFiniteSet(Ahead(found, n, name, w)) /\ Cardinality(Ahead(found, n, name, w)) \in Nat
<1>1. IsFiniteSet(n + 1 .. Len(found))
  BY FS_Interval
<1>2. Ahead(found, n, name, w) \in SUBSET (n + 1 .. Len(found))
  BY DEF Ahead
<1> QED
  BY <1>1, <1>2, FS_Subset, FS_CardinalityType

LEMMA HoldingIs ==
    ASSUME NEW items, Sequence(items), NEW w
    PROVE  IsFiniteSet(Holding(items, w)) /\ Cardinality(Holding(items, w)) \in Nat
<1>1. IsFiniteSet(1 .. Len(items))
  BY SeqFacts, FS_Interval
<1>2. Holding(items, w) \in SUBSET (1 .. Len(items))
  BY DEF Holding
<1> QED
  BY <1>1, <1>2, FS_Subset, FS_CardinalityType

\* A ref of another field, or to another name, is as far ahead as it was.
LEMMA AheadNext ==
    ASSUME NEW found, Len(found) \in Nat, NEW n \in Nat, n < Len(found), NEW name, NEW w
    PROVE  Cardinality(Ahead(found, n + 1, name, w))
             = IF found[n + 1].field = name /\ found[n + 1].written = w
               THEN Cardinality(Ahead(found, n, name, w)) - 1 ELSE Cardinality(Ahead(found, n, name, w))
<1> DEFINE m == n + 1
<1>1. m \in Nat /\ m \in n + 1 .. Len(found) /\ m + 1 .. Len(found) = (n + 1 .. Len(found)) \ {m}
  OBVIOUS
<1>2. CASE found[m].field = name /\ found[m].written = w
  <2>1. m \in Ahead(found, n, name, w)
    BY <1>1, <1>2 DEF Ahead
  <2>2. Ahead(found, m, name, w) = Ahead(found, n, name, w) \ {m}
    BY <1>1 DEF Ahead
  <2> HIDE DEF m
  <2>3. Cardinality(Ahead(found, m, name, w)) = Cardinality(Ahead(found, n, name, w)) - 1
    BY <2>1, <2>2, AheadIs, FS_RemoveElement, SMTT(20)
  <2> QED
    BY <1>2, <2>3 DEF m
<1>3. CASE ~(found[m].field = name /\ found[m].written = w)
  <2>1. Ahead(found, m, name, w) = Ahead(found, n, name, w)
    BY <1>1, <1>3 DEF Ahead
  <2> QED
    BY <1>3, <2>1 DEF m
<1> QED
  BY <1>2, <1>3

LEMMA OtherField ==
    ASSUME NEW found, Len(found) \in Nat, NEW n \in Nat, n < Len(found), NEW name, found[n + 1].field # name,
           NEW was, NEW now, Partly(was, now, found, n, name)
    PROVE  Partly(was, now, found, n + 1, name)
<1>1. \A w : Cardinality(Ahead(found, n + 1, name, w)) = Cardinality(Ahead(found, n, name, w))
  BY AheadNext
<1> QED
  BY <1>1 DEF Partly

\* One item is written.
LEMMA OneWritten ==
    ASSUME NEW found, Len(found) \in Nat, NEW n \in Nat, n < Len(found), NEW name,
           NEW w \in Old, found[n + 1].field = name, found[n + 1].written = w,
           NEW was, Sequence(was), NEW now, Partly(was, now, found, n, name),
           NEW at \in 1 .. Len(now), now[at] = w,
           NEW next, next = [now EXCEPT ![at] = Renamed[w]]
    PROVE  Partly(was, next, found, n + 1, name)
<1>1. /\ Sequence(now) /\ Len(now) = Len(was) /\ Len(now) \in Nat
      /\ \A i \in 1 .. Len(was) : now[i] = was[i] \/ (was[i] \in Old /\ now[i] = Renamed[was[i]])
      /\ \A x \in Old : Cardinality(Holding(now, x)) <= Cardinality(Ahead(found, n, name, x))
  BY SeqFacts DEF Partly
<1>2. /\ Sequence(next) /\ Len(next) = Len(now)
      /\ \A i \in 1 .. Len(now) : next[i] = IF i = at THEN Renamed[w] ELSE now[i]
  <2> DEFINE new == Renamed[w]
             then == [now EXCEPT ![at] = new]
  <2>1. Sequence(now) /\ next = then
    BY <1>1
  <2> HIDE DEF new
  <2>2. Sequence(then)
    BY <2>1, SeqExcept
  <2>3. Len(then) = Len(now) /\ \A i \in 1 .. Len(now) : then[i] = IF i = at THEN new ELSE now[i]
    BY <2>1, SeqExcept
  <2> HIDE DEF then
  <2> QED
    BY <2>1, <2>2, <2>3 DEF new
<1>3. Renamed[w] \notin Old /\ Renamed[w] # w
  BY OldNew
<1>4. was[at] = w
  <2>1. at \in 1 .. Len(was)
    BY <1>1
  <2>2. now[at] = was[at] \/ (was[at] \in Old /\ now[at] = Renamed[was[at]])
    BY <1>1, <2>1
  <2> QED
    BY <2>2, OldNew
<1>5. \A i \in 1 .. Len(was) : next[i] = was[i] \/ (was[i] \in Old /\ next[i] = Renamed[was[i]])
  BY <1>1, <1>2, <1>4
<1>6. ASSUME NEW x \in Old
      PROVE  Cardinality(Holding(next, x)) <= Cardinality(Ahead(found, n + 1, name, x))
  <2>1. /\ Cardinality(Holding(now, x)) \in Nat /\ IsFiniteSet(Holding(now, x))
        /\ Cardinality(Ahead(found, n, name, x)) \in Nat
        /\ Cardinality(Holding(now, x)) <= Cardinality(Ahead(found, n, name, x))
    BY <1>1, HoldingIs, AheadIs
  <2>2. CASE x = w
    <3>1. Holding(next, x) = Holding(now, x) \ {at} /\ at \in Holding(now, x)
      BY <1>1, <1>2, <1>3, <2>2 DEF Holding
    <3>2. Cardinality(Holding(next, x)) = Cardinality(Holding(now, x)) - 1
      BY <2>1, <3>1, FS_RemoveElement
    <3>3. Cardinality(Ahead(found, n + 1, name, x)) = Cardinality(Ahead(found, n, name, x)) - 1
      BY <2>2, AheadNext
    <3> QED
      BY <2>1, <3>2, <3>3
  <2>3. CASE x # w
    <3>1. Holding(next, x) = Holding(now, x)
      BY <1>1, <1>2, <1>3, <2>3 DEF Holding
    <3>2. Cardinality(Ahead(found, n + 1, name, x)) = Cardinality(Ahead(found, n, name, x))
      BY <2>3, AheadNext
    <3> QED
      BY <2>1, <3>1, <3>2
  <2> QED
    BY <2>2, <2>3
<1> QED
  BY <1>1, <1>2, <1>5, <1>6 DEF Partly

\* None of the name is left to write.
LEMMA NoneLeft ==
    ASSUME NEW found, Len(found) \in Nat, NEW n \in Nat, n < Len(found), NEW name,
           NEW w, NEW was, NEW now, Partly(was, now, found, n, name),
           found[n + 1].written = w, Holding(now, w) = {}
    PROVE  Partly(was, now, found, n + 1, name)
<1>1. ASSUME NEW x \in Old
      PROVE  Cardinality(Holding(now, x)) <= Cardinality(Ahead(found, n + 1, name, x))
  <2>1. CASE x = w
    <3>1. Cardinality(Holding(now, x)) = 0
      BY <2>1, FS_EmptySet
    <3>2. n + 1 \in Nat
      OBVIOUS
    <3>3. Cardinality(Ahead(found, n + 1, name, x)) \in Nat
      BY <3>2, AheadIs
    <3> QED
      BY <3>1, <3>3
  <2>2. CASE x # w
    <3>1. Cardinality(Ahead(found, n + 1, name, x)) = Cardinality(Ahead(found, n, name, x))
      BY <2>2, AheadNext
    <3> QED
      BY <3>1 DEF Partly
  <2> QED
    BY <2>1, <2>2
<1> QED
  BY <1>1 DEF Partly

\* The refs found, one for each item that names the document.
LEMMA NoneWritten ==
    ASSUME NEW found, Len(found) \in Nat, NEW name, NEW was, Sequence(was),
           \A i \in 1 .. Len(was) : was[i] \in Old =>
             \E k \in 1 .. Len(found) : found[k].field = name /\ found[k].written = was[i] /\ found[k].col = i
    PROVE  Partly(was, was, found, 0, name)
<1>1. ASSUME NEW w \in Old
      PROVE  Cardinality(Holding(was, w)) <= Cardinality(Ahead(found, 0, name, w))
  <2> DEFINE S == Holding(was, w)
             T == Ahead(found, 0, name, w)
             f == [i \in S |-> CHOOSE k \in T : found[k].col = i]
  <2>1. \A i \in S : \E k \in T : found[k].col = i
    BY <1>1 DEF Holding, Ahead
  <2>2. IsFiniteSet(T)
    BY AheadIs
  <2> HIDE DEF S, T
  <2>3. \A i \in S : f[i] \in T /\ found[f[i]].col = i
    BY <2>1
  <2>4. f \in [S -> T] /\ DOMAIN f = S
    BY <2>3
  <2> HIDE DEF f
  <2>5. f \in Injection(S, T)
    BY <2>3, <2>4 DEF Injection, IsInjective
  <2>6. Cardinality(S) <= Cardinality(T)
    BY <2>2, <2>5, FS_Injection
  <2> QED
    BY <2>6 DEF S, T
<1> QED
  BY <1>1 DEF Partly

\* When all are written, every item has its new name.
LEMMA AllWritten ==
    ASSUME NEW found, Len(found) \in Nat, NEW name, NEW was, Sequence(was), NEW now,
           Partly(was, now, found, Len(found), name)
    PROVE  \A i \in 1 .. Len(was) : now[i] = NewOf(was[i])
<1> DEFINE m == Len(found)
<1>1. /\ Sequence(now) /\ Len(now) = Len(was) /\ Len(now) \in Nat /\ DOMAIN now = 1 .. Len(was)
      /\ DOMAIN was = 1 .. Len(was)
      /\ \A i \in 1 .. Len(was) : now[i] = was[i] \/ (was[i] \in Old /\ now[i] = Renamed[was[i]])
      /\ \A x \in Old : Cardinality(Holding(now, x)) <= Cardinality(Ahead(found, m, name, x))
  BY SeqFacts DEF Partly
<1>2. ASSUME NEW x \in Old PROVE Holding(now, x) = {}
  <2>1. Ahead(found, m, name, x) = {}
    BY DEF Ahead
  <2>2. Cardinality(Ahead(found, m, name, x)) = 0
    BY <2>1, FS_EmptySet
  <2>3. Cardinality(Holding(now, x)) <= 0 /\ Cardinality(Holding(now, x)) \in Nat /\ IsFiniteSet(Holding(now, x))
    BY <1>1, <2>2, HoldingIs
  <2>4. Cardinality(Holding(now, x)) = 0
    BY <2>3
  <2> QED
    BY <2>3, <2>4, FS_EmptySet
<1>3. ASSUME NEW i \in 1 .. Len(was) PROVE now[i] = NewOf(was[i])
  <2>1. CASE was[i] \in Old
    <3>1. now[i] # was[i]
      BY <1>1, <1>2, <2>1 DEF Holding
    <3>2. now[i] = Renamed[was[i]]
      BY <1>1, <3>1
    <3> QED
      BY <2>1, <3>2, OldNew DEF NewOf
  <2>2. CASE was[i] \notin Old
    <3>1. now[i] = was[i]
      BY <1>1, <2>2
    <3> QED
      BY <2>2, <3>1 DEF NewOf, Old
  <2> QED
    BY <2>1, <2>2
<1> QED
  BY <1>3

-----------------------------------------------------------------------------
(* All the calls of a rewrite.                                             *)

RefField(fields, name) ==
    /\ HasField(fields, name) /\ Declares(schema, name) /\ Declared(schema, name).kind \in RefKinds
    /\ fits(Declared(schema, name).kind, FieldValue(fields, name))
ItemsOf(fields, name) == FieldValue(fields, name).items

\* A scan of these fields: a ref for each item that names the document otherwise than it will.
ScanOf(fields, refs) ==
    /\ IsFiniteSet(FieldRefs(refs))
    /\ \A r \in FieldRefs(refs) : /\ r.field # "$body" /\ RefField(fields, r.field) /\ r.written \in Old
                                  /\ r.written \in ToSet(ItemsOf(fields, r.field))
    /\ \A name : \A i : RefField(fields, name) /\ i \in 1 .. Len(ItemsOf(fields, name))
                        /\ ItemsOf(fields, name)[i] \in Old =>
         \E r \in FieldRefs(refs) : r.field = name /\ r.written = ItemsOf(fields, name)[i] /\ r.col = i

Shaped(fields) == \A name : RefField(fields, name) => Shape(FieldValue(fields, name))

Midway(before, fields, found, n) ==
    \A name : RefField(before, name) =>
      /\ FieldValue(fields, name) = [type |-> FieldValue(before, name).type, items |-> ItemsOf(fields, name)]
      /\ Partly(ItemsOf(before, name), ItemsOf(fields, name), found, n, name)

LEMMA FirstHolding ==
    ASSUME NEW items, Sequence(items), NEW w, Contains(items, w)
    PROVE  LET at == Min({i \in DOMAIN items : items[i] = w}) IN at \in 1 .. Len(items) /\ items[at] = w
<1> DEFINE S == {i \in DOMAIN items : items[i] = w}
<1>1. Len(items) \in Nat /\ DOMAIN items = 1 .. Len(items)
  BY SeqFacts
<1>2. S # {} /\ S \subseteq Nat
  BY <1>1 DEF Contains
<1>3. \A i \in S : i \in 1 .. Len(items) /\ items[i] = w
  BY <1>1
<1> HIDE DEF S
<1>4. PICK m \in S : \A k \in S : m <= k
  BY <1>2, LeastNat
<1>5. Min(S) = m
  <2>1. S \subseteq Int
    BY <1>2
  <2> QED
    BY <1>4, <2>1, LeastIs
<1>6. Min(S) \in 1 .. Len(items) /\ items[Min(S)] = w
  BY <1>3, <1>4, <1>5
<1> QED
  BY <1>6 DEF S

\* One call, for a list.
LEMMA ListCall ==
    ASSUME NEW fields, Fine(fields), NEW name, HoldsList(fields, name),
           FieldValue(fields, name) = [type |-> "List", items |-> ItemsOf(fields, name)],
           NEW found, Len(found) \in Nat, NEW n \in Nat, n < Len(found),
           NEW w \in Old, found[n + 1].field = name, found[n + 1].written = w,
           NEW was, Sequence(was), Partly(was, ItemsOf(fields, name), found, n, name)
    PROVE  LET after == replace_item(fields, name, w, Renamed[w])
           IN  /\ FieldValue(after, name) = [type |-> "List", items |-> ItemsOf(after, name)]
               /\ Partly(was, ItemsOf(after, name), found, n + 1, name)
<1> DEFINE items == FieldValue(fields, name).items
           after == replace_item(fields, name, w, Renamed[w])
           at == Min({i \in DOMAIN items : items[i] = w})
           next == [items EXCEPT ![at] = Renamed[w]]
<1>1. ItemsOf(fields, name) = items
  BY DEF ItemsOf
<1>2. Sequence(items)
  BY <1>1 DEF Partly
<1>3. CASE Contains(items, w)
  <2>1. after = Put(fields, name, ListValue(next))
    BY <1>3 DEF replace_item
  <2>2. at \in 1 .. Len(items) /\ items[at] = w
    <3> HIDE DEF items
    <3> QED
      BY <1>2, <1>3, FirstHolding
  <2> HIDE DEF at
  <2>3. Partly(was, next, found, n + 1, name)
    BY <1>1, <2>2, OneWritten
  <2>4. Sequence(next)
    BY <2>3 DEF Partly
  <2> HIDE DEF next, after, items
  <2>5. Sequence(ListValue(next).items) /\ ListValue(next) = [type |-> "List", items |-> next] /\ ListValue(next).items = next
    BY <2>4 DEF ListValue
  <2>6. FieldValue(Put(fields, name, ListValue(next)), name) = ListValue(next)
    BY <2>5, PutIs
  <2>7. FieldValue(after, name) = [type |-> "List", items |-> next] /\ ItemsOf(after, name) = next
    BY <2>1, <2>5, <2>6 DEF ItemsOf
  <2> QED
    BY <2>3, <2>7 DEF after
<1>4. CASE ~Contains(items, w)
  <2>1. after = fields
    BY <1>4 DEF replace_item
  <2> HIDE DEF after
  <2>2. Holding(items, w) = {}
    BY <1>4 DEF Contains, Holding
  <2>3. Partly(was, items, found, n + 1, name)
    BY <1>1, <2>2, NoneLeft
  <2> QED
    BY <1>1, <2>1, <2>3 DEF after
<1> QED
  BY <1>3, <1>4

\* One call, for a text.
LEMMA TextCall ==
    ASSUME NEW fields, Fine(fields), NEW name,
           NEW found, Len(found) \in Nat, NEW n \in Nat, n < Len(found),
           NEW w \in Old, found[n + 1].field = name, found[n + 1].written = w,
           Partly(<<w>>, ItemsOf(fields, name), found, n, name)
    PROVE  LET after == Put(fields, name, TextValue(Renamed[w]))
           IN  /\ FieldValue(after, name) = [type |-> "Text", items |-> ItemsOf(after, name)]
               /\ Partly(<<w>>, ItemsOf(after, name), found, n + 1, name)
<1> DEFINE items == ItemsOf(fields, name)
           new == Renamed[w]
           after == Put(fields, name, TextValue(new))
<1>1. TextValue(new) = [type |-> "Text", items |-> <<new>>] /\ TextValue(new).items = <<new>>
      /\ Sequence(<<new>>) /\ Sequence(<<w>>)
  BY OneItem DEF TextValue
<1>2. FieldValue(after, name) = TextValue(new)
  BY <1>1, PutIs
<1> HIDE DEF after
<1>3. FieldValue(after, name) = [type |-> "Text", items |-> <<new>>] /\ ItemsOf(after, name) = <<new>>
  BY <1>1, <1>2 DEF ItemsOf
<1>4. Sequence(items) /\ Len(items) = 1 /\ (items[1] = w \/ items[1] = new) /\ new # w
  <2>1. Len(<<w>>) = 1 /\ <<w>>[1] = w /\ 1 \in 1 .. 1
    OBVIOUS
  <2> QED
    BY <2>1, OldNew DEF Partly
<1>5. Partly(<<w>>, <<new>>, found, n + 1, name)
  <2>1. CASE items[1] = w
    <3> DEFINE next == [items EXCEPT ![1] = new]
    <3>1. 1 \in 1 .. Len(items)
      BY <1>4
    <3> HIDE DEF items
    <3>2. Partly(<<w>>, next, found, n + 1, name)
      BY <1>1, <2>1, <3>1, OneWritten DEF items
    <3>3. next = <<new>>
      <4>1. Sequence(next)
        BY <1>4, SeqExcept
      <4>2. Len(next) = Len(items) /\ \A i \in 1 .. Len(items) : next[i] = IF i = 1 THEN new ELSE items[i]
        BY <1>4, SeqExcept
      <4> HIDE DEF next
      <4>3. Len(next) = Len(<<new>>) /\ \A i \in 1 .. Len(next) : next[i] = <<new>>[i]
        BY <1>4, <4>2
      <4> QED
        BY <1>1, <4>1, <4>3, SeqSame
    <3> QED
      BY <3>2, <3>3
  <2>2. CASE items[1] # w
    <3>1. items = <<new>>
      <4> HIDE DEF items
      <4>1. Len(items) = Len(<<new>>) /\ \A i \in 1 .. Len(items) : items[i] = <<new>>[i]
        BY <1>4, <2>2
      <4> QED
        BY <1>1, <1>4, <4>1, SeqSame
    <3>2. Holding(items, w) = {}
      BY <1>4, <2>2 DEF Holding
    <3> QED
      BY <3>1, <3>2, NoneLeft
  <2> QED
    BY <2>1, <2>2
<1> QED
  BY <1>3, <1>5 DEF after

LEMMA MidStep ==
    ASSUME NEW before, Fine(before), Shaped(before), NEW fields, Fine(fields),
           \A name : HasField(before, name) => HasField(fields, name),
           NEW found, Len(found) \in Nat, NEW n \in Nat, n < Len(found), Midway(before, fields, found, n),
           NEW r, r = found[n + 1], r.field # "$body", r.written \in Old,
           r.written \in ToSet(ItemsOf(before, r.field))
    PROVE  Midway(before, Called(fields, RewriteCall(before, r)), found, n + 1)
<1> DEFINE after == Called(fields, RewriteCall(before, r))
           w == r.written
<1>1. moved_name(r) = Renamed[w]
  BY DEF moved_name
<1>2. ASSUME NEW name, name # r.field, RefField(before, name)
      PROVE  FieldValue(after, name) = FieldValue(fields, name)
  <2>1. Keeps(fields, after, {r.field}, {})
    <3>1. Typed(RewriteCall(before, r)) /\ Touches(RewriteCall(before, r)) = {r.field} /\ Removes(RewriteCall(before, r)) = {}
      BY RewriteTyped
    <3>2. Keeps(fields, after, Touches(RewriteCall(before, r)), Removes(RewriteCall(before, r)))
      BY <3>1, CallKeeps
    <3> QED
      BY <3>1, <3>2
  <2>2. HasField(fields, name)
    BY <1>2 DEF RefField
  <2> HIDE DEF after
  <2> QED
    BY <1>2, <2>1, <2>2 DEF Keeps
<1>3. ASSUME NEW name, RefField(before, name)
      PROVE  /\ FieldValue(after, name) = [type |-> FieldValue(before, name).type, items |-> ItemsOf(after, name)]
             /\ Partly(ItemsOf(before, name), ItemsOf(after, name), found, n + 1, name)
  <2>1. /\ FieldValue(fields, name) = [type |-> FieldValue(before, name).type, items |-> ItemsOf(fields, name)]
        /\ Partly(ItemsOf(before, name), ItemsOf(fields, name), found, n, name)
    BY <1>3 DEF Midway
  <2>2. HasField(before, name) /\ HasField(fields, name) /\ Shape(FieldValue(before, name))
    BY <1>3 DEF RefField, Shaped
  <2>3. CASE name # r.field
    <3>1. FieldValue(after, name) = FieldValue(fields, name)
      BY <1>2, <1>3, <2>3
    <3> HIDE DEF after
    <3>2. ItemsOf(after, name) = ItemsOf(fields, name)
      BY <3>1 DEF ItemsOf
    <3>3. found[n + 1].field # name
      BY <2>3
    <3>4. Partly(ItemsOf(before, name), ItemsOf(fields, name), found, n + 1, name)
      BY <2>1, <3>3, OtherField
    <3> QED
      BY <2>1, <3>1, <3>2, <3>4
  <2>4. CASE name = r.field
    <3>1. found[n + 1].field = name /\ found[n + 1].written = w /\ w \in Old
      BY <2>4
    <3>2. CASE HoldsList(before, name)
      <4>1. after = replace_item(fields, name, w, Renamed[w])
        BY <1>1, <2>4, <3>2 DEF RewriteCall, ReplaceCall, Called
      <4>2. FieldValue(before, name).type = "List"
        BY <3>2 DEF HoldsList
      <4>3. FieldValue(fields, name) = [type |-> "List", items |-> ItemsOf(fields, name)] /\ HoldsList(fields, name)
        BY <2>1, <2>2, <4>2 DEF HoldsList
      <4>4. Sequence(ItemsOf(before, name))
        BY <2>2, ShapeFacts DEF ItemsOf
      <4> HIDE DEF after
      <4>5. /\ FieldValue(after, name) = [type |-> "List", items |-> ItemsOf(after, name)]
            /\ Partly(ItemsOf(before, name), ItemsOf(after, name), found, n + 1, name)
        BY <2>1, <3>1, <4>1, <4>3, <4>4, ListCall
      <4> QED
        BY <4>2, <4>5
    <3>3. CASE ~HoldsList(before, name)
      <4>1. after = Put(fields, name, TextValue(Renamed[w]))
        BY <1>1, <2>4, <3>3 DEF RewriteCall, PutCall, Called
      <4>2. FieldValue(before, name).type # "List"
        BY <2>2, <3>3 DEF HoldsList
      <4>3. FieldValue(before, name) = TextValue(w)
        <5>1. w \in ToSet(FieldValue(before, name).items)
          BY <2>4 DEF ItemsOf
        <5>2. FieldValue(before, name) # EmptyValue
          <6>1. EmptyValue.items = <<>> /\ ToSet(<<>>) = {}
            BY DEF EmptyValue, ToSet
          <6> QED
            BY <5>1, <6>1
        <5>3. PICK text : FieldValue(before, name) = TextValue(text)
          <6>1. \A items : ListValue(items).type = "List"
            BY DEF ListValue
          <6> QED
            BY <2>2, <4>2, <5>2, <6>1 DEF Shape
        <5>4. TextValue(text).items = <<text>> /\ ToSet(<<text>>) = {text}
          BY DEF TextValue, ToSet
        <5> QED
          BY <5>1, <5>3, <5>4
      <4>4. ItemsOf(before, name) = <<w>> /\ FieldValue(before, name).type = "Text"
        BY <4>3 DEF ItemsOf, TextValue
      <4> HIDE DEF after
      <4>5. /\ FieldValue(after, name) = [type |-> "Text", items |-> ItemsOf(after, name)]
            /\ Partly(<<w>>, ItemsOf(after, name), found, n + 1, name)
        BY <2>1, <3>1, <4>1, <4>4, TextCall
      <4> QED
        BY <4>4, <4>5
    <3> QED
      BY <3>2, <3>3
  <2> QED
    BY <2>3, <2>4
<1> HIDE DEF after
<1>4. Midway(before, after, found, n + 1)
  BY <1>3 DEF Midway
<1> QED
  BY <1>4 DEF after

\* What the calls leave of the fields that hold refs.
LEMMA CallsFollow ==
    ASSUME NEW before, Fine(before), Shaped(before), NEW refs, ScanOf(before, refs)
    PROVE  LET after == RewriteFields(before, refs)
           IN  /\ Keeps(before, after, {r.field : r \in FieldRefs(refs)}, {})
               /\ \A name : RefField(before, name) =>
                    /\ FieldValue(after, name) = [type |-> FieldValue(before, name).type, items |-> ItemsOf(after, name)]
                    /\ Sequence(ItemsOf(after, name)) /\ Len(ItemsOf(after, name)) = Len(ItemsOf(before, name))
                    /\ \A i \in 1 .. Len(ItemsOf(before, name)) :
                         ItemsOf(after, name)[i] = NewOf(ItemsOf(before, name)[i])
<1> DEFINE found == SetToSeq(FieldRefs(refs))
           m == Len(found)
           calls == [n \in DOMAIN found |-> RewriteCall(before, found[n])]
           touched == {r.field : r \in FieldRefs(refs)}
<1>1. m \in Nat /\ DOMAIN found = 1 .. m /\ \A i \in 1 .. m : found[i] \in FieldRefs(refs)
  BY SeqOfSet DEF ScanOf
<1>2. RewriteFields(before, refs) = Told(before, calls)
  BY DEF RewriteFields
<1>3. calls = [n \in 1 .. m |-> calls[n]] /\ \A n \in 1 .. m : calls[n] = RewriteCall(before, found[n])
  BY <1>1
<1>4. \A n \in 1 .. m : found[n].field \in touched
  BY <1>1
<1>5. \A r \in FieldRefs(refs) : \E k \in 1 .. m : found[k] = r
  BY SeqCovers DEF ScanOf
<1> HIDE DEF found, m, calls, touched
<1>6. Len(calls) = m /\ Len(found) = m
  BY <1>1, <1>3, SeqMade DEF m
<1>7. \A n \in 1 .. m : Typed(calls[n]) /\ Touches(calls[n]) \subseteq touched /\ Removes(calls[n]) \subseteq {}
  BY <1>3, <1>4, RewriteTyped
<1>8. PICK f : /\ f[0] = before /\ Told(before, calls) = f[m]
               /\ \A n \in Nat : n < m => f[n + 1] = Called(f[n], calls[n + 1])
  <2>1. Len(calls) \in Nat
    BY <1>1, <1>6
  <2>2. PICK g : /\ g[0] = before /\ Told(before, calls) = g[Len(calls)]
                 /\ \A n \in Nat : n < Len(calls) => g[n + 1] = Called(g[n], calls[n + 1])
    BY <2>1, ToldIs
  <2>3. g[0] = before /\ Told(before, calls) = g[m] /\ \A n \in Nat : n < m => g[n + 1] = Called(g[n], calls[n + 1])
    BY <1>6, <2>2
  <2> QED
    BY <2>3
<1> DEFINE S == {n \in Nat : Keeps(before, f[n], touched, {}) /\ Midway(before, f[n], found, n)}
<1>9. 0 \in S
  <2>1. ASSUME NEW name, RefField(before, name)
        PROVE  /\ FieldValue(before, name) = [type |-> FieldValue(before, name).type, items |-> ItemsOf(before, name)]
               /\ Partly(ItemsOf(before, name), ItemsOf(before, name), found, 0, name)
    <3>1. Shape(FieldValue(before, name))
      BY <2>1 DEF Shaped
    <3>2. FieldValue(before, name) = [type |-> FieldValue(before, name).type, items |-> FieldValue(before, name).items]
      BY <3>1 DEF Shape, EmptyValue, TextValue, ListValue
    <3>3. Sequence(ItemsOf(before, name))
      BY <3>1, ShapeFacts DEF ItemsOf
    <3>4. ASSUME NEW i \in 1 .. Len(ItemsOf(before, name)), ItemsOf(before, name)[i] \in Old
          PROVE  \E k \in 1 .. Len(found) : /\ found[k].field = name
                                            /\ found[k].written = ItemsOf(before, name)[i] /\ found[k].col = i
      <4>1. PICK r \in FieldRefs(refs) : r.field = name /\ r.written = ItemsOf(before, name)[i] /\ r.col = i
        BY <2>1, <3>4 DEF ScanOf
      <4> QED
        BY <1>5, <1>6, <4>1
    <3>5. Partly(ItemsOf(before, name), ItemsOf(before, name), found, 0, name)
      BY <1>1, <1>6, <3>3, <3>4, NoneWritten
    <3> QED
      BY <3>2, <3>5 DEF ItemsOf
  <2>2. Midway(before, before, found, 0)
    BY <2>1 DEF Midway
  <2> QED
    BY <1>8, <2>2, KeepsItself
<1>10. ASSUME NEW n \in Nat, n < m, n \in S PROVE n + 1 \in S
  <2>1. /\ Keeps(before, f[n], touched, {}) /\ Midway(before, f[n], found, n) /\ n + 1 \in 1 .. m
        /\ f[n + 1] = Called(f[n], calls[n + 1])
    BY <1>1, <1>8, <1>10
  <2>2. Fine(f[n]) /\ \A name : HasField(before, name) => HasField(f[n], name)
    BY <2>1 DEF Keeps
  <2>3. Keeps(f[n], f[n + 1], touched, {})
    <3>1. Keeps(f[n], f[n + 1], Touches(calls[n + 1]), Removes(calls[n + 1]))
      BY <1>7, <2>1, <2>2, CallKeeps
    <3> QED
      BY <1>7, <2>1, <3>1, KeepsMore
  <2>4. Keeps(before, f[n + 1], touched, {})
    BY <2>1, <2>3, KeepsOn
  <2>5. Midway(before, f[n + 1], found, n + 1)
    <3> DEFINE r == found[n + 1]
    <3>1. r \in FieldRefs(refs) /\ calls[n + 1] = RewriteCall(before, r)
      BY <1>1, <1>3, <2>1
    <3>2. r.field # "$body" /\ r.written \in Old /\ r.written \in ToSet(ItemsOf(before, r.field))
      BY <3>1 DEF ScanOf
    <3>3. n < Len(found) /\ Len(found) \in Nat /\ r = found[n + 1]
      BY <1>1, <1>6, <1>10
    <3> HIDE DEF r
    <3>4. Midway(before, Called(f[n], RewriteCall(before, r)), found, n + 1)
      BY <2>1, <2>2, <3>2, <3>3, MidStep
    <3> QED
      BY <2>1, <3>1, <3>4
  <2> QED
    BY <2>4, <2>5
<1> HIDE DEF S
<1>11. \A n \in 0 .. m : n \in S
  BY <1>1, <1>9, <1>10, UpTo
<1>12. Keeps(before, f[m], touched, {}) /\ Midway(before, f[m], found, m)
  BY <1>1, <1>11 DEF S
<1>13. ASSUME NEW name, RefField(before, name)
       PROVE  /\ FieldValue(f[m], name) = [type |-> FieldValue(before, name).type, items |-> ItemsOf(f[m], name)]
              /\ Sequence(ItemsOf(f[m], name)) /\ Len(ItemsOf(f[m], name)) = Len(ItemsOf(before, name))
              /\ \A i \in 1 .. Len(ItemsOf(before, name)) : ItemsOf(f[m], name)[i] = NewOf(ItemsOf(before, name)[i])
  <2>1. /\ FieldValue(f[m], name) = [type |-> FieldValue(before, name).type, items |-> ItemsOf(f[m], name)]
        /\ Partly(ItemsOf(before, name), ItemsOf(f[m], name), found, m, name)
    BY <1>12, <1>13 DEF Midway
  <2>2. Sequence(ItemsOf(before, name))
    BY <1>13, ShapeFacts DEF Shaped, ItemsOf
  <2>3. \A i \in 1 .. Len(ItemsOf(before, name)) : ItemsOf(f[m], name)[i] = NewOf(ItemsOf(before, name)[i])
    <3> DEFINE was == ItemsOf(before, name)
               now == ItemsOf(f[m], name)
    <3>1. Sequence(was) /\ Partly(was, now, found, Len(found), name) /\ Len(found) \in Nat
      BY <1>1, <1>6, <2>1, <2>2
    <3> HIDE DEF was, now
    <3>2. \A i \in 1 .. Len(was) : now[i] = NewOf(was[i])
      BY <3>1, AllWritten
    <3> QED
      BY <3>2 DEF was, now
  <2> QED
    BY <2>1, <2>3 DEF Partly
<1> QED
  BY <1>2, <1>8, <1>12, <1>13 DEF touched

-----------------------------------------------------------------------------
(* What the scan finds.                                                    *)

LEMMA NotBody ==
    ASSUME schema \in Schemas \cup {NoSchema}
    PROVE  ~Declares(schema, "$body")
<1>1. DOMAIN NoSchema.fields = {}
  BY DEF NoSchema
<1>2. ~Declares(NoSchema, "$body")
  BY <1>1 DEF Declares
<1> QED
  BY <1>2, BodyIsNoField

LEMMA RefsInIs ==
    ASSUME NEW fields, Fine(fields), NEW x
    PROVE  x \in RefsIn(fields) <=>
             \E name, w : /\ RefField(fields, name) /\ w \in RefTexts(FieldValue(fields, name))
                          /\ x = [field |-> name, written |-> w]
<1>1. Len(fields) \in Nat /\ DOMAIN fields = 1 .. Len(fields)
  BY SeqFacts DEF Fine
<1> DEFINE Fit(j) == /\ Declares(schema, fields[j].name)
                     /\ Declared(schema, fields[j].name).kind \in {"ref", "ref[]"}
                     /\ fits(Declared(schema, fields[j].name).kind, fields[j].value)
           Texts(i) == {[field |-> fields[i].name, written |-> w] : w \in RefTexts(fields[i].value)}
           D == {j \in DOMAIN fields : Fit(j)}
<1>2. RefsIn(fields) = UNION {Texts(i) : i \in D}
  BY DEF RefsIn
<1>3. ASSUME x \in RefsIn(fields)
      PROVE  \E name, w : /\ RefField(fields, name) /\ w \in RefTexts(FieldValue(fields, name))
                          /\ x = [field |-> name, written |-> w]
  <2>1. \E i \in D : x \in Texts(i)
    <3> HIDE DEF Texts, D
    <3> QED
      BY <1>2, <1>3
  <2>2. PICK i \in 1 .. Len(fields) : Fit(i) /\ x \in Texts(i)
    BY <1>1, <2>1
  <2>3. PICK w \in RefTexts(fields[i].value) : x = [field |-> fields[i].name, written |-> w]
    BY <2>2
  <2>4. HasField(fields, fields[i].name) /\ FieldValue(fields, fields[i].name) = fields[i].value
    BY <2>2, Found
  <2>5. RefField(fields, fields[i].name)
    BY <2>2, <2>4 DEF RefField, RefKinds
  <2> QED
    BY <2>3, <2>4, <2>5
<1>4. ASSUME NEW name, NEW w, RefField(fields, name), w \in RefTexts(FieldValue(fields, name)),
             x = [field |-> name, written |-> w]
      PROVE  x \in RefsIn(fields)
  <2> DEFINE i == FieldAt(fields, name)
  <2>1. i \in 1 .. Len(fields) /\ fields[i].name = name /\ FieldValue(fields, name) = fields[i].value
    BY <1>4, Found DEF RefField
  <2> HIDE DEF i
  <2>2. i \in D
    BY <1>1, <1>4, <2>1 DEF RefField, RefKinds
  <2>3. x \in Texts(i)
    BY <1>4, <2>1
  <2> QED
    BY <1>2, <2>2, <2>3
<1> QED
  BY <1>3, <1>4

LEMMA ScanIs ==
    ASSUME Readable(file), NEW x
    PROVE  x \in ScanRefs(file) <=>
             \/ \E q \in RefsIn(Fields(file)) : \E n \in DOMAIN ItemsOf(Fields(file), q.field) :
                  /\ q.written \in DOMAIN Renamed /\ ItemsOf(Fields(file), q.field)[n] = q.written
                  /\ x = [field |-> q.field, written |-> q.written, line |-> 0, col |-> n]
             \/ \E i \in DOMAIN file.body : \E p \in Openers(file.body[i]) :
                  /\ Destination(WrittenAt(file.body[i], p)) \in DOMAIN Renamed
                  /\ x = [field |-> "$body", written |-> WrittenAt(file.body[i], p),
                          line |-> LinesAbove(file) + i, col |-> p]
<1> DEFINE fields == Fields(file)
           Q == {q \in RefsIn(fields) : q.written \in DOMAIN Renamed}
           OnLine(i) == {[field |-> "$body", written |-> l.written, line |-> LinesAbove(file) + i, col |-> l.col] :
                           l \in {k \in LinksOn(file.body[i]) : Destination(k.written) \in DOMAIN Renamed}}
<1>1. ScanRefs(file) = (UNION {ItemRefs(fields, q) : q \in Q}) \cup (UNION {OnLine(i) : i \in DOMAIN file.body})
  <2>1. Splits(file)
    BY DEF Readable
  <2> QED
    BY <2>1 DEF ScanRefs, ItemRefs
<1>2. ASSUME NEW q PROVE x \in ItemRefs(fields, q) <=>
                           \E n \in DOMAIN ItemsOf(fields, q.field) :
                             /\ ItemsOf(fields, q.field)[n] = q.written
                             /\ x = [field |-> q.field, written |-> q.written, line |-> 0, col |-> n]
  BY DEF ItemRefs, ItemsOf
<1>3. ASSUME NEW i PROVE x \in OnLine(i) <=>
                           \E p \in Openers(file.body[i]) :
                             /\ Destination(WrittenAt(file.body[i], p)) \in DOMAIN Renamed
                             /\ x = [field |-> "$body", written |-> WrittenAt(file.body[i], p),
                                     line |-> LinesAbove(file) + i, col |-> p]
  <2> DEFINE L == LinksOn(file.body[i])
  <2>1. \A l : l \in L <=> \E p \in Openers(file.body[i]) : l = [col |-> p, written |-> WrittenAt(file.body[i], p)]
    BY DEF LinksOn
  <2> HIDE DEF L
  <2>2. x \in OnLine(i) <=>
          \E l \in L : /\ Destination(l.written) \in DOMAIN Renamed
                       /\ x = [field |-> "$body", written |-> l.written, line |-> LinesAbove(file) + i, col |-> l.col]
    BY DEF L
  <2>3. ASSUME NEW l \in L, Destination(l.written) \in DOMAIN Renamed,
               x = [field |-> "$body", written |-> l.written, line |-> LinesAbove(file) + i, col |-> l.col]
        PROVE  \E p \in Openers(file.body[i]) :
                 /\ Destination(WrittenAt(file.body[i], p)) \in DOMAIN Renamed
                 /\ x = [field |-> "$body", written |-> WrittenAt(file.body[i], p),
                         line |-> LinesAbove(file) + i, col |-> p]
    <3>1. PICK p \in Openers(file.body[i]) : l = [col |-> p, written |-> WrittenAt(file.body[i], p)]
      BY <2>1
    <3>2. l.col = p /\ l.written = WrittenAt(file.body[i], p)
      BY <3>1
    <3> QED
      BY <2>3, <3>2
  <2>4. ASSUME NEW p \in Openers(file.body[i]), Destination(WrittenAt(file.body[i], p)) \in DOMAIN Renamed,
               x = [field |-> "$body", written |-> WrittenAt(file.body[i], p),
                    line |-> LinesAbove(file) + i, col |-> p]
        PROVE  \E l \in L : /\ Destination(l.written) \in DOMAIN Renamed
                            /\ x = [field |-> "$body", written |-> l.written,
                                    line |-> LinesAbove(file) + i, col |-> l.col]
    <3> DEFINE l == [col |-> p, written |-> WrittenAt(file.body[i], p)]
    <3>1. l \in L
      BY <2>1
    <3>2. l.col = p /\ l.written = WrittenAt(file.body[i], p)
      OBVIOUS
    <3> HIDE DEF l
    <3> QED
      BY <2>4, <3>1, <3>2
  <2> QED
    BY <2>2, <2>3, <2>4
<1>4. x \in UNION {ItemRefs(fields, q) : q \in Q} <=> \E q \in Q : x \in ItemRefs(fields, q)
  OBVIOUS
<1>5. x \in UNION {OnLine(i) : i \in DOMAIN file.body} <=> \E i \in DOMAIN file.body : x \in OnLine(i)
  OBVIOUS
<1> HIDE DEF OnLine
<1> QED
  BY <1>1, <1>2, <1>3, <1>4, <1>5

LEMMA LinesNat ==
    ASSUME NEW f, TextFile(f)
    PROVE  LinesAbove(f) \in Nat
<1> DEFINE m == Len(f.entries)
           w == CHOOSE g : g = [n \in 0 .. m |-> IF n = 0 THEN 2 ELSE g[n - 1] + EntryLines(f.entries[n])]
<1>1. m \in Nat /\ \A n \in 1 .. m : EntryLines(f.entries[n]) \in Nat
  BY SeqFacts DEF TextFile, EntryLines
<1>2. \E g : g = [n \in 0 .. m |-> IF n = 0 THEN 2 ELSE g[n - 1] + EntryLines(f.entries[n])]
  <2> DEFINE data == [kind |-> "lines", entries |-> f.entries]
  <2>1. PICK g : IsFold(g, 2, data, m)
    BY <1>1, FoldExists
  <2>2. \A x, n : FoldStep(data, x, n) = x + EntryLines(f.entries[n])
    BY DEF FoldStep
  <2> HIDE DEF data
  <2>3. g = [n \in 0 .. m |-> IF n = 0 THEN 2 ELSE FoldStep(data, g[n - 1], n)]
    BY <2>1 DEF IsFold
  <2>4. g = [n \in 0 .. m |-> IF n = 0 THEN 2 ELSE g[n - 1] + EntryLines(f.entries[n])]
    BY <2>2, <2>3, Zenon
  <2> QED
    BY <2>4
<1>3. w = [n \in 0 .. m |-> IF n = 0 THEN 2 ELSE w[n - 1] + EntryLines(f.entries[n])]
  BY <1>2, Zenon
<1>4. LinesAbove(f) = IF f.block # "closed" THEN 0 ELSE w[m]
  BY DEF LinesAbove
<1> HIDE DEF w
<1> DEFINE S == {n \in Nat : w[n] \in Nat}
<1>5. 0 \in S
  BY <1>1, <1>3
<1>6. ASSUME NEW n \in Nat, n < m, n \in S PROVE n + 1 \in S
  <2>1. n + 1 \in 0 .. m /\ n + 1 # 0 /\ n + 1 - 1 = n /\ n + 1 \in 1 .. m
    BY <1>1, <1>6
  <2>2. w[n + 1] = w[n] + EntryLines(f.entries[n + 1])
    BY <1>3, <2>1
  <2> QED
    BY <1>1, <1>6, <2>1, <2>2
<1> HIDE DEF S, m
<1>7. \A n \in 0 .. m : n \in S
  BY <1>1, <1>5, <1>6, UpTo
<1> QED
  BY <1>1, <1>4, <1>7 DEF S

-----------------------------------------------------------------------------
(* The body.                                                               *)

BodyWhole(f) == Sequence(f.body) /\ \A i \in DOMAIN f.body : Whole(f.body[i])

LEMMA LineScanned ==
    ASSUME TextFile(file), Readable(file), schema \in Schemas \cup {NoSchema}, Sequence(file.body),
           NEW i \in DOMAIN file.body
    PROVE  LineRefs(file.body[i], {r \in BodyRefs(ScanRefs(file)) : r.line = LinesAbove(file) + i})
<1> DEFINE line == file.body[i]
           found == {r \in BodyRefs(ScanRefs(file)) : r.line = LinesAbove(file) + i}
<1>1. Fine(Fields(file)) /\ ~Declares(schema, "$body") /\ LinesAbove(file) \in Nat
      /\ DOMAIN file.body = 1 .. Len(file.body) /\ Len(file.body) \in Nat
  BY ReadIs, NotBody, LinesNat, SeqFacts DEF Fields
<1>2. ASSUME NEW r \in found
      PROVE  /\ r.field = "$body" /\ r.col \in Openers(line) /\ r.written = WrittenAt(line, r.col)
             /\ Destination(r.written) \in DOMAIN Renamed
  <2>1. r \in ScanRefs(file) /\ r.field = "$body" /\ r.line = LinesAbove(file) + i
    BY DEF BodyRefs
  <2>2. ~\E q \in RefsIn(Fields(file)) : \E n : r = [field |-> q.field, written |-> q.written, line |-> 0, col |-> n]
    <3> SUFFICES ASSUME NEW q \in RefsIn(Fields(file)), NEW n,
                        r = [field |-> q.field, written |-> q.written, line |-> 0, col |-> n]
                 PROVE  FALSE
      OBVIOUS
    <3>1. PICK name, w : RefField(Fields(file), name) /\ q = [field |-> name, written |-> w]
      BY <1>1, RefsInIs
    <3>2. name = "$body" /\ Declares(schema, name)
      BY <2>1, <3>1 DEF RefField
    <3> QED
      BY <1>1, <3>2
  <2>3. PICK j \in DOMAIN file.body : \E p \in Openers(file.body[j]) :
                  /\ Destination(WrittenAt(file.body[j], p)) \in DOMAIN Renamed
                  /\ r = [field |-> "$body", written |-> WrittenAt(file.body[j], p),
                          line |-> LinesAbove(file) + j, col |-> p]
    BY <2>1, <2>2, ScanIs
  <2>4. PICK p \in Openers(file.body[j]) :
                  /\ Destination(WrittenAt(file.body[j], p)) \in DOMAIN Renamed
                  /\ r = [field |-> "$body", written |-> WrittenAt(file.body[j], p),
                          line |-> LinesAbove(file) + j, col |-> p]
    BY <2>3
  <2>5. r.line = LinesAbove(file) + j /\ r.col = p /\ r.written = WrittenAt(file.body[j], p)
    BY <2>4
  <2>6. j = i
    <3>1. j \in Nat /\ i \in Nat
      BY <1>1
    <3> QED
      BY <1>1, <2>1, <2>5, <3>1
  <2> QED
    BY <2>1, <2>4, <2>5, <2>6
<1>3. ASSUME NEW p \in Openers(line), Destination(WrittenAt(line, p)) \in DOMAIN Renamed,
             moved_body_link(WrittenAt(line, p)) # WrittenAt(line, p)
      PROVE  \E r \in found : r.col = p
  <2> DEFINE r == [field |-> "$body", written |-> WrittenAt(line, p), line |-> LinesAbove(file) + i, col |-> p]
  <2>1. r \in ScanRefs(file)
    BY <1>3, ScanIs
  <2>2. r.field = "$body" /\ r.written = WrittenAt(line, p) /\ r.line = LinesAbove(file) + i /\ r.col = p
    OBVIOUS
  <2> HIDE DEF r
  <2>3. r \in found
    BY <1>3, <2>1, <2>2 DEF BodyRefs, moved_name
  <2> QED
    BY <2>2, <2>3
<1> HIDE DEF found, line
<1>4. LineRefs(line, found)
  BY <1>2, <1>3 DEF LineRefs
<1> QED
  BY <1>4 DEF found, line

LEMMA BodyFollows ==
    ASSUME TextFile(file), Readable(file), schema \in Schemas \cup {NoSchema}, BodyWhole(file)
    PROVE  LET body == RewriteBody(file, ScanRefs(file))
           IN  /\ DOMAIN body = DOMAIN file.body
               /\ \A i \in DOMAIN body : Nested(file.body[i]) \/ Follow(Words(body[i]), Words(file.body[i]))
<1> DEFINE body == RewriteBody(file, ScanRefs(file))
<1>1. /\ DOMAIN body = DOMAIN file.body
      /\ \A i \in DOMAIN file.body :
           body[i] = RewriteLine(file.body[i], {r \in BodyRefs(ScanRefs(file)) : r.line = LinesAbove(file) + i})
  BY DEF RewriteBody
<1>2. ASSUME NEW i \in DOMAIN file.body, ~Nested(file.body[i])
      PROVE  Follow(Words(body[i]), Words(file.body[i]))
  <2> DEFINE found == {r \in BodyRefs(ScanRefs(file)) : r.line = LinesAbove(file) + i}
  <2>1. LineRefs(file.body[i], found)
    BY LineScanned DEF BodyWhole
  <2>2. Flat(file.body[i])
    BY <1>2, FlatIs DEF BodyWhole
  <2>3. body[i] = RewriteLine(file.body[i], found)
    BY <1>1
  <2> HIDE DEF found, body
  <2> QED
    BY <2>1, <2>2, <2>3, LineFollows
<1> HIDE DEF body
<1> QED
  BY <1>1, <1>2 DEF body

-----------------------------------------------------------------------------
(* The fields that hold refs.                                              *)

LEMMA ReadShaped ==
    ASSUME TextFile(file), Readable(file)
    PROVE  Shaped(Fields(file))
<1> DEFINE fields == Fields(file)
<1>1. /\ Fine(fields) /\ Len(fields) = Len(file.entries)
      /\ \A i \in 1 .. Len(file.entries) :
           /\ fields[i].name = file.entries[i].name
           /\ fields[i].value = TypedBy(schema, file.entries[i].name, ShapeValue(file.entries[i]))
  BY ReadIs DEF Fields
<1> HIDE DEF fields
<1>2. ASSUME NEW name, RefField(fields, name)
      PROVE  Shape(FieldValue(fields, name))
  <2>1. PICK i \in 1 .. Len(fields) : fields[i].name = name /\ FieldValue(fields, name) = fields[i].value
    BY <1>1, <1>2, Found DEF RefField
  <2>2. FieldValue(fields, name) = TypedBy(schema, name, ShapeValue(file.entries[i]))
    BY <1>1, <2>1
  <2>3. Shape(ShapeValue(file.entries[i]))
    BY <1>1, <2>1, ShapeOK DEF TextFile
  <2>4. ~(Declares(schema, name) /\ Declared(schema, name).kind \in {"number", "bool", "date", "datetime"})
    BY <1>2 DEF RefField, RefKinds
  <2>5. TypedBy(schema, name, ShapeValue(file.entries[i])) = ShapeValue(file.entries[i])
    BY <2>3, <2>4, TypedIs
  <2> QED
    BY <2>2, <2>3, <2>5
<1> QED
  BY <1>2 DEF Shaped, fields

LEMMA ScanFound ==
    ASSUME TextFile(file), Readable(file), schema \in Schemas \cup {NoSchema}
    PROVE  ScanOf(Fields(file), ScanRefs(file))
<1> DEFINE fields == Fields(file)
           refs == ScanRefs(file)
<1>1. Fine(fields) /\ Shaped(fields) /\ ~Declares(schema, "$body")
  BY ReadIs, ReadShaped, NotBody DEF Fields
<1>2. IsFiniteSet(FieldRefs(refs))
  BY ScanFinds DEF ScanOK
<1> HIDE DEF fields
<1>3. ASSUME NEW r \in FieldRefs(refs)
      PROVE  /\ r.field # "$body" /\ RefField(fields, r.field) /\ r.written \in Old
             /\ r.written \in ToSet(ItemsOf(fields, r.field))
  <2>1. r \in ScanRefs(file) /\ r.field # "$body" /\ moved_name(r) # r.written
    BY DEF FieldRefs
  <2>2. ~\E i \in DOMAIN file.body : \E p \in Openers(file.body[i]) :
           r = [field |-> "$body", written |-> WrittenAt(file.body[i], p),
                line |-> LinesAbove(file) + i, col |-> p]
    BY <2>1
  <2>3. PICK q \in RefsIn(fields) : \E n \in DOMAIN ItemsOf(fields, q.field) :
          /\ q.written \in DOMAIN Renamed /\ ItemsOf(fields, q.field)[n] = q.written
          /\ r = [field |-> q.field, written |-> q.written, line |-> 0, col |-> n]
    BY <2>1, <2>2, ScanIs DEF fields
  <2>4. PICK n \in DOMAIN ItemsOf(fields, q.field) :
          /\ q.written \in DOMAIN Renamed /\ ItemsOf(fields, q.field)[n] = q.written
          /\ r = [field |-> q.field, written |-> q.written, line |-> 0, col |-> n]
    BY <2>3
  <2>5. r.field = q.field /\ r.written = q.written
    BY <2>4
  <2>6. PICK name, w : RefField(fields, name) /\ q = [field |-> name, written |-> w]
    BY <1>1, RefsInIs
  <2>7. q.field = name
    BY <2>6
  <2>8. moved_name(r) = Renamed[r.written]
    BY <2>1 DEF moved_name
  <2>9. r.written \in Old
    BY <2>1, <2>4, <2>5, <2>8 DEF Old
  <2>10. r.written \in ToSet(ItemsOf(fields, r.field))
    BY <2>4, <2>5 DEF ToSet
  <2> QED
    BY <2>1, <2>5, <2>6, <2>7, <2>9, <2>10
<1>4. ASSUME NEW name, NEW i, RefField(fields, name), i \in 1 .. Len(ItemsOf(fields, name)),
             ItemsOf(fields, name)[i] \in Old
      PROVE  \E r \in FieldRefs(refs) : r.field = name /\ r.written = ItemsOf(fields, name)[i] /\ r.col = i
  <2> DEFINE w == ItemsOf(fields, name)[i]
             q == [field |-> name, written |-> w]
             r == [field |-> name, written |-> w, line |-> 0, col |-> i]
  <2>1. Shape(FieldValue(fields, name)) /\ name # "$body"
    BY <1>1, <1>4 DEF Shaped, RefField
  <2>2. Sequence(ItemsOf(fields, name)) /\ i \in DOMAIN ItemsOf(fields, name)
    <3>1. Sequence(ItemsOf(fields, name))
      BY <2>1, ShapeFacts DEF ItemsOf
    <3> QED
      BY <1>4, <3>1, SeqFacts
  <2>3. w \in RefTexts(FieldValue(fields, name))
    <3>1. w \in ToSet(FieldValue(fields, name).items)
      BY <2>2 DEF ToSet, ItemsOf
    <3>2. FieldValue(fields, name).type # "Empty"
      <4>1. \A items : ListValue(items).type = "List" /\ TextValue(items).type = "Text"
        BY DEF ListValue, TextValue
      <4>2. EmptyValue.items = <<>> /\ ToSet(<<>>) = {}
        BY DEF EmptyValue, ToSet
      <4> QED
        BY <2>1, <3>1, <4>1, <4>2 DEF Shape
    <3> QED
      BY <3>1, <3>2 DEF RefTexts
  <2>4. w \in DOMAIN Renamed /\ Renamed[w] # w
    BY <1>4, OldNew
  <2>5. q.field = name /\ q.written = w /\ r.field = name /\ r.written = w /\ r.col = i
    OBVIOUS
  <2>6. r = [field |-> q.field, written |-> q.written, line |-> 0, col |-> i]
    OBVIOUS
  <2>7. q \in RefsIn(fields)
    BY <1>1, <1>4, <2>3, RefsInIs
  <2> DEFINE x == w
  <2>8. x = ItemsOf(fields, name)[i]
    OBVIOUS
  <2> HIDE DEF q, r, x
  <2>9. r \in refs
    <3>1. ItemsOf(fields, q.field)[i] = q.written /\ i \in DOMAIN ItemsOf(fields, q.field)
      BY <2>2, <2>5
    <3>2. q.written \in DOMAIN Renamed
      BY <2>4, <2>5
    <3> QED
      BY <2>6, <2>7, <3>1, <3>2, ScanIs DEF fields
  <2>10. moved_name(r) # r.written
    BY <2>1, <2>4, <2>5 DEF moved_name
  <2>11. r \in FieldRefs(refs)
    <3> HIDE DEF refs
    <3> QED
      BY <2>1, <2>5, <2>9, <2>10 DEF FieldRefs
  <2> QED
    BY <2>5, <2>11
<1> HIDE DEF refs
<1>5. ScanOf(fields, refs)
  BY <1>2, <1>3, <1>4 DEF ScanOf
<1> QED
  BY <1>5 DEF fields, refs

\* A value whose texts were renamed.
LEMMA TextsFollow ==
    ASSUME NEW was, Shape(was), NEW items, Sequence(items), Len(items) = Len(was.items),
           \A i \in 1 .. Len(items) : items[i] = NewOf(was.items[i]),
           NEW now, now = [type |-> was.type, items |-> items]
    PROVE  Shape(now) /\ now = Renewed(was)
<1>1. now.type = was.type /\ now.items = items
  OBVIOUS
<1>2. was = [type |-> was.type, items |-> was.items]
  BY DEF Shape, EmptyValue, TextValue, ListValue
<1>3. now = Renewed(was)
  <2>1. Sequence(was.items) /\ DOMAIN was.items = 1 .. Len(items)
    BY ShapeFacts, SeqFacts
  <2>2. items = [n \in 1 .. Len(items) |-> items[n]]
    BY SeqFacts
  <2> DEFINE new == [n \in DOMAIN was.items |-> NewOf(was.items[n])]
  <2>3. items = new
    BY <2>1, <2>2
  <2>4. Renewed(was) = [was EXCEPT !.items = new]
    BY DEF Renewed
  <2> HIDE DEF new
  <2>5. [was EXCEPT !.items = new] = [type |-> was.type, items |-> new]
    BY <1>2
  <2> QED
    BY <2>3, <2>4, <2>5
<1>4. Shape(now)
  <2>1. CASE was = EmptyValue
    <3>1. was.type = "Empty" /\ Len(was.items) = 0
      BY <2>1 DEF EmptyValue
    <3>2. items = <<>>
      <4>1. Sequence(<<>>) /\ Len(<<>>) = 0
        BY EmptySeq, SeqIn
      <4>2. Len(items) = Len(<<>>) /\ \A i \in 1 .. Len(items) : items[i] = <<>>[i]
        BY <3>1, <4>1
      <4> QED
        BY <4>1, <4>2, SeqSame
    <3> QED
      BY <3>1, <3>2 DEF Shape, EmptyValue
  <2>2. CASE \E text : was = TextValue(text)
    <3>1. was.type = "Text" /\ Len(was.items) = 1
      BY <2>2 DEF TextValue
    <3>2. items = <<items[1]>>
      <4> DEFINE one == <<items[1]>>
      <4>1. Sequence(one) /\ Len(one) = 1 /\ one[1] = items[1]
        BY OneItem
      <4> HIDE DEF one
      <4>2. Len(items) = Len(one) /\ \A i \in 1 .. Len(items) : items[i] = one[i]
        BY <3>1, <4>1
      <4>3. items = one
        BY <4>1, <4>2, SeqSame
      <4> QED
        BY <4>3 DEF one
    <3>3. now = TextValue(items[1])
      BY <3>1, <3>2 DEF TextValue
    <3> QED
      BY <3>3 DEF Shape
  <2>3. CASE \E others : was = ListValue(others) /\ Sequence(others)
    <3>1. now = ListValue(items)
      BY <2>3 DEF ListValue
    <3> QED
      BY <3>1 DEF Shape
  <2> QED
    BY <2>1, <2>2, <2>3 DEF Shape
<1> QED
  BY <1>3, <1>4

\* The values of two blocks, field by field.
Renaming(before, after) ==
    \A name : RefField(before, name) => FieldValue(after, name) = Renewed(FieldValue(before, name))
ValuesFollow(before, after, refs) ==
    \A name \in NamesOf(before) :
      FieldValue(after, name) = IF name \in {r.field : r \in refs}
                                THEN Renewed(FieldValue(before, name))
                                ELSE FieldValue(before, name)

LEMMA NoneRenamed ==
    ASSUME NEW fields, Fine(fields), Shaped(fields), NEW refs, ScanOf(fields, refs), FieldRefs(refs) = {}
    PROVE  Renaming(fields, fields)
<1>1. ASSUME NEW name, RefField(fields, name)
      PROVE  FieldValue(fields, name) = Renewed(FieldValue(fields, name))
  <2> DEFINE v == FieldValue(fields, name)
  <2>1. Shape(v) /\ Sequence(v.items)
    BY <1>1, ShapeFacts DEF Shaped
  <2>2. v = [type |-> v.type, items |-> v.items]
    <3> HIDE DEF v
    <3> QED
      BY <2>1 DEF Shape, EmptyValue, TextValue, ListValue
  <2>3. ASSUME NEW i \in 1 .. Len(v.items) PROVE v.items[i] = NewOf(v.items[i])
    <3>1. v.items[i] \notin Old
      BY <1>1 DEF ScanOf, ItemsOf
    <3> HIDE DEF v
    <3> QED
      BY <3>1 DEF NewOf, Old
  <2> HIDE DEF v
  <2>4. v = Renewed(v)
    BY <2>1, <2>2, <2>3, TextsFollow
  <2> QED
    BY <2>4 DEF v
<1> QED
  BY <1>1 DEF Renaming

LEMMA ShapeWritten ==
    ASSUME NEW v, Shape(v)
    PROVE  WrittenOf(v) = v
<1>1. CASE v = EmptyValue
  BY <1>1 DEF WrittenOf, EmptyValue
<1>2. CASE \E text : v = TextValue(text)
  BY <1>2 DEF WrittenOf, TextValue
<1>3. CASE \E items : v = ListValue(items) /\ Sequence(items)
  BY <1>3 DEF WrittenOf, ListValue
<1> QED
  BY <1>1, <1>2, <1>3 DEF Shape

LEMMA FieldsFollow ==
    ASSUME TextFile(file), Readable(file), schema \in Schemas \cup {NoSchema}
    PROVE  LET refs == ScanRefs(file)
               g == rewrite_holder(file, refs)
           IN  /\ g.body = RewriteBody(file, refs)
               /\ Keeps(Fields(file), Fields(g), {r.field : r \in FieldRefs(refs)}, {})
               /\ Renaming(Fields(file), Fields(g))
<1> DEFINE refs == ScanRefs(file)
           before == Fields(file)
           body == RewriteBody(file, refs)
           written == RewriteFields(before, refs)
           g == rewrite_holder(file, refs)
           touched == {r.field : r \in FieldRefs(refs)}
<1>1. Fine(before) /\ Shaped(before) /\ ScanOf(before, refs)
  BY ReadIs, ReadShaped, ScanFound DEF Fields
<1>2. CASE FieldRefs(refs) = {}
  <2>1. g = [file EXCEPT !.body = body]
    BY <1>2 DEF rewrite_holder
  <2>2. Renaming(before, before) /\ Keeps(before, before, touched, {})
    <3> HIDE DEF before, refs, touched
    <3> QED
      BY <1>1, <1>2, NoneRenamed, KeepsItself
  <2> HIDE DEF body, g, touched
  <2>3. g = [block |-> file.block, entries |-> file.entries, body |-> body]
    BY <2>1 DEF TextFile
  <2>4. Fields(g) = Fields(file) /\ g.body = body
    BY <2>3 DEF Fields, ReadFields
  <2>5. g.body = body /\ Keeps(before, Fields(g), touched, {}) /\ Renaming(before, Fields(g))
    BY <2>2, <2>4
  <2> QED
    BY <2>5 DEF body, g, touched
<1>3. CASE FieldRefs(refs) # {}
  <2>1. g = assemble_frontmatter(file.block = "closed", finish(written), body)
    BY <1>3 DEF rewrite_holder
  <2> HIDE DEF before, body, g, refs
  <2>2. file.block = "closed"
    <3>1. PICK r \in FieldRefs(refs) : HasField(before, r.field)
      BY <1>1, <1>3 DEF ScanOf, RefField
    <3>2. 1 \in 1 .. Len(before) \/ Len(before) # 0
      BY <1>1, <3>1, Found
    <3>3. Len(before) = Len(file.entries)
      BY ReadIs DEF before, Fields
    <3>4. Len(<<>>) = 0
      OBVIOUS
    <3>5. Len(before) # 0
      <4>1. FieldAt(before, r.field) \in 1 .. Len(before)
        BY <1>1, <3>1, Found
      <4>2. Len(before) \in Nat
        BY <1>1, SeqFacts DEF Fine
      <4> QED
        BY <4>1, <4>2
    <3> QED
      BY <3>3, <3>4, <3>5 DEF TextFile
  <2>3. g = splice(finish(written), body)
    BY <2>1, <2>2 DEF assemble_frontmatter
  <2>4. /\ Keeps(before, written, touched, {})
        /\ \A name : RefField(before, name) =>
             /\ FieldValue(written, name) = [type |-> FieldValue(before, name).type, items |-> ItemsOf(written, name)]
             /\ Sequence(ItemsOf(written, name)) /\ Len(ItemsOf(written, name)) = Len(ItemsOf(before, name))
             /\ \A i \in 1 .. Len(ItemsOf(before, name)) : ItemsOf(written, name)[i] = NewOf(ItemsOf(before, name)[i])
    BY <1>1, CallsFollow
  <2>5. Fine(written)
    BY <2>4 DEF Keeps
  <2> HIDE DEF written, touched
  <2> DEFINE after == ReadFields(splice(finish(written), body), schema)
  <2>6. Keeps(before, after, touched, {})
    BY <2>4, WrittenKeeps DEF before, Fields
  <2>7. \A name : /\ HasField(after, name) <=> HasField(written, name)
                  /\ HasField(written, name) =>
                       FieldValue(after, name) = ReadAs(schema, name, FieldValue(written, name))
    BY <2>5, ReadsBack
  <2> HIDE DEF after
  <2>8. ASSUME NEW name, RefField(before, name)
        PROVE  FieldValue(after, name) = Renewed(FieldValue(before, name))
    <3> DEFINE now == FieldValue(written, name)
               was == FieldValue(before, name)
               items == ItemsOf(written, name)
    <3>1. /\ now = [type |-> was.type, items |-> items] /\ Sequence(items) /\ Len(items) = Len(was.items)
          /\ \A i \in 1 .. Len(items) : items[i] = NewOf(was.items[i])
      BY <2>4, <2>8 DEF ItemsOf
    <3>2. Shape(was) /\ HasField(before, name)
      BY <1>1, <2>8 DEF Shaped, RefField
    <3>3. HasField(written, name) /\ HasField(after, name)
      BY <2>4, <2>7, <3>2 DEF Keeps
    <3> HIDE DEF now, was, items
    <3>4. Shape(now) /\ now = Renewed(was)
      BY <3>1, <3>2, TextsFollow
    <3>5. WrittenOf(now) = now
      BY <3>4, ShapeWritten
    <3>6. TypedBy(schema, name, now) = now
      <4>1. ~(Declares(schema, name) /\ Declared(schema, name).kind \in {"number", "bool", "date", "datetime"})
        BY <2>8 DEF RefField, RefKinds
      <4> QED
        BY <3>4, <4>1, TypedIs
    <3>7. FieldValue(after, name) = now
      BY <2>7, <3>3, <3>5, <3>6 DEF ReadAs, now
    <3> QED
      BY <3>4, <3>7 DEF was
  <2>10. Renaming(before, after)
    BY <2>8 DEF Renaming
  <2>11. Fields(g) = after /\ g.body = body
    <3>1. Fields(g) = after
      BY <2>3 DEF Fields, after
    <3>2. g.body = body
      BY <2>3, SpliceIs
    <3> QED
      BY <3>1, <3>2
  <2>12. g.body = body /\ Keeps(before, Fields(g), touched, {}) /\ Renaming(before, Fields(g))
    BY <2>6, <2>10, <2>11
  <2> QED
    BY <2>12 DEF before, body, g, refs, touched
<1> QED
  BY <1>2, <1>3

\* LinksFollow, of two texts.
RefsOf(s, fields) ==
    UNION {{[field |-> fields[i].name, written |-> w] : w \in RefTexts(fields[i].value)} :
             i \in {j \in DOMAIN fields :
                      /\ Declares(s, fields[j].name)
                      /\ Declared(s, fields[j].name).kind \in {"ref", "ref[]"}
                      /\ fits(Declared(s, fields[j].name).kind, fields[j].value)}}
Linked(s, f, g) ==
    LET before == ReadFields(f, s)
        after == ReadFields(g, s)
    IN  /\ DOMAIN g.body = DOMAIN f.body
        /\ \A i \in DOMAIN g.body : Nested(f.body[i]) \/ Follow(Words(g.body[i]), Words(f.body[i]))
        /\ NamesOf(before) = NamesOf(after) /\ InOrder(before, after, NamesOf(before))
        /\ ValuesFollow(before, after, RefsOf(s, before))

LEMMA RewriteLinks ==
    ASSUME TextFile(file), Readable(file), schema \in Schemas \cup {NoSchema}, BodyWhole(file)
    PROVE  Linked(schema, file, rewrite_holder(file, ScanRefs(file)))
<1> DEFINE g == rewrite_holder(file, ScanRefs(file))
           before == ReadFields(file, schema)
           after == ReadFields(g, schema)
           touched == {r.field : r \in FieldRefs(ScanRefs(file))}
<1>1. g.body = RewriteBody(file, ScanRefs(file)) /\ Keeps(before, after, touched, {}) /\ Renaming(before, after)
  BY FieldsFollow DEF Fields
<1>2. Fine(before)
  BY ReadIs
<1>3. \A name \in touched : RefField(before, name) /\ RefTexts(FieldValue(before, name)) # {}
  <2>1. ScanOf(before, ScanRefs(file))
    BY ScanFound DEF Fields
  <2> HIDE DEF before
  <2>2. ASSUME NEW r \in FieldRefs(ScanRefs(file))
        PROVE  RefField(before, r.field) /\ RefTexts(FieldValue(before, r.field)) # {}
    <3>1. RefField(before, r.field) /\ r.written \in ToSet(FieldValue(before, r.field).items)
      BY <2>1 DEF ScanOf, ItemsOf
    <3> QED
      BY <3>1 DEF RefTexts
  <2> QED
    BY <2>2
<1>4. /\ DOMAIN g.body = DOMAIN file.body
      /\ \A i \in DOMAIN g.body : Nested(file.body[i]) \/ Follow(Words(g.body[i]), Words(file.body[i]))
  BY <1>1, BodyFollows
<1> HIDE DEF g, before, after, touched
<1>5. Fine(after)
  BY <1>1 DEF Keeps
<1>6. ASSUME NEW name PROVE name \in NamesOf(before) <=> name \in NamesOf(after)
  <2>1. HasField(before, name) <=> HasField(after, name)
    <3>1. CASE name \in touched
      BY <1>1, <1>3, <3>1 DEF Keeps, RefField
    <3>2. CASE name \notin touched
      BY <1>1, <3>2 DEF Keeps
    <3> QED
      BY <3>1, <3>2
  <2> QED
    BY <1>2, <1>5, <2>1, NamedIs
<1>7. NamesOf(before) = NamesOf(after)
  BY <1>6
<1>8. InOrder(before, after, NamesOf(before))
  <2>1. InOrder(before, after, (NamesOf(before) \cap NamesOf(after)) \ {})
    BY <1>1, <1>2, KeepsSays
  <2>2. (NamesOf(before) \cap NamesOf(after)) \ {} = NamesOf(before)
    BY <1>7
  <2> QED
    BY <2>1, <2>2
<1>9. ASSUME NEW name \in NamesOf(before)
      PROVE  FieldValue(after, name) = IF name \in {r.field : r \in RefsIn(before)}
                                       THEN Renewed(FieldValue(before, name))
                                       ELSE FieldValue(before, name)
  <2>1. CASE name \in {r.field : r \in RefsIn(before)}
    <3>1. PICK r \in RefsIn(before) : r.field = name
      BY <2>1
    <3>2. PICK other, w : RefField(before, other) /\ r = [field |-> other, written |-> w]
      BY <1>2, RefsInIs
    <3>3. RefField(before, name)
      BY <3>1, <3>2
    <3> QED
      BY <1>1, <2>1, <3>3 DEF Renaming
  <2>2. CASE name \notin {r.field : r \in RefsIn(before)}
    <3>1. name \notin touched
      <4> SUFFICES ASSUME name \in touched
                   PROVE  FALSE
        OBVIOUS
      <4>1. PICK w \in RefTexts(FieldValue(before, name)) : RefField(before, name)
        BY <1>3
      <4> DEFINE r == [field |-> name, written |-> w]
      <4>2. r \in RefsIn(before)
        BY <1>2, <4>1, RefsInIs
      <4>3. r.field = name
        OBVIOUS
      <4> QED
        BY <2>2, <4>2, <4>3
    <3>2. HasField(before, name)
      BY <1>2, NamedIs
    <3> QED
      BY <1>1, <2>2, <3>1, <3>2 DEF Keeps
  <2> QED
    BY <2>1, <2>2
<1>10. RefsIn(before) = RefsOf(schema, before)
  BY DEF RefsIn, RefsOf
<1>11. ValuesFollow(before, after, RefsOf(schema, before))
  BY <1>9, <1>10, Zenon DEF ValuesFollow
<1> QED
  BY <1>4, <1>7, <1>8, <1>11 DEF Linked, g, before, after

-----------------------------------------------------------------------------
(* The inductive invariant: until the document is moved the body is one a  *)
(* person left, and a scan is what mv_reverse_scan found in the file it is  *)
(* of, whatever has been written since.                                    *)

\* ScanRefs, by the schema.
ScannedOf(s, f) ==
    (UNION {{[field |-> r.field, written |-> r.written, line |-> 0, col |-> n] :
               n \in {m \in DOMAIN FieldValue(ReadFields(f, s), r.field).items :
                        FieldValue(ReadFields(f, s), r.field).items[m] = r.written}} :
              r \in {q \in RefsOf(s, IF Readable(f) THEN ReadFields(f, s) ELSE <<>>) :
                       q.written \in DOMAIN Renamed}})
    \cup (UNION {{[field |-> "$body", written |-> l.written, line |-> LinesAbove(f) + i, col |-> l.col] :
                    l \in {k \in LinksOn(f.body[i]) : Destination(k.written) \in DOMAIN Renamed}} :
                  i \in IF Splits(f) THEN DOMAIN f.body ELSE {}})

LEMMA ScannedIs ==
    ASSUME NEW f
    PROVE  ScanRefs(f) = ScannedOf(schema, f)
<1>1. \A fields : RefsIn(fields) = RefsOf(schema, fields)
  BY DEF RefsIn, RefsOf
<1> QED
  BY <1>1, Zenon DEF ScanRefs, ScannedOf, Fields

LinkInv ==
    /\ EditInv
    /\ ~moved => BodyWhole(file)
    /\ scan # Idle => BodyWhole(scan.at) /\ scan.refs = ScannedOf(schema, scan.at)
    /\ report.op = "mv" /\ report.before = report.scan.at => Linked(schema, report.before, file)

LEMMA BodyLeft ==
    ASSUME NEW f \in HandFiles \cup {Absent}
    PROVE  BodyWhole(f)
<1>1. CASE f = Absent
  <2>1. f.body = <<>>
    BY <1>1 DEF Absent
  <2>2. Sequence(<<>>)
    BY EmptySeq, SeqIn
  <2>3. DOMAIN <<>> = {}
    OBVIOUS
  <2> QED
    BY <2>1, <2>2, <2>3 DEF BodyWhole
<1>2. CASE f \in HandFiles
  BY <1>2, LinksAreWhole, Zenon DEF BodyWhole
<1> QED
  BY <1>1, <1>2

LEMMA BodyKept ==
    ASSUME NEW f, NEW g, g.body = f.body, BodyWhole(f)
    PROVE  BodyWhole(g)
BY DEF BodyWhole

\* A write that is none of `mv` of the document leaves the body as it was.
LEMMA OtherKeeps ==
    ASSUME LinkInv, EditInv', schema' = schema, scan' = scan, moved' = moved, report'.op # "mv",
           ~moved => BodyWhole(file')
    PROVE  LinkInv'
BY DEF LinkInv

LEMMA WriteLinks ==
    ASSUME LinkInv, EditInv', NEW ops \in Sets, NEW ifs \in Ifs,
           set_collected(ops, ifs) \/ set_loose(ops, ifs)
    PROVE  LinkInv'
<1>1. CASE set_collected(ops, ifs)
  <2>1. /\ schema' = schema /\ scan' = scan /\ moved' = moved
        /\ file' = splice(finish(SetFields(Fields(file), ops)), file.body)
        /\ \E fields : report' = Report("set", ops, file, fields)
    BY <1>1 DEF set_collected
  <2>2. report'.op = "set"
    BY <2>1, ReportIs
  <2>3. file'.body = file.body
    BY <2>1, SpliceIs
  <2>4. ~moved => BodyWhole(file')
    BY <2>3, BodyKept DEF LinkInv
  <2> QED
    BY <2>1, <2>2, <2>4, OtherKeeps
<1>2. CASE set_loose(ops, ifs)
  <2>1. /\ schema' = schema /\ scan' = scan /\ moved' = moved
        /\ file' = splice(finish(apply_ops(Fields(file), ops)), file.body)
        /\ \E fields : report' = Report("set", ops, file, fields)
    BY <1>2 DEF set_loose
  <2>2. report'.op = "set"
    BY <2>1, ReportIs
  <2>3. file'.body = file.body
    BY <2>1, SpliceIs
  <2>4. ~moved => BodyWhole(file')
    BY <2>3, BodyKept DEF LinkInv
  <2> QED
    BY <2>1, <2>2, <2>4, OtherKeeps
<1> QED
  BY <1>1, <1>2

LEMMA NewLinks ==
    ASSUME LinkInv, EditInv', NEW ops \in Sets, new_document(ops)
    PROVE  LinkInv'
<1>1. /\ schema' = schema /\ scan' = scan /\ moved' = moved
      /\ file' = splice(finish(new_block(NewOps(ops))), <<>>)
      /\ \E all, fields : report' = Report("new", all, file, fields)
  BY DEF new_document
<1>2. report'.op = "new"
  BY <1>1, ReportIs
<1>3. file'.body = Absent.body
  BY <1>1, SpliceIs DEF Absent
<1>4. BodyWhole(file')
  BY <1>3, BodyLeft, BodyKept
<1> QED
  BY <1>1, <1>2, <1>4, OtherKeeps

LEMMA MvLinks ==
    ASSUME LinkInv, EditInv', MvScan \/ MvRewrite \/ MvItself
    PROVE  LinkInv'
<1>1. schema \in Schemas \cup {NoSchema} /\ TextFile(file)
  BY DEF LinkInv, EditInv
<1>2. CASE MvScan
  <2>1. /\ schema' = schema /\ file' = file /\ moved' = moved /\ report' = report /\ ~moved
        /\ scan' = [at |-> file, refs |-> ScanRefs(file)]
    BY <1>2 DEF MvScan
  <2>2. scan'.at = file /\ scan'.refs = ScannedOf(schema, file)
    BY <2>1, ScannedIs
  <2> QED
    BY <2>1, <2>2 DEF LinkInv
<1>3. CASE MvRewrite
  <2>1. schema' = schema /\ scan' = Idle /\ scan # Idle
    BY <1>3 DEF MvRewrite
  <2>2. CASE Readable(file)
    <3>1. file' = rewrite_holder(file, scan.refs) /\ moved' = TRUE
      BY <1>3, <2>2 DEF MvRewrite
    <3>2. report'.op = "mv" /\ report'.before = file /\ report'.scan = scan
      BY <1>3, <2>2 DEF MvRewrite
    <3>3. ASSUME file = scan.at PROVE Linked(schema, file, file')
      <4>1. BodyWhole(file) /\ scan.refs = ScanRefs(file)
        BY <2>1, <3>3, ScannedIs DEF LinkInv
      <4> QED
        BY <1>1, <2>2, <3>1, <4>1, RewriteLinks
    <3> QED
      BY <2>1, <3>1, <3>2, <3>3 DEF LinkInv
  <2>3. CASE ~Readable(file)
    <3>1. file' = file /\ moved' = moved /\ report' = report
      BY <1>3, <2>3 DEF MvRewrite
    <3> QED
      BY <2>1, <3>1 DEF LinkInv
  <2> QED
    BY <2>2, <2>3
<1>4. CASE MvItself
  <2>1. /\ schema' = schema /\ scan' = scan /\ moved' = moved /\ file' = RecordMove(file)
        /\ report' = Report("mvItself", <<>>, file, <<>>)
    BY <1>4 DEF MvItself
  <2>2. report'.op = "mvItself"
    BY <2>1, ReportIs
  <2>3. ASSUME NEW block PROVE assemble_frontmatter(file.block = "closed", block, file.body).body = file.body
    <3>1. splice(block, file.body).body = file.body /\ NoBlock(file.body).body = file.body
      BY SpliceIs DEF NoBlock
    <3> QED
      BY <3>1 DEF assemble_frontmatter
  <2>4. RecordMove(file).body = file.body
    BY <2>3, Zenon DEF RecordMove
  <2>5. ~moved => BodyWhole(file')
    BY <2>1, <2>4, BodyKept DEF LinkInv
  <2> QED
    BY <2>1, <2>2, <2>5, OtherKeeps
<1> QED
  BY <1>2, <1>3, <1>4

LEMMA HandLinks ==
    ASSUME LinkInv, EditInv', EditByHand
    PROVE  LinkInv'
<1>1. /\ schema' = schema /\ scan' = scan /\ moved' = moved /\ file' \in HandFiles \cup {Absent}
      /\ report' = Report("hand", <<>>, file, <<>>)
  BY DEF EditByHand
<1>2. report'.op = "hand"
  BY <1>1, ReportIs
<1>3. BodyWhole(file')
  BY <1>1, BodyLeft
<1> QED
  BY <1>1, <1>2, <1>3, OtherKeeps

LEMMA LinkStarts ==
    ASSUME Init, EditInv
    PROVE  LinkInv
<1>1. file \in HandFiles \cup {Absent} /\ scan = Idle /\ report = Report("hand", <<>>, Absent, <<>>)
  BY DEF Init
<1>2. report.op = "hand"
  BY <1>1, ReportIs
<1>3. BodyWhole(file)
  BY <1>1, BodyLeft
<1> QED
  BY <1>1, <1>2, <1>3 DEF LinkInv

\* Whatever is written between the scan of a move and its rewrite, what LinksFollow needs of both
\* is there: the body of the file the scan is of, and all of its refs.
THEOREM LinkSafe == Spec => []LinkInv
<1>1. Init /\ EditInv => LinkInv
  BY LinkStarts
<1>2. LinkInv /\ EditInv' /\ [Next]_vars => LinkInv'
  <2> SUFFICES ASSUME LinkInv, EditInv', [Next]_vars
               PROVE  LinkInv'
    OBVIOUS
  <2>1. ASSUME NEW ops \in Sets, NEW ifs \in Ifs, set_collected(ops, ifs) \/ set_loose(ops, ifs) PROVE LinkInv'
    BY <2>1, WriteLinks
  <2>2. ASSUME NEW ops \in Sets, new_document(ops) PROVE LinkInv'
    BY <2>2, NewLinks
  <2>3. MvScan \/ MvRewrite \/ MvItself => LinkInv'
    BY MvLinks
  <2>4. EditByHand => LinkInv'
    BY HandLinks
  <2>5. UNCHANGED vars => LinkInv'
    BY DEF vars, LinkInv
  <2> QED
    BY <2>1, <2>2, <2>3, <2>4, <2>5 DEF Next
<1> QED
  BY <1>1, <1>2, EditSafe, PTL DEF Spec

\* If nothing was written between the scan and the rewrite, every link and every ref that named
\* the moved document names it afterwards, and no other word of the body, no other value and no
\* field's place has changed: for any file whose links are whole, any schema and any names.
THEOREM LinksNameIt == Spec => []LinksFollow
<1>1. LinkInv => LinksFollow
  <2> SUFFICES ASSUME LinkInv, report.op = "mv", report.before = report.scan.at
               PROVE  LinksFollow
    BY DEF LinksFollow
  <2>1. Linked(schema, report.before, file)
    BY DEF LinkInv
  <2>2. \A fields : RefsIn(fields) = RefsOf(schema, fields)
    BY DEF RefsIn, RefsOf
  <2> QED
    BY <2>1, <2>2, Zenon DEF LinksFollow, Linked, ValuesFollow, Fields
<1> QED
  BY <1>1, LinkSafe, PTL
=============================================================================
