------------------------------- MODULE Texts -------------------------------
(* Texts as the pure parts of typdoc cut them up: file names, paths and       *)
(* written names. A text is a sequence of tokens; a token is one character    *)
(* that some rule looks at ("/", ":", "-", "*", a digit), or a run of         *)
(* characters that no rule takes apart ("WF", "notes", ".md").                *)
EXTENDS Naturals, Sequences, SequencesExt, FiniteSets, FiniteSetsExt

Digits == {"0", "1", "2"}
Codes == {"WF", "US"}

(* The texts between the occurrences of `sep`: str::split.                    *)
SplitAt(texts, char, sep) ==
    IF char = sep THEN Append(texts, <<>>) ELSE [texts EXCEPT ![Len(texts)] = Append(@, char)]
SplitBy(text, sep) ==
    LET split[n \in 0 .. Len(text)] == IF n = 0 THEN <<<<>>>> ELSE SplitAt(split[n - 1], text[n], sep)
    IN  split[Len(text)]

(* The texts with `sep` between them: slice::join.                            *)
JoinAt(joined, texts, n, sep) == (IF n = 1 THEN <<>> ELSE joined \o sep) \o texts[n]
JoinBy(texts, sep) ==
    LET joined[n \in 0 .. Len(texts)] == IF n = 0 THEN <<>> ELSE JoinAt(joined[n - 1], texts, n, sep)
    IN  joined[Len(texts)]

Segments(path) == SplitBy(path, "/")
PathOf(segments) == JoinBy(segments, <<"/">>)

(* str::starts_with and ends_with are SequencesExt's IsPrefix and IsSuffix.   *)
After(prefix, text) == SubSeq(text, Len(prefix) + 1, Len(text))

(* Where `mark`, a short text, first occurs; 0 when it does not.              *)
FirstOf(mark, text) ==
    LET at == {i \in 1 .. Len(text) - Len(mark) + 1 :
                 SubSeq(text, i, i + Len(mark) - 1) = mark}
    IN  IF at = {} THEN 0 ELSE Min(at)

(* The two sides of the first `mark`: str::split_once.                        *)
Has(text, mark) == FirstOf(mark, text) > 0
Left(text, mark) == SubSeq(text, 1, FirstOf(mark, text) - 1)
Right(text, mark) == SubSeq(text, FirstOf(mark, text) + Len(mark), Len(text))

(* How many digits `text` begins with.                                        *)
LeadingDigits(text) ==
    Max({n \in 0 .. Len(text) : \A i \in 1 .. n : text[i] \in Digits})
=============================================================================
