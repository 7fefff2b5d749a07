------------------------------ MODULE Bodies ------------------------------
(* The body of a document (typdoc-core: links.rs, body.rs, slug.rs): the      *)
(* links, definitions, suspects and mentions scan finds in it, its headings   *)
(* and the anchors they get. Markdown itself belongs to the parser: a body is *)
(* a sequence of what it tells apart, one to a line,                          *)
(*   [is |-> "link", type, written]  an inline link or image, or an autolink  *)
(*   [is |-> "use", label]           a reference-style link                   *)
(*   [is |-> "definition", label, written]                                    *)
(*   [is |-> "broken", written, definition]  what looks like a link           *)
(*   [is |-> "heading", level, text]                                          *)
(*   [is |-> "word", written, in]    in "text", "code", "fence" or a "link".  *)
EXTENDS Texts

NoTarget == <<>>

Inline(written) == [is |-> "link", type |-> "inline", written |-> written]
Autolink(written) == [is |-> "link", type |-> "autolink", written |-> written]
Use(label) == [is |-> "use", label |-> label]
Definition(label, written) == [is |-> "definition", label |-> label, written |-> written]
Broken(written, definition) == [is |-> "broken", written |-> written, definition |-> definition]
HeadingLine(level, text) == [is |-> "heading", level |-> level, text |-> text]
Word(written, place) == [is |-> "word", written |-> written, in |-> place]

Lines(body, is) == {i \in DOMAIN body : body[i].is = is}

(* split_destination: the fragment is cut off first; nothing before it names  *)
(* the document itself.                                                       *)
TargetOf(written) == IF Has(written, <<"#">>) THEN Left(written, <<"#">>) ELSE written
HasAnchor(written) == Has(written, <<"#">>)
AnchorOf(written) == Right(written, <<"#">>)

(* definitions: the first of a label is active, every later one a duplicate.  *)
FirstDefined(body, label) == {i \in Lines(body, "definition") : body[i].label = label}
Active(body) ==
    {i \in Lines(body, "definition") : i = Min(FirstDefined(body, body[i].label))}
Duplicates(body) == Lines(body, "definition") \ Active(body)

UsesDefined(body) == {i \in Lines(body, "use") : FirstDefined(body, body[i].label) # {}}
DefinitionOf(body, use) == Min(FirstDefined(body, body[use].label))

Checked(body) == {i \in Lines(body, "link") : body[i].type = "inline"}

Link(written, line, isReference) == [written |-> written, line |-> line, isReference |-> isReference]
scan_links(body) ==
    {Link(body[i].written, i, FALSE) : i \in Checked(body)}
    \cup {Link(body[DefinitionOf(body, i)].written, i, TRUE) : i \in UsesDefined(body)}
scan_definitions(body) == {Link(body[i].written, i, FALSE) : i \in Active(body)}

(* candidate_inner: only what ends in an extension before its fragment.       *)
HasExtension(text) == text # <<>> /\ Last(text) = ".md"
suspects(body) == {i \in Lines(body, "broken") : HasExtension(TargetOf(body[i].written))}

(* mention_shape: a key, alone or after a prefix; never with a slug.          *)
KeyPart(token) ==
    LET colons == {i \in DOMAIN token : token[i] = ":"}
    IN  IF colons = {} THEN token ELSE SubSeq(token, Max(colons) + 1, Len(token))
looks_like_key_shape(text) ==
    Len(text) > 2 /\ text[1] \in Codes /\ text[2] = "-" /\ LeadingDigits(SubSeq(text, 3, Len(text))) = Len(text) - 2
mentions(body, inlineCode, fencedCode) ==
    {i \in Lines(body, "word") :
       /\ looks_like_key_shape(KeyPart(body[i].written))
       /\ \/ body[i].in = "text"
          \/ body[i].in = "code" /\ inlineCode
          \/ body[i].in = "fence" /\ fencedCode}

(* slug_of: lower case, a blank for a dash, without punctuation.              *)
Lower == [token \in {"H"} |-> "h"]
LowerCase(text) == [i \in DOMAIN text |-> IF text[i] \in DOMAIN Lower THEN Lower[text[i]] ELSE text[i]]
Deleted == {".", "!"}
SlugOf(text) ==
    LET kept == SelectSeq(text, LAMBDA token : token \notin Deleted)
    IN  LowerCase([i \in DOMAIN kept |-> IF kept[i] = " " THEN "-" ELSE kept[i]])

(* Slugger: `taken` counts, for each slug given out, the numbers tried after  *)
(* it. The first number whose slug is free is taken.                          *)
Number == [n \in 1 .. 2 |-> <<"1", "2">>[n]]
Numbered(base, n) == base \o <<"-", Number[n]>>
SlugStep(state, text) ==
    LET base == SlugOf(text)
        Free(n) == n > state.taken[base] /\ Numbered(base, n) \notin DOMAIN state.taken
        Give(slug, taken) ==
            [taken |-> [s \in DOMAIN taken \cup {slug} |-> IF s = slug THEN 0 ELSE taken[s]],
             slugs |-> Append(state.slugs, slug)]
    IN  IF base \notin DOMAIN state.taken THEN Give(base, state.taken)
        ELSE LET n == Min({k \in DOMAIN Number : Free(k)})
             IN  Give(Numbered(base, n), [state.taken EXCEPT ![base] = n])
slugs(texts) == FoldLeft(SlugStep, [taken |-> [s \in {} |-> 0], slugs |-> <<>>], texts).slugs

(* headings: each ends before the next of its level or a higher one.          *)
headings(body) ==
    LET at == SetToSortSeq(Lines(body, "heading"), <)
        given == slugs([i \in DOMAIN at |-> body[at[i]].text])
        Below(i) == {j \in i + 1 .. Len(at) : body[at[j]].level <= body[at[i]].level}
    IN  [i \in DOMAIN at |->
           [slug |-> given[i], line |-> at[i],
            end |-> IF Below(i) = {} THEN Len(body) ELSE at[Min(Below(i))] - 1]]
=============================================================================
