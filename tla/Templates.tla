----------------------------- MODULE Templates -----------------------------
(* Match templates (core/template.rs): `match` of a collection file and the   *)
(* entries of `namespaces`. A segment is its text, in which "*" and "{key}"   *)
(* are tokens of their own; `**` is the segment of two stars.                 *)
EXTENDS Texts

None == <<"none">>               \* Rust's None for a key, a slug or a code
Refused == [refused |-> TRUE]    \* an Err, whose message is left out

SlugModes == {"optional", "required", "none"}
Folders == <<"*", "*">>
Stars(segment) == Cardinality({i \in DOMAIN segment : segment[i] = "*"})
KeysIn(segment) == Cardinality({i \in DOMAIN segment : segment[i] = "{key}"})

(* A slug is not empty and holds no whitespace, `/`, `#` or `:`.              *)
ValidSlug(slug) == slug # <<>> /\ Range(slug) \cap {" ", "/", "#", ":"} = {}

IsLiteral(segment) == Stars(segment) = 0 /\ KeysIn(segment) = 0

(* Segment::read, for a template (`keys`) or for a plain glob.                *)
SegmentReads(text, keys) ==
    /\ text \notin {<<>>, <<".">>, <<"..">>}
    /\ \A i \in 1 .. Len(text) - 1 : ~(text[i] = "*" /\ text[i + 1] = "*")
    /\ keys => Range(text) \cap {"{", "}"} = {}

(* The first character of the glob syntax that a path pattern does not take.  *)
HasUntakenGlob(pattern) ==
    \/ pattern # <<>> /\ pattern[1] = "!"
    \/ Range(pattern) \cap {"?", "[", "]", "\\", ","} # {}

ParseTemplate(text) ==
    LET steps == Segments(text)
    IN  IF /\ ~HasUntakenGlob(text)
           /\ \A i \in DOMAIN steps : steps[i] = Folders \/ SegmentReads(steps[i], TRUE)
        THEN [steps |-> steps, code |-> None, readsSlug |-> FALSE, slug |-> "optional"]
        ELSE Refused

(* The character right after `{key}`, where literal text follows it there.    *)
TextAfterKey(segment) ==
    LET at == FirstOf(<<"{key}">>, segment)
    IN  IF at = 0 \/ at = Len(segment) THEN {}
        ELSE {segment[at + 1]} \ {"*", "{key}"}

(* Template::bind: `{key}` stands for the code's keys from here on.           *)
Bind(template, code, slug) ==
    LET steps == template.steps
        after == {i \in DOMAIN steps : TextAfterKey(steps[i]) # {}}
        ambiguous == after # {} /\ TextAfterKey(steps[Min(after)]) \subseteq Digits \cup {"-"}
        keys == FoldLeft(LAMBDA n, s : n + KeysIn(s), 0, steps)
        wildcards == FoldLeft(LAMBDA n, s : n + Stars(s), 0, steps)
    IN  IF \/ code # None /\ (keys # 1 \/ wildcards > 0)
           \/ code = None /\ keys > 0
           \/ code # None /\ ambiguous /\ slug # "none"
        THEN Refused
        ELSE IF code = None THEN template
        ELSE [template EXCEPT !.code = code, !.readsSlug = ~ambiguous, !.slug = slug]

(* fits_capture: what `{key}` captured when `name` fits, NoFit when it does   *)
(* not. A star takes as little as it can, a slug as much as it can.           *)
NoFit == [fits |-> FALSE]
Captured(key, slug) == [key |-> key, slug |-> slug]

\* One part, from a place in the name on; `later` is what the parts after it capture from each
\* place on.
FitsPart(part, name, t, later, from) ==
    LET prefix == t.code \o <<"-">>
        start == from + Len(prefix)
        number == start + LeadingDigits(SubSeq(name, start + 1, Len(name)))
        KeyTo(end) == SubSeq(name, from + 1, end)
        cuts == {n \in from .. Len(name) : later[n] # NoFit}
        shorter == {n \in start + 1 .. number : later[n] # NoFit}
        slugEnds == {n \in number + 1 .. Len(name) : later[n] # NoFit}
    IN  CASE part = "*" -> IF cuts = {} THEN NoFit ELSE later[Min(cuts)]
          [] part = "{key}" ->
               IF \/ t.code = None \/ ~IsPrefix(prefix, SubSeq(name, from + 1, Len(name)))
                  \/ number = start
               THEN NoFit
               ELSE IF ~t.readsSlug
               THEN IF shorter = {} THEN NoFit
                    ELSE LET end == Max(shorter)
                         IN  Captured(IF later[end].key = None THEN KeyTo(end) ELSE later[end].key,
                                      later[end].slug)
               ELSE IF later[number] # NoFit THEN Captured(KeyTo(number), None)
               ELSE IF number = Len(name) \/ name[number + 1] # "-" \/ slugEnds = {} THEN NoFit
               ELSE Captured(KeyTo(number), SubSeq(name, number + 2, Max(slugEnds)))
          [] OTHER -> IF from < Len(name) /\ name[from + 1] = part THEN later[from + 1] ELSE NoFit

FitsNone(name) == [from \in 0 .. Len(name) |-> IF from = Len(name) THEN Captured(None, None) ELSE NoFit]
FitsLast(part, name, t, later) == [from \in 0 .. Len(name) |-> FitsPart(part, name, t, later, from)]
FitsCapture(parts, name, t) ==
    LET fits[n \in 0 .. Len(parts)] ==
          IF n = 0 THEN FitsNone(name) ELSE FitsLast(parts[Len(parts) - n + 1], name, t, fits[n - 1])
    IN  fits[Len(parts)][0]

Matches(segment, name, t) == name # <<>> /\ FitsCapture(segment, name, t) # NoFit

(* A folder whose name begins with `.` is entered by plain text only.         *)
HiddenNames == {".typdoc", ".agents", ".git"}
Hidden(name) == name # <<>> /\ name[1] \in HiddenNames
MatchesFolder(segment, name, t) ==
    /\ Hidden(name) => IsLiteral(segment)
    /\ Matches(segment, name, t)

(* fits_steps: after how many components a step and those after it fit, when  *)
(* those after it fit after as many as `later` says. `**` takes any number of *)
(* folders, none included.                                                    *)
\* mutant: `**` takes one folder at least
StepFitsBelow(steps, components, t, at, later) ==
    IF steps[at] = Folders THEN {n \in 0 .. Len(components) : \E m \in later : n < m}
    ELSE {n \in 0 .. Len(components) - 1 :
            /\ n + 1 \in later
            /\ IF at = Len(steps) THEN Matches(steps[at], components[n + 1], t)
               ELSE MatchesFolder(steps[at], components[n + 1], t)}

StepFits(steps, components, t, at, later) ==
    IF steps[at] = Folders THEN {n \in 0 .. Len(components) : \E m \in later : n <= m}
    ELSE {n \in 0 .. Len(components) - 1 :
            /\ n + 1 \in later
            /\ IF at = Len(steps) THEN Matches(steps[at], components[n + 1], t)
               ELSE MatchesFolder(steps[at], components[n + 1], t)}
FitsSteps(steps, components, t) ==
    LET fits[n \in 0 .. Len(steps)] ==
          IF n = 0 THEN {Len(components)}
          ELSE StepFits(steps, components, t, Len(steps) - n + 1, fits[n - 1])
    IN  0 \in fits[Len(steps)]

MatchesPath(t, below) ==
    FitsSteps(t.steps, IF below = <<>> THEN <<>> ELSE Segments(below), t)

(* Template::read: the key, the slug and the form of a coded file name.       *)
NotCoded == [coded |-> FALSE]
NameState(t, readsSlug, slug) ==
    IF ~readsSlug THEN "expected"
    ELSE IF \/ slug # None /\ t.slug = "none"
            \/ slug = None /\ t.slug = "required" THEN "unexpectedForm"
    ELSE IF slug # None /\ ~ValidSlug(slug) THEN "invalidSlug"
    ELSE "expected"

KeysRead(t, names) ==
    LET at == {i \in DOMAIN names \cap DOMAIN t.steps : t.steps[i] # Folders /\ names[i] # <<>>}
        read == {[at |-> i, as |-> FitsCapture(t.steps[i], names[i], t)] : i \in at}
    IN  {r \in read : r.as # NoFit /\ r.as.key # None}

ReadName(t, below) ==
    LET Read(r) == [key |-> r.as.key, slug |-> r.as.slug,
                    state |-> NameState(t, t.readsSlug /\ KeysIn(t.steps[r.at]) > 0, r.as.slug)]
        Leftmost(reads) ==
            IF reads = {} THEN NotCoded
            ELSE Read(CHOOSE r \in reads : \A other \in reads : r.at <= other.at)
    IN  Leftmost(KeysRead(t, Segments(below)))

\* mutant: the slug follows the key without a `-`
RenderWithoutDash(segment, key, slug) ==
    FoldLeft(LAMBDA out, part :
               out \o (IF part # "{key}" THEN <<part>>
                       ELSE IF slug = None THEN key ELSE key \o slug),
             <<>>, segment)

(* Template::render: the file of a key that was just issued.                  *)
RenderSegment(segment, key, slug) ==
    FoldLeft(LAMBDA out, part :
               out \o (IF part # "{key}" THEN <<part>>
                       ELSE IF slug = None THEN key ELSE key \o <<"-">> \o slug),
             <<>>, segment)

Render(t, key, slug) ==
    IF \E i \in DOMAIN t.steps : \/ t.steps[i] = Folders \/ Stars(t.steps[i]) > 0
                                 \/ t.code = None /\ KeysIn(t.steps[i]) > 0
    THEN None
    ELSE PathOf([i \in DOMAIN t.steps |-> RenderSegment(t.steps[i], key, slug)])

(* The folders a template writes out as plain text.                           *)
FolderSteps(t) == SubSeq(t.steps, 1, Len(t.steps) - 1)
LiteralFolder(t) ==
    IF \A i \in DOMAIN FolderSteps(t) : IsLiteral(t.steps[i]) /\ t.steps[i] # Folders
    THEN PathOf(FolderSteps(t)) ELSE None

LiteralFolderNames(t) == {s \in Range(FolderSteps(t)) : IsLiteral(s)}
KeyInLastStep(t) == KeysIn(Last(t.steps)) > 0
=============================================================================
