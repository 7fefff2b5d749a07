--------------------------- MODULE CheckingProofs ---------------------------
(***************************************************************************)
(* Proofs that validate and list answer one question alike however it is   *)
(* asked: ScopesAgree and ListAnswers of Checking, for any project.        *)
(*                                                                         *)
(* Every check is a function of the document, of the names that documents  *)
(* moved away from and of how the run was asked. So ScopesAgree needs no   *)
(* invariant of the steps: it is a fact about any documents on disk. The   *)
(* proof goes through the checks from the inside out and shows of each     *)
(* how its answers to the three ways of asking relate (Told).              *)
(*                                                                         *)
(* ListAnswers has two halves. A list of a condition and one of its        *)
(* opposite part the documents, since the answers that each step combines  *)
(* are contrary (Contrary), along the arrows too. And the sort keys, one   *)
(* after another, what identifies a document, and at the end its path      *)
(* order the documents of a collection, since each orders weakly (Weak)    *)
(* the values that the collection's schema lets it have.                   *)
(***************************************************************************)
EXTENDS CycleProofs

Levels == {"error", "warn", "off"}
Strict(level) == IF level = "warn" THEN "error" ELSE level
Heard(level) == IF level = "off" THEN "info" ELSE level

\* What one check finds of a document, asked plainly, strictly and by an audit.
\* `passed` are the lines in which the plain run looks for nothing.
Told(plain, strict, audit, passed) ==
    /\ \A f \in plain : f.level # "info" /\ f \in audit /\ \E g \in strict : g \in Raised(f)
    /\ \A g \in strict : \E f \in plain : g \in Raised(f)
    /\ \A f \in audit : \/ f \in plain
                        \/ f.level = "info"
                        \/ f.rule \in {"refs.moved", "imports.absent"} /\ f.at \in passed

-----------------------------------------------------------------------------
(* Levels, and the finding of a rule that has one.                         *)

LEMMA EffectiveLevel ==
    ASSUME NEW rule, NEW default \in Levels, NEW settings, NEW global,
           \A r \in DOMAIN settings : settings[r] \in Levels,
           \A r \in DOMAIN global : global[r] \in Levels
    PROVE  LET l == effective_level(default, rule, global, settings, FALSE, FALSE)
           IN  /\ l \in Levels
               /\ effective_level(default, rule, global, settings, TRUE, FALSE) = Strict(l)
               /\ effective_level(default, rule, global, settings, FALSE, TRUE) = Heard(l)
<1> DEFINE chosen == IF rule \in DOMAIN settings THEN settings[rule]
                     ELSE IF rule \in DOMAIN global THEN global[rule]
                     ELSE default
<1>1. chosen \in Levels
  OBVIOUS
<1>2. \A strict, audit \in BOOLEAN :
        effective_level(default, rule, global, settings, strict, audit)
          = CASE chosen = "off" /\ audit -> "info"
              [] chosen = "warn" /\ strict -> "error"
              [] OTHER -> chosen
  BY DEF effective_level
<1> HIDE DEF chosen
<1>3. /\ effective_level(default, rule, global, settings, FALSE, FALSE) = chosen
      /\ effective_level(default, rule, global, settings, TRUE, FALSE) = Strict(chosen)
      /\ effective_level(default, rule, global, settings, FALSE, TRUE) = Heard(chosen)
  BY <1>1, <1>2 DEF Levels, Strict, Heard
<1> QED
  BY <1>1, <1>3

LEMMA LevelFacts ==
    ASSUME NEW rule, NEW default \in Levels, NEW path \in DOMAIN Entries
    PROVE  LET l == LevelOf(rule, default, path, Plainly)
           IN  /\ l \in Levels
               /\ LevelOf(rule, default, path, Strictly) = Strict(l)
               /\ LevelOf(rule, default, path, Audit) = Heard(l)
<1> DEFINE settings == CollectionOf(path).levels
           Level(strict, audit) == effective_level(default, rule, Global, settings, strict, audit)
<1>1. /\ settings \in {Collections[c].levels : c \in CollectionNames}
  BY IndexAssumption DEF CollectionOf
<1>2. /\ \A r \in DOMAIN settings : settings[r] \in Levels
      /\ \A r \in DOMAIN Global : Global[r] \in Levels
  BY <1>1, LevelAssumption DEF Levels
<1>3. /\ Level(FALSE, FALSE) \in Levels
      /\ Level(TRUE, FALSE) = Strict(Level(FALSE, FALSE))
      /\ Level(FALSE, TRUE) = Heard(Level(FALSE, FALSE))
  <2> HIDE DEF settings
  <2> QED
    BY <1>2, EffectiveLevel
<1>4. /\ LevelOf(rule, default, path, Plainly) = Level(FALSE, FALSE)
      /\ LevelOf(rule, default, path, Strictly) = Level(TRUE, FALSE)
      /\ LevelOf(rule, default, path, Audit) = Level(FALSE, TRUE)
  BY DEF LevelOf, effective_level, Plainly, Strictly, Audit
<1> HIDE DEF Level
<1> QED
  BY <1>3, <1>4

LEMMA GlobalFacts ==
    ASSUME NEW rule, NEW default \in Levels
    PROVE  LET l == GlobalLevel(rule, default, Plainly)
           IN  l \in Levels /\ GlobalLevel(rule, default, Strictly) = Strict(l)
<1> DEFINE Level(strict, audit) == effective_level(default, rule, Global, NoSettings, strict, audit)
<1>1. /\ \A r \in DOMAIN NoSettings : NoSettings[r] \in Levels
      /\ \A r \in DOMAIN Global : Global[r] \in Levels
  BY LevelAssumption DEF NoSettings, Levels
<1>2. Level(FALSE, FALSE) \in Levels /\ Level(TRUE, FALSE) = Strict(Level(FALSE, FALSE))
  BY <1>1, EffectiveLevel
<1>3. /\ GlobalLevel(rule, default, Plainly) = Level(FALSE, FALSE)
      /\ GlobalLevel(rule, default, Strictly) = Level(TRUE, FALSE)
  BY DEF GlobalLevel, effective_level, Plainly, Strictly
<1> HIDE DEF Level
<1> QED
  BY <1>2, <1>3

LEMMA AtLevelTold ==
    ASSUME NEW l \in Levels, NEW rule, NEW field, NEW at, NEW X
    PROVE  Told(AtLevel(l, rule, field, at), AtLevel(Strict(l), rule, field, at),
                AtLevel(Heard(l), rule, field, at), X)
<1> DEFINE F(level) == [level |-> level, rule |-> rule, field |-> field, at |-> at]
<1>1. \A level : AtLevel(level, rule, field, at) = IF level = "off" THEN {} ELSE {F(level)}
  BY DEF AtLevel, FindingAt
<1>2. /\ \A level : F(level).level = level
      /\ [F("warn") EXCEPT !.level = "error"] = F("error")
  OBVIOUS
<1> HIDE DEF F
<1>3. F("warn") \in Raised(F("warn")) /\ F("error") \in Raised(F("warn")) /\ F("error") \in Raised(F("error"))
  BY <1>2 DEF Raised
<1>4. CASE l = "off"
  BY <1>1, <1>2, <1>4 DEF Told, Strict, Heard
<1>5. CASE l = "warn"
  BY <1>1, <1>2, <1>3, <1>5 DEF Told, Strict, Heard
<1>6. CASE l = "error"
  BY <1>1, <1>2, <1>3, <1>6 DEF Told, Strict, Heard
<1> QED
  BY <1>4, <1>5, <1>6 DEF Levels

LEMMA FixedTold ==
    ASSUME NEW findings, NEW X, \A f \in findings : f.level # "info"
    PROVE  Told(findings, findings, findings, X)
BY DEF Told, Raised

LEMMA BothTold ==
    ASSUME NEW A, NEW B, NEW C, NEW A2, NEW B2, NEW C2, NEW X,
           Told(A, B, C, X), Told(A2, B2, C2, X)
    PROVE  Told(A \cup A2, B \cup B2, C \cup C2, X)
BY DEF Told

LEMMA RuleTold ==
    ASSUME NEW path \in DOMAIN Entries, NEW rule, NEW default \in Levels, NEW field, NEW at, NEW X
    PROVE  Told(AtLevel(LevelOf(rule, default, path, Plainly), rule, field, at),
                AtLevel(LevelOf(rule, default, path, Strictly), rule, field, at),
                AtLevel(LevelOf(rule, default, path, Audit), rule, field, at), X)
<1> DEFINE l == LevelOf(rule, default, path, Plainly)
<1>1. /\ l \in Levels
      /\ LevelOf(rule, default, path, Strictly) = Strict(l)
      /\ LevelOf(rule, default, path, Audit) = Heard(l)
  BY LevelFacts
<1> HIDE DEF l
<1> QED
  BY <1>1, AtLevelTold DEF l

LEMMA NothingTold == \A X : Told({}, {}, {}, X)
BY DEF Told

LEMMA ErrorTold ==
    ASSUME NEW rule, NEW field, NEW X
    PROVE  LET F == {Finding("error", rule, field)} IN Told(F, F, F, X)
<1>1. Finding("error", rule, field).level = "error"
  BY DEF Finding
<1> QED
  BY <1>1, FixedTold

-----------------------------------------------------------------------------
(* The checks of one document.                                             *)

LEMMA ResolvedTold ==
    ASSUME NEW path \in DOMAIN Entries, NEW r, NEW target, NEW resolved, NEW X
    PROVE  Told(resolved_ref_findings(path, r, target, resolved, Plainly),
                resolved_ref_findings(path, r, target, resolved, Strictly),
                resolved_ref_findings(path, r, target, resolved, Audit), X)
<1> DEFINE T == IF target_allowed(target, resolved) THEN {} ELSE {Finding("error", "refs.target", r.field)}
           C(how) == IF resolved.info # NoInfo /\ resolved.info[1].coded /\ resolved.via = "path"
                     THEN AtLevel(LevelOf("refs.codedByPath", "warn", path, how), "refs.codedByPath", r.field, 0)
                     ELSE {}
           S(how) == IF resolved.stale
                     THEN AtLevel(LevelOf("refs.slug", "warn", path, how), "refs.slug", r.field, 0) ELSE {}
<1>1. Told(T, T, T, X)
  BY NothingTold, ErrorTold
<1>2. Told(C(Plainly), C(Strictly), C(Audit), X)
  BY NothingTold, RuleTold DEF Levels
<1>3. Told(S(Plainly), S(Strictly), S(Audit), X)
  BY NothingTold, RuleTold DEF Levels
<1>4. \A how : resolved_ref_findings(path, r, target, resolved, how) = (T \cup C(how)) \cup S(how)
  BY DEF resolved_ref_findings
<1> HIDE DEF T, C, S
<1>5. Told(T \cup C(Plainly), T \cup C(Strictly), T \cup C(Audit), X)
  BY <1>1, <1>2, BothTold
<1> QED
  BY <1>3, <1>4, <1>5, BothTold

LEMMA UnresolvedTold ==
    ASSUME NEW path \in DOMAIN Entries, NEW r, NEW reason, NEW moved, NEW X
    PROVE  Told(unresolved_ref_finding(path, r, reason, Plainly, moved),
                unresolved_ref_finding(path, r, reason, Strictly, moved),
                unresolved_ref_finding(path, r, reason, Audit, moved), X)
<1> DEFINE M(how) == AtLevel(LevelOf("refs.moved", "error", path, how), "refs.moved", r.field, 0)
           I(how) == AtLevel(LevelOf("imports.absent", "warn", path, how), "imports.absent", r.field, 0)
           E == {Finding("error", "refs.resolve", r.field)}
           recorded == MovedFrom(Reads(r.written, path, "ref")) \in moved
<1>1. Told(M(Plainly), M(Strictly), M(Audit), X) /\ Told(I(Plainly), I(Strictly), I(Audit), X)
  BY RuleTold DEF Levels
<1>2. Told(E, E, E, X)
  BY ErrorTold
<1>3. \A how : unresolved_ref_finding(path, r, reason, how, moved)
                 = IF recorded THEN M(how) ELSE IF reason = "import-absent" THEN I(how) ELSE E
  BY DEF unresolved_ref_finding
<1> HIDE DEF M, I, E, recorded
<1> QED
  BY <1>1, <1>2, <1>3

LEMMA RefsTold ==
    ASSUME NEW path \in DOMAIN Entries, NEW file, NEW moved, NEW X
    PROVE  Told(check_refs(path, file, Plainly, moved), check_refs(path, file, Strictly, moved),
                check_refs(path, file, Audit, moved), X)
<1> DEFINE schema == SchemaOf(path)
           R == FieldRefs(schema, ReadFields(file, schema))
           Of(r, how) ==
             IF resolve_one(r.written, path).found
             THEN resolved_ref_findings(path, r, Declared(schema, r.field).target, resolve_one(r.written, path), how)
             ELSE unresolved_ref_finding(path, r, resolve_one(r.written, path).reason, how, moved)
<1>1. \A how : check_refs(path, file, how, moved)
                 = IF file.block # "closed" THEN {} ELSE UNION {Of(r, how) : r \in R}
  BY DEF check_refs
<1>2. \A r : Told(Of(r, Plainly), Of(r, Strictly), Of(r, Audit), X)
  BY ResolvedTold, UnresolvedTold
<1> HIDE DEF R, Of
<1>3. Told(UNION {Of(r, Plainly) : r \in R}, UNION {Of(r, Strictly) : r \in R}, UNION {Of(r, Audit) : r \in R}, X)
  BY <1>2 DEF Told
<1> QED
  BY <1>1, <1>3, NothingTold

LEMMA BodyTold ==
    ASSUME NEW path \in DOMAIN Entries, NEW rule, NEW line, NEW X
    PROVE  Told(BodyFinding(rule, path, line, Plainly), BodyFinding(rule, path, line, Strictly),
                BodyFinding(rule, path, line, Audit), X)
<1> DEFINE default == IF rule = "body.mentions" THEN "off" ELSE "error"
<1>1. default \in Levels
  BY DEF Levels
<1>2. \A how : BodyFinding(rule, path, line, how) = AtLevel(LevelOf(rule, default, path, how), rule, "", line)
  BY DEF BodyFinding, BodyLevel
<1> HIDE DEF default
<1> QED
  BY <1>1, <1>2, RuleTold

LEMMA AnchorTold ==
    ASSUME NEW path \in DOMAIN Entries, NEW link, NEW target, NEW file, NEW X
    PROVE  Told(AnchorFindings(link, target, path, file, Plainly), AnchorFindings(link, target, path, file, Strictly),
                AnchorFindings(link, target, path, file, Audit), X)
<1> DEFINE there == \/ ~HasAnchor(link.written)
                    \/ \E slug \in target_headings(target, path, file) : SameHeading(slug, AnchorOf(link.written))
<1>1. \A how : AnchorFindings(link, target, path, file, how)
                 = IF there THEN {} ELSE BodyFinding("body.anchors", path, link.line, how)
  BY DEF AnchorFindings
<1> HIDE DEF there
<1> QED
  BY <1>1, NothingTold, BodyTold

LEMMA MissedTold ==
    ASSUME NEW path \in DOMAIN Entries, NEW from, NEW line, NEW moved, NEW A, NEW B, NEW C, NEW X,
           Told(A, B, C, X)
    PROVE  Told(Missed(from, path, line, Plainly, moved, A), Missed(from, path, line, Strictly, moved, B),
                Missed(from, path, line, Audit, moved, C), X)
<1> DEFINE M(how) == AtLevel(LevelOf("refs.moved", "error", path, how), "refs.moved", "", line)
<1>1. Told(M(Plainly), M(Strictly), M(Audit), X)
  BY RuleTold DEF Levels
<1>2. \A how, own : Missed(from, path, line, how, moved, own) = IF from \in moved THEN M(how) ELSE own
  BY DEF Missed
<1> HIDE DEF M
<1> QED
  BY <1>1, <1>2

LEMMA DestinationTold ==
    ASSUME NEW path \in DOMAIN Entries, NEW link, NEW file, NEW moved, NEW X
    PROVE  Told(check_body_destination(link, path, file, Plainly, moved),
                check_body_destination(link, path, file, Strictly, moved),
                check_body_destination(link, path, file, Audit, moved), X)
<1> DEFINE target == TargetOf(link.written)
           reading == classify_body(target, path)
           L(how) == BodyFinding("body.links", path, link.line, how)
           I(how) == AtLevel(LevelOf("imports.absent", "warn", path, how), "imports.absent", "", link.line)
           A(p, how) == AnchorFindings(link, p, path, file, how)
           M(how) == Missed(MovedFrom(reading), path, link.line, how, moved, L(how))
           none == target = NoTarget
           known == Ignored(path, reading.rest) \/ Resolve(reading).found
           ignored == Ignored(path, reading)
           found == resolve_path(reading.path).found
           loaded == Imports[reading.alias].loaded
<1>1. /\ Told(L(Plainly), L(Strictly), L(Audit), X)
      /\ Told(I(Plainly), I(Strictly), I(Audit), X)
      /\ \A p : Told(A(p, Plainly), A(p, Strictly), A(p, Audit), X)
  BY RuleTold, BodyTold, AnchorTold DEF Levels
<1>2. Told(M(Plainly), M(Strictly), M(Audit), X)
  BY <1>1, MissedTold
<1>3. \A how : check_body_destination(link, path, file, how, moved)
                 = IF none THEN A(path, how)
                   ELSE IF reading.is = "notARef" THEN {}
                   ELSE IF reading.is \in {"badPrefix", "absolute"} THEN L(how)
                   ELSE IF reading.is = "import"
                   THEN IF ~loaded THEN I(how) ELSE IF known THEN {} ELSE L(how)
                   ELSE IF ignored THEN {}
                   ELSE IF found THEN A(reading.path, how)
                   ELSE M(how)
  BY DEF check_body_destination
<1> HIDE DEF L, I, A, M, none, known, ignored, found, loaded, reading, target
<1> QED
  BY <1>1, <1>2, <1>3, NothingTold

\* A rule that is off is heard by an audit as info and no other way.
LEMMA OffHeard ==
    ASSUME NEW path \in DOMAIN Entries, NEW rule, NEW line, BodyLevel(rule, path, Plainly) = "off"
    PROVE  /\ BodyFinding(rule, path, line, Plainly) = {}
           /\ BodyFinding(rule, path, line, Strictly) = {}
           /\ \A f \in BodyFinding(rule, path, line, Audit) : f.level = "info"
<1> DEFINE default == IF rule = "body.mentions" THEN "off" ELSE "error"
<1>1. default \in Levels
  BY DEF Levels
<1>2. \A how : BodyLevel(rule, path, how) = LevelOf(rule, default, path, how)
  BY DEF BodyLevel
<1> HIDE DEF default
<1>3. BodyLevel(rule, path, Strictly) = "off" /\ BodyLevel(rule, path, Audit) = "info"
  BY <1>1, <1>2, LevelFacts DEF Strict, Heard
<1> QED
  BY <1>3 DEF BodyFinding, AtLevel, FindingAt

LEMMA SameOff ==
    ASSUME NEW path \in DOMAIN Entries, NEW rule
    PROVE  /\ BodyLevel(rule, path, Strictly) = "off" <=> BodyLevel(rule, path, Plainly) = "off"
           /\ BodyLevel(rule, path, Audit) # "off"
<1> DEFINE default == IF rule = "body.mentions" THEN "off" ELSE "error"
<1>1. default \in Levels
  BY DEF Levels
<1>2. \A how : BodyLevel(rule, path, how) = LevelOf(rule, default, path, how)
  BY DEF BodyLevel
<1> HIDE DEF default
<1> QED
  BY <1>1, <1>2, LevelFacts DEF Strict, Heard, Levels

\* What an audit says at a line other than as info, when the rules of the body are off.
OnlyBeside(findings, line) ==
    \A f \in findings : f.level = "info" \/ (f.rule \in {"refs.moved", "imports.absent"} /\ f.at = line)

LEMMA RuleBeside ==
    ASSUME NEW level, NEW rule \in {"refs.moved", "imports.absent"}, NEW line
    PROVE  OnlyBeside(AtLevel(level, rule, "", line), line)
<1>1. FindingAt(level, rule, "", line).rule = rule /\ FindingAt(level, rule, "", line).at = line
  BY DEF FindingAt
<1> QED
  BY <1>1 DEF OnlyBeside, AtLevel

LEMMA MissedBeside ==
    ASSUME NEW path, NEW from, NEW line, NEW moved, NEW own, OnlyBeside(own, line)
    PROVE  OnlyBeside(Missed(from, path, line, Audit, moved, own), line)
BY RuleBeside DEF Missed

LEMMA DestinationBeside ==
    ASSUME NEW path \in DOMAIN Entries, NEW link, NEW file, NEW moved,
           BodyLevel("body.links", path, Plainly) = "off", BodyLevel("body.anchors", path, Plainly) = "off"
    PROVE  OnlyBeside(check_body_destination(link, path, file, Audit, moved), link.line)
<1> DEFINE reading == classify_body(TargetOf(link.written), path)
           L == BodyFinding("body.links", path, link.line, Audit)
           I == AtLevel(LevelOf("imports.absent", "warn", path, Audit), "imports.absent", "", link.line)
           A(p) == AnchorFindings(link, p, path, file, Audit)
           M == Missed(MovedFrom(reading), path, link.line, Audit, moved, L)
<1>1. OnlyBeside(L, link.line)
  BY OffHeard DEF OnlyBeside
<1>2. \A p : OnlyBeside(A(p), link.line)
  BY OffHeard DEF OnlyBeside, AnchorFindings
<1>3. OnlyBeside(I, link.line)
  BY RuleBeside
<1>4. OnlyBeside(M, link.line)
  BY <1>1, MissedBeside
<1>5. OnlyBeside({}, link.line)
  BY DEF OnlyBeside
<1>6. \/ check_body_destination(link, path, file, Audit, moved) \in {{}, L, I, M}
      \/ \E p : check_body_destination(link, path, file, Audit, moved) = A(p)
  BY DEF check_body_destination
<1> HIDE DEF L, I, A, M
<1> QED
  BY <1>1, <1>2, <1>3, <1>4, <1>5, <1>6

\* The three parts of check_body: what is at a line of the body, and the mentions.
LinesOf(body) == {k \in scan_links(body) : ~k.isReference} \cup scan_definitions(body)
Suspects(path, body) == {j \in suspects(body) : classify_body(body[j].written, path).is # "notARef"}
DestinationsOf(path, file, how, moved) ==
    UNION {check_body_destination(l, path, file, how, moved) : l \in LinesOf(file.body)}
NoLinkAt(path, lines, how) == UNION {BodyFinding("body.links", path, i, how) : i \in lines}
Links(path, file, how, moved) ==
    DestinationsOf(path, file, how, moved)
    \cup NoLinkAt(path, Duplicates(file.body), how)
    \cup NoLinkAt(path, Suspects(path, file.body), how)
Mentioned(path, file) ==
    mentions(file.body, CollectionOf(path).inlineCode, CollectionOf(path).fencedCode)
MissingMentions(path, file) == {j \in Mentioned(path, file) : mention_missing(file.body[j].written, path)}
MentionAt(path, file, i, how, moved) ==
    Missed(MovedFrom(Reads(file.body[i].written, path, "mention")), path, i, how, moved,
           BodyFinding("body.mentions", path, i, how))

LEMMA LinksTold ==
    ASSUME NEW path \in DOMAIN Entries, NEW file, NEW moved, NEW X
    PROVE  Told(Links(path, file, Plainly, moved), Links(path, file, Strictly, moved),
                Links(path, file, Audit, moved), X)
<1>1. Told(DestinationsOf(path, file, Plainly, moved), DestinationsOf(path, file, Strictly, moved),
           DestinationsOf(path, file, Audit, moved), X)
  <2> DEFINE D(l, how) == check_body_destination(l, path, file, how, moved)
  <2>1. \A l : Told(D(l, Plainly), D(l, Strictly), D(l, Audit), X)
    BY DestinationTold
  <2>2. \A how : DestinationsOf(path, file, how, moved) = UNION {D(l, how) : l \in LinesOf(file.body)}
    BY DEF DestinationsOf
  <2> HIDE DEF D
  <2> QED
    BY <2>1, <2>2 DEF Told
<1>2. ASSUME NEW lines
      PROVE  Told(NoLinkAt(path, lines, Plainly), NoLinkAt(path, lines, Strictly), NoLinkAt(path, lines, Audit), X)
  <2>1. \A i : Told(BodyFinding("body.links", path, i, Plainly), BodyFinding("body.links", path, i, Strictly),
                    BodyFinding("body.links", path, i, Audit), X)
    BY BodyTold
  <2> QED
    BY <2>1 DEF Told, NoLinkAt
<1> QED
  BY <1>1, <1>2, BothTold DEF Links

LEMMA LineInBody ==
    ASSUME NEW body
    PROVE  /\ \A l \in LinesOf(body) : l.line \in DOMAIN body
           /\ Duplicates(body) \cup suspects(body) \subseteq DOMAIN body
           /\ \A inline, fenced : mentions(body, inline, fenced) \subseteq DOMAIN body
<1>1. \A is : Lines(body, is) \subseteq DOMAIN body
  BY DEF Lines
<1>2. \A l \in LinesOf(body) : l.line \in DOMAIN body
  <2>1. \A w, i, b : Link(w, i, b).line = i
    BY DEF Link
  <2>2. Checked(body) \cup UsesDefined(body) \cup Active(body) \subseteq DOMAIN body
    BY <1>1 DEF Checked, UsesDefined, Active
  <2>3. \A l \in LinesOf(body) : \E i \in DOMAIN body : \E w, b : l = Link(w, i, b)
    BY <2>2 DEF LinesOf, scan_links, scan_definitions
  <2> QED
    BY <2>1, <2>3
<1> QED
  BY <1>1, <1>2 DEF Duplicates, suspects, mentions

LEMMA MentionsTold ==
    ASSUME NEW path \in DOMAIN Entries, NEW file, NEW moved, NEW X,
           BodyLevel("body.mentions", path, Plainly) = "off" => Mentioned(path, file) \subseteq X
    PROVE  Told(MentionFindings(path, file, Plainly, moved), MentionFindings(path, file, Strictly, moved),
                MentionFindings(path, file, Audit, moved), X)
<1> DEFINE off == BodyLevel("body.mentions", path, Plainly) = "off"
           missing == MissingMentions(path, file)
           M(i, how) == MentionAt(path, file, i, how, moved)
           All(how) == UNION {M(i, how) : i \in missing}
<1>1. /\ MentionFindings(path, file, Plainly, moved) = IF off THEN {} ELSE All(Plainly)
      /\ MentionFindings(path, file, Strictly, moved) = IF off THEN {} ELSE All(Strictly)
      /\ MentionFindings(path, file, Audit, moved) = All(Audit)
  BY SameOff DEF MentionFindings, MentionAt, MissingMentions, Mentioned
<1>2. \A i : Told(M(i, Plainly), M(i, Strictly), M(i, Audit), X)
  BY BodyTold, MissedTold DEF MentionAt
<1>3. off => \A i : OnlyBeside(M(i, Audit), i)
  <2> SUFFICES ASSUME off, NEW i PROVE OnlyBeside(M(i, Audit), i)
    OBVIOUS
  <2>1. OnlyBeside(BodyFinding("body.mentions", path, i, Audit), i)
    BY OffHeard DEF OnlyBeside
  <2> QED
    BY <2>1, MissedBeside DEF MentionAt
<1>4. missing \subseteq Mentioned(path, file)
  BY DEF MissingMentions
<1> HIDE DEF M, missing
<1>5. CASE ~off
  <2>1. Told(All(Plainly), All(Strictly), All(Audit), X)
    BY <1>2 DEF Told
  <2> QED
    BY <1>1, <1>5, <2>1
<1>6. CASE off
  <2>1. Told({}, {}, All(Audit), X)
    BY <1>3, <1>4, <1>6 DEF Told, OnlyBeside
  <2> QED
    BY <1>1, <1>6, <2>1
<1> QED
  BY <1>5, <1>6

\* PassedOver, of a file.
PassedIn(path, file) ==
    LET off == {rule \in BodyRules : BodyLevel(rule, path, Plainly) = "off"}
    IN  IF off = BodyRules THEN DOMAIN file.body
        ELSE IF "body.mentions" \in off THEN Mentioned(path, file) ELSE {}

LEMMA CheckBodyTold ==
    ASSUME NEW path \in DOMAIN Entries, NEW file, NEW moved
    PROVE  Told(check_body(path, file, Plainly, moved), check_body(path, file, Strictly, moved),
                check_body(path, file, Audit, moved), PassedIn(path, file))
<1> DEFINE off == \A rule \in BodyRules : BodyLevel(rule, path, Plainly) = "off"
           L(how) == Links(path, file, how, moved)
           M(how) == MentionFindings(path, file, how, moved)
           X == PassedIn(path, file)
<1>1. /\ check_body(path, file, Plainly, moved) = IF off THEN {} ELSE L(Plainly) \cup M(Plainly)
      /\ check_body(path, file, Strictly, moved) = IF off THEN {} ELSE L(Strictly) \cup M(Strictly)
      /\ check_body(path, file, Audit, moved) = L(Audit) \cup M(Audit)
  <2>1. ASSUME NEW how
        PROVE  check_body(path, file, how, moved)
                 = IF \A rule \in BodyRules : BodyLevel(rule, path, how) = "off" THEN {} ELSE L(how) \cup M(how)
    <3> DEFINE D == UNION {check_body_destination(l, path, file, how, moved) :
                             l \in {k \in scan_links(file.body) : ~k.isReference} \cup scan_definitions(file.body)}
               N == UNION {BodyFinding("body.links", path, i, how) : i \in Duplicates(file.body)}
               S == UNION {BodyFinding("body.links", path, i, how) :
                             i \in {j \in suspects(file.body) : classify_body(file.body[j].written, path).is # "notARef"}}
    <3>1. D = DestinationsOf(path, file, how, moved)
      BY DEF DestinationsOf, LinesOf
    <3>2. N = NoLinkAt(path, Duplicates(file.body), how)
      BY DEF NoLinkAt
    <3>3. S = NoLinkAt(path, Suspects(path, file.body), how)
      BY DEF NoLinkAt, Suspects
    <3>4. check_body(path, file, how, moved)
            = IF \A rule \in {"body.links", "body.anchors", "body.mentions"} : BodyLevel(rule, path, how) = "off"
              THEN {} ELSE D \cup N \cup S \cup M(how)
      BY DEF check_body
    <3> HIDE DEF D, N, S, M
    <3> QED
      BY <3>1, <3>2, <3>3, <3>4 DEF Links, BodyRules
  <2> QED
    BY <2>1, SameOff DEF BodyRules
<1>2. Told(L(Plainly), L(Strictly), L(Audit), X)
  BY LinksTold
<1>3. BodyLevel("body.mentions", path, Plainly) = "off" => Mentioned(path, file) \subseteq X
  BY LineInBody DEF PassedIn, Mentioned, BodyRules
<1>4. Told(M(Plainly), M(Strictly), M(Audit), X)
  BY <1>3, MentionsTold
<1>5. CASE ~off
  BY <1>1, <1>2, <1>4, <1>5, BothTold
<1>6. CASE off
  <2>1. X = DOMAIN file.body
    BY <1>6 DEF PassedIn
  <2>2. \A f \in L(Audit) : f.level = "info" \/ (f.rule \in {"refs.moved", "imports.absent"} /\ f.at \in X)
    <3>1. BodyLevel("body.links", path, Plainly) = "off" /\ BodyLevel("body.anchors", path, Plainly) = "off"
      BY <1>6 DEF BodyRules
    <3>2. \A l : OnlyBeside(check_body_destination(l, path, file, Audit, moved), l.line)
      BY <3>1, DestinationBeside
    <3>3. \A i : \A f \in BodyFinding("body.links", path, i, Audit) : f.level = "info"
      BY <3>1, OffHeard
    <3>4. \A l \in LinesOf(file.body) : l.line \in X
      BY <2>1, LineInBody
    <3> HIDE DEF X
    <3> QED
      BY <3>2, <3>3, <3>4 DEF Links, DestinationsOf, NoLinkAt, OnlyBeside
  <2>3. Told({}, {}, M(Audit), X)
    <3>1. M(Plainly) = {} /\ M(Strictly) = {}
      BY <1>6, SameOff DEF MentionFindings, BodyRules
    <3> QED
      BY <3>1, <1>4
  <2>4. Told({}, {}, L(Audit) \cup M(Audit), X)
    BY <2>2, <2>3 DEF Told
  <2> QED
    BY <1>1, <1>6, <2>4
<1> QED
  BY <1>5, <1>6

LEMMA BlockTold ==
    ASSUME NEW path \in DOMAIN Entries, NEW file, NEW X
    PROVE  Told(Block(path, file, Plainly), Block(path, file, Strictly), Block(path, file, Audit), X)
<1> DEFINE schema == SchemaOf(path)
           fields == ReadFields(file, schema)
           level(how) == LevelOf("frontmatter.unknown", "warn", path, how)
           wrong(i) == \/ ~fits(Declared(schema, fields[i].name).kind, fields[i].value)
                       \/ /\ Declared(schema, fields[i].name).kind = "enum"
                          /\ ~Contains(Declared(schema, fields[i].name).values, enum_text(fields[i].value))
           Of(i, how) == IF ~Declares(schema, fields[i].name)
                         THEN AtLevel(level(how), "frontmatter.unknown", fields[i].name, 0)
                         ELSE IF wrong(i) THEN {TypesError(fields[i].name)} ELSE {}
           required == {TypesError(field.name) :
                          field \in {f \in ToSet(schema.fields) : f.required /\ ~HasField(fields, f.name)}}
           All(how) == UNION {Of(i, how) : i \in DOMAIN fields}
           P == {Finding("error", "frontmatter.parse", "")}
<1>1. \A how : Block(path, file, how) = IF ~Readable(file) THEN P ELSE required \cup All(how)
  <2> SUFFICES ASSUME NEW how PROVE Block(path, file, how) = IF ~Readable(file) THEN P ELSE required \cup All(how)
    OBVIOUS
  <2> DEFINE asked == [global |-> Global, collection |-> CollectionOf(path).levels,
                       strict |-> how.strict, audit |-> how.audit]
  <2>1. effective_level("warn", "frontmatter.unknown", asked.global, asked.collection, asked.strict, asked.audit)
          = level(how)
    BY DEF LevelOf
  <2>2. Block(path, file, how) = check_document(file, schema, asked)
    BY DEF Block
  <2> HIDE DEF asked, level
  <2> QED
    BY <2>1, <2>2, Zenon DEF check_document
<1>2. Told(P, P, P, X)
  BY ErrorTold
<1>3. Told(required, required, required, X)
  <2>1. \A f \in required : f.level = "error"
    BY DEF TypesError, Finding
  <2> QED
    BY <2>1, FixedTold
<1>4. \A i : Told(Of(i, Plainly), Of(i, Strictly), Of(i, Audit), X)
  BY RuleTold, ErrorTold, NothingTold DEF TypesError, Levels
<1> HIDE DEF fields, required, Of, P
<1>5. Told(All(Plainly), All(Strictly), All(Audit), X)
  BY <1>4 DEF Told
<1> HIDE DEF All
<1>6. Told(required \cup All(Plainly), required \cup All(Strictly), required \cup All(Audit), X)
  BY <1>3, <1>5, BothTold
<1> QED
  BY <1>1, <1>2, <1>6

LEMMA EntryTold ==
    ASSUME NEW path \in DOMAIN Entries, NEW file, NEW moved
    PROVE  Told(check_entry(path, file, Plainly, moved), check_entry(path, file, Strictly, moved),
                check_entry(path, file, Audit, moved), PassedIn(path, file))
<1> DEFINE X == PassedIn(path, file)
           B(how) == Block(path, file, how)
           K == duplicate_key(path)
           S(how) == name_state_finding(path, how)
           R(how) == check_refs(path, file, how, moved)
           D(how) == check_body(path, file, how, moved)
           readable == Readable(file)
           C(how) == IF readable THEN R(how) \cup D(how) ELSE {}
<1>1. \A how : check_entry(path, file, how, moved) = ((B(how) \cup K) \cup S(how)) \cup C(how)
  BY DEF check_entry
<1>2. Told(B(Plainly), B(Strictly), B(Audit), X)
  BY BlockTold
<1>3. Told(K, K, K, X)
  BY ErrorTold, NothingTold DEF duplicate_key
<1>4. Told(S(Plainly), S(Strictly), S(Audit), X)
  BY RuleTold, NothingTold DEF name_state_finding, Levels
<1>5. /\ Told(R(Plainly), R(Strictly), R(Audit), X)
      /\ Told(D(Plainly), D(Strictly), D(Audit), X)
  BY RefsTold, CheckBodyTold
<1> HIDE DEF X, B, K, S, R, D, readable
<1>6. Told(C(Plainly), C(Strictly), C(Audit), X)
  BY <1>5, BothTold, NothingTold
<1>7. Told(B(Plainly) \cup K, B(Strictly) \cup K, B(Audit) \cup K, X)
  BY <1>2, <1>3, BothTold
<1> DEFINE E(how) == (B(how) \cup K) \cup S(how)
<1>8. Told(E(Plainly), E(Strictly), E(Audit), X)
  BY <1>4, <1>7, BothTold
<1> HIDE DEF C, E
<1>9. Told(E(Plainly) \cup C(Plainly), E(Strictly) \cup C(Strictly), E(Audit) \cup C(Audit), X)
  BY <1>6, <1>8, BothTold
<1>10. \A how : check_entry(path, file, how, moved) = E(how) \cup C(how)
  BY <1>1 DEF E
<1> QED
  BY <1>9, <1>10 DEF X

-----------------------------------------------------------------------------
(* A whole report: the cycles, the documents, and what is beside them.     *)

MovedNames == moved_from(TextsWith(NoCandidate, Absent))
Cycles == acyclic_findings(TextsWith(NoCandidate, Absent), NoCandidate)
Evaluated(scope, how) == InNamespaces(scope) \ Unblocked(scope, how)
NoCollections ==
    IF CollectionNames = {} THEN About(<<".typdoc">>, {Finding("warn", "collections.empty", "")}) ELSE {}
Aside(scope, how) ==
    SchemaFindings \cup shadowed_names_findings(how) \cup state_findings(scope) \cup BesideFindings(scope, how)
    \cup NoCollections

LEMMA WholeIs ==
    ASSUME NEW scope, NEW how
    PROVE  /\ whole(scope, how).documents = Evaluated(scope, how)
           /\ whole(scope, how).findings = Cycles \cup CheckedAll(Evaluated(scope, how), how, MovedNames) \cup Aside(scope, how)
<1>1. /\ whole(scope, how).documents = Evaluated(scope, how)
      /\ whole(scope, how).findings
           = SchemaFindings \cup shadowed_names_findings(how) \cup Cycles
             \cup CheckedAll(Evaluated(scope, how), how, MovedNames)
             \cup state_findings(scope) \cup BesideFindings(scope, how) \cup NoCollections
  BY DEF whole, Evaluated, Cycles, MovedNames, NoCollections
<1> QED
  BY <1>1 DEF Aside

LEMMA CycleLevel == \A f \in Cycles : f = <<f[1], f[2]>> /\ f[2].level = "error"
<1>1. \A f \in Cycles : \E p, field : f = <<p, Finding("error", "refs.acyclic", field)>>
  BY DEF Cycles, acyclic_findings
<1> QED
  BY <1>1 DEF Finding

\* Each finding that is not of a document nor of a cycle, by what it is about.
StateFindings(level, rule, pairs) == {<<StateFile(pair), Finding(level, rule, "")>> : pair \in pairs}
Missing_(scope) == {pair \in CodedPairs(scope) \ Malformed : In(pair) # {} /\ last[pair] = {}}
Behind(scope) == {pair \in CodedPairs(scope) \ Malformed : \E n \in last[pair], top \in NumbersIn(pair) : n < top}
Retired_(scope) == {pair \in Retired : pair[1] \in scope}

LEMMA StateIs ==
    ASSUME NEW scope
    PROVE  state_findings(scope)
             = StateFindings("error", "state.missing", Missing_(scope))
               \cup StateFindings("error", "state.malformed", CodedPairs(scope) \cap Malformed)
               \cup StateFindings("warn", "state.behind", Behind(scope))
               \cup StateFindings("warn", "state.retired", Retired_(scope))
BY DEF state_findings, StateFindings, Missing_, Behind, Retired_

LEMMA StateApart ==
    ASSUME NEW scope \in SUBSET Namespaces, NEW f \in state_findings(scope)
    PROVE  f = <<f[1], f[2]>> /\ f[1] \in Elsewhere
<1> DEFINE pairs == (Namespaces \X CollectionNames) \cup Retired
<1>1. CodedPairs(scope) \cup Retired_(scope) \subseteq pairs
  BY DEF CodedPairs, Retired_
<1>2. Missing_(scope) \cup (CodedPairs(scope) \cap Malformed) \cup Behind(scope) \cup Retired_(scope) \subseteq pairs
  BY <1>1 DEF Missing_, Behind
<1>3. ASSUME NEW level, NEW rule, NEW some \in SUBSET pairs
      PROVE  \A g \in StateFindings(level, rule, some) : g = <<g[1], g[2]>> /\ g[1] \in {StateFile(pair) : pair \in pairs}
  <2>1. \A g \in StateFindings(level, rule, some) : \E pair \in pairs : g = <<StateFile(pair), Finding(level, rule, "")>>
    BY <1>3 DEF StateFindings
  <2> HIDE DEF pairs
  <2> SUFFICES ASSUME NEW g \in StateFindings(level, rule, some)
               PROVE  g = <<g[1], g[2]>> /\ g[1] \in {StateFile(pair) : pair \in pairs}
    OBVIOUS
  <2>2. PICK pair \in pairs : g = <<StateFile(pair), Finding(level, rule, "")>>
    BY <2>1
  <2> DEFINE path == StateFile(pair)
             finding == Finding(level, rule, "")
  <2>3. path \in {StateFile(q) : q \in pairs}
    OBVIOUS
  <2> HIDE DEF path, finding
  <2> QED
    BY <2>2, <2>3 DEF path, finding
<1>4. f = <<f[1], f[2]>> /\ f[1] \in {StateFile(pair) : pair \in pairs}
  BY <1>2, <1>3, StateIs
<1> QED
  BY <1>4 DEF Elsewhere

LEMMA BesideApart ==
    ASSUME NEW scope, NEW how, NEW f \in BesideFindings(scope, how)
    PROVE  f = <<f[1], f[2]>> /\ f[1] \in Elsewhere
<1> DEFINE P == DOMAIN Overlaps \cup DOMAIN NotRead \cup Skipped \cup Stray
           level == GlobalLevel("filename.pattern", "error", how)
           stray == AtLevel(level, "filename.pattern", "", 0)
           S == {p \in Stray : Loose[p].ns \in scope} \X stray
<1>1. BesideFindings(scope, how)
        = OverlapFindings({p \in DOMAIN Overlaps : Overlaps[p].ns \in scope})
          \cup {<<p, NotRead[p].finding>> : p \in {q \in DOMAIN NotRead : NotRead[q].ns \in scope}}
          \cup {<<p, Finding("error", "files.unreadable", "")>> : p \in Skipped} \cup S
  BY DEF BesideFindings
<1>2. \A g \in S : \E p \in P : \E h : g = <<p, h>>
  <2> HIDE DEF stray
  <2> QED
    OBVIOUS
<1> HIDE DEF S
<1>3. \E p \in P : \E h : f = <<p, h>>
  BY <1>1, <1>2 DEF OverlapFindings
<1>4. P \subseteq Elsewhere
  BY DEF Elsewhere
<1> HIDE DEF P
<1> QED
  BY <1>3, <1>4

LEMMA AsideApart ==
    ASSUME NEW scope \in SUBSET Namespaces, NEW how, NEW f \in Aside(scope, how)
    PROVE  f = <<f[1], f[2]>> /\ f[1] \notin DOMAIN Entries
<1>1. CASE f \in SchemaFindings
  BY <1>1, PairAssumption, ApartAssumption DEF Elsewhere
<1>2. CASE f \in shadowed_names_findings(how) \cup NoCollections
  <2>1. \A path, findings : \A g \in About(path, findings) : g = <<g[1], g[2]>> /\ g[1] = path
    BY DEF About
  <2>2. f = <<f[1], f[2]>> /\ f[1] \in {<<"config">>, <<".typdoc">>}
    BY <1>2, <2>1 DEF shadowed_names_findings, NoCollections
  <2> QED
    BY <2>2, ApartAssumption DEF Elsewhere
<1>3. CASE f \in state_findings(scope)
  BY <1>3, StateApart, ApartAssumption
<1>4. CASE f \in BesideFindings(scope, how)
  BY <1>4, BesideApart, ApartAssumption
<1> QED
  BY <1>1, <1>2, <1>3, <1>4 DEF Aside

LEMMA AsideGrows ==
    ASSUME NEW scope, NEW wider, scope \subseteq wider, NEW how
    PROVE  Aside(scope, how) \subseteq Aside(wider, how)
<1>1. CodedPairs(scope) \subseteq CodedPairs(wider)
  BY DEF CodedPairs
<1>2. /\ Missing_(scope) \subseteq Missing_(wider)
      /\ Behind(scope) \subseteq Behind(wider)
      /\ Retired_(scope) \subseteq Retired_(wider)
      /\ CodedPairs(scope) \cap Malformed \subseteq CodedPairs(wider) \cap Malformed
  BY <1>1 DEF Missing_, Behind, Retired_
<1>3. \A level, rule, a, b : a \subseteq b => StateFindings(level, rule, a) \subseteq StateFindings(level, rule, b)
  BY DEF StateFindings
<1>4. state_findings(scope) \subseteq state_findings(wider)
  BY <1>2, <1>3, StateIs
<1>5. BesideFindings(scope, how) \subseteq BesideFindings(wider, how)
  BY DEF BesideFindings, OverlapFindings
<1> QED
  BY <1>4, <1>5 DEF Aside

\* Findings as pairs, asked plainly and strictly: only warnings change.
OnlyRaised(plain, strict) ==
    /\ \A f \in plain : \E g \in Raised(f[2]) : <<f[1], g>> \in strict
    /\ \A f \in strict : \E g \in plain : f[1] = g[1] /\ f[2] \in Raised(g[2])

LEMMA SameRaised ==
    ASSUME NEW findings, \A f \in findings : f = <<f[1], f[2]>>
    PROVE  OnlyRaised(findings, findings)
BY DEF OnlyRaised, Raised

LEMMA BothRaised ==
    ASSUME NEW A, NEW B, NEW A2, NEW B2, OnlyRaised(A, B), OnlyRaised(A2, B2)
    PROVE  OnlyRaised(A \cup A2, B \cup B2)
BY DEF OnlyRaised

LEMMA AboutRaised ==
    ASSUME NEW path, NEW plain, NEW strict, NEW audit, NEW X, Told(plain, strict, audit, X)
    PROVE  OnlyRaised(About(path, plain), About(path, strict))
<1>1. \A findings, f : f \in About(path, findings) <=> \E g \in findings : f = <<path, g>>
  BY DEF About
<1>2. ASSUME NEW f \in About(path, plain)
      PROVE  \E g \in Raised(f[2]) : <<f[1], g>> \in About(path, strict)
  <2>1. PICK h \in plain : f = <<path, h>>
    BY <1>1
  <2>2. PICK g \in strict : g \in Raised(h)
    BY DEF Told
  <2>3. f[1] = path /\ f[2] = h
    BY <2>1
  <2> QED
    BY <1>1, <2>2, <2>3
<1>3. ASSUME NEW f \in About(path, strict)
      PROVE  \E g \in About(path, plain) : f[1] = g[1] /\ f[2] \in Raised(g[2])
  <2>1. PICK h \in strict : f = <<path, h>>
    BY <1>1
  <2>2. PICK g \in plain : h \in Raised(g)
    BY DEF Told
  <2>3. <<path, g>> \in About(path, plain) /\ <<path, g>>[1] = f[1] /\ <<path, g>>[2] = g /\ f[2] = h
    BY <1>1, <2>1
  <2> QED
    BY <2>2, <2>3
<1> QED
  BY <1>2, <1>3 DEF OnlyRaised

LEMMA GlobalTold ==
    ASSUME NEW rule, NEW default \in Levels, NEW X
    PROVE  \E audit : Told(AtLevel(GlobalLevel(rule, default, Plainly), rule, "", 0),
                           AtLevel(GlobalLevel(rule, default, Strictly), rule, "", 0), audit, X)
<1> DEFINE l == GlobalLevel(rule, default, Plainly)
<1>1. l \in Levels /\ GlobalLevel(rule, default, Strictly) = Strict(l)
  BY GlobalFacts
<1> HIDE DEF l
<1>2. Told(AtLevel(l, rule, "", 0), AtLevel(Strict(l), rule, "", 0), AtLevel(Heard(l), rule, "", 0), X)
  BY <1>1, AtLevelTold
<1> QED
  BY <1>1, <1>2 DEF l

LEMMA AsideRaised == OnlyRaised(Aside(Namespaces, Plainly), Aside(Namespaces, Strictly))
<1> DEFINE H(how) == shadowed_names_findings(how)
           B(how) == BesideFindings(Namespaces, how)
           rest == SchemaFindings \cup state_findings(Namespaces) \cup NoCollections
<1>1. OnlyRaised(H(Plainly), H(Strictly))
  <2> DEFINE A(how) == AtLevel(GlobalLevel("names.shadowed", "warn", how), "names.shadowed", "", 0)
  <2>1. OnlyRaised(About(<<"config">>, A(Plainly)), About(<<"config">>, A(Strictly)))
    BY GlobalTold, AboutRaised DEF Levels
  <2>2. OnlyRaised({}, {})
    BY DEF OnlyRaised
  <2> QED
    BY <2>1, <2>2 DEF shadowed_names_findings
<1>2. OnlyRaised(B(Plainly), B(Strictly))
  <2> DEFINE A(how) == AtLevel(GlobalLevel("filename.pattern", "error", how), "filename.pattern", "", 0)
             paths == {p \in Stray : Loose[p].ns \in Namespaces}
             S(how) == paths \X A(how)
             other == OverlapFindings({p \in DOMAIN Overlaps : Overlaps[p].ns \in Namespaces})
                      \cup {<<p, NotRead[p].finding>> : p \in {q \in DOMAIN NotRead : NotRead[q].ns \in Namespaces}}
                      \cup {<<p, Finding("error", "files.unreadable", "")>> : p \in Skipped}
  <2>1. \A how : B(how) = other \cup S(how)
    BY DEF BesideFindings
  <2>2. PICK audit : Told(A(Plainly), A(Strictly), audit, {})
    BY GlobalTold DEF Levels
  <2>3. OnlyRaised(other, other)
    <3>1. other \subseteq B(Plainly)
      BY <2>1
    <3> HIDE DEF other
    <3>2. \A f \in other : f = <<f[1], f[2]>>
      BY <3>1, BesideApart
    <3> QED
      BY <3>2, SameRaised
  <2> HIDE DEF A, paths, other
  <2> DEFINE C(p, how) == About(p, A(how))
  <2>4. \A p : OnlyRaised(C(p, Plainly), C(p, Strictly))
    BY <2>2, AboutRaised
  <2>5. \A how : S(how) = UNION {C(p, how) : p \in paths}
    BY DEF About
  <2> HIDE DEF C, S
  <2>6. OnlyRaised(S(Plainly), S(Strictly))
    BY <2>4, <2>5 DEF OnlyRaised
  <2> QED
    BY <2>1, <2>3, <2>6, BothRaised
<1>3. OnlyRaised(rest, rest)
  <2>1. \A f \in rest : f \in Aside(Namespaces, Plainly)
    BY DEF Aside
  <2> QED
    BY <2>1, AsideApart, SameRaised
<1>4. \A how : Aside(Namespaces, how) = (rest \cup H(how)) \cup B(how)
  BY DEF Aside
<1> HIDE DEF rest, H, B
<1>5. OnlyRaised(rest \cup H(Plainly), rest \cup H(Strictly))
  BY <1>1, <1>3, BothRaised
<1> QED
  BY <1>2, <1>4, <1>5, BothRaised

LEMMA CheckedRaised ==
    ASSUME NEW paths \in SUBSET Documents
    PROVE  OnlyRaised(CheckedAll(paths, Plainly, MovedNames), CheckedAll(paths, Strictly, MovedNames))
<1> DEFINE C(p, how) == About(p, check_entry(p, disk[p], how, MovedNames))
<1>1. \A p \in paths : p \in DOMAIN Entries
  BY DEF Documents
<1>2. \A p \in paths : OnlyRaised(C(p, Plainly), C(p, Strictly))
  BY <1>1, EntryTold, AboutRaised
<1>3. \A how : CheckedAll(paths, how, MovedNames) = UNION {C(p, how) : p \in paths}
  BY DEF CheckedAll
<1> HIDE DEF C
<1> QED
  BY <1>2, <1>3 DEF OnlyRaised

-----------------------------------------------------------------------------
(* What a report says of one document.                                     *)

LEMMA OfPathChecked ==
    ASSUME NEW path, NEW paths, NEW how
    PROVE  OfPath(path, CheckedAll(paths, how, MovedNames))
             = IF path \in paths THEN check_entry(path, disk[path], how, MovedNames) ELSE {}
<1> DEFINE C(p) == check_entry(p, disk[p], how, MovedNames)
<1>1. \A f : f \in CheckedAll(paths, how, MovedNames) <=> \E p \in paths : \E g \in C(p) : f = <<p, g>>
  BY DEF CheckedAll, About
<1> HIDE DEF C
<1>2. \A g : g \in OfPath(path, CheckedAll(paths, how, MovedNames)) <=> path \in paths /\ g \in C(path)
  <2>1. ASSUME NEW g, g \in OfPath(path, CheckedAll(paths, how, MovedNames))
        PROVE  path \in paths /\ g \in C(path)
    <3>1. PICK f \in CheckedAll(paths, how, MovedNames) : f[1] = path /\ g = f[2]
      BY <2>1 DEF OfPath
    <3> QED
      BY <1>1, <3>1
  <2>2. ASSUME NEW g, path \in paths, g \in C(path)
        PROVE  g \in OfPath(path, CheckedAll(paths, how, MovedNames))
    <3>1. <<path, g>> \in CheckedAll(paths, how, MovedNames)
      BY <1>1, <2>2
    <3> QED
      BY <3>1 DEF OfPath
  <2> QED
    BY <2>1, <2>2
<1> QED
  BY <1>2 DEF C

LEMMA OfPathWhole ==
    ASSUME NEW path \in Documents, NEW scope \in SUBSET Namespaces, NEW how
    PROVE  OfPath(path, whole(scope, how).findings)
             = OfPath(path, Cycles)
               \cup (IF path \in Evaluated(scope, how) THEN check_entry(path, disk[path], how, MovedNames) ELSE {})
<1>1. OfPath(path, Aside(scope, how)) = {}
  BY AsideApart DEF OfPath, Documents
<1> DEFINE C == CheckedAll(Evaluated(scope, how), how, MovedNames)
<1>2. whole(scope, how).findings = (Cycles \cup C) \cup Aside(scope, how)
  BY WholeIs
<1>3. OfPath(path, C) = IF path \in Evaluated(scope, how) THEN check_entry(path, disk[path], how, MovedNames) ELSE {}
  BY OfPathChecked
<1> HIDE DEF C
<1>4. OfPath(path, (Cycles \cup C) \cup Aside(scope, how)) = OfPath(path, Cycles \cup C) \cup OfPath(path, Aside(scope, how))
  BY DEF OfPath
<1>5. OfPath(path, Cycles \cup C) = OfPath(path, Cycles) \cup OfPath(path, C)
  BY DEF OfPath
<1>6. OfPath(path, whole(scope, how).findings) = OfPath(path, Cycles) \cup OfPath(path, C)
  BY <1>1, <1>2, <1>4, <1>5
<1> QED
  BY <1>3, <1>6

LEMMA OfPathNamed ==
    ASSUME NEW path \in Documents, NEW strict \in BOOLEAN
    PROVE  OfPath(path, named({path}, strict))
             = OfPath(path, Cycles) \cup check_entry(path, disk[path], [strict |-> strict, audit |-> FALSE], MovedNames)
<1> DEFINE how == [strict |-> strict, audit |-> FALSE]
           own == {f \in Cycles : f[1] \in {path}}
<1>1. path \in DOMAIN Entries /\ {path} \cap Documents = {path}
  BY DEF Documents
<1>2. OverlapFindings({path}) = {}
  <2>1. DOMAIN Overlaps \subseteq Elsewhere
    BY DEF Elsewhere
  <2> QED
    BY <1>1, <2>1, ApartAssumption DEF OverlapFindings
<1>3. named({path}, strict) = CheckedAll({path}, how, MovedNames) \cup own
  <2>1. named({path}, strict)
          = OverlapFindings({path}) \cup CheckedAll({path} \cap Documents, how, MovedNames)
            \cup {f \in Cycles : f[1] \in {path} \cap Documents}
    BY DEF named, MovedNames, Cycles
  <2> QED
    BY <1>1, <1>2, <2>1
<1>4. OfPath(path, own) = OfPath(path, Cycles)
  BY DEF OfPath
<1>5. OfPath(path, CheckedAll({path}, how, MovedNames)) = check_entry(path, disk[path], how, MovedNames)
  <2> HIDE DEF how
  <2> QED
    BY OfPathChecked
<1> HIDE DEF how, own
<1>6. OfPath(path, named({path}, strict)) = check_entry(path, disk[path], how, MovedNames) \cup OfPath(path, Cycles)
  <2>1. OfPath(path, CheckedAll({path}, how, MovedNames) \cup own)
          = OfPath(path, CheckedAll({path}, how, MovedNames)) \cup OfPath(path, own)
    BY DEF OfPath
  <2> QED
    BY <1>3, <1>4, <1>5, <2>1
<1> QED
  BY <1>6 DEF how

\* However the project is asked: of any documents on disk.
LEMMA AskedAlike == ScopesAgree
<1> DEFINE scopes == {Namespaces} \cup {{ns} : ns \in Namespaces}
           asked == (scopes \X {Plainly}) \cup {<<Namespaces, Strictly>>, <<Namespaces, Audit>>}
           says == [a \in asked |-> whole(a[1], a[2])]
           tells == [a \in Documents \X BOOLEAN |-> OfPath(a[1], named({a[1]}, a[2]))]
           all == whole(Namespaces, Plainly)
           strictly == whole(Namespaces, Strictly)
           audit == whole(Namespaces, Audit)
           entry(p, how) == check_entry(p, disk[p], how, MovedNames)
<1>1. \A p \in Documents : p \in DOMAIN Entries /\ Entries[p].ns \in Namespaces /\ p \in InNamespaces(Namespaces)
  BY IndexAssumption DEF Documents, InNamespaces
<1>2. \A scope : /\ Evaluated(scope, Plainly) = InNamespaces(scope)
                 /\ Evaluated(scope, Strictly) = InNamespaces(scope)
  BY DEF Evaluated, Unblocked, Plainly, Strictly
<1>3. \A scope \in scopes : scope \in SUBSET Namespaces
  OBVIOUS
<1>4. ASSUME NEW scope \in scopes
      PROVE  whole(scope, Plainly).findings \subseteq all.findings
  <2>1. InNamespaces(scope) \subseteq InNamespaces(Namespaces)
    BY <1>3 DEF InNamespaces
  <2>2. CheckedAll(InNamespaces(scope), Plainly, MovedNames) \subseteq CheckedAll(InNamespaces(Namespaces), Plainly, MovedNames)
    BY <2>1 DEF CheckedAll
  <2>3. Aside(scope, Plainly) \subseteq Aside(Namespaces, Plainly)
    BY <1>3, AsideGrows
  <2>4. \A s : whole(s, Plainly).findings = Cycles \cup CheckedAll(InNamespaces(s), Plainly, MovedNames) \cup Aside(s, Plainly)
    BY <1>2, WholeIs
  <2> QED
    BY <2>2, <2>3, <2>4
<1>5. ASSUME NEW p \in Documents
      PROVE  /\ OfPath(p, all.findings) = OfPath(p, Cycles) \cup entry(p, Plainly)
             /\ OfPath(p, strictly.findings) = OfPath(p, Cycles) \cup entry(p, Strictly)
             /\ OfPath(p, whole({Entries[p].ns}, Plainly).findings) = OfPath(p, Cycles) \cup entry(p, Plainly)
             /\ OfPath(p, named({p}, FALSE)) = OfPath(p, Cycles) \cup entry(p, Plainly)
             /\ OfPath(p, named({p}, TRUE)) = OfPath(p, Cycles) \cup entry(p, Strictly)
  <2>1. p \in InNamespaces({Entries[p].ns}) /\ {Entries[p].ns} \in SUBSET Namespaces
    BY <1>1 DEF InNamespaces
  <2>2. /\ OfPath(p, all.findings) = OfPath(p, Cycles) \cup entry(p, Plainly)
        /\ OfPath(p, strictly.findings) = OfPath(p, Cycles) \cup entry(p, Strictly)
    BY <1>1, <1>2, OfPathWhole
  <2>3. OfPath(p, whole({Entries[p].ns}, Plainly).findings) = OfPath(p, Cycles) \cup entry(p, Plainly)
    BY <1>2, <2>1, OfPathWhole
  <2>4. /\ OfPath(p, named({p}, FALSE)) = OfPath(p, Cycles) \cup entry(p, Plainly)
        /\ OfPath(p, named({p}, TRUE)) = OfPath(p, Cycles) \cup entry(p, Strictly)
    BY OfPathNamed DEF Plainly, Strictly
  <2> QED
    BY <2>2, <2>3, <2>4
<1>6. ASSUME NEW p \in Documents, p \in audit.documents
      PROVE  LET known == {f \in OfPath(p, audit.findings) : f.level # "info"}
             IN  /\ OfPath(p, all.findings) \subseteq known
                 /\ \A f \in known \ OfPath(p, all.findings) :
                      f.rule \in {"refs.moved", "imports.absent"} /\ f.at \in PassedOver(p)
  <2>1. p \in Evaluated(Namespaces, Audit)
    BY <1>6, WholeIs
  <2>2. OfPath(p, audit.findings) = OfPath(p, Cycles) \cup entry(p, Audit)
    BY <2>1, OfPathWhole
  <2>3. \A f \in OfPath(p, Cycles) : f.level # "info"
    BY CycleLevel DEF OfPath
  <2>4. PassedOver(p) = PassedIn(p, disk[p])
    BY DEF PassedOver, PassedIn, Mentioned
  <2>5. Told(entry(p, Plainly), entry(p, Strictly), entry(p, Audit), PassedOver(p))
    BY <1>1, <2>4, EntryTold
  <2> HIDE DEF all, audit, entry
  <2> QED
    BY <1>5, <2>2, <2>3, <2>5 DEF Told
<1>7. ASSUME NEW p \in Documents
      PROVE  p \in audit.documents <=> p \notin audit_report(Namespaces).noFrontmatter
  <2>1. audit_report(Namespaces).noFrontmatter = Unblocked(Namespaces, Audit)
    BY DEF audit_report
  <2>2. audit.documents = InNamespaces(Namespaces) \ Unblocked(Namespaces, Audit)
    BY WholeIs DEF Evaluated
  <2> HIDE DEF audit
  <2> QED
    BY <1>1, <2>1, <2>2
<1>8. OnlyRaised(all.findings, strictly.findings)
  <2> DEFINE C(how) == CheckedAll(InNamespaces(Namespaces), how, MovedNames)
             A(how) == Aside(Namespaces, how)
  <2>1. /\ all.findings = (Cycles \cup C(Plainly)) \cup A(Plainly)
        /\ strictly.findings = (Cycles \cup C(Strictly)) \cup A(Strictly)
    BY <1>2, WholeIs
  <2>2. OnlyRaised(Cycles, Cycles)
    BY CycleLevel, SameRaised
  <2>3. OnlyRaised(C(Plainly), C(Strictly))
    BY CheckedRaised DEF InNamespaces
  <2>4. OnlyRaised(A(Plainly), A(Strictly))
    BY AsideRaised
  <2> HIDE DEF C, A, all, strictly
  <2>5. OnlyRaised(Cycles \cup C(Plainly), Cycles \cup C(Strictly))
    BY <2>2, <2>3, BothRaised
  <2> QED
    BY <2>1, <2>4, <2>5, BothRaised
<1>9. /\ \A scope \in scopes : says[<<scope, Plainly>>] = whole(scope, Plainly)
      /\ says[<<Namespaces, Strictly>>] = strictly
      /\ says[<<Namespaces, Audit>>] = audit
      /\ Namespaces \in scopes
      /\ \A p \in Documents : {Entries[p].ns} \in scopes
  BY <1>1
<1>10. \A p \in Documents, strict \in BOOLEAN : tells[<<p, strict>>] = OfPath(p, named({p}, strict))
  OBVIOUS
<1> DEFINE Agree(s, t, a, st, au) ==
             /\ \A scope \in scopes : s[<<scope, Plainly>>].findings \subseteq a.findings
             /\ \A p \in Documents :
                  /\ t[<<p, FALSE>>] = OfPath(p, a.findings)
                  /\ t[<<p, TRUE>>] = OfPath(p, st.findings)
                  /\ OfPath(p, s[<<{Entries[p].ns}, Plainly>>].findings) = OfPath(p, a.findings)
                  /\ p \in au.documents <=> p \notin audit_report(Namespaces).noFrontmatter
                  /\ p \in au.documents =>
                       LET known == {f \in OfPath(p, au.findings) : f.level # "info"}
                       IN  /\ OfPath(p, a.findings) \subseteq known
                           /\ \A f \in known \ OfPath(p, a.findings) :
                                f.rule \in {"refs.moved", "imports.absent"} /\ f.at \in PassedOver(p)
             /\ \A f \in a.findings : \E g \in Raised(f[2]) : <<f[1], g>> \in st.findings
             /\ \A f \in st.findings : \E g \in a.findings : f[1] = g[1] /\ f[2] \in Raised(g[2])
<1>11. ScopesAgree
         <=> \A s \in {says}, t \in {tells} :
               Agree(s, t, s[<<Namespaces, Plainly>>], s[<<Namespaces, Strictly>>], s[<<Namespaces, Audit>>])
  BY DEF ScopesAgree
<1> HIDE DEF scopes, asked, says, tells, all, strictly, audit, entry
<1>12. ASSUME NEW p \in Documents
       PROVE  /\ tells[<<p, FALSE>>] = OfPath(p, all.findings)
              /\ tells[<<p, TRUE>>] = OfPath(p, strictly.findings)
              /\ OfPath(p, says[<<{Entries[p].ns}, Plainly>>].findings) = OfPath(p, all.findings)
  <2>1. /\ tells[<<p, FALSE>>] = OfPath(p, named({p}, FALSE))
        /\ tells[<<p, TRUE>>] = OfPath(p, named({p}, TRUE))
        /\ says[<<{Entries[p].ns}, Plainly>>] = whole({Entries[p].ns}, Plainly)
    BY <1>9, <1>10
  <2> QED
    BY <1>5, <2>1
<1>13. Agree(says, tells, all, strictly, audit)
  BY <1>4, <1>6, <1>7, <1>8, <1>9, <1>12 DEF OnlyRaised
<1>14. says[<<Namespaces, Plainly>>] = all
  BY <1>9 DEF all
<1> HIDE DEF Agree
<1> QED
  BY <1>9, <1>11, <1>13, <1>14

\* However validate is asked - all, one namespace, one document, strictly or by an audit - a
\* document is told the same, but for what the way of asking is for: at every state of a project
\* that people edit and set and new write.
THEOREM ScopesAlike == Spec => []ScopesAgree
BY AskedAlike, PTL

-----------------------------------------------------------------------------
(* The list of one condition: what its documents meet, its error and what  *)
(* dangles.                                                                *)

Candidates_ == Candidates(Namespaces, CollectionNames)
Met(condition, path) == Asked(condition, path, incoming_refs)
ErrorAt(condition, path) == IF Met(condition, path).holds THEN None ELSE Met(condition, path).error
ErrorsIn(condition) == {ErrorAt(condition, p) : p \in Candidates_} \ {None}
Dangles(condition, path) ==
    {[path |-> path, field |-> r.field, written |-> r.written] :
       r \in {q \in refs(path) : /\ ~q.other.found
                                 /\ IsRefCondition(condition) /\ condition.dir = "ref" /\ condition.field = q.field}}

LEMMA HoldingIs ==
    ASSUME NEW condition, NEW path
    PROVE  LET h == Holding(<<condition>>, path, incoming_refs)
           IN  /\ h.path = path
               /\ h.keep <=> Met(condition, path).holds
               /\ h.error = ErrorAt(condition, path)
               /\ h.dangling = Dangles(condition, path)
<1> DEFINE wheres == <<condition>>
           met == Met(condition, path)
           answers == {[at |-> i, says |-> Asked(wheres[i], path, incoming_refs)] : i \in DOMAIN wheres}
           ends == {a \in answers : ~a.says.holds}
           final == IF ends = {} THEN Len(wheres) ELSE Min({a.at : a \in ends})
           Tells(field) == \E i \in 1 .. final : IsRefCondition(wheres[i]) /\ wheres[i].dir = "ref" /\ wheres[i].field = field
           one == [at |-> 1, says |-> met]
<1>1. DOMAIN wheres = {1} /\ Len(wheres) = 1 /\ wheres[1] = condition
  OBVIOUS
<1> HIDE DEF wheres
<1>2. answers = {one}
  BY <1>1 DEF Met
<1>3. one.at = 1 /\ one.says = met
  OBVIOUS
<1> HIDE DEF answers, one, met
<1>4. (ends = {} <=> met.holds) /\ (~met.holds => ends = {one})
  BY <1>2, <1>3
<1>5. ASSUME ends = {one} PROVE {a.at : a \in ends} = {1}
  BY <1>3, <1>5
<1>6. final = 1
  <2>1. CASE ends = {}
    BY <2>1, <1>1
  <2>2. CASE ends # {}
    <3>1. {a.at : a \in ends} = {1}
      BY <2>2, <1>4, <1>5
    <3>2. Min({1}) = 1
      BY MinNat
    <3> QED
      BY <2>2, <3>1, <3>2
  <2> QED
    BY <2>1, <2>2
<1>7. ~met.holds => (CHOOSE a \in ends : a.at = final).says.error = met.error
  BY <1>3, <1>4, <1>6
<1> HIDE DEF final
<1>8. \A field : Tells(field) <=> IsRefCondition(condition) /\ condition.dir = "ref" /\ condition.field = field
  BY <1>1, <1>6
<1> HIDE DEF ends, Tells
<1> DEFINE h == Holding(wheres, path, incoming_refs)
<1>9. h = [path |-> path, keep |-> ends = {},
           error |-> IF ends = {} THEN None ELSE (CHOOSE a \in ends : a.at = final).says.error,
           dangling |-> {[path |-> path, field |-> r.field, written |-> r.written] :
                           r \in {q \in refs(path) : ~q.other.found /\ Tells(q.field)}}]
  BY DEF Holding, answers, ends, final, Tells
<1> HIDE DEF h
<1>10. /\ h.path = path
       /\ h.keep <=> ends = {}
       /\ h.error = IF ends = {} THEN None ELSE (CHOOSE a \in ends : a.at = final).says.error
       /\ h.dangling = {[path |-> path, field |-> r.field, written |-> r.written] :
                           r \in {q \in refs(path) : ~q.other.found /\ Tells(q.field)}}
  BY <1>9, Zenon
<1>11. h.error = ErrorAt(condition, path)
  BY <1>4, <1>7, <1>10 DEF ErrorAt, met
<1>12. h.dangling = Dangles(condition, path)
  BY <1>8, <1>10, Zenon DEF Dangles
<1> QED
  BY <1>4, <1>10, <1>11, <1>12 DEF h, wheres, met

InScopes(condition) == InScope(condition, CollectionNames)

LEMMA OnlyIs ==
    ASSUME NEW condition
    PROVE  LET only == Only(condition)
           IN  /\ ~InScopes(condition) => only = Refusal("UnknownField")
               /\ InScopes(condition) =>
                    /\ only.error = IF ErrorsIn(condition) = {} THEN None ELSE OneOf(ErrorsIn(condition))
                    /\ ErrorsIn(condition) = {} =>
                         /\ only.documents = {p \in Candidates_ : Met(condition, p).holds}
                         /\ only.dangling = UNION {Dangles(condition, p) : p \in Candidates_}
<1> DEFINE filter == Where(<<condition>>)
           H(p) == Holding(<<condition>>, p, incoming_refs)
           answered == {H(p) : p \in Candidates_}
           full == [error |-> None, documents |-> {a.path : a \in {b \in answered : b.keep}},
                    dangling |-> UNION {a.dangling : a \in answered}]
<1>1. /\ filter.collections = {} /\ filter.codes = {} /\ filter.wheres = <<condition>>
  BY DEF Where
<1>2. ~SelectionError(filter) /\ select_collections(filter) = CollectionNames
  BY <1>1 DEF SelectionError, select_collections
<1>3. (\E i \in DOMAIN <<condition>> : ~InScope((<<condition>>)[i], CollectionNames)) <=> ~InScopes(condition)
  BY DEF InScopes
<1> HIDE DEF filter, H
<1>4. Only(condition) = IF ~InScopes(condition) THEN Refusal("UnknownField")
                        ELSE IF ErrorsOf(answered) # {} THEN Refusal(OneOf(ErrorsOf(answered)))
                        ELSE full
  BY <1>1, <1>2, <1>3, Zenon DEF Only, list, H, Candidates_, filter
<1>5. \A p : H(p).path = p /\ (H(p).keep <=> Met(condition, p).holds)
             /\ H(p).error = ErrorAt(condition, p) /\ H(p).dangling = Dangles(condition, p)
  BY HoldingIs DEF H
<1>6. ErrorsOf(answered) = ErrorsIn(condition)
  <2>1. \A e : e \in {a.error : a \in answered} <=> e \in {ErrorAt(condition, p) : p \in Candidates_}
    BY <1>5
  <2> QED
    BY <2>1 DEF ErrorsOf, ErrorsIn
<1>7. {a.path : a \in {b \in answered : b.keep}} = {p \in Candidates_ : Met(condition, p).holds}
  <2> DEFINE kept == {a.path : a \in {b \in answered : b.keep}}
  <2>1. \A p : p \in kept <=> \E q \in Candidates_ : H(q).keep /\ H(q).path = p
    OBVIOUS
  <2> HIDE DEF kept
  <2> QED
    BY <2>1, <1>5 DEF kept
<1>8. UNION {a.dangling : a \in answered} = UNION {Dangles(condition, p) : p \in Candidates_}
  <2>1. {a.dangling : a \in answered} = {H(p).dangling : p \in Candidates_}
    BY Zenon
  <2>2. {H(p).dangling : p \in Candidates_} = {Dangles(condition, p) : p \in Candidates_}
    BY <1>5, Zenon
  <2> QED
    BY <2>1, <2>2
<1>9. full.error = None /\ full.documents = {p \in Candidates_ : Met(condition, p).holds}
      /\ full.dangling = UNION {Dangles(condition, p) : p \in Candidates_}
  BY <1>7, <1>8
<1> HIDE DEF full, answered
<1>10. \A why : Refusal(why).error = why
  BY DEF Refusal
<1> QED
  BY <1>4, <1>6, <1>9, <1>10

\* Two answers that part: one error, or one holds where the other does not.
Contrary(x, y) ==
    /\ x.error = y.error
    /\ x.error = None => (x.holds <=> ~y.holds)
    /\ x.error # None => ~x.holds /\ ~y.holds

LEMMA PartedIs ==
    ASSUME NEW c, NEW d, InScopes(c) <=> InScopes(d),
           \A p \in Candidates_ : Contrary(Met(c, p), Met(d, p))
    PROVE  Parted(Candidates_, Only(c), Only(d))
<1>1. \A p \in Candidates_ : ErrorAt(c, p) = ErrorAt(d, p)
  BY DEF Contrary, ErrorAt
<1>2. ErrorsIn(c) = ErrorsIn(d)
  BY <1>1, Zenon DEF ErrorsIn
<1>3. "UnknownField" # None /\ Refusal("UnknownField").error = "UnknownField"
  BY DEF Refusal, None
<1>4. CASE ~InScopes(c)
  BY <1>3, <1>4, OnlyIs DEF Parted
<1>5. CASE InScopes(c)
  <2>1. Only(c).error = Only(d).error
    BY <1>2, <1>5, OnlyIs
  <2>2. ASSUME Only(c).error = None
        PROVE  /\ Only(c).documents \cup Only(d).documents = Candidates_
               /\ Only(c).documents \cap Only(d).documents = {}
    <3>1. ErrorsIn(c) = {}
      <4>1. ASSUME ErrorsIn(c) # {} PROVE FALSE
        <5>1. OneOf(ErrorsIn(c)) \in ErrorsIn(c)
          BY <4>1 DEF OneOf
        <5>2. OneOf(ErrorsIn(c)) # None
          BY <5>1 DEF ErrorsIn
        <5> QED
          BY <1>5, <2>2, <4>1, <5>2, OnlyIs
      <4> QED
        BY <4>1
    <3>2. \A p \in Candidates_ : ErrorAt(c, p) = None
      BY <3>1 DEF ErrorsIn
    <3>3. \A p \in Candidates_ : Met(c, p).holds <=> ~Met(d, p).holds
      BY <3>2, Zenon DEF Contrary, ErrorAt
    <3>4. /\ Only(c).documents = {p \in Candidates_ : Met(c, p).holds}
          /\ Only(d).documents = {p \in Candidates_ : Met(d, p).holds}
      BY <1>2, <1>5, <3>1, OnlyIs
    <3> QED
      BY <3>3, <3>4
  <2> QED
    BY <2>1, <2>2 DEF Parted
<1> QED
  BY <1>4, <1>5

LEMMA AnswerIs ==
    /\ \A h : Answer(h).error = None /\ (Answer(h).holds <=> h)
    /\ \A why : QueryError(why).error = why /\ ~QueryError(why).holds
BY Zenon DEF Answer, QueryError

LEMMA AnswersPart == ASSUME NEW g, NEW h, g <=> ~h PROVE Contrary(Answer(g), Answer(h))
<1>1. Answer(g).error = None /\ (Answer(g).holds <=> g)
  BY Zenon DEF Answer
<1>2. Answer(h).error = None /\ (Answer(h).holds <=> h)
  BY Zenon DEF Answer
<1> QED
  BY <1>1, <1>2, Zenon DEF Contrary

LEMMA OppositeIs ==
    ASSUME NEW plain \in Plains
    PROVE  /\ plain.dir = None /\ plain.op = "="
           /\ Opposite(plain).dir = None /\ Opposite(plain).op = "!="
           /\ Opposite(plain).field = plain.field /\ Opposite(plain).items = plain.items
<1>1. plain = [dir |-> plain.dir, field |-> plain.field, op |-> plain.op, items |-> plain.items]
      /\ plain.dir = None /\ plain.op = "="
  BY PlainAssumption
<1> DEFINE d == plain.dir
           f == plain.field
           o == plain.op
           it == plain.items
<1>2. \A dd, ff, oo, ii :
        [[dir |-> dd, field |-> ff, op |-> oo, items |-> ii] EXCEPT !.op = "!="]
          = [dir |-> dd, field |-> ff, op |-> "!=", items |-> ii]
  OBVIOUS
<1> HIDE DEF d, f, o, it
<1>3. Opposite(plain) = [dir |-> d, field |-> f, op |-> "!=", items |-> it]
  <2>1. plain = [dir |-> d, field |-> f, op |-> o, items |-> it]
    BY <1>1 DEF d, f, o, it
  <2> QED
    BY <1>2, <2>1 DEF Opposite
<1> QED
  BY <1>1, <1>3 DEF d, f, it

-----------------------------------------------------------------------------
(* A condition on a field and its opposite.                                *)

PlanOf(field, schema) == IF field \in PseudoFields THEN StringPlan ELSE Declared(schema, field)
ErrorsOfItems(items, plan) == {check_item(items[i], plan) : i \in DOMAIN items} \ {None}
Matched(items, plan, values) == \E i \in DOMAIN items : \E v \in values : ItemMatches(items[i], plan, v)
Unknown(field, schema) == field \notin PseudoFields /\ ~Declares(schema, field)

LEMMA EvaluateIs ==
    ASSUME NEW condition, condition.op \notin Ordering, NEW schema, NEW doc, ~Unknown(condition.field, schema)
    PROVE  LET plan == PlanOf(condition.field, schema)
               errors == ErrorsOfItems(condition.items, plan)
               matched == Matched(condition.items, plan, field_value(condition.field, doc))
           IN  condition_matches(condition, schema, doc)
                 = IF errors # {} THEN QueryError(CHOOSE e \in errors : TRUE)
                   ELSE Answer(IF condition.op = "=" THEN matched ELSE ~matched)
BY DEF condition_matches, evaluate, PlanOf, ErrorsOfItems, Matched, Unknown

LEMMA MatchesContrary ==
    ASSUME NEW plain \in Plains, NEW schema, NEW doc
    PROVE  Contrary(condition_matches(plain, schema, doc), condition_matches(Opposite(plain), schema, doc))
<1> DEFINE other == Opposite(plain)
           unknown == Unknown(plain.field, schema)
           errors == ErrorsOfItems(plain.items, PlanOf(plain.field, schema))
           matched == Matched(plain.items, PlanOf(plain.field, schema), field_value(plain.field, doc))
<1>1. /\ plain.op = "=" /\ other.op = "!=" /\ other.field = plain.field /\ other.items = plain.items
  BY OppositeIs
<1> HIDE DEF other
<1>2. CASE unknown
  <2>1. condition_matches(plain, schema, doc) = Answer(FALSE) /\ condition_matches(other, schema, doc) = Answer(TRUE)
    BY <1>1, <1>2 DEF condition_matches, Unknown
  <2> QED
    BY <2>1, AnswersPart DEF other
<1>3. CASE ~unknown
  <2>1. "=" \notin Ordering /\ "!=" \notin Ordering
    BY DEF Ordering
  <2>2. condition_matches(plain, schema, doc)
          = IF errors # {} THEN QueryError(CHOOSE e \in errors : TRUE) ELSE Answer(matched)
    BY <1>1, <1>3, <2>1, EvaluateIs
  <2>3. condition_matches(other, schema, doc)
          = IF errors # {} THEN QueryError(CHOOSE e \in errors : TRUE) ELSE Answer(~matched)
    <3>1. "!=" # "="
      OBVIOUS
    <3> QED
      BY <1>1, <1>3, <2>1, <3>1, EvaluateIs
  <2>4. errors # {} => (CHOOSE e \in errors : TRUE) # None
    <3>1. errors # {} => (CHOOSE e \in errors : TRUE) \in errors
      OBVIOUS
    <3> QED
      BY <3>1 DEF ErrorsOfItems
  <2> HIDE DEF errors, matched, unknown
  <2>5. CASE errors # {}
    BY <2>2, <2>3, <2>4, <2>5, AnswerIs DEF Contrary, other
  <2>6. CASE errors = {}
    <3>1. Contrary(Answer(matched), Answer(~matched))
      BY AnswersPart
    <3> QED
      BY <2>2, <2>3, <2>6, <3>1 DEF other
  <2> QED
    BY <2>5, <2>6
<1> QED
  BY <1>2, <1>3

LEMMA AbsentContrary == Contrary(absent_result("="), absent_result("!="))
<1>1. ("=" = "!=") <=> ~("!=" = "!=")
  OBVIOUS
<1> QED
  BY <1>1, AnswersPart DEF absent_result

LEMMA ReachedContrary ==
    ASSUME NEW plain \in Plains, NEW other
    PROVE  Contrary(evaluate_reached_target(other, plain), evaluate_reached_target(other, Opposite(plain)))
<1> DEFINE opposite == Opposite(plain)
           path == other.path
           there == Imports[other.project]
<1>1. plain.op = "=" /\ opposite.op = "!="
  BY OppositeIs
<1>2. \A schema, doc : Contrary(condition_matches(plain, schema, doc), condition_matches(opposite, schema, doc))
  BY MatchesContrary
<1> HIDE DEF opposite
<1>3. CASE other.project = Home
  <2>1. evaluate_reached_target(other, plain) = evaluate_reached(path, plain)
        /\ evaluate_reached_target(other, opposite) = evaluate_reached(path, opposite)
    BY <1>3 DEF evaluate_reached_target
  <2>2. CASE ~Indexed(path)
    BY <1>2, <2>1, <2>2, Zenon DEF evaluate_reached, opposite
  <2>3. CASE Indexed(path) /\ ~HasFields(path)
    BY <1>1, <2>1, <2>3, AbsentContrary DEF evaluate_reached, opposite
  <2>4. CASE Indexed(path) /\ HasFields(path)
    <3>1. \A inner : evaluate_reached(path, inner) = condition_matches(inner, SchemaOf(path), DocumentAt(path))
      BY <2>4 DEF evaluate_reached
    <3> QED
      BY <1>2, <2>1, <3>1, Zenon DEF opposite
  <2> QED
    BY <2>2, <2>3, <2>4
<1>4. CASE other.project # Home
  <2>1. CASE path \notin DOMAIN there.entries
    BY <1>2, <1>4, <2>1, Zenon DEF evaluate_reached_target, opposite
  <2>2. CASE path \in DOMAIN there.entries /\ ~there.entries[path].readable
    <3>1. \A inner : evaluate_reached_target(other, inner) = absent_result(inner.op)
      BY <1>4, <2>2 DEF evaluate_reached_target
    <3> QED
      BY <1>1, <3>1, AbsentContrary DEF opposite
  <2>3. CASE path \in DOMAIN there.entries /\ there.entries[path].readable
    <3>1. \A inner : evaluate_reached_target(other, inner)
                       = condition_matches(inner, there.entries[path].schema, there.entries[path].doc)
      BY <1>4, <2>3 DEF evaluate_reached_target
    <3> QED
      BY <1>2, <3>1, Zenon DEF opposite
  <2> QED
    BY <2>1, <2>2, <2>3
<1> QED
  BY <1>3, <1>4

-----------------------------------------------------------------------------
(* A condition on refs, along the arrows from a document and to it.        *)

\* The answers along the arrows of a condition on refs.
ArrowsFrom(condition, path) == {r \in refs(path) : r.field = condition.field}
ArrowsTo(condition, path) ==
    {j \in incoming_refs : j.reference.field = condition.field /\ is_same_document(j.reference.other, path)}
Along(condition, r) ==
    Arrow(condition.inner, IF r.other.found THEN evaluate_reached_target(r.other, condition.inner[1])
                           ELSE absent_result(condition.inner[1].op))
Back(condition, i) ==
    Arrow(condition.inner, condition_matches(condition.inner[1], SchemaOf(i.holder), DocumentAt(i.holder)))

LEMMA MetIs ==
    ASSUME NEW condition, IsRefCondition(condition), NEW path
    PROVE  Met(condition, path)
             = IF condition.dir = "ref"
               THEN Combine(condition.quant, {Along(condition, r) : r \in ArrowsFrom(condition, path)})
               ELSE Combine(condition.quant, {Back(condition, i) : i \in ArrowsTo(condition, path)})
BY DEF Met, Asked, evaluate_ref_condition, ArrowsFrom, ArrowsTo, Along, Back

LEMMA CombineIs ==
    ASSUME NEW quant \in {"all", "any", "none"}, NEW answers
    PROVE  /\ ErrorsOf(answers) # {} => Combine(quant, answers) = QueryError(OneOf(ErrorsOf(answers)))
           /\ ErrorsOf(answers) = {} =>
                /\ Combine(quant, answers).error = None
                /\ quant = "all" => (Combine(quant, answers).holds <=> \A a \in answers : a.holds)
                /\ quant = "any" => (Combine(quant, answers).holds <=> \E a \in answers : a.holds)
                /\ quant = "none" => (Combine(quant, answers).holds <=> ~\E a \in answers : a.holds)
<1> DEFINE holds == {a.holds : a \in answers}
<1>1. ErrorsOf(answers) # {} => Combine(quant, answers) = QueryError(OneOf(ErrorsOf(answers)))
  BY DEF Combine
<1>2. ErrorsOf(answers) = {} => Combine(quant, answers) = Answer(combine_quant(quant, holds))
  BY DEF Combine
<1>3. ErrorsOf(answers) = {} => Combine(quant, answers).error = None
                                /\ (Combine(quant, answers).holds <=> combine_quant(quant, holds))
  <2> DEFINE combined == combine_quant(quant, holds)
  <2> HIDE DEF combined
  <2>1. Answer(combined).error = None /\ (Answer(combined).holds <=> combined)
    BY Zenon DEF Answer
  <2>2. ErrorsOf(answers) = {} => Combine(quant, answers) = Answer(combined)
    BY <1>2 DEF combined
  <2>3. ErrorsOf(answers) = {} => Combine(quant, answers).error = None
                                  /\ (Combine(quant, answers).holds <=> combined)
    BY <2>1, <2>2, Zenon
  <2> QED
    BY <2>3 DEF combined
<1>4. /\ (\A h \in holds : h) <=> \A a \in answers : a.holds
      /\ (\E h \in holds : h) <=> \E a \in answers : a.holds
  <2>1. ASSUME \A h \in holds : h, NEW a \in answers PROVE a.holds
    <3>1. \A h : h \in holds /\ h = a.holds => a.holds
      BY <2>1, Zenon
    <3>2. a.holds \in holds
      OBVIOUS
    <3> HIDE DEF holds
    <3> QED
      BY <3>1, <3>2
  <2>2. ASSUME \A a \in answers : a.holds, NEW h \in holds PROVE h
    <3>1. PICK a \in answers : h = a.holds
      BY Zenon
    <3> QED
      BY <2>2, <3>1, Zenon
  <2>3. ASSUME NEW a \in answers, a.holds PROVE \E h \in holds : h
    BY <2>3, Zenon
  <2>4. ASSUME NEW h \in holds, h PROVE \E a \in answers : a.holds
    <3>1. PICK a \in answers : h = a.holds
      BY Zenon
    <3> QED
      BY <2>4, <3>1, Zenon
  <2> QED
    BY <2>1, <2>2, <2>3, <2>4, Zenon
<1> HIDE DEF holds
<1>5. /\ quant = "all" => (combine_quant(quant, holds) <=> \A h \in holds : h)
      /\ quant = "any" => (combine_quant(quant, holds) <=> \E h \in holds : h)
      /\ quant = "none" => (combine_quant(quant, holds) <=> ~\E h \in holds : h)
  BY DEF combine_quant
<1> QED
  BY <1>1, <1>3, <1>4, <1>5, Zenon

\* `all` of the answers and `any` of the contrary ones.
LEMMA CombineContrary ==
    ASSUME NEW xs, NEW ys,
           \A x \in xs : \E y \in ys : Contrary(x, y),
           \A y \in ys : \E x \in xs : Contrary(x, y)
    PROVE  Contrary(Combine("all", xs), Combine("any", ys))
<1>1. /\ \A x \in xs : \E y \in ys : x.error = y.error
      /\ \A y \in ys : \E x \in xs : x.error = y.error
  <2>1. \A x, y : Contrary(x, y) => x.error = y.error
    BY Zenon DEF Contrary
  <2> QED
    BY <2>1
<1>2. ErrorsOf(xs) = ErrorsOf(ys)
  <2>1. \A e : e \in {a.error : a \in xs} <=> e \in {a.error : a \in ys}
    BY <1>1
  <2> QED
    BY <2>1 DEF ErrorsOf
<1> DEFINE x == Combine("all", xs)
           y == Combine("any", ys)
<1> HIDE DEF x, y
<1>3. CASE ErrorsOf(xs) # {}
  <2>1. PICK e : e = OneOf(ErrorsOf(xs))
    OBVIOUS
  <2>2. e # None
    BY <1>3, <2>1 DEF OneOf, ErrorsOf
  <2>3. x = QueryError(e) /\ y = QueryError(e)
    BY <1>2, <1>3, <2>1, CombineIs DEF x, y
  <2>4. QueryError(e).error = e /\ ~QueryError(e).holds
    BY Zenon DEF QueryError
  <2>5. Contrary(x, y)
    BY <2>2, <2>3, <2>4, Zenon DEF Contrary
  <2> QED
    BY <2>5 DEF x, y
<1>4. CASE ErrorsOf(xs) = {}
  <2>1. (\A a \in xs : a.error = None) /\ \A a \in ys : a.error = None
    BY <1>2, <1>4 DEF ErrorsOf
  <2>2. (\A a \in xs : a.holds) <=> ~\E a \in ys : a.holds
    <3>1. ASSUME \A a \in xs : a.holds, NEW b \in ys PROVE ~b.holds
      <4>1. PICK a \in xs : Contrary(a, b)
        OBVIOUS
      <4> QED
        BY <2>1, <3>1, <4>1, Zenon DEF Contrary
    <3>2. ASSUME \A b \in ys : ~b.holds, NEW a \in xs PROVE a.holds
      <4>1. PICK b \in ys : Contrary(a, b)
        OBVIOUS
      <4> QED
        BY <2>1, <3>2, <4>1, Zenon DEF Contrary
    <3> QED
      BY <3>1, <3>2, Zenon
  <2>3. /\ x.error = None /\ (x.holds <=> \A a \in xs : a.holds)
        /\ y.error = None /\ (y.holds <=> \E a \in ys : a.holds)
    <3>1. /\ Combine("all", xs).error = None /\ (Combine("all", xs).holds <=> \A a \in xs : a.holds)
      BY <1>4, CombineIs, Zenon
    <3>2. /\ Combine("any", ys).error = None /\ (Combine("any", ys).holds <=> \E a \in ys : a.holds)
      <4>1. ErrorsOf(ys) = {}
        BY <1>2, <1>4
      <4> QED
        BY <4>1, CombineIs, Zenon
    <3> QED
      BY <3>1, <3>2 DEF x, y
  <2>4. x.holds <=> ~y.holds
    BY <2>2, <2>3, Zenon
  <2>5. Contrary(x, y)
    BY <2>3, <2>4, Zenon DEF Contrary
  <2> QED
    BY <2>5 DEF x, y
<1> QED
  BY <1>3, <1>4

LEMMA AnyContrary ==
    ASSUME NEW answers, \A a \in answers : a.error = None
    PROVE  Contrary(Combine("any", answers), Combine("none", answers))
<1>1. ErrorsOf(answers) = {}
  BY DEF ErrorsOf
<1>2. /\ Combine("any", answers).error = None /\ (Combine("any", answers).holds <=> \E a \in answers : a.holds)
      /\ Combine("none", answers).error = None /\ (Combine("none", answers).holds <=> ~\E a \in answers : a.holds)
  BY <1>1, CombineIs, Zenon
<1> QED
  BY <1>2, Zenon DEF Contrary

LEMMA ArrowFacts ==
    ASSUME NEW dir \in {"ref", "refby"}, NEW quant, NEW field, NEW inner
    PROVE  LET c == Arrow_(dir, quant, field, inner)
           IN  /\ c.dir = dir /\ c.quant = quant /\ c.field = field /\ c.inner = inner
               /\ IsRefCondition(c)
BY DEF Arrow_, IsRefCondition, None

LEMMA ArrowScope ==
    ASSUME NEW dir \in {"ref", "refby"}, NEW quant, NEW other, NEW field, NEW inner, NEW inner2,
           (inner = <<>>) <=> (inner2 = <<>>), inner # <<>> => inner[1].field = inner2[1].field
    PROVE  InScopes(Arrow_(dir, quant, field, inner)) <=> InScopes(Arrow_(dir, other, field, inner2))
<1> DEFINE c == Arrow_(dir, quant, field, inner)
           d == Arrow_(dir, other, field, inner2)
<1>1. /\ c.dir = dir /\ c.field = field /\ c.inner = inner /\ IsRefCondition(c)
      /\ d.dir = dir /\ d.field = field /\ d.inner = inner2 /\ IsRefCondition(d)
  BY ArrowFacts
<1> HIDE DEF c, d
<1>2. \A declaring : ref_condition_inner_scope(c, declaring) = ref_condition_inner_scope(d, declaring)
  BY <1>1 DEF ref_condition_inner_scope
<1>3. check_ref_condition_scope(c) <=> check_ref_condition_scope(d)
  BY <1>1, <1>2 DEF check_ref_condition_scope
<1> QED
  BY <1>1, <1>3 DEF InScopes, InScope, c, d

LEMMA ArrowsPart ==
    ASSUME NEW dir \in {"ref", "refby"}, NEW field, NEW plain \in Plains
    PROVE  Parted(Candidates_, Only(Arrow_(dir, "all", field, <<plain>>)),
                  Only(Arrow_(dir, "any", field, <<Opposite(plain)>>)))
<1> DEFINE opposite == Opposite(plain)
           c == Arrow_(dir, "all", field, <<plain>>)
           d == Arrow_(dir, "any", field, <<opposite>>)
<1>1. /\ c.dir = dir /\ c.quant = "all" /\ c.field = field /\ c.inner = <<plain>> /\ IsRefCondition(c)
      /\ d.dir = dir /\ d.quant = "any" /\ d.field = field /\ d.inner = <<opposite>> /\ IsRefCondition(d)
  BY ArrowFacts
<1>2. plain.op = "=" /\ opposite.op = "!=" /\ opposite.field = plain.field
  BY OppositeIs
<1>3. InScopes(c) <=> InScopes(d)
  <2> HIDE DEF opposite
  <2>1. (<<plain>> = <<>>) <=> (<<opposite>> = <<>>)
    OBVIOUS
  <2>2. (<<plain>>)[1].field = (<<opposite>>)[1].field
    BY <1>2
  <2> QED
    BY <2>1, <2>2, ArrowScope
<1>4. /\ \A schema, doc : Contrary(condition_matches(plain, schema, doc), condition_matches(opposite, schema, doc))
      /\ \A other : Contrary(evaluate_reached_target(other, plain), evaluate_reached_target(other, opposite))
  BY MatchesContrary, ReachedContrary
<1> HIDE DEF opposite, c, d
<1>5. /\ \A x : Arrow(c.inner, x) = x /\ Arrow(d.inner, x) = x
      /\ c.inner[1] = plain /\ d.inner[1] = opposite
  BY <1>1 DEF Arrow
<1>6. \A r : Contrary(Along(c, r), Along(d, r))
  BY <1>2, <1>4, <1>5, AbsentContrary DEF Along
<1>7. \A i : Contrary(Back(c, i), Back(d, i))
  BY <1>4, <1>5 DEF Back
<1>8. \A p : ArrowsFrom(c, p) = ArrowsFrom(d, p) /\ ArrowsTo(c, p) = ArrowsTo(d, p)
  BY <1>1 DEF ArrowsFrom, ArrowsTo
<1>9. ASSUME NEW p PROVE Contrary(Met(c, p), Met(d, p))
  <2>1. Contrary(Combine("all", {Along(c, r) : r \in ArrowsFrom(c, p)}),
                 Combine("any", {Along(d, r) : r \in ArrowsFrom(d, p)}))
    <3> DEFINE xs == {Along(c, r) : r \in ArrowsFrom(c, p)}
               ys == {Along(d, r) : r \in ArrowsFrom(d, p)}
    <3>1. /\ \A x \in xs : \E y \in ys : Contrary(x, y)
          /\ \A y \in ys : \E x \in xs : Contrary(x, y)
      BY <1>6, <1>8, Zenon
    <3> HIDE DEF xs, ys
    <3>2. Contrary(Combine("all", xs), Combine("any", ys))
      BY <3>1, CombineContrary
    <3> QED
      BY <3>2 DEF xs, ys
  <2>2. Contrary(Combine("all", {Back(c, i) : i \in ArrowsTo(c, p)}),
                 Combine("any", {Back(d, i) : i \in ArrowsTo(d, p)}))
    <3> DEFINE xs == {Back(c, i) : i \in ArrowsTo(c, p)}
               ys == {Back(d, i) : i \in ArrowsTo(d, p)}
    <3>1. /\ \A x \in xs : \E y \in ys : Contrary(x, y)
          /\ \A y \in ys : \E x \in xs : Contrary(x, y)
      BY <1>7, <1>8, Zenon
    <3> HIDE DEF xs, ys
    <3>2. Contrary(Combine("all", xs), Combine("any", ys))
      BY <3>1, CombineContrary
    <3> QED
      BY <3>2 DEF xs, ys
  <2> QED
    BY <1>1, <2>1, <2>2, MetIs
<1> QED
  BY <1>3, <1>9, PartedIs DEF c, d, opposite

\* A condition with no condition after the arrow asks only whether there is an arrow.
LEMMA PlainArrow ==
    ASSUME NEW c, c.inner = <<>>
    PROVE  /\ \A r : Along(c, r) = Answer(TRUE)
           /\ \A i : Back(c, i) = Answer(TRUE)
BY DEF Along, Back, Arrow

LEMMA AnyPart ==
    ASSUME NEW dir \in {"ref", "refby"}, NEW field
    PROVE  Parted(Candidates_, Only(Arrow_(dir, "any", field, <<>>)), Only(Arrow_(dir, "none", field, <<>>)))
<1> DEFINE c == Arrow_(dir, "any", field, <<>>)
           d == Arrow_(dir, "none", field, <<>>)
<1>1. /\ c.dir = dir /\ c.quant = "any" /\ c.field = field /\ c.inner = <<>> /\ IsRefCondition(c)
      /\ d.dir = dir /\ d.quant = "none" /\ d.field = field /\ d.inner = <<>> /\ IsRefCondition(d)
  BY ArrowFacts
<1>2. InScopes(c) <=> InScopes(d)
  BY ArrowScope
<1> HIDE DEF c, d
<1>3. /\ \A r : Along(c, r) = Answer(TRUE) /\ Along(d, r) = Answer(TRUE)
      /\ \A i : Back(c, i) = Answer(TRUE) /\ Back(d, i) = Answer(TRUE)
  BY <1>1, PlainArrow
<1>4. \A p : ArrowsFrom(c, p) = ArrowsFrom(d, p) /\ ArrowsTo(c, p) = ArrowsTo(d, p)
  BY <1>1 DEF ArrowsFrom, ArrowsTo
<1>5. ASSUME NEW p PROVE Contrary(Met(c, p), Met(d, p))
  <2> DEFINE xs == {Along(c, r) : r \in ArrowsFrom(c, p)}
             ys == {Back(c, i) : i \in ArrowsTo(c, p)}
  <2>1. {Along(d, r) : r \in ArrowsFrom(d, p)} = xs /\ {Back(d, i) : i \in ArrowsTo(d, p)} = ys
    <3>1. \A R : {Along(d, r) : r \in R} = {Along(c, r) : r \in R}
      BY <1>3, Zenon
    <3>2. \A I : {Back(d, i) : i \in I} = {Back(c, i) : i \in I}
      BY <1>3, Zenon
    <3> QED
      BY <1>4, <3>1, <3>2, Zenon
  <2>2. (\A a \in xs : a.error = None) /\ \A a \in ys : a.error = None
    <3>1. Answer(TRUE).error = None
      BY Zenon DEF Answer
    <3> QED
      BY <1>3, <3>1
  <2> HIDE DEF xs, ys
  <2>3. Contrary(Combine("any", xs), Combine("none", xs)) /\ Contrary(Combine("any", ys), Combine("none", ys))
    BY <2>2, AnyContrary
  <2>4. /\ Met(c, p) = IF dir = "ref" THEN Combine("any", xs) ELSE Combine("any", ys)
        /\ Met(d, p) = IF dir = "ref" THEN Combine("none", xs) ELSE Combine("none", ys)
    BY <1>1, <2>1, MetIs DEF xs, ys
  <2> QED
    BY <2>3, <2>4
<1> QED
  BY <1>2, <1>5, PartedIs DEF c, d

\* Where no schema declares a field as one of refs, no ref is in it.
LEMMA FieldDeclared ==
    ASSUME NEW p \in Candidates_, NEW r \in refs(p)
    PROVE  schemas_declaring_ref_field(r.field) # {}
<1>1. p \in DOMAIN Entries
  BY DEF Candidates_, Candidates, Documents
<1>2. PICK c \in CollectionNames : SchemaOf(p) = Collections[c].schema
  BY <1>1, IndexAssumption DEF SchemaOf, CollectionOf
<1>3. CASE r.field = "$body"
  BY <1>2, <1>3 DEF schemas_declaring_ref_field
<1>4. CASE r.field # "$body"
  <2> DEFINE fields == FieldsOf(p)
             schema == SchemaOf(p)
  <2>1. PICK s \in FieldRefs(schema, fields) : r.field = s.field
    BY <1>1, <1>4, RefsAre
  <2> DEFINE I == {j \in DOMAIN fields : IsRefField(schema, fields[j].name, fields[j].value)}
             at(i, n) == [field |-> fields[i].name, at |-> n, written |-> ref_values(fields[i].value)[n]]
             of(i) == {at(i, n) : n \in DOMAIN ref_values(fields[i].value)}
  <2>2. PICK i \in I : s \in of(i)
    BY <2>1, Zenon DEF FieldRefs
  <2>4. s.field = fields[i].name /\ IsRefField(schema, fields[i].name, fields[i].value)
    BY <2>2
  <2> HIDE DEF fields, schema, I, of
  <2>3. Declares(schema, r.field) /\ Declared(schema, r.field).kind \in RefTypes
    BY <2>1, <2>4 DEF IsRefField
  <2> QED
    BY <1>2, <2>3 DEF schemas_declaring_ref_field, schema
<1> QED
  BY <1>3, <1>4

LEMMA ScopeIs ==
    ASSUME NEW dir \in {"ref", "refby"}, NEW quant, NEW field, NEW inner,
           inner # <<>> => inner[1].field \in PseudoFields
    PROVE  InScopes(Arrow_(dir, quant, field, inner)) <=> schemas_declaring_ref_field(field) # {}
<1> DEFINE c == Arrow_(dir, quant, field, inner)
<1>1. c.field = field /\ c.inner = inner /\ IsRefCondition(c)
  BY ArrowFacts
<1> HIDE DEF c
<1>2. InScopes(c) <=> check_ref_condition_scope(c)
  BY <1>1 DEF InScopes, InScope
<1>3. check_ref_condition_scope(c) <=> schemas_declaring_ref_field(field) # {}
  BY <1>1 DEF check_ref_condition_scope, KnownIn
<1> QED
  BY <1>2, <1>3 DEF c

LEMMA NoErrors ==
    ASSUME NEW c, IsRefCondition(c), c.quant \in {"all", "any", "none"},
           \A r : Along(c, r).error = None, \A i : Back(c, i).error = None
    PROVE  ErrorsIn(c) = {}
<1>1. ASSUME NEW p PROVE ErrorAt(c, p) = None
  <2> DEFINE xs == {Along(c, r) : r \in ArrowsFrom(c, p)}
             ys == {Back(c, i) : i \in ArrowsTo(c, p)}
  <2>1. ErrorsOf(xs) = {} /\ ErrorsOf(ys) = {}
    BY DEF ErrorsOf
  <2>2. Met(c, p) = Combine(c.quant, xs) \/ Met(c, p) = Combine(c.quant, ys)
    BY MetIs
  <2> HIDE DEF xs, ys
  <2> QED
    BY <2>1, <2>2, CombineIs DEF ErrorAt
<1> QED
  BY <1>1 DEF ErrorsIn

LEMMA DanglingIs ==
    ASSUME NEW field
    PROVE  Only(Arrow_("ref", "any", field, <<>>)).dangling = {d \in DanglingAt(Candidates_) : d.field = field}
<1> DEFINE c == Arrow_("ref", "any", field, <<>>)
           D(p, r) == [path |-> p, field |-> r.field, written |-> r.written]
<1>1. c.dir = "ref" /\ c.quant = "any" /\ c.field = field /\ c.inner = <<>> /\ IsRefCondition(c)
  BY ArrowFacts
<1>2. InScopes(c) <=> schemas_declaring_ref_field(field) # {}
  BY ScopeIs
<1> HIDE DEF c
<1>3. \A x : x \in DanglingAt(Candidates_) <=> \E p \in Candidates_ : \E r \in refs(p) : ~r.other.found /\ x = D(p, r)
  <2> DEFINE of(p) == {D(p, r) : r \in UnresolvedIn(p)}
  <2>1. \A p, x : x \in of(p) <=> \E r \in refs(p) : ~r.other.found /\ x = D(p, r)
    BY Zenon DEF UnresolvedIn
  <2>2. DanglingAt(Candidates_) = UNION {of(p) : p \in Candidates_}
    BY Zenon DEF DanglingAt
  <2> HIDE DEF of, D
  <2> QED
    BY <2>1, <2>2
<1>4. \A p, r : D(p, r).field = r.field
  OBVIOUS
<1>5. CASE ~InScopes(c)
  <2>1. Only(c).dangling = {}
    BY <1>5, OnlyIs DEF Refusal
  <2> HIDE DEF D
  <2>2. \A x \in DanglingAt(Candidates_) : x.field # field
    BY <1>2, <1>3, <1>4, <1>5, FieldDeclared
  <2> QED
    BY <2>1, <2>2 DEF c
<1>6. CASE InScopes(c)
  <2>1. (\A r : Along(c, r).error = None) /\ \A i : Back(c, i).error = None
    <3>1. Answer(TRUE).error = None
      BY Zenon DEF Answer
    <3> QED
      BY <1>1, <3>1, PlainArrow
  <2>2. ErrorsIn(c) = {}
    BY <1>1, <2>1, NoErrors
  <2>3. Only(c).dangling = UNION {Dangles(c, p) : p \in Candidates_}
    BY <1>6, <2>2, OnlyIs
  <2>4. \A p, x : x \in Dangles(c, p) <=> \E r \in refs(p) : ~r.other.found /\ r.field = field /\ x = D(p, r)
    BY <1>1 DEF Dangles
  <2> HIDE DEF D
  <2>5. \A x : x \in Only(c).dangling
                 <=> \E p \in Candidates_ : \E r \in refs(p) : ~r.other.found /\ r.field = field /\ x = D(p, r)
    BY <2>3, <2>4
  <2>6. \A x : x \in Only(c).dangling <=> x \in DanglingAt(Candidates_) /\ x.field = field
    BY <1>3, <1>4, <2>5
  <2> QED
    BY <2>6 DEF c
<1> QED
  BY <1>5, <1>6

LEMMA PathMatches ==
    ASSUME NEW q, NEW schema, NEW doc
    PROVE  LET x == condition_matches(AtPath(q), schema, doc)
           IN  x.error = None /\ (x.holds <=> doc.path = q)
<1> DEFINE c == AtPath(q)
           item == [kind |-> "literal", segments |-> <<q>>]
           v == TextValue(doc.path)
<1>1. c.op = "=" /\ c.field = "path" /\ c.items = <<item>>
  BY DEF AtPath
<1>2. "=" \notin Ordering /\ "path" \in PseudoFields /\ "path" \notin {"key", "code", "namespace"}
  BY DEF Ordering, PseudoFields
<1>3. item.kind = "literal" /\ item.segments[1] = q
  OBVIOUS
<1>4. v.type = "Text" /\ v.items[1] = doc.path
  BY DEF TextValue
<1>5. StringPlan.kind = "string" /\ "string" \notin {"number", "bool", "date", "datetime", "enum"}
  BY DEF StringPlan
<1> HIDE DEF c, item, v
<1>6. PlanOf(c.field, schema) = StringPlan /\ ~Unknown(c.field, schema)
  BY <1>1, <1>2 DEF PlanOf, Unknown
<1>7. field_value(c.field, doc) = {v}
  BY <1>1, <1>2 DEF field_value, v
<1>8. ErrorsOfItems(c.items, StringPlan) = {}
  <2>1. check_item(item, StringPlan) = None
    BY <1>3, <1>5 DEF check_item
  <2> QED
    BY <1>1, <2>1 DEF ErrorsOfItems
<1>9. Matched(c.items, StringPlan, {v}) <=> doc.path = q
  <2>1. TextsIn(v, FALSE) = {doc.path}
    BY <1>4 DEF TextsIn
  <2>2. "string" \notin ListTypes
    BY DEF ListTypes
  <2>3. ItemMatches(item, StringPlan, v) <=> doc.path = q
    <3>1. "literal" # "present" /\ "literal" = "literal"
      OBVIOUS
    <3>2. TextsIn(v, StringPlan.kind \in ListTypes) = {doc.path}
      BY <1>4, <1>5, <2>2 DEF TextsIn
    <3>3. ItemMatches(item, StringPlan, v)
            <=> \E text \in TextsIn(v, StringPlan.kind \in ListTypes) : text = item.segments[1]
      <4>1. item.kind = "literal" /\ ~(item.kind = "present") /\ StringPlan.kind \notin {"number", "bool", "date", "datetime"}
        BY <1>3, <1>5
      <4> QED
        BY <4>1, Zenon DEF ItemMatches
    <3> QED
      BY <1>3, <3>2, <3>3
  <2>4. DOMAIN c.items = {1} /\ c.items[1] = item
    BY <1>1
  <2> QED
    BY <2>3, <2>4 DEF Matched
<1> DEFINE matched == Matched(c.items, StringPlan, {v})
           x == condition_matches(c, schema, doc)
<1>10. x = Answer(matched)
  BY <1>1, <1>2, <1>6, <1>7, <1>8, EvaluateIs
<1> HIDE DEF matched, x
<1>11. x.error = None /\ (x.holds <=> matched)
  BY <1>10, Zenon DEF Answer
<1> QED
  BY <1>9, <1>11 DEF matched, x, c

LEMMA AbsentFails == absent_result("=").error = None /\ ~absent_result("=").holds
<1>1. absent_result("=") = Answer(FALSE)
  BY DEF absent_result
<1>2. Answer(FALSE).error = None /\ ~Answer(FALSE).holds
  BY DEF Answer
<1> QED
  BY <1>1, <1>2

\* What an arrow reaches meets the condition of a path when it is at the path.
LEMMA ReachedAt ==
    ASSUME NEW q \in Candidates_, NEW other
    PROVE  LET x == evaluate_reached_target(other, AtPath(q))
           IN  x.error = None /\ (other.project = Home => (x.holds <=> other.path = q))
<1> DEFINE inner == AtPath(q)
           path == other.path
           there == Imports[other.project]
           x == evaluate_reached_target(other, inner)
<1>1. inner.op = "="
  BY DEF AtPath
<1>2. ASSUME NEW schema, NEW doc
      PROVE  /\ condition_matches(inner, schema, doc).error = None
             /\ condition_matches(inner, schema, doc).holds <=> doc.path = q
  BY PathMatches
<1>3. absent_result("=").error = None /\ ~absent_result("=").holds
  BY AbsentFails
<1> HIDE DEF inner
<1>4. CASE other.project = Home
  <2>1. x = evaluate_reached(path, inner)
    BY <1>4 DEF evaluate_reached_target
  <2>2. CASE ~Indexed(path)
    <3>1. x = condition_matches(inner, EmptySchema, Uncollected(path, Loose[path].ns))
      BY <2>1, <2>2 DEF evaluate_reached
    <3>2. Uncollected(path, Loose[path].ns).path = path
      BY DEF Uncollected
    <3> QED
      BY <1>2, <3>1, <3>2 DEF inner
  <2>3. CASE Indexed(path) /\ ~HasFields(path)
    <3>1. x = absent_result("=")
      BY <1>1, <2>1, <2>3 DEF evaluate_reached
    <3>2. path # q
      BY <2>3 DEF Candidates_, Candidates
    <3> QED
      BY <1>3, <3>1, <3>2 DEF inner
  <2>4. CASE Indexed(path) /\ HasFields(path)
    <3>1. x = condition_matches(inner, SchemaOf(path), DocumentAt(path))
      BY <2>1, <2>4 DEF evaluate_reached
    <3>2. DocumentAt(path).path = path
      BY DEF DocumentAt
    <3> QED
      BY <1>2, <3>1, <3>2 DEF inner
  <2> QED
    BY <2>2, <2>3, <2>4
<1>5. CASE other.project # Home
  <2>1. \/ x = condition_matches(inner, EmptySchema, Uncollected(path, NoText))
        \/ x = absent_result("=")
        \/ x = condition_matches(inner, there.entries[path].schema, there.entries[path].doc)
    BY <1>1, <1>5 DEF evaluate_reached_target
  <2>2. x.error = None
    BY <1>2, <1>3, <2>1
  <2> QED
    BY <1>5, <2>2 DEF inner
<1> QED
  BY <1>4, <1>5

LEMMA MetAtPath ==
    ASSUME NEW dir \in {"ref", "refby"}, NEW field, NEW q \in Candidates_
    PROVE  LET c == Arrow_(dir, "any", field, <<AtPath(q)>>)
           IN  \A p : p \in Only(c).documents <=>
                 /\ schemas_declaring_ref_field(field) # {}
                 /\ p \in Candidates_
                 /\ dir = "ref" => \E r \in refs(p) : r.field = field /\ Along(c, r).holds
                 /\ dir = "refby" => \E i \in ArrowsTo(c, p) : Back(c, i).holds
<1> DEFINE c == Arrow_(dir, "any", field, <<AtPath(q)>>)
<1>1. c.dir = dir /\ c.quant = "any" /\ c.field = field /\ c.inner = <<AtPath(q)>> /\ IsRefCondition(c)
  BY ArrowFacts
<1>2. InScopes(c) <=> schemas_declaring_ref_field(field) # {}
  <2>1. AtPath(q).field \in PseudoFields
    BY DEF AtPath, PseudoFields
  <2> QED
    BY <2>1, ScopeIs
<1> HIDE DEF c
<1>3. c.inner # <<>> /\ c.inner[1] = AtPath(q) /\ AtPath(q).op = "="
  BY <1>1 DEF AtPath
<1>4. absent_result("=").error = None
  BY Zenon DEF absent_result, Answer
<1>5. (\A r : Along(c, r).error = None) /\ \A i : Back(c, i).error = None
  <2>1. \A other : evaluate_reached_target(other, AtPath(q)).error = None
    BY ReachedAt
  <2>2. \A schema, doc : condition_matches(AtPath(q), schema, doc).error = None
    BY PathMatches
  <2> QED
    BY <1>3, <1>4, <2>1, <2>2 DEF Along, Back, Arrow
<1>6. ErrorsIn(c) = {}
  BY <1>1, <1>5, NoErrors
<1>7. /\ ~InScopes(c) => Only(c).documents = {}
      /\ InScopes(c) => Only(c).documents = {p \in Candidates_ : Met(c, p).holds}
  BY <1>6, OnlyIs DEF Refusal
<1>8. ASSUME NEW p
      PROVE  /\ dir = "ref" => (Met(c, p).holds <=> \E r \in refs(p) : r.field = field /\ Along(c, r).holds)
             /\ dir = "refby" => (Met(c, p).holds <=> \E i \in ArrowsTo(c, p) : Back(c, i).holds)
  <2> DEFINE xs == {Along(c, r) : r \in ArrowsFrom(c, p)}
             ys == {Back(c, i) : i \in ArrowsTo(c, p)}
  <2>1. ErrorsOf(xs) = {} /\ ErrorsOf(ys) = {}
    BY <1>5 DEF ErrorsOf
  <2>2. Met(c, p) = IF dir = "ref" THEN Combine("any", xs) ELSE Combine("any", ys)
    BY <1>1, MetIs
  <2>3. /\ (\E a \in xs : a.holds) <=> \E r \in refs(p) : r.field = field /\ Along(c, r).holds
        /\ (\E a \in ys : a.holds) <=> \E i \in ArrowsTo(c, p) : Back(c, i).holds
    BY <1>1, Zenon DEF ArrowsFrom
  <2> HIDE DEF xs, ys
  <2>4. /\ Combine("any", xs).holds <=> \E a \in xs : a.holds
        /\ Combine("any", ys).holds <=> \E a \in ys : a.holds
    BY <2>1, CombineIs, Zenon
  <2> QED
    BY <2>2, <2>3, <2>4
<1> QED
  BY <1>2, <1>7, <1>8 DEF c

LEMMA FollowsIs ==
    ASSUME NEW p \in Candidates_, NEW q \in Candidates_, NEW field
    PROVE  LET follows == p \in Only(Arrow_("ref", "any", field, <<AtPath(q)>>)).documents
               back == q \in Only(Arrow_("refby", "any", field, <<AtPath(p)>>)).documents
           IN  /\ back => follows
               /\ follows => back \/ <<p, field>> \in IntoAnImport(Candidates_)
<1> DEFINE c == Arrow_("ref", "any", field, <<AtPath(q)>>)
           d == Arrow_("refby", "any", field, <<AtPath(p)>>)
           declared == schemas_declaring_ref_field(field) # {}
           follows == p \in Only(c).documents
           back == q \in Only(d).documents
<1>1. /\ c.field = field /\ c.inner = <<AtPath(q)>>
      /\ d.field = field /\ d.inner = <<AtPath(p)>>
  BY ArrowFacts
<1>2. /\ follows <=> declared /\ \E r \in refs(p) : r.field = field /\ Along(c, r).holds
      /\ back <=> declared /\ \E i \in ArrowsTo(d, q) : Back(d, i).holds
  <2>1. follows <=> declared /\ \E r \in refs(p) : r.field = field /\ Along(c, r).holds
    BY MetAtPath
  <2>2. back <=> declared /\ \E i \in ArrowsTo(d, q) : Back(d, i).holds
    BY MetAtPath
  <2> QED
    BY <2>1, <2>2
<1> HIDE DEF c, d, declared, follows, back
<1>3. \A r : Along(c, r).holds <=> r.other.found /\ evaluate_reached_target(r.other, AtPath(q)).holds
  <2>1. c.inner # <<>> /\ c.inner[1] = AtPath(q) /\ AtPath(q).op = "="
    BY <1>1 DEF AtPath
  <2>2. ~absent_result("=").holds
    BY AbsentFails
  <2> QED
    BY <2>1, <2>2 DEF Along, Arrow
<1>4. \A i : Back(d, i).holds <=> i.holder = p
  <2>1. d.inner # <<>> /\ d.inner[1] = AtPath(p)
    BY <1>1
  <2>2. \A holder : condition_matches(AtPath(p), SchemaOf(holder), DocumentAt(holder)).holds <=> DocumentAt(holder).path = p
    BY PathMatches
  <2>3. \A holder : DocumentAt(holder).path = holder
    BY DEF DocumentAt
  <2> QED
    BY <2>1, <2>2, <2>3 DEF Back, Arrow
<1>5. p \in Readables
  BY DEF Candidates_, Candidates, Readables, HasFields
<1>6. /\ \A i \in incoming_refs : i.reference \in refs(i.holder)
      /\ \A r \in refs(p) : \E i \in incoming_refs : i.holder = p /\ i.reference = r
  <2> DEFINE in(h, r) == [holder |-> h, reference |-> r]
             of(h) == {in(h, r) : r \in refs(h)}
  <2>1. incoming_refs = UNION {of(h) : h \in Readables}
    BY DEF incoming_refs
  <2>2. \A h, r : in(h, r).holder = h /\ in(h, r).reference = r
    OBVIOUS
  <2>3. \A h, x : x \in of(h) <=> \E r \in refs(h) : x = in(h, r)
    OBVIOUS
  <2> HIDE DEF in, of
  <2> QED
    BY <1>5, <2>1, <2>2, <2>3
<1>7. ASSUME back PROVE follows
  <2>1. PICK i \in ArrowsTo(d, q) : i.holder = p
    BY <1>2, <1>4, <1>7
  <2>2. i \in incoming_refs /\ i.reference.field = field /\ is_same_document(i.reference.other, q)
    BY <1>1, <2>1 DEF ArrowsTo
  <2>3. i.reference \in refs(p)
    BY <1>6, <2>1, <2>2
  <2>4. Along(c, i.reference).holds
    BY <1>3, <2>2, ReachedAt DEF is_same_document
  <2> QED
    BY <1>2, <1>7, <2>2, <2>3, <2>4
<1>8. ASSUME follows, <<p, field>> \notin IntoAnImport(Candidates_) PROVE back
  <2>1. PICK r \in refs(p) : r.field = field /\ r.other.found /\ evaluate_reached_target(r.other, AtPath(q)).holds
    BY <1>2, <1>3, <1>8
  <2>2. r.other.project = Home
    BY <1>8, <2>1 DEF IntoAnImport
  <2>3. r.other.path = q
    BY <2>1, <2>2, ReachedAt
  <2>4. PICK i \in incoming_refs : i.holder = p /\ i.reference = r
    BY <1>6
  <2>5. i \in ArrowsTo(d, q)
    BY <1>1, <2>1, <2>2, <2>3, <2>4 DEF ArrowsTo, is_same_document
  <2> QED
    BY <1>2, <1>4, <1>8, <2>4, <2>5
<1> QED
  BY <1>7, <1>8 DEF follows, back, c, d

\* The first half of ListAnswers: conditions, their opposites and the arrows agree.
LEMMA ListsAgreeOn == ListsAgree(Candidates_)
<1> SUFFICES ASSUME NEW says, says = [condition \in Conditions(Candidates_) |-> Only(condition)]
             PROVE  ConditionsAgree(Candidates_, says, DanglingAt(Candidates_), IntoAnImport(Candidates_))
  BY DEF ListsAgree
<1> DEFINE all == Conditions(Candidates_)
<1>1. \A condition \in all : says[condition] = Only(condition)
  OBVIOUS
<1>2. /\ \A plain \in Plains : plain \in all /\ Opposite(plain) \in all
      /\ \A field \in Arrows, dir \in {"ref", "refby"} :
           /\ \A plain \in Plains : /\ Arrow_(dir, "all", field, <<plain>>) \in all
                                    /\ Arrow_(dir, "any", field, <<Opposite(plain)>>) \in all
           /\ Arrow_(dir, "any", field, <<>>) \in all /\ Arrow_(dir, "none", field, <<>>) \in all
           /\ \A p \in Candidates_ : Arrow_(dir, "any", field, <<AtPath(p)>>) \in all
  <2> DEFINE opposites == {Opposite(plain) : plain \in Plains}
             Of(quant, inners) == {Arrow_(dir, quant, field, inner) : dir \in {"ref", "refby"}, field \in Arrows, inner \in inners}
             alls == {<<plain>> : plain \in Plains}
             anys == {<<>>} \cup {<<plain>> : plain \in opposites} \cup {<<AtPath(p)>> : p \in Candidates_}
  <2>1. all = Plains \cup opposites \cup Of("all", alls) \cup Of("none", {<<>>}) \cup Of("any", anys)
    BY DEF Conditions
  <2>2. \A quant, inners : \A dir \in {"ref", "refby"}, field \in Arrows, inner \in inners :
          Arrow_(dir, quant, field, inner) \in Of(quant, inners)
    OBVIOUS
  <2>3. /\ \A plain \in Plains : Opposite(plain) \in opposites /\ <<plain>> \in alls
        /\ \A plain \in Plains : <<Opposite(plain)>> \in anys
        /\ \A p \in Candidates_ : <<AtPath(p)>> \in anys
        /\ <<>> \in anys
    OBVIOUS
  <2> HIDE DEF all, opposites, Of, alls, anys
  <2> QED
    BY <2>1, <2>2, <2>3
<1> HIDE DEF all
<1>3. ASSUME NEW plain \in Plains PROVE Parted(Candidates_, says[plain], says[Opposite(plain)])
  <2> DEFINE opposite == Opposite(plain)
  <2>1. plain.dir = None /\ opposite.dir = None /\ opposite.field = plain.field
    BY OppositeIs
  <2>2. \A p : Contrary(condition_matches(plain, SchemaOf(p), DocumentAt(p)), condition_matches(opposite, SchemaOf(p), DocumentAt(p)))
    BY MatchesContrary
  <2> HIDE DEF opposite
  <2>3. ~IsRefCondition(plain) /\ ~IsRefCondition(opposite)
    BY <2>1 DEF IsRefCondition
  <2>4. InScopes(plain) <=> InScopes(opposite)
    BY <2>1, <2>3 DEF InScopes, InScope
  <2>5. \A p : Contrary(Met(plain, p), Met(opposite, p))
    BY <2>2, <2>3 DEF Met, Asked
  <2>6. Parted(Candidates_, Only(plain), Only(opposite))
    BY <2>4, <2>5, PartedIs
  <2> QED
    BY <1>1, <1>2, <2>6 DEF opposite
<1>4. ASSUME NEW field \in Arrows
      PROVE  LET On(dir, quant, inner) == says[Arrow_(dir, quant, field, inner)]
             IN  /\ \A plain \in Plains, dir \in {"ref", "refby"} :
                      Parted(Candidates_, On(dir, "all", <<plain>>), On(dir, "any", <<Opposite(plain)>>))
                 /\ \A dir \in {"ref", "refby"} : Parted(Candidates_, On(dir, "any", <<>>), On(dir, "none", <<>>))
                 /\ On("ref", "any", <<>>).dangling = {d \in DanglingAt(Candidates_) : d.field = field}
                 /\ \A p, q \in Candidates_ :
                      LET follows == p \in On("ref", "any", <<AtPath(q)>>).documents
                          back == q \in On("refby", "any", <<AtPath(p)>>).documents
                      IN  (back => follows) /\ (follows => back \/ <<p, field>> \in IntoAnImport(Candidates_))
  <2>1. \A plain \in Plains, dir \in {"ref", "refby"} :
          Parted(Candidates_, says[Arrow_(dir, "all", field, <<plain>>)], says[Arrow_(dir, "any", field, <<Opposite(plain)>>)])
    BY <1>1, <1>2, ArrowsPart
  <2>2. \A dir \in {"ref", "refby"} :
          Parted(Candidates_, says[Arrow_(dir, "any", field, <<>>)], says[Arrow_(dir, "none", field, <<>>)])
    BY <1>1, <1>2, AnyPart
  <2>3. says[Arrow_("ref", "any", field, <<>>)].dangling = {d \in DanglingAt(Candidates_) : d.field = field}
    BY <1>1, <1>2, DanglingIs
  <2>4. ASSUME NEW p \in Candidates_, NEW q \in Candidates_
        PROVE  LET follows == p \in says[Arrow_("ref", "any", field, <<AtPath(q)>>)].documents
                   back == q \in says[Arrow_("refby", "any", field, <<AtPath(p)>>)].documents
               IN  (back => follows) /\ (follows => back \/ <<p, field>> \in IntoAnImport(Candidates_))
    BY <1>1, <1>2, FollowsIs
  <2> QED
    BY <2>1, <2>2, <2>3, <2>4
<1> QED
  BY <1>3, <1>4 DEF ConditionsAgree

-----------------------------------------------------------------------------
(* The order of a list. A relation orders weakly what a sort key ranks:    *)
(* two that it does not tell apart stand alike to every other.             *)

Weak(P, R) ==
    /\ \A a, b \in P : ~(<<a, b>> \in R /\ <<b, a>> \in R)
    /\ \A a, b, c \in P : <<a, b>> \notin R /\ <<b, c>> \notin R => <<a, c>> \notin R

Differ(rel, n, a, b) == {i \in 1 .. n : <<a, b>> \in rel[i] \/ <<b, a>> \in rel[i]}
By(rel, n, rest, a, b) ==
    IF Differ(rel, n, a, b) = {} THEN <<a, b>> \in rest ELSE <<a, b>> \in rel[Min(Differ(rel, n, a, b))]

LEMMA WeakFacts ==
    ASSUME NEW P, NEW R, Weak(P, R), NEW a \in P, NEW b \in P, NEW c \in P
    PROVE  /\ <<a, b>> \in R /\ <<b, c>> \in R => <<a, c>> \in R
           /\ <<a, b>> \in R /\ <<b, c>> \notin R /\ <<c, b>> \notin R => <<a, c>> \in R
           /\ <<b, c>> \in R /\ <<a, b>> \notin R /\ <<b, a>> \notin R => <<a, c>> \in R
           /\ <<a, b>> \notin R /\ <<b, a>> \notin R /\ <<b, c>> \notin R /\ <<c, b>> \notin R
                => <<a, c>> \notin R /\ <<c, a>> \notin R
BY Zenon DEF Weak

\* One key after another, then the rest: the order is weak when each of them is.
LEMMA OneAfterAnother ==
    ASSUME NEW P, NEW n \in Nat, NEW rel, \A i \in 1 .. n : Weak(P, rel[i]), NEW rest, Weak(P, rest)
    PROVE  /\ \A a, b \in P : ~(By(rel, n, rest, a, b) /\ By(rel, n, rest, b, a))
           /\ \A a, b \in P : \/ By(rel, n, rest, a, b)
                              \/ By(rel, n, rest, b, a)
                              \/ <<a, b>> \notin rest /\ <<b, a>> \notin rest
           /\ \A a, b, c \in P : By(rel, n, rest, a, b) /\ By(rel, n, rest, b, c) => By(rel, n, rest, a, c)
<1> DEFINE D(a, b) == Differ(rel, n, a, b)
           B(a, b) == By(rel, n, rest, a, b)
<1>1. \A a, b : D(a, b) = D(b, a) /\ D(a, b) \subseteq 1 .. n /\ D(a, b) \subseteq Nat
  BY DEF Differ
<1>2. \A a, b : D(a, b) # {} => Min(D(a, b)) \in D(a, b) /\ \A k \in D(a, b) : Min(D(a, b)) <= k
  <2> TAKE a, b
  <2> DEFINE T == D(a, b)
  <2>1. T \subseteq Nat
    BY <1>1
  <2> HIDE DEF T
  <2>2. T # {} => Min(T) \in T /\ \A k \in T : Min(T) <= k
    BY <2>1, MinNat
  <2> QED
    BY <2>2 DEF T
<1>3. \A a, b, i : i \in D(a, b) <=> i \in 1 .. n /\ (<<a, b>> \in rel[i] \/ <<b, a>> \in rel[i])
  BY DEF Differ
<1>4. \A a, b : B(a, b) <=> IF D(a, b) = {} THEN <<a, b>> \in rest ELSE <<a, b>> \in rel[Min(D(a, b))]
  BY DEF By
<1> HIDE DEF D, B
<1>5. ASSUME NEW a \in P, NEW b \in P, B(a, b), B(b, a) PROVE FALSE
  <2>1. CASE D(a, b) = {}
    <3>1. <<a, b>> \in rest /\ <<b, a>> \in rest
      BY <1>1, <1>4, <1>5, <2>1
    <3> QED
      BY <3>1 DEF Weak
  <2>2. CASE D(a, b) # {}
    <3> DEFINE i == Min(D(a, b))
    <3>1. i \in 1 .. n /\ <<a, b>> \in rel[i] /\ <<b, a>> \in rel[i]
      BY <1>1, <1>2, <1>3, <1>4, <1>5, <2>2
    <3> HIDE DEF i
    <3> QED
      BY <3>1 DEF Weak
  <2> QED
    BY <2>1, <2>2
<1>6. ASSUME NEW a \in P, NEW b \in P, ~B(a, b), ~B(b, a) PROVE <<a, b>> \notin rest /\ <<b, a>> \notin rest
  <2>1. D(a, b) = {}
    <3> SUFFICES ASSUME D(a, b) # {} PROVE FALSE
      OBVIOUS
    <3>1. D(b, a) = D(a, b)
      BY <1>1
    <3>2. Min(D(a, b)) \in D(a, b)
      BY <1>2
    <3> QED
      BY <1>3, <1>4, <1>6, <3>1, <3>2
  <2> QED
    BY <1>1, <1>4, <1>6, <2>1
<1>7. ASSUME NEW a \in P, NEW b \in P, NEW c \in P, B(a, b), B(b, c) PROVE B(a, c)
  <2> DEFINE T == D(a, b) \cup D(b, c)
  <2>1. CASE T = {}
    <3>1. D(a, b) = {} /\ D(b, c) = {}
      BY <2>1
    <3>2. <<a, b>> \in rest /\ <<b, c>> \in rest
      BY <1>4, <1>7, <3>1
    <3>3. D(a, c) = {}
      <4> SUFFICES ASSUME NEW i \in D(a, c) PROVE FALSE
        OBVIOUS
      <4>1. i \in 1 .. n /\ (<<a, c>> \in rel[i] \/ <<c, a>> \in rel[i])
        BY <1>3
      <4>2. <<a, b>> \notin rel[i] /\ <<b, a>> \notin rel[i] /\ <<b, c>> \notin rel[i] /\ <<c, b>> \notin rel[i]
        BY <1>3, <3>1, <4>1
      <4> QED
        BY <4>1, <4>2, WeakFacts
    <3>4. <<a, c>> \in rest
      BY <3>2, WeakFacts
    <3> QED
      BY <1>4, <3>3, <3>4
  <2>2. CASE T # {}
    <3>1. T \subseteq Nat
      BY <1>1
    <3>2. PICK m \in T : \A k \in T : m <= k
      BY <2>2, <3>1, LeastNat
    <3>3. m \in Nat /\ m \in 1 .. n /\ D(a, b) \subseteq T /\ D(b, c) \subseteq T
      BY <1>1, <3>1
    <3>4. ASSUME NEW x \in P, NEW y \in P, D(x, y) \subseteq T, B(x, y)
          PROVE  \/ <<x, y>> \in rel[m]
                 \/ <<x, y>> \notin rel[m] /\ <<y, x>> \notin rel[m]
      <4>1. CASE m \in D(x, y)
        <5>1. Min(D(x, y)) \in D(x, y) /\ Min(D(x, y)) <= m
          BY <1>2, <4>1
        <5>2. Min(D(x, y)) \in Nat /\ m <= Min(D(x, y))
          BY <3>1, <3>2, <3>4, <5>1
        <5>3. Min(D(x, y)) = m
          BY <3>3, <5>1, <5>2
        <5> QED
          BY <1>4, <3>4, <4>1, <5>3
      <4>2. CASE m \notin D(x, y)
        BY <1>3, <3>3, <4>2
      <4> QED
        BY <4>1, <4>2
    <3>5. <<a, b>> \in rel[m] \/ (<<a, b>> \notin rel[m] /\ <<b, a>> \notin rel[m])
      BY <1>7, <3>3, <3>4
    <3>6. <<b, c>> \in rel[m] \/ (<<b, c>> \notin rel[m] /\ <<c, b>> \notin rel[m])
      BY <1>7, <3>3, <3>4
    <3>7. <<a, b>> \in rel[m] \/ <<b, c>> \in rel[m]
      BY <1>3, <3>2, <3>5, <3>6
    <3>8. <<a, c>> \in rel[m]
      BY <3>3, <3>5, <3>6, <3>7, WeakFacts
    <3>9. ASSUME NEW i \in D(a, c) PROVE m <= i
      <4> SUFFICES ASSUME ~(m <= i) PROVE FALSE
        OBVIOUS
      <4>1. i \in 1 .. n /\ (<<a, c>> \in rel[i] \/ <<c, a>> \in rel[i])
        BY <1>3
      <4>2. i \notin T
        BY <3>2
      <4>3. <<a, b>> \notin rel[i] /\ <<b, a>> \notin rel[i] /\ <<b, c>> \notin rel[i] /\ <<c, b>> \notin rel[i]
        BY <1>3, <4>1, <4>2
      <4> QED
        BY <4>1, <4>3, WeakFacts
    <3>10. m \in D(a, c)
      BY <1>3, <3>3, <3>8
    <3>11. Min(D(a, c)) = m
      <4>1. Min(D(a, c)) \in D(a, c) /\ Min(D(a, c)) <= m
        BY <1>2, <3>10
      <4>2. m <= Min(D(a, c)) /\ Min(D(a, c)) \in Nat
        BY <1>1, <3>9, <4>1
      <4> QED
        BY <3>3, <4>1, <4>2
    <3> QED
      BY <1>4, <3>8, <3>10, <3>11
  <2> QED
    BY <2>1, <2>2
<1> QED
  BY <1>5, <1>6, <1>7 DEF B

-----------------------------------------------------------------------------
(* The values that sort keys have, and what they are worth.                *)

\* The kinds of value a sort key has in the documents of one collection.
NumberTypes == {"number", "bool", "enum"}
InstantTypes == {"date", "datetime"}
Kinds ==
    {{ByNumber(type, n) : n \in Int} : type \in NumberTypes}
    \cup {{ByInstant(type, t) : t \in Int \X Int} : type \in InstantTypes}
    \cup {{ByText(t) : t \in Texts_}, {[sort |-> "key", at |-> t, number |-> n] : t \in Texts_, n \in Int}}
AmongThem(K) == {pair \in K \X K : same_type_before(pair[1], pair[2])}

LEMMA NumbersOrder ==
    /\ \A a, b \in Int : ~(a < b /\ b < a)
    /\ \A a, b, c \in Int : ~(a < b) /\ ~(b < c) => ~(a < c)
OBVIOUS

LEMMA TextsOrder ==
    /\ \A a, b \in Texts_ : ~(TextBefore(a, b) /\ TextBefore(b, a))
    /\ \A a, b, c \in Texts_ : ~TextBefore(a, b) /\ ~TextBefore(b, c) => ~TextBefore(a, c)
BY BeforeIsOrder

LEMMA KindOrders ==
    ASSUME NEW K \in Kinds
    PROVE  /\ \A x, y \in K : ~(same_type_before(x, y) /\ same_type_before(y, x))
           /\ \A x, y, z \in K : ~same_type_before(x, y) /\ ~same_type_before(y, z) => ~same_type_before(x, z)
           /\ \A x \in K : x # Missing
<1> DEFINE Orders == /\ \A x, y \in K : ~(same_type_before(x, y) /\ same_type_before(y, x))
                     /\ \A x, y, z \in K : ~same_type_before(x, y) /\ ~same_type_before(y, z) => ~same_type_before(x, z)
                     /\ \A x \in K : x # Missing
           ByKey(t, n) == [sort |-> "key", at |-> t, number |-> n]
<1>1. /\ \A type, n : ByNumber(type, n).sort = type /\ ByNumber(type, n).at = n
      /\ \A type, t : ByInstant(type, t).sort = type /\ ByInstant(type, t).at = t
      /\ \A t : ByText(t).sort = "text" /\ ByText(t).at = t
      /\ \A t, n : ByKey(t, n).sort = "key" /\ ByKey(t, n).at = t /\ ByKey(t, n).number = n
      /\ Missing.sort = "missing"
  BY DEF ByNumber, ByInstant, ByText, Missing
<1> HIDE DEF ByKey
<1>2. ASSUME NEW type \in NumberTypes, K = {ByNumber(type, n) : n \in Int} PROVE Orders
  <2>1. \A x \in K : x.sort = type /\ x.at \in Int
    BY <1>1, <1>2
  <2>2. \A x, y \in K : same_type_before(x, y) <=> x.at < y.at
    BY <2>1 DEF same_type_before, NumberTypes
  <2>3. \A x \in K : x # Missing
    BY <1>1, <2>1 DEF NumberTypes
  <2> QED
    BY <2>1, <2>2, <2>3, NumbersOrder
<1>3. ASSUME NEW type \in InstantTypes, K = {ByInstant(type, t) : t \in Int \X Int} PROVE Orders
  <2>1. \A x \in K : x.sort = type /\ x.at \in Int \X Int
    BY <1>1, <1>3
  <2>2. \A x, y \in K : same_type_before(x, y) <=> Before(x.at, y.at)
    BY <2>1 DEF same_type_before, InstantTypes
  <2>4. \A x \in K : x # Missing
    BY <1>1, <2>1 DEF InstantTypes
  <2>3. /\ \A a, b \in Int \X Int : ~(Before(a, b) /\ Before(b, a))
        /\ \A a, b, c \in Int \X Int : ~Before(a, b) /\ ~Before(b, c) => ~Before(a, c)
    BY DEF Before
  <2> QED
    BY <2>1, <2>2, <2>3, <2>4
<1>4. CASE K = {ByText(t) : t \in Texts_}
  <2>1. \A x \in K : x.sort = "text" /\ x.at \in Texts_
    BY <1>1, <1>4
  <2>2. \A x, y \in K : same_type_before(x, y) <=> TextBefore(x.at, y.at)
    BY <2>1 DEF same_type_before
  <2> QED
    BY <1>1, <2>1, <2>2, TextsOrder
<1>5. CASE K = {ByKey(t, n) : t \in Texts_, n \in Int}
  <2>1. \A x \in K : x.sort = "key" /\ x.at \in Texts_ /\ x.number \in Int
    BY <1>1, <1>5
  <2>2. \A x, y \in K : same_type_before(x, y) <=> TextBefore(x.at, y.at) \/ (x.at = y.at /\ x.number < y.number)
    BY <2>1 DEF same_type_before
  <2>3. ASSUME NEW x \in K, NEW y \in K, NEW z \in K, ~same_type_before(x, y), ~same_type_before(y, z)
        PROVE  ~same_type_before(x, z)
    <3>1. x.at \in Texts_ /\ y.at \in Texts_ /\ z.at \in Texts_ /\ x.number \in Int /\ y.number \in Int /\ z.number \in Int
      BY <2>1
    <3>2. /\ ~TextBefore(x.at, y.at) /\ ~(x.at = y.at /\ x.number < y.number)
          /\ ~TextBefore(y.at, z.at) /\ ~(y.at = z.at /\ y.number < z.number)
      BY <2>2, <2>3
    <3>3. ~TextBefore(x.at, z.at)
      BY <3>1, <3>2, TextsOrder
    <3>4. x.at = z.at => x.at = y.at
      BY <3>1, <3>2, BeforeIsOrder
    <3> QED
      BY <2>2, <3>1, <3>2, <3>3, <3>4
  <2>4. ASSUME NEW x \in K, NEW y \in K, same_type_before(x, y), same_type_before(y, x) PROVE FALSE
    <3>1. x.at \in Texts_ /\ y.at \in Texts_ /\ x.number \in Int /\ y.number \in Int
      BY <2>1
    <3>2. /\ TextBefore(x.at, y.at) \/ (x.at = y.at /\ x.number < y.number)
          /\ TextBefore(y.at, x.at) \/ (y.at = x.at /\ y.number < x.number)
      BY <2>2, <2>4
    <3> QED
      BY <3>1, <3>2, TextsOrder
  <2> QED
    BY <1>1, <2>1, <2>3, <2>4
<1> QED
  BY <1>2, <1>3, <1>4, <1>5 DEF Kinds, ByKey

\* A run of m steps within a set exists, and a run stays where its steps do.
Runs(f, T, m, init, step) ==
    /\ f = [n \in 0 .. m |-> f[n]]
    /\ f[0] = init /\ \A n \in 1 .. m : f[n - 1] \in T /\ f[n] = step[<<n, f[n - 1]>>]

LEMMA RunIn ==
    ASSUME NEW T, NEW m \in Nat, NEW init \in T, NEW step, \A n \in 1 .. m, x \in T : step[<<n, x>>] \in T
    PROVE  \E f : Runs(f, T, m, init, step)
<1> DEFINE Is(f, k) == /\ f = [n \in 0 .. k |-> f[n]]
                       /\ f[0] = init /\ f[k] \in T
                       /\ \A n \in 1 .. k : f[n - 1] \in T /\ f[n] = step[<<n, f[n - 1]>>]
           S == {k \in Nat : k <= m => \E f : Is(f, k)}
<1>1. 0 \in S
  <2> DEFINE f == [n \in 0 .. 0 |-> init]
  <2>1. Is(f, 0)
    OBVIOUS
  <2> HIDE DEF Is, f
  <2> QED
    BY <2>1
<1>2. ASSUME NEW k \in Nat, k \in S PROVE k + 1 \in S
  <2> SUFFICES ASSUME k + 1 <= m PROVE \E f : Is(f, k + 1)
    OBVIOUS
  <2>1. PICK f : Is(f, k)
    BY <1>2
  <2>2. f[0] = init /\ f[k] \in T /\ \A n \in 1 .. k : f[n - 1] \in T /\ f[n] = step[<<n, f[n - 1]>>]
    BY <2>1
  <2> DEFINE x == step[<<k + 1, f[k]>>]
             g == [n \in 0 .. k + 1 |-> IF n = k + 1 THEN x ELSE f[n]]
  <2>3. x \in T
    <3>1. k + 1 \in 1 .. m
      OBVIOUS
    <3> QED
      BY <2>2, <3>1
  <2> HIDE DEF x
  <2>4. g[k + 1] = x /\ \A n \in 0 .. k : g[n] = f[n]
    OBVIOUS
  <2>5. g = [n \in 0 .. k + 1 |-> g[n]]
    OBVIOUS
  <2> HIDE DEF g
  <2>6. ASSUME NEW n \in 1 .. k + 1 PROVE g[n - 1] \in T /\ g[n] = step[<<n, g[n - 1]>>]
    <3>1. CASE n = k + 1
      <4>1. n - 1 = k /\ k \in 0 .. k
        BY <3>1
      <4> QED
        BY <2>2, <2>4, <3>1, <4>1 DEF x
    <3>2. CASE n # k + 1
      <4>1. n \in 1 .. k /\ n \in 0 .. k /\ n - 1 \in 0 .. k
        BY <3>2
      <4> QED
        BY <2>2, <2>4, <4>1
    <3> QED
      BY <3>1, <3>2
  <2>7. Is(g, k + 1)
    <3>1. g[0] = init
      BY <2>2, <2>4
    <3> QED
      BY <2>3, <2>4, <2>5, <2>6, <3>1
  <2> HIDE DEF Is
  <2> QED
    BY <2>7
<1>3. m \in S
  <2> HIDE DEF S
  <2> QED
    BY <1>1, <1>2, ByNat
<1>4. PICK f : Is(f, m)
  BY <1>3
<1>5. Runs(f, T, m, init, step)
  BY <1>4 DEF Runs
<1> QED
  BY <1>5

LEMMA StaysIn ==
    ASSUME NEW T, NEW m \in Nat, NEW f, f[0] \in T, \A n \in 1 .. m : f[n - 1] \in T => f[n] \in T
    PROVE  f[m] \in T
<1> DEFINE S == {k \in Nat : k <= m => f[k] \in T}
<1>1. 0 \in S
  OBVIOUS
<1>2. ASSUME NEW k \in Nat, k \in S PROVE k + 1 \in S
  <2> SUFFICES ASSUME k + 1 <= m PROVE f[k + 1] \in T
    OBVIOUS
  <2>1. k + 1 \in 1 .. m /\ (k + 1) - 1 = k /\ f[k] \in T
    BY <1>2
  <2> QED
    BY <2>1
<1>3. m \in S
  <2> HIDE DEF S
  <2> QED
    BY <1>1, <1>2, ByNat
<1> QED
  BY <1>3

LEMMA JoinIs ==
    ASSUME NEW texts \in Seq(Texts_), NEW sep \in Texts_
    PROVE  JoinBy(texts, sep) \in Texts_
<1> DEFINE m == Len(texts)
           Run(f) == f = [n \in 0 .. Len(texts) |-> IF n = 0 THEN <<>> ELSE JoinAt(f[n - 1], texts, n, sep)]
           joined == CHOOSE f : Run(f)
           step == [pair \in (1 .. m) \X Texts_ |-> JoinAt(pair[2], texts, pair[1], sep)]
<1>1. JoinBy(texts, sep) = joined[m]
  BY DEF JoinBy
<1>2. m \in Nat /\ \A n \in 1 .. m : texts[n] \in Texts_
  BY LenProperties, ElementOfSeq
<1>3. <<>> \in Texts_ /\ \A a, b \in Texts_ : a \o b \in Texts_
  BY ConcatProperties DEF Texts_
<1>4. ASSUME NEW n \in 1 .. m, NEW x \in Texts_ PROVE JoinAt(x, texts, n, sep) \in Texts_
  <2>1. x \o sep \in Texts_ /\ texts[n] \in Texts_
    BY <1>2, <1>3
  <2> QED
    BY <1>3, <2>1 DEF JoinAt
<1>5. \A n \in 1 .. m, x \in Texts_ : step[<<n, x>>] = JoinAt(x, texts, n, sep) /\ step[<<n, x>>] \in Texts_
  BY <1>4
<1> HIDE DEF m, step
<1>0. PICK f : Runs(f, Texts_, m, <<>>, step)
  <2>1. m \in Nat /\ <<>> \in Texts_ /\ \A n \in 1 .. m, x \in Texts_ : step[<<n, x>>] \in Texts_
    BY <1>2, <1>3, <1>5
  <2> QED
    BY <2>1, RunIn
<1>6. /\ f = [n \in 0 .. m |-> f[n]]
      /\ f[0] = <<>> /\ \A n \in 1 .. m : f[n - 1] \in Texts_ /\ f[n] = step[<<n, f[n - 1]>>]
  BY <1>0 DEF Runs
<1>7. f = [n \in 0 .. m |-> IF n = 0 THEN <<>> ELSE JoinAt(f[n - 1], texts, n, sep)]
  <2>1. ASSUME NEW n \in 0 .. m PROVE f[n] = IF n = 0 THEN <<>> ELSE JoinAt(f[n - 1], texts, n, sep)
    <3>1. n = 0 \/ n \in 1 .. m
      BY <1>2
    <3> QED
      BY <1>5, <1>6, <3>1
  <2> QED
    BY <1>6, <2>1
<1>8. Run(joined)
  <2>1. Run(f)
    BY <1>7 DEF m
  <2> HIDE DEF Run
  <2> QED
    BY <2>1
<1> HIDE DEF joined
<1>9. joined[0] = <<>> /\ \A n \in 1 .. m : joined[n] = JoinAt(joined[n - 1], texts, n, sep)
  <2>1. joined = [n \in 0 .. m |-> IF n = 0 THEN <<>> ELSE JoinAt(joined[n - 1], texts, n, sep)]
    BY <1>8 DEF m
  <2>2. 0 \in 0 .. m /\ \A n \in 1 .. m : n \in 0 .. m /\ n # 0
    BY <1>2
  <2> QED
    BY <2>1, <2>2
<1>10. joined[m] \in Texts_
  <2>1. joined[0] \in Texts_ /\ \A n \in 1 .. m : joined[n - 1] \in Texts_ => joined[n] \in Texts_
    BY <1>3, <1>4, <1>9
  <2>2. m \in Nat
    BY <1>2
  <2> QED
    BY <2>1, <2>2, StaysIn
<1> QED
  BY <1>1, <1>10

LEMMA NumberIs == \A d \in Digits : NumberValue[d] \in Int
<1>1. \A d \in Digits : \E n \in 0 .. 2 : d = <<"0", "1", "2">>[n + 1]
  <2>1. /\ "0" = <<"0", "1", "2">>[0 + 1] /\ "1" = <<"0", "1", "2">>[1 + 1] /\ "2" = <<"0", "1", "2">>[2 + 1]
    OBVIOUS
  <2>2. 0 \in 0 .. 2 /\ 1 \in 0 .. 2 /\ 2 \in 0 .. 2
    OBVIOUS
  <2> QED
    BY <2>1, <2>2 DEF Digits
<1>2. ASSUME NEW d \in Digits PROVE NumberValue[d] \in Int
  <2> DEFINE chosen == CHOOSE n \in 0 .. 2 : d = <<"0", "1", "2">>[n + 1]
  <2>1. chosen \in 0 .. 2
    BY <1>1
  <2>2. NumberValue[d] = chosen
    BY DEF NumberValue
  <2> HIDE DEF chosen
  <2> QED
    BY <2>1, <2>2
<1> QED
  BY <1>2

LEMMA KeyNumberIs ==
    ASSUME NEW digits \in Seq(Digits)
    PROVE  KeyNumber(digits) \in Int
<1> DEFINE m == Len(digits)
           Up(x, n) == 10 * x + NumberValue[digits[n]]
           Run(f) == f = [n \in 0 .. Len(digits) |-> IF n = 0 THEN 0 ELSE 10 * f[n - 1] + NumberValue[digits[n]]]
           number == CHOOSE f : Run(f)
           step == [pair \in (1 .. m) \X Int |-> Up(pair[2], pair[1])]
<1>1. KeyNumber(digits) = number[m]
  BY DEF KeyNumber
<1>2. m \in Nat /\ \A n \in 1 .. m : digits[n] \in Digits
  BY LenProperties, ElementOfSeq
<1>4. ASSUME NEW n \in 1 .. m, NEW x \in Int PROVE Up(x, n) \in Int
  <2>1. NumberValue[digits[n]] \in Int
    BY <1>2, NumberIs
  <2> QED
    BY <2>1
<1> HIDE DEF Up
<1>5. \A n \in 1 .. m, x \in Int : step[<<n, x>>] = Up(x, n) /\ step[<<n, x>>] \in Int
  BY <1>4
<1> HIDE DEF m, step
<1>0. PICK f : Runs(f, Int, m, 0, step)
  <2>1. m \in Nat /\ 0 \in Int /\ \A n \in 1 .. m, x \in Int : step[<<n, x>>] \in Int
    BY <1>2, <1>5
  <2> QED
    BY <2>1, RunIn
<1>6. /\ f = [n \in 0 .. m |-> f[n]]
      /\ f[0] = 0 /\ \A n \in 1 .. m : f[n - 1] \in Int /\ f[n] = step[<<n, f[n - 1]>>]
  BY <1>0 DEF Runs
<1>7. f = [n \in 0 .. m |-> IF n = 0 THEN 0 ELSE Up(f[n - 1], n)]
  <2>1. ASSUME NEW n \in 0 .. m PROVE f[n] = IF n = 0 THEN 0 ELSE Up(f[n - 1], n)
    <3>1. n = 0 \/ n \in 1 .. m
      BY <1>2
    <3> QED
      BY <1>5, <1>6, <3>1
  <2> QED
    BY <1>6, <2>1
<1>8. Run(number)
  <2>1. Run(f)
    BY <1>7 DEF m, Up
  <2> HIDE DEF Run
  <2> QED
    BY <2>1
<1> HIDE DEF number
<1>9. number[0] = 0 /\ \A n \in 1 .. m : number[n] = Up(number[n - 1], n)
  <2>1. number = [n \in 0 .. m |-> IF n = 0 THEN 0 ELSE Up(number[n - 1], n)]
    BY <1>8 DEF m, Up
  <2>2. 0 \in 0 .. m /\ \A n \in 1 .. m : n \in 0 .. m /\ n # 0
    BY <1>2
  <2> QED
    BY <2>1, <2>2
<1>10. number[m] \in Int
  <2>1. number[0] \in Int /\ \A n \in 1 .. m : number[n - 1] \in Int => number[n] \in Int
    <3>1. ASSUME NEW n \in 1 .. m, number[n - 1] \in Int PROVE number[n] \in Int
      <4> DEFINE x == number[n - 1]
      <4>1. number[n] = Up(x, n)
        BY <1>9
      <4>2. x \in Int
        BY <3>1
      <4> HIDE DEF x
      <4> QED
        BY <1>4, <4>1, <4>2
    <3>2. number[0] \in Int
      BY <1>9
    <3> QED
      BY <3>1, <3>2
  <2>2. m \in Nat
    BY <1>2
  <2> QED
    BY <2>1, <2>2, StaysIn
<1> QED
  BY <1>1, <1>10

\* The value of a key: a text and a number.
LEMMA KeyValueIs ==
    ASSUME NEW key \in Texts_
    PROVE  \E t \in Texts_, n \in Int : key_sort_value(key) = [sort |-> "key", at |-> t, number |-> n]
<1> DEFINE len == Len(key)
           T == {n \in 0 .. Len(key) : \A i \in Len(key) - n + 1 .. Len(key) : key[i] \in Digits}
           d == Max(T)
<1>1. len \in Nat /\ \A i \in 1 .. len : key[i] \in ToSet(Alphabet)
  BY LenProperties, ElementOfSeq DEF Texts_
<1>2. T \subseteq 0 .. len /\ 0 \in T
  BY <1>1
<1>3. d \in T
  <2> DEFINE U == {len - n : n \in T}
  <2>1. U \subseteq Nat /\ U # {}
    BY <1>1, <1>2
  <2> HIDE DEF U
  <2>2. PICK u \in U : \A k \in U : u <= k
    BY <2>1, LeastNat
  <2>3. PICK n \in T : u = len - n
    BY DEF U
  <2>4. \A k \in T : len - k \in U
    BY DEF U
  <2> HIDE DEF T
  <2>5. \A k \in T : n >= k
    <3> SUFFICES ASSUME NEW k \in T PROVE n >= k
      OBVIOUS
    <3>1. len - n <= len - k
      BY <2>2, <2>3, <2>4
    <3>2. n \in Int /\ k \in Int
      BY <1>2
    <3> QED
      BY <1>1, <3>1, <3>2
  <2> QED
    BY <2>5 DEF Max
<1>4. d \in 0 .. len /\ \A i \in len - d + 1 .. len : key[i] \in Digits
  BY <1>3
<1> HIDE DEF T, d
<1>5. SubSeq(key, 1, len - d) \in Texts_
  <2>1. 1 \in Int /\ len - d \in Int /\ \A i \in 1 .. len - d : key[i] \in ToSet(Alphabet)
    BY <1>1, <1>4
  <2> QED
    BY <2>1, SubSeqProperties DEF Texts_
<1>6. SubSeq(key, len - d + 1, len) \in Seq(Digits)
  <2>1. len - d + 1 \in Int /\ len \in Int /\ \A i \in len - d + 1 .. len : key[i] \in Digits
    BY <1>1, <1>4
  <2> QED
    BY <2>1, SubSeqProperties
<1> DEFINE x == KeyNumber(SubSeq(key, len - d + 1, len))
           n == IF d = 0 \/ x > LargestNumber THEN NoNumber ELSE x
<1>7. n \in Int
  <2>1. x \in Int
    BY <1>6, KeyNumberIs
  <2> HIDE DEF x
  <2> QED
    BY <2>1 DEF NoNumber
<1>8. key_sort_value(key) = [sort |-> "key", at |-> SubSeq(key, 1, len - d), number |-> n]
  BY DEF key_sort_value, d, T
<1> HIDE DEF n
<1> QED
  BY <1>5, <1>7, <1>8

\* A value of a type was read as one.
LEMMA TypedAsRead ==
    ASSUME NEW file, FileType(file), NEW schema, NEW i \in DOMAIN ReadFields(file, schema)
    PROVE  LET value == ReadFields(file, schema)[i].value
           IN  /\ value.type = "Number" => IsNumber(value.items[1])
               /\ value.type = "Date" => date(value.items[1])
               /\ value.type = "Datetime" => datetime(value.items[1])
<1> DEFINE e == file.entries[i]
           shaped == ShapeValue(e)
           value == ReadFields(file, schema)[i].value
           text == shaped.items[1]
<1>1. value = IF Declares(schema, e.name) THEN coerce(Declared(schema, e.name).kind, shaped) ELSE shaped
  BY DEF ReadFields
<1>2. shaped.type \in {"Text", "Empty", "List"} /\ (shaped.type = "Text" => shaped = [type |-> "Text", items |-> <<e.items[1]>>])
  BY DEF ShapeValue, ListValue, EmptyValue, TextValue
<1> HIDE DEF value, shaped
<1>3. ASSUME NEW kind
      PROVE  /\ coerce(kind, shaped).type = "Number" => IsNumber(coerce(kind, shaped).items[1])
             /\ coerce(kind, shaped).type = "Date" => date(coerce(kind, shaped).items[1])
             /\ coerce(kind, shaped).type = "Datetime" => datetime(coerce(kind, shaped).items[1])
  <2>1. CASE shaped.type # "Text"
    BY <1>2, <2>1 DEF coerce
  <2>2. CASE shaped.type = "Text"
    <3>1. \A type : [shaped EXCEPT !.type = type].type = type /\ [shaped EXCEPT !.type = type].items[1] = text
      BY <1>2, <2>2
    <3>2. coerce(kind, shaped) =
            CASE kind = "number" /\ IsNumber(text) -> [shaped EXCEPT !.type = "Number"]
              [] kind = "bool" /\ text \in {<<"true">>, <<"false">>} -> [shaped EXCEPT !.type = "Bool"]
              [] kind = "date" /\ date(text) -> [shaped EXCEPT !.type = "Date"]
              [] kind = "datetime" /\ datetime(text) -> [shaped EXCEPT !.type = "Datetime"]
              [] OTHER -> shaped
      BY <2>2 DEF coerce
    <3> HIDE DEF text
    <3>3. CASE kind \notin {"number", "bool", "date", "datetime"}
      BY <2>2, <3>2, <3>3
    <3>4. CASE kind = "number"
      BY <2>2, <3>1, <3>2, <3>4
    <3>5. CASE kind = "bool"
      BY <2>2, <3>1, <3>2, <3>5
    <3>6. CASE kind = "date"
      BY <2>2, <3>1, <3>2, <3>6
    <3>7. CASE kind = "datetime"
      BY <2>2, <3>1, <3>2, <3>7
    <3> QED
      BY <3>3, <3>4, <3>5, <3>6, <3>7
  <2> QED
    BY <2>1, <2>2
<1>4. CASE Declares(schema, e.name)
  BY <1>1, <1>3, <1>4 DEF value
<1>5. CASE ~Declares(schema, e.name)
  BY <1>1, <1>2, <1>5 DEF value
<1> QED
  BY <1>4, <1>5

LEMMA InstantIs ==
    ASSUME NEW text, date(text) \/ datetime(text)
    PROVE  Instant(text) \in Int \X Int
<1>1. text[1] \in {"day1", "day2"}
  <2>1. \A x : (<<x>>)[1] = x
    OBVIOUS
  <2> QED
    BY <2>1 DEF date, datetime, DayValue
<1>2. DayValue[text[1]] \in Int
  BY <1>1 DEF DayValue
<1>3. Len(text) = 3 => NumberValue[text[3]] \in Int
  <2>1. Len(text) = 3 => text[3] \in Digits
    BY DEF date, datetime
  <2> QED
    BY <2>1, NumberIs
<1> QED
  BY <1>2, <1>3 DEF Instant

\* A value a sort key reads from a field, by the kind of the field.
KindOf(kind) ==
    CASE kind \in NumberTypes -> {ByNumber(kind, n) : n \in Int}
      [] kind \in InstantTypes -> {ByInstant(kind, t) : t \in Int \X Int}
      [] OTHER -> {ByText(t) : t \in Texts_}

LEMMA KindIs ==
    ASSUME NEW kind
    PROVE  /\ kind \in NumberTypes => KindOf(kind) = {ByNumber(kind, n) : n \in Int}
           /\ kind \in InstantTypes => KindOf(kind) = {ByInstant(kind, t) : t \in Int \X Int}
           /\ kind \notin NumberTypes \cup InstantTypes => KindOf(kind) = {ByText(t) : t \in Texts_}
<1> DEFINE N == {ByNumber(kind, n) : n \in Int}
           T == {ByInstant(kind, t) : t \in Int \X Int}
           X == {ByText(t) : t \in Texts_}
<1>1. KindOf(kind) = CASE kind \in NumberTypes -> N [] kind \in InstantTypes -> T [] OTHER -> X
  BY Zenon DEF KindOf
<1>2. kind \in NumberTypes => kind \notin InstantTypes
  BY DEF NumberTypes, InstantTypes
<1> HIDE DEF N, T, X
<1>3. /\ kind \in NumberTypes => KindOf(kind) = N
      /\ kind \in InstantTypes => KindOf(kind) = T
      /\ kind \notin NumberTypes \cup InstantTypes => KindOf(kind) = X
  BY <1>1, <1>2
<1> QED
  BY <1>3, Zenon DEF N, T, X

ValueRead(value) ==
    /\ value.type \in ValueTypes
    /\ value.items \in Seq(Texts_)
    /\ value.type \notin {"List", "Empty"} => value.items # <<>>
    /\ value.type = "Number" => IsNumber(value.items[1])
    /\ value.type = "Date" => date(value.items[1])
    /\ value.type = "Datetime" => datetime(value.items[1])

LEMMA NamedIs ==
    ASSUME NEW field, NEW value, ValueRead(value)
    PROVE  named_sort_value(field, value) = Missing \/ named_sort_value(field, value) \in KindOf(field.kind)
<1> DEFINE v == named_sort_value(field, value)
           kind == field.kind
<1>1. CASE kind = "enum"
  <2> DEFINE text == IF value.type = "Empty" THEN NoText ELSE value.items[1]
             I == {i \in 1 .. Len(field.values) : field.values[i] = text}
  <2>1. \/ v = Missing
        \/ Contains(field.values, text) /\ v = ByNumber(kind, SelectInSeq(field.values, LAMBDA x : x = text))
    BY <1>1 DEF named_sort_value
  <2>2. Contains(field.values, text) => SelectInSeq(field.values, LAMBDA x : x = text) = Min(I) /\ I # {}
    BY DEF Contains, SelectInSeq
  <2>3. I \subseteq Nat
    OBVIOUS
  <2>4. Contains(field.values, text) => Min(I) \in Int
    <3> HIDE DEF I
    <3>1. ASSUME I # {} PROVE Min(I) \in I
      BY <2>3, <3>1, MinNat
    <3> QED
      BY <2>2, <2>3, <3>1
  <2>5. KindOf(kind) = {ByNumber(kind, n) : n \in Int}
    BY <1>1, KindIs, Zenon DEF NumberTypes
  <2> HIDE DEF text, I, v
  <2>6. v = Missing \/ \E n \in Int : v = ByNumber(kind, n)
    BY <2>1, <2>2, <2>4
  <2> HIDE DEF kind
  <2>7. v = Missing \/ v \in KindOf(kind)
    BY <2>5, <2>6
  <2> QED
    BY <2>7 DEF v, kind
<1>2. CASE kind = "number"
  <2>1. v = IF value.type = "Number" THEN ByNumber(kind, NumberValue[value.items[1][1]]) ELSE Missing
    BY <1>2 DEF named_sort_value
  <2>2. value.type = "Number" => NumberValue[value.items[1][1]] \in Int
    <3>1. value.type = "Number" => value.items[1][1] \in Digits
      BY DEF ValueRead, IsNumber
    <3> QED
      BY <3>1, NumberIs
  <2>3. KindOf(kind) = {ByNumber(kind, n) : n \in Int}
    BY <1>2, KindIs, Zenon DEF NumberTypes
  <2> HIDE DEF kind, v
  <2>4. v = Missing \/ v \in KindOf(kind)
    BY <2>1, <2>2, <2>3
  <2> QED
    BY <2>4 DEF v, kind
<1>3. CASE kind = "bool"
  <2>1. v = IF value.type = "Bool" THEN ByNumber(kind, IF value.items[1] = <<"true">> THEN 1 ELSE 0) ELSE Missing
    BY <1>3 DEF named_sort_value
  <2>2. KindOf(kind) = {ByNumber(kind, n) : n \in Int}
    BY <1>3, KindIs, Zenon DEF NumberTypes
  <2> HIDE DEF kind, v
  <2>3. v = Missing \/ v \in KindOf(kind)
    <3>1. (IF value.items[1] = <<"true">> THEN 1 ELSE 0) \in Int
      OBVIOUS
    <3> QED
      BY <2>1, <2>2, <3>1
  <2> QED
    BY <2>3 DEF v, kind
<1>4. CASE kind \in {"date", "datetime"}
  <2>1. v = IF value.type = TypeNamed(kind) THEN ByInstant(kind, Instant(value.items[1])) ELSE Missing
    BY <1>4 DEF named_sort_value
  <2>2. TypeNamed(kind) \in {"Date", "Datetime"}
    BY <1>4 DEF TypeNamed
  <2>3. value.type = TypeNamed(kind) => Instant(value.items[1]) \in Int \X Int
    BY <2>2, InstantIs DEF ValueRead
  <2>4. KindOf(kind) = {ByInstant(kind, t) : t \in Int \X Int}
    BY <1>4, KindIs, Zenon DEF InstantTypes
  <2> QED
    BY <2>1, <2>3, <2>4
<1>5. CASE kind \notin {"enum", "number", "bool", "date", "datetime"}
  <2>1. v = CASE value.type = "List" -> ByText(JoinBy(value.items, <<",">>))
              [] value.type = "Empty" -> ByText(NoText)
              [] value.type = "Text" -> ByText(value.items[1])
              [] OTHER -> Missing
    BY <1>5 DEF named_sort_value
  <2>2. <<",">> \in Texts_ /\ NoText \in Texts_
    <3>1. "," \in ToSet(Alphabet)
      BY SortAssumption, Zenon
    <3> DEFINE A == ToSet(Alphabet)
    <3> HIDE DEF A
    <3>2. \A x \in A : <<x>> \in Seq(A)
      OBVIOUS
    <3>3. <<>> \in Seq(A)
      OBVIOUS
    <3> QED
      BY <3>1, <3>2, <3>3 DEF Texts_, NoText, A
  <2>3. JoinBy(value.items, <<",">>) \in Texts_
    BY <2>2, JoinIs DEF ValueRead
  <2>4. value.type = "Text" => value.items[1] \in Texts_
    BY ElementOfSeq, EmptySeq, LenProperties DEF ValueRead
  <2>5. KindOf(kind) = {ByText(t) : t \in Texts_}
    BY <1>5, KindIs, Zenon DEF NumberTypes, InstantTypes
  <2> QED
    BY <2>1, <2>2, <2>3, <2>4, <2>5
<1> QED
  BY <1>1, <1>2, <1>3, <1>4, <1>5

\* The documents of a collection, and what their sort keys are worth.
OfCollection(c) == {p \in Candidates_ : Entries[p].collection = c}

LEMMA ReadValue ==
    ASSUME DiskTyped, NEW p \in Candidates_, NEW field, HasField(FieldsOf(p), field)
    PROVE  ValueRead(FieldValue(FieldsOf(p), field))
<1> DEFINE fields == FieldsOf(p)
           i == FieldAt(fields, field)
           value == fields[i].value
<1>1. p \in DOMAIN Entries /\ Readable(disk[p]) /\ FileType(disk[p])
  BY DEF Candidates_, Candidates, Documents, HasFields, DiskTyped
<1>2. fields \in Seq(FieldSet)
  BY <1>1, ReadTyped DEF FieldsOf
<1>3. fields = ReadFields(disk[p], SchemaOf(p))
  BY DEF FieldsOf
<1> HIDE DEF fields
<1>4. DOMAIN fields \subseteq Nat
  BY <1>2, LenProperties
<1>5. i \in DOMAIN fields
  <2> DEFINE at == {j \in DOMAIN fields : fields[j].name = field}
  <2>1. at # {} /\ i = Min(at)
    <3>1. i # 0
      BY DEF HasField, fields
    <3> QED
      BY <3>1 DEF FieldAt
  <2>2. at \subseteq Nat /\ at \subseteq DOMAIN fields
    BY <1>4
  <2> HIDE DEF at, i
  <2>3. Min(at) \in at
    BY <2>1, <2>2, MinNat
  <2> QED
    BY <2>1, <2>2, <2>3
<1> HIDE DEF i
<1>6. fields[i] \in FieldSet
  BY <1>2, <1>5, ElementOfSeq, LenProperties
<1>7. /\ value.type \in ValueTypes /\ value.items \in Seq(Written)
      /\ value.type \notin {"List", "Empty"} => value.items # <<>>
  BY <1>6 DEF FieldSet
<1>8. value.items \in Seq(Texts_)
  <2>1. Written \subseteq Texts_
    BY SortAssumption, Zenon DEF Texts_
  <2> QED
    BY <1>7, <2>1
<1>9. /\ value.type = "Number" => IsNumber(value.items[1])
      /\ value.type = "Date" => date(value.items[1])
      /\ value.type = "Datetime" => datetime(value.items[1])
  BY <1>1, <1>3, <1>5, TypedAsRead
<1> QED
  BY <1>7, <1>8, <1>9 DEF ValueRead, FieldValue, fields, i

LEMMA ValueKind ==
    ASSUME DiskTyped, NEW c \in CollectionNames, NEW field
    PROVE  \E K \in Kinds : \A p \in OfCollection(c) :
             LET v == sort_value(field, DocumentAt(p), SchemaOf(p)) IN v = Missing \/ v \in K
<1> DEFINE V(p) == sort_value(field, DocumentAt(p), SchemaOf(p))
           schema == Collections[c].schema
<1>1. ASSUME NEW p \in OfCollection(c)
      PROVE  /\ p \in Candidates_ /\ p \in DOMAIN Entries /\ p \in Texts_ /\ SchemaOf(p) = schema
             /\ Entries[p].key \in Texts_ /\ Entries[p].ns \in Texts_ /\ Entries[p].collection \in Texts_
             /\ SchemaOf(p).code \in Texts_ /\ SchemaOf(p).name \in Texts_
  <2>1. p \in Candidates_ /\ p \in DOMAIN Entries /\ Entries[p].collection = c /\ Entries[p].ns \in Namespaces
    BY DEF OfCollection, Candidates_, Candidates, Documents
  <2>2. SchemaOf(p) = schema
    BY <2>1 DEF SchemaOf, CollectionOf
  <2>3. Entries[p].key \in Texts_
    BY <2>1, KeyAssumption DEF Texts_
  <2>4. Namespaces \subseteq Texts_ /\ CollectionNames \subseteq Texts_ /\ schema.name \in Texts_ /\ schema.code \in Texts_
    BY SortAssumption, Zenon DEF Texts_
  <2> QED
    BY <2>1, <2>2, <2>3, <2>4, PathFacts
<1>2. CASE field = "key"
  <2> DEFINE K == {[sort |-> "key", at |-> t, number |-> n] : t \in Texts_, n \in Int}
  <2>1. K \in Kinds
    BY DEF Kinds
  <2>2. ASSUME NEW p \in OfCollection(c) PROVE V(p) = Missing \/ V(p) \in K
    <3> DEFINE key == Entries[p].key
    <3>1. DocumentAt(p).key = key /\ key \in Texts_
      BY <1>1 DEF DocumentAt
    <3>2. V(p) = IF key = NoText THEN Missing ELSE key_sort_value(key)
      BY <1>2, <3>1 DEF sort_value
    <3> HIDE DEF key
    <3>3. key_sort_value(key) \in K
      BY <3>1, KeyValueIs
    <3> QED
      BY <3>2, <3>3
  <2> QED
    BY <2>1, <2>2
<1>3. CASE field \in PseudoFields \ {"key"}
  <2> DEFINE K == {ByText(t) : t \in Texts_}
  <2>1. K \in Kinds
    BY DEF Kinds
  <2>2. ASSUME NEW p \in OfCollection(c) PROVE V(p) = Missing \/ V(p) \in K
    <3>1. DocumentAt(p)[field] \in Texts_
      <4>1. /\ DocumentAt(p).path = p /\ DocumentAt(p).code = SchemaOf(p).code
            /\ DocumentAt(p).collection = Entries[p].collection /\ DocumentAt(p).schema = SchemaOf(p).name
            /\ DocumentAt(p).namespace = Entries[p].ns
        BY DEF DocumentAt
      <4>2. field \in {"path", "code", "collection", "schema", "namespace"}
        BY <1>3 DEF PseudoFields
      <4> QED
        BY <1>1, <4>1, <4>2
    <3>2. V(p) = Missing \/ V(p) = ByText(DocumentAt(p)[field])
      BY <1>3 DEF sort_value
    <3> QED
      BY <3>1, <3>2
  <2> QED
    BY <2>1, <2>2
<1>4. CASE field \notin PseudoFields
  <2> DEFINE K == KindOf(Declared(schema, field).kind)
  <2>1. K \in Kinds
    BY DEF Kinds, KindOf
  <2>2. ASSUME NEW p \in OfCollection(c) PROVE V(p) = Missing \/ V(p) \in K
    <3>1. DocumentAt(p).fields = FieldsOf(p)
      BY DEF DocumentAt
    <3>2. V(p) = IF Declares(schema, field) /\ HasField(FieldsOf(p), field)
                 THEN named_sort_value(Declared(schema, field), FieldValue(FieldsOf(p), field)) ELSE Missing
      BY <1>1, <1>4, <3>1 DEF sort_value, PseudoFields
    <3>3. ASSUME HasField(FieldsOf(p), field)
          PROVE  LET v == named_sort_value(Declared(schema, field), FieldValue(FieldsOf(p), field)) IN v = Missing \/ v \in K
      <4>1. ValueRead(FieldValue(FieldsOf(p), field))
        BY <1>1, <3>3, ReadValue
      <4> QED
        BY <4>1, NamedIs
    <3> HIDE DEF K
    <3> QED
      BY <3>2, <3>3
  <2> QED
    BY <2>1, <2>2
<1> QED
  BY <1>2, <1>3, <1>4

Told_(key, p, q) == sort_before(key, DocumentAt(p), DocumentAt(q))
RanksOf(key, P) == {pair \in P \X P : Told_(key, pair[1], pair[2])}

LEMMA KeyWeak ==
    ASSUME DiskTyped, NEW c \in CollectionNames, NEW key
    PROVE  Weak(OfCollection(c), RanksOf(key, OfCollection(c)))
<1> DEFINE P == OfCollection(c)
           R == RanksOf(key, P)
           V(p) == sort_value(key.field, DocumentAt(p), SchemaOf(p))
<1>1. PICK K \in Kinds : \A p \in P : V(p) = Missing \/ V(p) \in K
  BY ValueKind
<1>2. \A p, q : Told_(key, p, q) <=>
        CASE V(q) = Missing -> V(p) # Missing
          [] V(p) = Missing /\ V(q) # Missing -> FALSE
          [] OTHER -> IF key.desc THEN same_type_before(V(q), V(p)) ELSE same_type_before(V(p), V(q))
  <2>1. \A p : DocumentAt(p).path = p
    BY DEF DocumentAt
  <2> QED
    BY <2>1 DEF sort_before, Told_
<1> HIDE DEF V
<1>3. \A p, q \in P : <<p, q>> \in R <=> Told_(key, p, q)
  BY DEF RanksOf
<1> HIDE DEF P, R
<1>4. /\ \A x, y \in K : ~(same_type_before(x, y) /\ same_type_before(y, x))
      /\ \A x, y, z \in K : ~same_type_before(x, y) /\ ~same_type_before(y, z) => ~same_type_before(x, z)
      /\ \A x \in K : x # Missing
  BY KindOrders
<1>5. \A p, q \in P : ~(Told_(key, p, q) /\ Told_(key, q, p))
  BY <1>1, <1>2, <1>4
<1>6. \A p, q, r \in P : ~Told_(key, p, q) /\ ~Told_(key, q, r) => ~Told_(key, p, r)
  BY <1>1, <1>2, <1>4
<1> QED
  BY <1>3, <1>5, <1>6 DEF Weak, P, R

Identified(p, q) == identity_before(DocumentAt(p), DocumentAt(q))
Identities(P) == {pair \in P \X P : Identified(pair[1], pair[2])}

LEMMA IdentityWeak ==
    ASSUME NEW c \in CollectionNames
    PROVE  Weak(OfCollection(c), Identities(OfCollection(c)))
<1> DEFINE P == OfCollection(c)
           R == Identities(P)
           code == Collections[c].schema.code
           key(p) == Entries[p].key
           V(p) == key_sort_value(Entries[p].key)
           K == {[sort |-> "key", at |-> t, number |-> n] : t \in Texts_, n \in Int}
<1>1. ASSUME NEW p \in P
      PROVE  /\ p \in DOMAIN Entries /\ p \in Texts_ /\ Entries[p].collection = c
             /\ key(p) \in Texts_ /\ (key(p) # NoText <=> code # NoText)
  <2>1. p \in DOMAIN Entries /\ Entries[p].collection = c
    BY DEF OfCollection, Candidates_, Candidates, Documents
  <2>2. SchemaOf(p).code = code
    BY <2>1 DEF SchemaOf, CollectionOf
  <2>3. key(p) \in Texts_ /\ (key(p) # NoText <=> SchemaOf(p).code # NoText)
    BY <2>1, KeyAssumption DEF Texts_
  <2> QED
    BY <2>1, <2>2, <2>3, PathFacts
<1>2. \A p : DocumentAt(p).key = key(p) /\ DocumentAt(p).path = p
  BY DEF DocumentAt
<1>3. \A p, q \in P : <<p, q>> \in R <=> Identified(p, q)
  BY DEF Identities
<1> HIDE DEF P, R, code, key, K
<1>4. CASE code # NoText
  <2>1. \A p, q \in P : <<p, q>> \in R <=> same_type_before(V(p), V(q))
    BY <1>1, <1>2, <1>3, <1>4, Zenon DEF Identified, identity_before, key
  <2>2. \A p \in P : V(p) \in K
    BY <1>1, KeyValueIs DEF K, key
  <2>3. K \in Kinds
    BY DEF Kinds, K
  <2>4. /\ \A x, y \in K : ~(same_type_before(x, y) /\ same_type_before(y, x))
        /\ \A x, y, z \in K : ~same_type_before(x, y) /\ ~same_type_before(y, z) => ~same_type_before(x, z)
    BY <2>3, KindOrders
  <2> HIDE DEF V
  <2> QED
    BY <2>1, <2>2, <2>4 DEF Weak, P, R
<1>5. CASE code = NoText
  <2>1. \A p, q \in P : <<p, q>> \in R <=> TextBefore(p, q)
    BY <1>1, <1>2, <1>3, <1>5, Zenon DEF Identified, identity_before
  <2>2. \A p \in P : p \in Texts_
    BY <1>1
  <2> QED
    BY <2>1, <2>2, TextsOrder DEF Weak, P, R
<1> QED
  BY <1>4, <1>5

\* Where two have one identity their paths tell them apart: no two stand alike.
Stands(p, q) == StandsBefore(DocumentAt(p), DocumentAt(q))
Standing(P) == {pair \in P \X P : Stands(pair[1], pair[2])}

LEMMA StandingStrict ==
    ASSUME NEW c \in CollectionNames
    PROVE  /\ Weak(OfCollection(c), Standing(OfCollection(c)))
           /\ \A a, b \in OfCollection(c) :
                <<a, b>> \in Standing(OfCollection(c)) \/ <<b, a>> \in Standing(OfCollection(c)) \/ a = b
<1> DEFINE P == OfCollection(c)
           R == Standing(P)
           I == Identities(P)
<1>1. P \subseteq Texts_
  BY PathFacts DEF OfCollection, Candidates_, Candidates, Documents
<1>2. \A p, q \in P : <<p, q>> \in I <=> Identified(p, q)
  BY DEF Identities
<1>3. \A p, q \in P : <<p, q>> \in R <=> Stands(p, q)
  BY DEF Standing
<1>4. Weak(P, I)
  BY IdentityWeak
<1> HIDE DEF P, R, I
<1>5. \A p, q \in P : <<p, q>> \in R <=> <<p, q>> \in I \/ (<<q, p>> \notin I /\ TextBefore(p, q))
  <2>1. \A p : DocumentAt(p).path = p
    BY DEF DocumentAt
  <2> QED
    BY <1>2, <1>3, <2>1, Zenon DEF Stands, StandsBefore, Identified
<1>6. \A a, b \in P : ~(<<a, b>> \in R /\ <<b, a>> \in R)
  BY <1>1, <1>4, <1>5, TextsOrder DEF Weak
<1>7. \A a, b \in P : <<a, b>> \in R \/ <<b, a>> \in R \/ a = b
  BY <1>1, <1>5, BeforeIsOrder
<1>8. ASSUME NEW a \in P, NEW b \in P, NEW d \in P, <<a, b>> \notin R, <<b, d>> \notin R
      PROVE  <<a, d>> \notin R
  <2>1. <<a, b>> \notin I /\ <<b, d>> \notin I /\ <<a, d>> \notin I
    BY <1>4, <1>5, <1>8 DEF Weak
  <2>2. CASE <<b, a>> \in I \/ <<d, b>> \in I
    <3>1. <<d, a>> \in I
      BY <1>4, <2>1, <2>2 DEF Weak
    <3> QED
      BY <1>5, <2>1, <3>1
  <2>3. CASE <<b, a>> \notin I /\ <<d, b>> \notin I
    <3>1. ~TextBefore(a, b) /\ ~TextBefore(b, d)
      BY <1>5, <1>8, <2>3
    <3>2. ~TextBefore(a, d)
      BY <1>1, <3>1, TextsOrder
    <3> QED
      BY <1>5, <2>1, <3>2
  <2> QED
    BY <2>2, <2>3
<1> QED
  BY <1>6, <1>7, <1>8 DEF Weak, P, R

\* The second half of ListAnswers: the documents of a collection are in one order.
LEMMA ListsInOrderOn == ASSUME DiskTyped PROVE ListsInOrder(Candidates_)
<1> SUFFICES ASSUME NEW sort \in Sorts, NEW c \in CollectionNames
             PROVE  InOneOrder(OfCollection(c), ListedPairs(sort, OfCollection(c)))
  BY DEF ListsInOrder, OfCollection
<1> DEFINE P == OfCollection(c)
           n == Len(sort)
           rel == [i \in 1 .. n |-> RanksOf(sort[i], P)]
           rest == Standing(P)
           Before_(a, b) == ListedBefore(sort, DocumentAt(a), DocumentAt(b))
<1>1. n \in Nat /\ DOMAIN sort = 1 .. n
  <2>1. PICK X : Sorts \subseteq Seq(X)
    BY SortAssumption, Zenon
  <2> QED
    BY <2>1, LenProperties
<1> HIDE DEF n
<1>2. /\ \A i \in 1 .. n : Weak(P, rel[i])
      /\ Weak(P, rest)
      /\ \A a, b \in P : <<a, b>> \in rest \/ <<b, a>> \in rest \/ a = b
  <2>1. \A i \in 1 .. n : Weak(P, RanksOf(sort[i], P))
    BY KeyWeak
  <2>2. \A i \in 1 .. n : rel[i] = RanksOf(sort[i], P)
    OBVIOUS
  <2> QED
    BY <2>1, <2>2, StandingStrict
<1>3. ASSUME NEW a \in P, NEW b \in P PROVE Before_(a, b) <=> By(rel, n, rest, a, b)
  <2> DEFINE tells == {i \in DOMAIN sort : sort_before(sort[i], DocumentAt(a), DocumentAt(b))
                                           \/ sort_before(sort[i], DocumentAt(b), DocumentAt(a))}
  <2>1. \A i \in 1 .. n : /\ <<a, b>> \in rel[i] <=> Told_(sort[i], a, b)
                          /\ <<b, a>> \in rel[i] <=> Told_(sort[i], b, a)
    <3> HIDE DEF P
    <3> QED
      BY <1>3 DEF RanksOf
  <2>2. <<a, b>> \in rest <=> Stands(a, b)
    <3> HIDE DEF P
    <3> QED
      BY <1>3 DEF Standing
  <2> HIDE DEF rel, rest
  <2>3. tells = Differ(rel, n, a, b)
    BY <1>1, <2>1 DEF Differ, Told_
  <2>4. tells # {} => Min(tells) \in 1 .. n
    <3> DEFINE T == tells
    <3>1. T \subseteq 1 .. n /\ T \subseteq Nat
      BY <1>1
    <3> HIDE DEF T
    <3>2. T # {} => Min(T) \in T
      BY <3>1, MinNat
    <3> QED
      BY <3>1, <3>2 DEF T
  <2>5. Before_(a, b) <=> IF tells = {} THEN Stands(a, b) ELSE Told_(sort[Min(tells)], a, b)
    BY Zenon DEF ListedBefore, Stands, Told_
  <2> HIDE DEF tells, Before_
  <2> QED
    BY <2>1, <2>2, <2>3, <2>4, <2>5 DEF By
<1> HIDE DEF rel, rest
<1>4. /\ \A a, b \in P : ~(Before_(a, b) /\ Before_(b, a))
      /\ \A a, b \in P : Before_(a, b) \/ Before_(b, a) \/ (<<a, b>> \notin rest /\ <<b, a>> \notin rest)
      /\ \A a, b, d \in P : Before_(a, b) /\ Before_(b, d) => Before_(a, d)
  <2>1. /\ \A a, b \in P : ~(By(rel, n, rest, a, b) /\ By(rel, n, rest, b, a))
        /\ \A a, b \in P : By(rel, n, rest, a, b) \/ By(rel, n, rest, b, a) \/ (<<a, b>> \notin rest /\ <<b, a>> \notin rest)
        /\ \A a, b, d \in P : By(rel, n, rest, a, b) /\ By(rel, n, rest, b, d) => By(rel, n, rest, a, d)
    <3> HIDE DEF P
    <3> QED
      BY <1>1, <1>2, OneAfterAnother
  <2> HIDE DEF P, Before_
  <2> QED
    BY <1>3, <2>1
<1>5. \A a, b \in P : <<a, b>> \in ListedPairs(sort, P) <=> Before_(a, b)
  BY DEF ListedPairs
<1> HIDE DEF P, Before_
<1>6. InOneOrder(P, ListedPairs(sort, P))
  BY <1>2, <1>4, <1>5 DEF InOneOrder
<1> QED
  BY <1>6 DEF P

\* What list says of a condition, of its opposite and of the arrows agrees, and every sort puts
\* the documents of a collection in one order (ListAnswers), those too that have one key and
\* those whose keys end in more than the largest number.
THEOREM ListsAlike == Spec => []ListAnswers
<1>1. Init => DiskTyped
  BY StaysTyped
<1>2. DiskTyped /\ [Next]_vars => DiskTyped'
  BY StaysTyped
<1>3. DiskTyped => ListAnswers
  BY ListsAgreeOn, ListsInOrderOn DEF ListAnswers, Candidates_
<1> QED
  BY <1>1, <1>2, <1>3, PTL DEF Spec
=============================================================================
