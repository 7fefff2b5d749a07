------------------------------ MODULE Checking ------------------------------
(* validate (typdoc-core: project.rs validate, check_entry, check_refs,       *)
(* check_body), and the documents it is asked of: a project that people edit  *)
(* by hand and that set and new write refs into. A report holds findings as   *)
(* pairs <<path, finding>>.                                                   *)
EXTENDS Lists

CONSTANTS
    Namespaces,      \* the names of the project's namespaces
    Overlaps,        \* the files several collections match: path |-> [ns, collections]
    NotRead,         \* the entries the walk could not read, or left over: path |-> [ns, finding]
    Skipped,         \* what a `namespaces` glob reached and that is no folder
    Stray,           \* the loose files that fit no template of their folder
    Malformed,       \* <<namespace, collection>>: those whose recorded number is none
    Retired,         \* <<namespace, collection>>: those recorded for a collection that is gone
    SchemaFindings,  \* what loading found wrong with the schemas
    Starts,          \* the projects to begin with
    HandFiles,       \* what a person may save: path |-> files
    RefField,        \* the `ref[]` field `set` and `new` write
    RefLists,        \* the lists they write to it
    Plains,          \* conditions with `=`, parsed
    Arrows,          \* the fields ref.* and refby.* are asked of
    Sorts            \* the lists of sort keys

VARIABLE last         \* the number a state file records: <<namespace, collection>> |-> at most one
vars == <<disk, last>>

\* A level is one of three; a document is of a collection and in a namespace; and what the walk,
\* the state files and the schemas are told of is never at the path of a document.
ASSUME LevelAssumption ==
    \A settings \in {Global} \cup {Collections[c].levels : c \in CollectionNames} :
      \A rule \in DOMAIN settings : settings[rule] \in {"error", "warn", "off"}
ASSUME IndexAssumption ==
    \A p \in DOMAIN Entries : Entries[p].collection \in CollectionNames /\ Entries[p].ns \in Namespaces
StateFile(pair) == <<"state", pair[1], pair[2]>>
Elsewhere ==
    DOMAIN Overlaps \cup DOMAIN NotRead \cup Skipped \cup Stray \cup {f[1] : f \in SchemaFindings}
    \cup {StateFile(pair) : pair \in (Namespaces \X CollectionNames) \cup Retired} \cup {<<"config">>, <<".typdoc">>}
ASSUME ApartAssumption == DOMAIN Entries \cap Elsewhere = {}
ASSUME PairAssumption == \A f \in SchemaFindings : f = <<f[1], f[2]>>

\* What is on disk and what is written there is made of entries of texts, and no entry is outside a
\* block; the name of an import is read as such only where there is one of it; paths are written with
\* the characters of the alphabet; and the field that `set` and `new` write is an acyclic `ref[]`
\* wherever a schema declares it.
WrittenIn(file) == UNION {ToSet(e.items) : e \in ToSet(file.entries)}
Written ==
    {NoText} \cup (UNION {ToSet(names) : names \in RefLists})
    \cup (UNION {WrittenIn(start[p]) : start \in Starts, p \in DOMAIN Entries})
    \cup (UNION {UNION {WrittenIn(file) : file \in HandFiles[p]} : p \in DOMAIN Entries})
EntryType == [name : STRING, shape : {"scalar", "null", "list", "mapping"}, items : Seq(Written)]
FileType(file) ==
    /\ file.entries \in Seq(EntryType) /\ (file.block # "closed" => file.entries = <<>>)
    /\ \A i \in DOMAIN file.entries : file.entries[i].shape \in {"scalar", "null"} => file.entries[i].items # <<>>
ASSUME FileAssumption ==
    /\ \A start \in Starts : start = [p \in DOMAIN Entries |-> start[p]] /\ \A p \in DOMAIN Entries : FileType(start[p])
    /\ \A p \in DOMAIN Entries : \A file \in HandFiles[p] : FileType(file)
    /\ RefField \in STRING /\ RefLists \subseteq Seq(Written)
ASSUME PathAssumption ==
    /\ IsFiniteSet(DOMAIN Entries) /\ NoCandidate \notin DOMAIN Entries /\ Alphabet \in Seq(STRING)
    /\ DOMAIN Entries \cup DOMAIN Loose \subseteq Seq(ToSet(Alphabet))
    /\ \A alias \in DOMAIN Imports :
         DOMAIN Imports[alias].entries \cup Imports[alias].files \subseteq Seq(ToSet(Alphabet))
    /\ \A p \in DOMAIN Entries : \A name \in Written :
         Reads(name, p, "ref").is = "import" => Reads(name, p, "ref").alias \in DOMAIN Imports
ASSUME RefFieldAssumption ==
    \A c \in CollectionNames :
      Declares(Collections[c].schema, RefField) =>
        /\ Declared(Collections[c].schema, RefField).kind = "ref[]"
        /\ Declared(Collections[c].schema, RefField).acyclic

\* The conditions ask with `=` and follow no ref; what a list is sorted by is written with the
\* characters of the alphabet; and the documents of a collection with a code have keys, the others
\* none (Template::bind).
ASSUME PlainAssumption ==
    \A plain \in Plains :
      /\ plain.dir = None /\ plain.op = "="
      /\ plain = [dir |-> plain.dir, field |-> plain.field, op |-> plain.op, items |-> plain.items]
ASSUME SortAssumption ==
    /\ Sorts \subseteq Seq([field : STRING, desc : BOOLEAN])
    /\ "," \in ToSet(Alphabet)
    /\ Written \cup Namespaces \cup CollectionNames \subseteq Seq(ToSet(Alphabet))
    /\ \A c \in CollectionNames :
         {Collections[c].schema.name, Collections[c].schema.code} \subseteq Seq(ToSet(Alphabet))
ASSUME KeyAssumption ==
    \A p \in DOMAIN Entries :
      /\ Entries[p].key \in Seq(ToSet(Alphabet))
      /\ Entries[p].key # NoText <=> SchemaOf(p).code # NoText

\* No field has the name of the virtual field of the body (schema.rs, field_name_problem).
ASSUME NameAssumption ==
    \A c \in CollectionNames : \A name \in {"", "$body"} : ~Declares(Collections[c].schema, name)

\* The lines of a body are numbered from 1; no link reads as a key, and a mention that reads as one
\* is of the key it ends in (name.rs, read_with).
LineReads(path, line) ==
    /\ line.is \in {"link", "definition"} /\ TargetOf(line.written) # NoTarget =>
         classify_body(TargetOf(line.written), path).is \in {"path", "import", "badPrefix", "absolute", "notARef"}
    /\ line.is = "word" =>
         LET reading == Reads(line.written, path, "mention")
         IN  reading.is = "key" => reading.key # NoText /\ reading.key[1] = KeyPart(line.written)[1]
BodyType(path, body) == \A i \in DOMAIN body : i \in Nat /\ i > 0 /\ LineReads(path, body[i])
ASSUME BodyAssumption ==
    \A p \in DOMAIN Entries :
      (\A start \in Starts : BodyType(p, start[p].body)) /\ (\A file \in HandFiles[p] : BodyType(p, file.body))

Plainly == [strict |-> FALSE, audit |-> FALSE]
Strictly == [strict |-> TRUE, audit |-> FALSE]
Audit == [strict |-> FALSE, audit |-> TRUE]
LevelOf(rule, default, path, how) ==
    effective_level(default, rule, Global, CollectionOf(path).levels, how.strict, how.audit)
GlobalLevel(rule, default, how) ==
    effective_level(default, rule, Global, NoSettings, how.strict, how.audit)

-----------------------------------------------------------------------------
(* check_refs.                                                                *)

\* unresolved_ref_finding: a recorded move comes first, then an import that is not there.
unresolved_ref_finding(path, r, reason, how, moved) ==
    CASE MovedFrom(Reads(r.written, path, "ref")) \in moved ->
           AtLevel(LevelOf("refs.moved", "error", path, how), "refs.moved", r.field, 0)
      [] MovedFrom(Reads(r.written, path, "ref")) \notin moved /\ reason = "import-absent" ->
           AtLevel(LevelOf("imports.absent", "warn", path, how), "imports.absent", r.field, 0)
      [] OTHER -> {Finding("error", "refs.resolve", r.field)}

resolved_ref_findings(path, r, target, resolved, how) ==
    (IF target_allowed(target, resolved) THEN {} ELSE {Finding("error", "refs.target", r.field)})
    \cup (IF resolved.info # NoInfo /\ resolved.info[1].coded /\ resolved.via = "path"
          THEN AtLevel(LevelOf("refs.codedByPath", "warn", path, how), "refs.codedByPath", r.field, 0) ELSE {})
    \cup (IF resolved.stale THEN AtLevel(LevelOf("refs.slug", "warn", path, how), "refs.slug", r.field, 0) ELSE {})

check_refs(path, file, how, moved) ==
    LET schema == SchemaOf(path)
        Of(r, resolved) ==
          IF resolved.found THEN resolved_ref_findings(path, r, Declared(schema, r.field).target, resolved, how)
          ELSE unresolved_ref_finding(path, r, resolved.reason, how, moved)
    IN  IF file.block # "closed" THEN {}
        ELSE UNION {Of(r, resolve_one(r.written, path)) : r \in FieldRefs(schema, ReadFields(file, schema))}

-----------------------------------------------------------------------------
(* check_body.                                                                *)
BodyLevel(rule, path, how) == LevelOf(rule, IF rule = "body.mentions" THEN "off" ELSE "error", path, how)
BodyFinding(rule, path, line, how) == AtLevel(BodyLevel(rule, path, how), rule, "", line)

\* moved_outcome, or the caller's own finding when no move was recorded.
Missed(from, path, line, how, moved, own) ==
    IF from \in moved THEN AtLevel(LevelOf("refs.moved", "error", path, how), "refs.moved", "", line) ELSE own

\* target_headings: a file that cannot be read or parsed has none.
FileAt(path) == IF Indexed(path) THEN disk[path] ELSE Loose[path].file
target_headings(target, path, file) ==
    LET read == IF target = path THEN file ELSE FileAt(target)
    IN  IF Splits(read) THEN {h.slug : h \in ToSet(headings(read.body))} ELSE {}
SameHeading(slug, anchor) == LowerCase(slug) = LowerCase(anchor)
AnchorFindings(link, target, path, file, how) ==
    IF ~HasAnchor(link.written)
       \/ \E slug \in target_headings(target, path, file) : SameHeading(slug, AnchorOf(link.written))
    THEN {} ELSE BodyFinding("body.anchors", path, link.line, how)

\* Mutant of check_body_destination: a URL, an import and an ignored path are files not found.
check_only_anchors(link, path, file, how, moved) ==
    LET target == TargetOf(link.written)
        reading == classify_body(target, path)
    IN  IF target = NoTarget THEN AnchorFindings(link, path, path, file, how)
        ELSE IF reading.is = "path" /\ resolve_path(reading.path).found
        THEN AnchorFindings(link, reading.path, path, file, how)
        ELSE BodyFinding("body.links", path, link.line, how)

\* check_body_destination: what an `ignore` glob matches is not looked for, and no anchor is
\* looked for in an import.
Ignored(path, reading) == reading.is = "path" /\ reading.path \in CollectionOf(path).ignore
check_body_destination(link, path, file, how, moved) ==
    LET target == TargetOf(link.written)
        reading == classify_body(target, path)
        missing == BodyFinding("body.links", path, link.line, how)
    IN  CASE target = NoTarget -> AnchorFindings(link, path, path, file, how)
          [] target # NoTarget /\ reading.is = "notARef" -> {}
          [] target # NoTarget /\ reading.is \in {"badPrefix", "absolute"} -> missing
          [] target # NoTarget /\ reading.is = "import" ->
               CASE ~Imports[reading.alias].loaded ->
                      AtLevel(LevelOf("imports.absent", "warn", path, how), "imports.absent", "", link.line)
                 [] Imports[reading.alias].loaded /\ (Ignored(path, reading.rest) \/ Resolve(reading).found) -> {}
                 [] OTHER -> missing
          [] OTHER ->
               CASE Ignored(path, reading) -> {}
                 [] ~Ignored(path, reading) /\ resolve_path(reading.path).found ->
                      AnchorFindings(link, reading.path, path, file, how)
                 [] OTHER -> Missed(MovedFrom(reading), path, link.line, how, moved, missing)

\* mention_missing: only a key with a code of the project it reads into is looked for.
project_codes == {Collections[c].schema.code : c \in CollectionNames} \ {NoText}
CodesOf(reading) ==
    IF reading.is = "import" /\ Imports[reading.alias].loaded THEN Imports[reading.alias].codes ELSE project_codes
mention_missing(written, path) ==
    LET reading == Reads(written, path, "mention")
    IN  <<KeyPart(written)[1]>> \in CodesOf(reading) /\ ~Resolve(reading).found
MentionFindings(path, file, how, moved) ==
    IF BodyLevel("body.mentions", path, how) = "off" THEN {}
    ELSE UNION {Missed(MovedFrom(Reads(file.body[i].written, path, "mention")), path, i, how, moved,
                       BodyFinding("body.mentions", path, i, how)) :
                  i \in {j \in mentions(file.body, CollectionOf(path).inlineCode, CollectionOf(path).fencedCode) :
                           mention_missing(file.body[j].written, path)}}

\* A use of a definition is checked once, at the definition.
check_body(path, file, how, moved) ==
    IF \A rule \in {"body.links", "body.anchors", "body.mentions"} : BodyLevel(rule, path, how) = "off" THEN {}
    ELSE (UNION {check_body_destination(l, path, file, how, moved) :
                   l \in {k \in scan_links(file.body) : ~k.isReference} \cup scan_definitions(file.body)})
         \cup (UNION {BodyFinding("body.links", path, i, how) : i \in Duplicates(file.body)})
         \cup (UNION {BodyFinding("body.links", path, i, how) :
                        i \in {j \in suspects(file.body) : classify_body(file.body[j].written, path).is # "notARef"}})
         \cup MentionFindings(path, file, how, moved)

-----------------------------------------------------------------------------
(* check_entry, and validate over the whole project or of some paths.         *)
duplicate_key(path) ==
    IF Entries[path].key # NoText /\ Cardinality(KeyGroup(Entries[path].ns, Entries[path].key)) > 1
    THEN {Finding("error", "keys.unique", "")} ELSE {}
name_state_finding(path, how) ==
    IF Entries[path].key # NoText /\ ~Entries[path].inForm
    THEN AtLevel(LevelOf("filename.pattern", "error", path, how), "filename.pattern", "", 0) ELSE {}
Block(path, file, how) ==
    check_document(file, SchemaOf(path), [global |-> Global, collection |-> CollectionOf(path).levels,
                                          strict |-> how.strict, audit |-> how.audit])
check_entry(path, file, how, moved) ==
    Block(path, file, how) \cup duplicate_key(path) \cup name_state_finding(path, how)
    \cup (IF Readable(file) THEN check_refs(path, file, how, moved) \cup check_body(path, file, how, moved)
          ELSE {})

About(path, findings) == {<<path, f>> : f \in findings}
CheckedAll(paths, how, moved) == UNION {About(p, check_entry(p, disk[p], how, moved)) : p \in paths}

\* The state files of the namespaces in scope.
CodedPairs(scope) == {pair \in scope \X CollectionNames : Collections[pair[2]].schema.code # NoText}
In(pair) == {p \in Documents : Entries[p].ns = pair[1] /\ Entries[p].collection = pair[2]}
NumbersIn(pair) == {key_sort_value(Entries[p].key).number : p \in In(pair)} \ {NoNumber}
state_findings(scope) ==
    LET OfState(level, rule, pairs) == {<<StateFile(pair), Finding(level, rule, "")>> : pair \in pairs}
    IN  OfState("error", "state.missing", {pair \in CodedPairs(scope) \ Malformed : In(pair) # {} /\ last[pair] = {}})
        \cup OfState("error", "state.malformed", CodedPairs(scope) \cap Malformed)
        \cup OfState("warn", "state.behind", {pair \in CodedPairs(scope) \ Malformed :
                                       \E n \in last[pair], top \in NumbersIn(pair) : n < top})
        \cup OfState("warn", "state.retired", {pair \in Retired : pair[1] \in scope})

shadowed_names_findings(how) ==
    IF Namespaces \cap {<<alias>> : alias \in DOMAIN Imports} = {} THEN {}
    ELSE About(<<"config">>, AtLevel(GlobalLevel("names.shadowed", "warn", how), "names.shadowed", "", 0))
OverlapFindings(paths) == {<<p, Finding("error", "collections.overlap", "")>> : p \in paths \cap DOMAIN Overlaps}
BesideFindings(scope, how) ==
    OverlapFindings({p \in DOMAIN Overlaps : Overlaps[p].ns \in scope})
    \cup {<<p, NotRead[p].finding>> : p \in {q \in DOMAIN NotRead : NotRead[q].ns \in scope}}
    \cup {<<p, Finding("error", "files.unreadable", "")>> : p \in Skipped}
    \cup {p \in Stray : Loose[p].ns \in scope}
         \X AtLevel(GlobalLevel("filename.pattern", "error", how), "filename.pattern", "", 0)

\* Under --audit a document with no block is listed and not checked. The cycles are those of the
\* whole project, whatever the scope.
InNamespaces(scope) == {p \in Documents : Entries[p].ns \in scope}
Unblocked(scope, how) == {p \in InNamespaces(scope) : how.audit /\ disk[p].block = "none"}
whole(scope, how) ==
    LET evaluated == InNamespaces(scope) \ Unblocked(scope, how)
    IN  [documents |-> evaluated,
         findings |-> SchemaFindings \cup shadowed_names_findings(how)
                      \cup acyclic_findings(TextsWith(NoCandidate, Absent), NoCandidate)
                      \cup CheckedAll(evaluated, how, moved_from(TextsWith(NoCandidate, Absent)))
                      \cup state_findings(scope) \cup BesideFindings(scope, how)
                      \cup (IF CollectionNames = {} THEN About(<<".typdoc">>, {Finding("warn", "collections.empty", "")})
                            ELSE {})]

\* audit_report: where every file of the scope went.
audit_report(scope) ==
    [collections |-> [c \in CollectionNames |-> Cardinality({p \in InNamespaces(scope) : Entries[p].collection = c})],
     uncollected |-> {p \in DOMAIN Loose : Loose[p].ns \in scope},
     noFrontmatter |-> Unblocked(scope, Audit),
     overlapping |-> {p \in DOMAIN Overlaps : Overlaps[p].ns \in scope},
     notRead |-> {p \in DOMAIN NotRead : NotRead[p].ns \in scope} \cup Skipped]

\* Mutant of named: the moves that the named documents recorded, and no others.
named_alone(paths, strict) ==
    LET how == [strict |-> strict, audit |-> FALSE]
        own == [p \in paths \cap Documents |-> disk[p]]
    IN  OverlapFindings(paths)
        \cup CheckedAll(paths \cap Documents, how, moved_from(own))
        \cup {f \in acyclic_findings(TextsWith(NoCandidate, Absent), NoCandidate) : f[1] \in paths \cap Documents}

\* Paths: what was named, and the cycles through it.
named(paths, strict) ==
    LET how == [strict |-> strict, audit |-> FALSE]
    IN  OverlapFindings(paths)
        \cup CheckedAll(paths \cap Documents, how, moved_from(TextsWith(NoCandidate, Absent)))
        \cup {f \in acyclic_findings(TextsWith(NoCandidate, Absent), NoCandidate) : f[1] \in paths \cap Documents}

-----------------------------------------------------------------------------
(* The writes. Editing has every field and every other check of a write:      *)
(* here a write is of one list of refs, to a schema without `auto: update`.   *)
ASSUME NoStamps == \A p \in DOMAIN Entries : \A f \in ToSet(SchemaOf(p).fields) : f.auto # "update"

\* collected by set_collected and validate_new_candidate; `set` hears only of a cycle through
\* the field it changes.
CandidateFindings(path, file, ofCycles) ==
    Block(path, file, Plainly)
    \cup check_refs(path, file, Plainly, moved_from(TextsWith(path, file)))
    \cup {f[2] : f \in {g \in acyclic_findings(TextsWith(path, file), path) : g[1] = path /\ g[2].field \in ofCycles}}

Write(path, file) == disk' = [disk EXCEPT ![path] = file]

set(path, names) ==
    LET before == FieldsOf(path)
        after == set_list(before, RefField, names)
        file == splice(finish(after), disk[path].body)
    IN  /\ path \in Documents /\ Readable(disk[path]) /\ Declares(SchemaOf(path), RefField)
        /\ Write(path, file)
        /\ ~Refused(CandidateFindings(path, file,
                      IF HasField(before, RefField) /\ FieldValue(before, RefField) = ListValue(names) THEN {} ELSE {RefField}))
        /\ UNCHANGED last

\* allocate_key: Numbering. The number is recorded before the file is made. A key whose digits
\* are no number does not count: neither for the next one nor for a record that is missing.
Pair(path) == <<Entries[path].ns, Entries[path].collection>>
Next_number(pair) == (Max(NumbersIn(pair) \cup last[pair] \cup {0}) + 1) % (LargestNumber + 1)
new(path, names) ==
    LET pair == Pair(path)
        file == splice(finish(set_list(<<>>, RefField, names)), <<>>)
    IN  /\ path \notin Documents /\ Entries[path].inForm /\ Entries[path].key # NoText /\ Declares(SchemaOf(path), RefField)
        /\ pair \notin Malformed /\ (NumbersIn(pair) # {} => last[pair] # {})
        /\ key_sort_value(Entries[path].key).number = Next_number(pair)
        /\ Write(path, file)
        /\ ~Refused(CandidateFindings(path, file, AcyclicFields))
        /\ last' = [last EXCEPT ![pair] = {Next_number(pair)}]

SaveByHand(path) ==
    /\ \E file \in HandFiles[path] : file # disk[path] /\ Write(path, file)
    /\ UNCHANGED last

Command == \E path \in DOMAIN Entries, names \in RefLists : set(path, names) \/ new(path, names)

Init ==
    /\ disk \in Starts
    /\ last = [pair \in CodedPairs(Namespaces) |-> {}]
Next ==
    \/ \E path \in DOMAIN Entries, names \in RefLists : set(path, names) \/ new(path, names)
    \/ \E path \in DOMAIN Entries : SaveByHand(path)
Spec == Init /\ [][Next]_vars

-----------------------------------------------------------------------------
(* Properties.                                                                *)

\* `refs`, `validate` and `mv` read the refs of a document apart, yet they never differ on one:
\* what `refs` lists as unresolved an audit reports, in the field or at the line, or at the
\* definition it stands at, and the other way round, unless an `ignore` glob covers it and, in an
\* import, the import is there; a name that a document recorded moving away from is told from one
\* that never was; and a mention of a key reaches a document whose move would name the line, or
\* the audit names it.
UnresolvedIn(path) == {r \in refs(path) : ~r.other.found}
RefRules == {"refs.resolve", "refs.moved", "imports.absent"}
LineOf(path, r) ==
    IF disk[path].body[r.at].is = "use" THEN DefinitionOf(disk[path].body, r.at) ELSE r.at
RefLines(path) == {LineOf(path, r) : r \in {q \in refs(path) : q.field = "$body"}}
Overlooked(path, reading) ==
    IF reading.is = "import" THEN Imports[reading.alias].loaded /\ Ignored(path, reading.rest)
    ELSE Ignored(path, reading)
KeyMentions(path) ==
    {i \in mentions(disk[path].body, CollectionOf(path).inlineCode, CollectionOf(path).fencedCode) :
       LET reading == Reads(disk[path].body[i].written, path, "mention")
       IN  reading.is = "key" /\ <<reading.key[1]>> \in project_codes}
ReportsAgree ==
    LET Agree(path, found, unresolved, moved, named_) ==
          LET inFields == {r \in unresolved : r.field # "$body"}
              inBody == {r \in unresolved \ inFields : ~Overlooked(path, classify_body(TargetOf(r.written), path))}
              reported == {f.at : f \in {g \in found : g.rule \in {"body.mentions", "refs.moved"}}}
          IN  /\ {f.field : f \in {g \in found : g.rule \in RefRules /\ g.field # ""}} = {r.field : r \in inFields}
              /\ {r.field : r \in {q \in inFields : MovedFrom(Reads(q.written, path, "ref")) \in moved}}
                 = {f.field : f \in {g \in found : g.rule = "refs.moved" /\ g.field # ""}}
              /\ {f.at : f \in {g \in found : g.rule \in {"body.links"} \cup RefRules /\ g.at \in RefLines(path)}}
                 = {LineOf(path, r) : r \in inBody}
              /\ \A i \in KeyMentions(path) : (i \in reported) # (<<path, i>> \in named_)
        NamedByMoves == UNION {{<<m.holder, m.at>> : m \in mv_unrewritten(q)} : q \in Documents}
    IN  \A moved \in {moved_from(TextsWith(NoCandidate, Absent))}, named_ \in {NamedByMoves} :
          \A path \in {p \in Readables : disk[p].block = "closed"} :
            Agree(path, check_entry(path, disk[path], Audit, moved), UnresolvedIn(path), moved, named_)

\* The lines of a body in which a plain run looks for nothing, as the rules that would are off.
BodyRules == {"body.links", "body.anchors", "body.mentions"}
PassedOver(path) ==
    LET off == {rule \in BodyRules : BodyLevel(rule, path, Plainly) = "off"}
    IN  IF off = BodyRules THEN DOMAIN disk[path].body
        ELSE IF "body.mentions" \in off
        THEN mentions(disk[path].body, CollectionOf(path).inlineCode, CollectionOf(path).fencedCode)
        ELSE {}

\* However the project is asked, a document is told the same: named alone, in its namespace or
\* with all the others. --strict changes only warnings. --audit adds what is off, as `info`, and
\* otherwise only a recorded move or an absent import in a line that a plain run passes over. A
\* document that an audit does not check is on its list.
Raised(f) == IF f.level = "warn" THEN {f, [f EXCEPT !.level = "error"]} ELSE {f}
OfPath(path, findings) == {g[2] : g \in {f \in findings : f[1] = path}}
ScopesAgree ==
    LET scopes == {Namespaces} \cup {{ns} : ns \in Namespaces}
        Agree(says, tells, all, strict, audit) ==
          /\ \A scope \in scopes : says[<<scope, Plainly>>].findings \subseteq all.findings
          /\ \A p \in Documents :
               /\ tells[<<p, FALSE>>] = OfPath(p, all.findings)
               /\ tells[<<p, TRUE>>] = OfPath(p, strict.findings)
               /\ OfPath(p, says[<<{Entries[p].ns}, Plainly>>].findings) = OfPath(p, all.findings)
               /\ p \in audit.documents <=> p \notin audit_report(Namespaces).noFrontmatter
               /\ p \in audit.documents =>
                    LET known == {f \in OfPath(p, audit.findings) : f.level # "info"}
                    IN  /\ OfPath(p, all.findings) \subseteq known
                        /\ \A f \in known \ OfPath(p, all.findings) :
                             f.rule \in {"refs.moved", "imports.absent"} /\ f.at \in PassedOver(p)
          /\ \A f \in all.findings : \E g \in Raised(f[2]) : <<f[1], g>> \in strict.findings
          /\ \A f \in strict.findings : \E g \in all.findings : f[1] = g[1] /\ f[2] \in Raised(g[2])
        On(says, tells) ==
          Agree(says, tells, says[<<Namespaces, Plainly>>], says[<<Namespaces, Strictly>>], says[<<Namespaces, Audit>>])
    IN  \A says \in {[asked \in (scopes \X {Plainly}) \cup {<<Namespaces, Strictly>>, <<Namespaces, Audit>>} |->
                       whole(asked[1], asked[2])]},
           tells \in {[asked \in Documents \X BOOLEAN |-> OfPath(asked[1], named({asked[1]}, asked[2]))]} :
          On(says, tells)

\* What a list says of one condition, of its opposite and of the arrows agrees. `=` and `!=`
\* part the documents; `all` of a condition and `any` of its opposite do, although a ref may be
\* dangling, lead out of every collection, into an import or to a document that cannot be read;
\* an arrow that `ref.*` follows `refby.*` follows back; a list names every dangling ref; and
\* with any sort the documents of a collection are in one order, two of one key, and two whose
\* keys end in more than a number can hold, too.
Where(wheres) == [collections |-> {}, codes |-> {}, wheres |-> wheres, sort |-> <<>>]
Only(condition) == list(Namespaces, Where(<<condition>>))
Arrow_(dir, quant, field, inner) == [dir |-> dir, quant |-> quant, field |-> field, inner |-> inner]
Opposite(plain) == [plain EXCEPT !.op = "!="]
AtPath(path) == [dir |-> None, field |-> "path", op |-> "=",
                 items |-> <<[kind |-> "literal", segments |-> <<path>>]>>]
Conditions(paths) ==
    LET opposites == {Opposite(plain) : plain \in Plains}
        Arrows_(quant, inners) ==
          {Arrow_(dir, quant, field, inner) : dir \in {"ref", "refby"}, field \in Arrows, inner \in inners}
    IN  Plains \cup opposites
        \cup Arrows_("all", {<<plain>> : plain \in Plains}) \cup Arrows_("none", {<<>>})
        \cup Arrows_("any", {<<>>} \cup {<<plain>> : plain \in opposites} \cup {<<AtPath(p)>> : p \in paths})
Parted(all, one, other) ==
    /\ one.error = other.error
    /\ one.error = None => one.documents \cup other.documents = all /\ one.documents \cap other.documents = {}
InOneOrder(paths, before) ==
    /\ \A a, b \in paths : ~(<<a, b>> \in before /\ <<b, a>> \in before)
    /\ \A a, b \in paths : <<a, b>> \in before \/ <<b, a>> \in before \/ a = b
    /\ \A a, b, c \in paths : <<a, b>> \in before /\ <<b, c>> \in before => <<a, c>> \in before
ListedPairs(sort, paths) == {pair \in paths \X paths : ListedBefore(sort, DocumentAt(pair[1]), DocumentAt(pair[2]))}
DanglingAt(all) ==
    UNION {{[path |-> p, field |-> r.field, written |-> r.written] : r \in UnresolvedIn(p)} : p \in all}
IntoAnImport(all) ==
    UNION {{<<p, r.field>> : r \in {q \in refs(p) : q.other.found /\ q.other.project # Home}} : p \in all}
ConditionsAgree(all, says, dangling, intoAnImport) ==
    /\ \A plain \in Plains : Parted(all, says[plain], says[Opposite(plain)])
    /\ \A field \in Arrows :
         LET On(dir, quant, inner) == says[Arrow_(dir, quant, field, inner)]
         IN  /\ \A plain \in Plains, dir \in {"ref", "refby"} :
                  Parted(all, On(dir, "all", <<plain>>), On(dir, "any", <<Opposite(plain)>>))
             /\ \A dir \in {"ref", "refby"} : Parted(all, On(dir, "any", <<>>), On(dir, "none", <<>>))
             /\ On("ref", "any", <<>>).dangling = {d \in dangling : d.field = field}
             /\ \A p, q \in all :
                  LET follows == p \in On("ref", "any", <<AtPath(q)>>).documents
                      back == q \in On("refby", "any", <<AtPath(p)>>).documents
                  IN  (back => follows) /\ (follows => back \/ <<p, field>> \in intoAnImport)
ListsAgree(all) ==
    \A says \in {[condition \in Conditions(all) |-> Only(condition)]} :
      ConditionsAgree(all, says, DanglingAt(all), IntoAnImport(all))
ListsInOrder(all) ==
    \A sort \in Sorts, collection \in CollectionNames :
      LET paths == {p \in all : Entries[p].collection = collection}
      IN  InOneOrder(paths, ListedPairs(sort, paths))
ListAnswers ==
    LET Of(all) == ListsAgree(all) /\ ListsInOrder(all)
    IN  Of(Candidates(Namespaces, CollectionNames))

\* No `set` and no `new` of a document with a key (Command) closes a loop of `acyclic` refs where
\* there was none, whatever names the refs have, whichever file of a key they reach, and whether
\* the document is there yet. There is a loop where there is a ring: documents each of which has
\* a ref to one of them.
Listed(path) == UNION {ToSet(e.items) : e \in {x \in ToSet(disk[path].entries) : x.name = RefField /\ x.shape = "list"}}
Listing == {p \in Documents : HasFields(p) /\ Declares(SchemaOf(p), RefField)}
Edges == UNION {{<<p, resolve_one(name, p)>> : name \in Listed(p)} : p \in Listing}
Within(edges) == {<<e[1], e[2].path>> : e \in {f \in edges : f[2].found /\ f[2].project = Home}}
IsRing(ring, steps) == ring # {} /\ \A p \in ring : \E q \in ring : <<p, q>> \in steps
Acyclic == \A steps \in {Within(Edges)} : \A ring \in SUBSET Documents : ~IsRing(ring, steps)
CommandsFormNoCycle == [][Acyclic /\ ~Acyclic' => ~Command]_vars

\* The documents that a ref on a loop leads to and from.
Closure(steps) ==
    FoldSet(LAMBDA p, reached : reached \cup {<<a[1], b[2]>> : a \in {s \in reached : s[2] = p}, b \in {s \in reached : s[1] = p}},
            steps, Documents)
OnALoop(steps) == {s[1] : s \in {t \in Closure(steps) : t[1] = t[2]}}

\* docs/reference/validation.md says of refs.acyclic that it is reported on every document in the
\* loop; SPC-2 has the writes refuse a write on it.
EveryDocumentInTheLoop ==
    \A p \in OnALoop(Within(Edges)) :
      <<p, Finding("error", "refs.acyclic", RefField)>> \in whole(Namespaces, Plainly).findings
=============================================================================
