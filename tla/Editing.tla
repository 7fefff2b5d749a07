----------------------------- MODULE Editing -----------------------------
(* What the write commands put into a file (typdoc-core: project.rs set,      *)
(* set_loose, set_collected, new_document, rewrite_holder and                 *)
(* mv_document_change; mv.rs). One file is written by `new`, by `set`, by     *)
(* `mv` of a document it refers to, by `mv` of itself, and by hand. `mv`      *)
(* finds the refs before it holds any lock, so a write may come between the   *)
(* scan and the rewrite. Locks and files as such are Writers' and             *)
(* AtomicWrite's: here each write is one step, and its text is what matters.  *)
EXTENDS Queries, Validation

CONSTANTS
    Schemas,       \* the schemas the file's collection may have
    Entry,         \* the file as the index knows it: [path, key, code, collection, schema, namespace]
    How,           \* the levels the config sets: [global, collection, strict, audit]
    Sets,          \* the lists of assignments `set` and `new` are given
    Ifs,           \* the lists of parsed --if conditions
    Renamed,       \* the names of the moved document: as written |-> as written afterwards (Names)
    Resolving,     \* the names a ref may hold that name a document
    Cyclic,        \* those whose document leads back to this one through `acyclic` refs
    PreviousName,  \* the name `auto: moves` records when the file itself is moved
    HandFiles,     \* the files a person may leave
    MaxWrites      \* bound on the writes, and with them on the time of day

Absent == [block |-> "absent", entries |-> <<>>, body |-> <<>>]
NoSchema == [code |-> NoText, fields |-> <<>>]
Sequence(s) == s \in Seq(ToSet(s))

\* Resolved: a schema has one field of a name, `transitions` on an enum only, `auto: moves` on a
\* list only, and a default reads as the value of a field.
ASSUME SchemasAreResolved ==
    \A s \in Schemas \cup {NoSchema} :
      /\ Sequence(s.fields)
      /\ \A i, j \in DOMAIN s.fields : s.fields[i].name = s.fields[j].name => i = j
      /\ \A i \in DOMAIN s.fields :
           LET field == s.fields[i]
           IN  /\ field.transitions # <<>> => field.kind = "enum"
               /\ field.auto = "moves" => field.kind = "list"
               /\ field.default # <<>> => Sequence(field.default[1].items)

\* The command line gives an assignment after another, each with a text.
ASSUME SetsAreTexts == \A ops \in Sets : Sequence(ops) /\ \A i \in DOMAIN ops : Sequence(ops[i].raw)

\* What a person leaves is a text: a block has its entries one after another, each with its
\* items, and what has no block has no entries.
ASSUME FilesAreTexts ==
    \A f \in HandFiles :
      /\ f = [block |-> f.block, entries |-> f.entries, body |-> f.body]
      /\ f.block # "closed" => f.entries = <<>>
      /\ Sequence(f.entries) /\ \A i \in DOMAIN f.entries : Sequence(f.entries[i].items)

VARIABLES
    schema,   \* the schema of the file's collection, or NoSchema when no collection matches it
    file,     \* the file, or Absent
    clock,    \* the time of day, which passes from one write to the next
    scan,     \* the refs to the moved document `mv` found, and the file it found them in
    moved,    \* whether that document has been moved
    report    \* the last write: [op, ops, before, fields, clock], and the scan of an `mv`
vars == <<schema, file, clock, scan, moved, report>>

Collected == schema # NoSchema
Fields(f) == ReadFields(f, schema)
TimeAt(tick) == <<"day1", "T", <<"0", "1", "2">>[tick + 1]>>
Now == TimeAt(clock)

\* A write happens at its own time.
Passes == clock < MaxWrites /\ clock' = clock + 1

Idle == [at |-> Absent, refs |-> {}]
Report(op, ops, before, fields) ==
    [op |-> op, ops |-> ops, before |-> before, fields |-> fields, clock |-> clock]

-----------------------------------------------------------------------------
(* The assignments of `set` and of `new --set`.                               *)

\* unescape_set_value: `\` keeps a comma, a star or itself, a bare star is refused, and a comma
\* separates only the items of a list.
Begun == [good |-> TRUE, escaped |-> FALSE, items |-> <<NoText>>]
unescape_char(read, char, split) ==
    LET items == [read.items EXCEPT ![Len(read.items)] = Append(@, char)]
        kept == [read EXCEPT !.items = items, !.escaped = FALSE]
        bad == [read EXCEPT !.good = FALSE]
    IN  IF ~read.good THEN read
        ELSE IF read.escaped THEN IF char \in {",", "*", "\\"} THEN kept ELSE bad
        ELSE CASE char = "\\" -> [read EXCEPT !.escaped = TRUE]
               [] char = "*" -> bad
               [] char = "," /\ split -> [read EXCEPT !.items = Append(@, NoText)]
               [] OTHER -> kept
unescape(raw, split) ==
    LET read[n \in 0 .. Len(raw)] == IF n = 0 THEN Begun ELSE unescape_char(read[n - 1], raw[n], split)
    IN  read[Len(raw)]
unescape_set_value(raw, split) ==
    IF raw = NoText /\ split THEN [Begun EXCEPT !.items = <<>>] ELSE unescape(raw, split)

\* What a YamlSerdeWriter is told, call by call.
PutCall(name, value) == [call |-> "put", field |-> name, value |-> value]
RemoveCall(name) == [call |-> "remove", field |-> name]
ReplaceCall(name, old, new) == [call |-> "replace", field |-> name, old |-> old, new |-> new]
NoCall == [call |-> "none"]
Called(fields, c) ==
    CASE c.call = "put" -> Put(fields, c.field, c.value)
      [] c.call = "remove" -> remove_field(fields, c.field)
      [] c.call = "replace" -> replace_item(fields, c.field, c.old, c.new)
      [] OTHER -> fields
Told(fields, calls) ==
    LET told[n \in 0 .. Len(calls)] == IF n = 0 THEN fields ELSE Called(told[n - 1], calls[n])
    IN  told[Len(calls)]

\* apply_ops: all of them, or none when one cannot be read.
TakesList(name) == Declares(schema, name) /\ Declared(schema, name).kind \in ListTypes
ReadRaw(op) == unescape_set_value(op.raw, TakesList(op.field))
OpsGood(ops) ==
    \A i \in DOMAIN ops : ops[i].kind = "remove" \/ (ReadRaw(ops[i]).good /\ ~ReadRaw(ops[i]).escaped)
OpCall(op) ==
    IF op.kind = "remove" THEN RemoveCall(op.field)
    ELSE PutCall(op.field, IF TakesList(op.field) THEN ListValue(ReadRaw(op).items)
                           ELSE TextValue(ReadRaw(op).items[1]))
apply_ops(fields, ops) == Told(fields, [i \in DOMAIN ops |-> OpCall(ops[i])])

\* fields_changed, by the values' own equality.
SameField(before, after, name) ==
    /\ HasField(before, name) = HasField(after, name)
    /\ HasField(before, name) => SameValue(FieldValue(before, name), FieldValue(after, name))
fields_changed(before, after) ==
    \E name \in NamesOf(before) \cup NamesOf(after) : ~SameField(before, after, name)

AutoFields(kinds) == {f \in ToSet(schema.fields) : f.auto \in kinds}
Stamp(fields, kinds) ==
    Told(fields, [i \in DOMAIN schema.fields |->
                    IF schema.fields[i].auto \in kinds THEN PutCall(schema.fields[i].name, TextValue(Now))
                    ELSE NoCall])

-----------------------------------------------------------------------------
(* The refs a candidate holds: check_refs and prescan_refs, of which Checking *)
(* has every case; a field whose value does not fit has no refs.              *)
Old == {w \in DOMAIN Renamed : Renamed[w] # w}
NamesNow == IF moved THEN (Resolving \ Old) \cup {Renamed[w] : w \in Old} ELSE Resolving
RefTexts(value) == IF value.type = "Empty" THEN {NoText} ELSE ToSet(value.items)
RefsIn(fields) ==
    UNION {{[field |-> fields[i].name, written |-> w] : w \in RefTexts(fields[i].value)} :
             i \in {j \in DOMAIN fields :
                      /\ Declares(schema, fields[j].name)
                      /\ Declared(schema, fields[j].name).kind \in {"ref", "ref[]"}
                      /\ fits(Declared(schema, fields[j].name).kind, fields[j].value)}}
check_refs(fields) ==
    {Finding("error", "refs.resolve", r.field) : r \in {q \in RefsIn(fields) : q.written \notin NamesNow}}
CyclesFormed(before, after) ==
    {Finding("error", "refs.acyclic", r.field) :
       r \in {q \in RefsIn(after) : /\ Declared(schema, q.field).acyclic /\ q.written \in Cyclic
                                    /\ ~SameField(before, after, q.field)}}

-----------------------------------------------------------------------------
(* set                                                                        *)

\* Mutant of SetFields: the stamp is put whenever the block is written in other words.
SetFieldsByText(before, ops) ==
    LET assigned == apply_ops(before, ops)
    IN  IF assigned # before THEN Stamp(assigned, {"update"}) ELSE assigned

\* The block set_collected writes: the assignments, then the `auto: update` fields when a
\* value is no longer what it was.
SetFields(before, ops) ==
    LET assigned == apply_ops(before, ops)
        readBack == Fields(splice(finish(assigned), <<>>))
    IN  IF fields_changed(before, readBack) THEN Stamp(assigned, {"update"})
        ELSE assigned

Document(fields) == [path |-> Entry.path, key |-> Entry.key, code |-> Entry.code, collection |-> Entry.collection,
                     schema |-> Entry.schema, namespace |-> Entry.namespace, fields |-> fields]
\* evaluate_plain_ifs; a condition on refs was refused before.
IfsHold(ifs, fields) ==
    \A i \in DOMAIN ifs : /\ ifs[i].dir = None
                          /\ evaluate(ifs[i], schema, Document(fields)).holds

SetFindings(before, candidate, after) ==
    check_document(candidate, schema, How)
    \cup check_transitions(schema, before, after)
    \cup check_refs(after) \cup CyclesFormed(before, after)

set_collected(ops, ifs) ==
    /\ Passes
    /\ Collected /\ file # Absent
    /\ check_auto_direct(schema, ops) = {}
    /\ Readable(file)
    /\ LET before == Fields(file)
       IN  /\ IfsHold(ifs, before)
           /\ OpsGood(ops)
           /\ LET candidate == splice(finish(SetFields(before, ops)), file.body)
                  after == Fields(candidate)
              IN  /\ ~Refused(SetFindings(before, candidate, after))
                  /\ file' = candidate
                  /\ report' = Report("set", ops, file, after)
    /\ UNCHANGED <<schema, scan, moved>>

set_loose(ops, ifs) ==
    /\ Passes
    /\ ~Collected /\ file # Absent
    /\ Readable(file)
    /\ IfsHold(ifs, Fields(file))
    /\ OpsGood(ops)
    /\ LET block == finish(apply_ops(Fields(file), ops))
       IN  /\ file' = splice(block, file.body)
           /\ report' = Report("set", ops, file, Fields(splice(block, <<>>)))
    /\ UNCHANGED <<schema, scan, moved>>

-----------------------------------------------------------------------------
(* new                                                                        *)

\* new_block: the defaults, the `auto` fields, then what --set says.
DefaultCall(field) == IF field.default = <<>> THEN NoCall ELSE PutCall(field.name, field.default[1])
new_block(ops) ==
    LET defaults == Told(<<>>, [i \in DOMAIN schema.fields |-> DefaultCall(schema.fields[i])])
    IN  apply_ops(Stamp(defaults, {"create", "update"}), ops)

\* A title comes first, for a schema with a code; `new` by path has none.
Title == [kind |-> "set", field |-> "title", raw |-> <<"new">>]
NewOps(ops) == IF schema.code = NoText THEN ops ELSE <<Title>> \o ops

new_document(ops) ==
    /\ Passes
    /\ Collected /\ file = Absent
    /\ check_auto_direct(schema, NewOps(ops)) = {}
    /\ OpsGood(NewOps(ops))
    /\ LET candidate == splice(finish(new_block(NewOps(ops))), <<>>)
           fields == Fields(candidate)
       IN  /\ ~Refused(check_document(candidate, schema, How)
                       \cup check_refs(fields) \cup CyclesFormed(<<>>, fields))
           /\ file' = candidate
           /\ report' = Report("new", NewOps(ops), file, fields)
    /\ UNCHANGED <<schema, scan, moved>>

-----------------------------------------------------------------------------
(* mv of a document the file refers to.                                       *)

\* A line of the body is a text in which "[" or "![" opens a link, "](" ends its words and ")"
\* its destination, which may stand in "<" and ">". links::scan: where each link opens.
Opens == {"[", "!["}
Ends(line, at) ==
    {k \in at + 1 .. Len(line) :
       /\ line[k] = "]("
       /\ Cardinality({i \in at + 1 .. k : line[i] \in Opens})
          < Cardinality({i \in at + 1 .. k : line[i] = "]("})}
WordsEnd(line, at) == Min(Ends(line, at))
CloseOf(line, at) == Min({k \in at .. Len(line) : line[k] = IF line[at] = "<" THEN ">" ELSE ")"})
DestinationFrom(line, at) == SubSeq(line, IF line[at] = "<" THEN at + 1 ELSE at, CloseOf(line, at) - 1)
WrittenAt(line, at) == DestinationFrom(line, WordsEnd(line, at) + 1)
Openers(line) == {i \in DOMAIN line : line[i] \in Opens}
LinksOn(line) == {[col |-> at, written |-> WrittenAt(line, at)] : at \in Openers(line)}

\* A token "[", "![", "](" or ")" is one that makes a link, and what else is written with these
\* characters is in tokens of other words: so what a person leaves has whole links, a destination
\* holds none of those tokens, and no more does a name of the moved document. A name that moves
\* is not the new one of another, and none is empty; no field is called `$body` (schema.rs,
\* field_name_problem).
Marks == Opens \cup {"](", ")", "<", ">"}
IsDestination(line, from, close) ==
    /\ line[close] = IF line[from] = "<" THEN ">" ELSE ")"
    /\ \A k \in (IF line[from] = "<" THEN from + 1 ELSE from) .. close - 1 : line[k] \notin Marks
Whole(line) ==
    /\ Sequence(line)
    /\ \A at \in Openers(line) :
         /\ Ends(line, at) # {}
         /\ \E close \in WordsEnd(line, at) + 1 .. Len(line) : IsDestination(line, WordsEnd(line, at) + 1, close)
ASSUME LinksAreWhole ==
    \A f \in HandFiles : Sequence(f.body) /\ \A i \in DOMAIN f.body : Whole(f.body[i])
ASSUME NamesAreWords ==
    \A w \in DOMAIN Renamed :
      /\ w # NoText /\ Sequence(Renamed[w]) /\ ToSet(Renamed[w]) \cap Marks = {}
      /\ Renamed[w] \in DOMAIN Renamed => Renamed[Renamed[w]] = Renamed[w]
ASSUME BodyIsNoField == \A s \in Schemas : ~Declares(s, "$body")

\* Lines are counted from the top of the file: the fences and the block are lines too, and a
\* list has one for each of its items.
EntryLines(entry) == IF entry.shape = "list" THEN 1 + Len(entry.items) ELSE 1
LinesAbove(f) ==
    IF f.block # "closed" THEN 0
    ELSE LET lines[n \in 0 .. Len(f.entries)] ==
               IF n = 0 THEN 2 ELSE lines[n - 1] + EntryLines(f.entries[n])
         IN  lines[Len(f.entries)]

\* The destination a link names, without its anchor, and the one it has afterwards.
Destination(written) == IF Has(written, <<"#">>) THEN Left(written, <<"#">>) ELSE written
moved_body_link(written) ==
    Renamed[Destination(written)] \o SubSeq(written, Len(Destination(written)) + 1, Len(written))
moved_name(reference) ==
    IF reference.field = "$body" THEN moved_body_link(reference.written) ELSE Renamed[reference.written]

\* mv_reverse_scan, of this file: the refs in fields that can be read, one for each item of a
\* list, and the links.
ScanRefs(f) ==
    (UNION {{[field |-> r.field, written |-> r.written, line |-> 0, col |-> n] :
               n \in {m \in DOMAIN FieldValue(Fields(f), r.field).items :
                        FieldValue(Fields(f), r.field).items[m] = r.written}} :
              r \in {q \in RefsIn(IF Readable(f) THEN Fields(f) ELSE <<>>) : q.written \in DOMAIN Renamed}})
    \cup (UNION {{[field |-> "$body", written |-> l.written, line |-> LinesAbove(f) + i, col |-> l.col] :
                    l \in {k \in LinksOn(f.body[i]) : Destination(k.written) \in DOMAIN Renamed}} :
                  i \in IF Splits(f) THEN DOMAIN f.body ELSE {}})

MvScan ==
    /\ Collected /\ file # Absent /\ scan = Idle /\ ~moved
    /\ ScanRefs(file) # {}
    /\ scan' = [at |-> file, refs |-> ScanRefs(file)]
    /\ UNCHANGED <<schema, file, clock, moved, report>>

\* rewritten_body_destination: the brackets stay, a blank is written the way the old name wrote
\* its own.
rewritten_body_destination(bracketed, encoded, new) ==
    IF bracketed \/ (~encoded /\ Contains(new, " ")) THEN <<"<">> \o new \o <<">">>
    ELSE IF encoded THEN ReplaceAll(new, " ", "%20") ELSE new

\* splice_body_destination: the first destination after the column must still be the old name.
\* The line is returned as it was when it is not, or when no such line is left.
splice_body_destination(line, col, old, new) ==
    LET ends == {k \in col .. Len(line) : line[k] = "]("}
        open == Min(ends)
        bracketed == open < Len(line) /\ line[open + 1] = "<"
        start == IF bracketed THEN open + 2 ELSE open + 1
        close == start + Len(old)
    IN  IF ends = {} \/ close - 1 > Len(line) \/ SubSeq(line, start, close - 1) # old THEN line
        ELSE SubSeq(line, 1, open)
             \o rewritten_body_destination(bracketed, Contains(old, "%20"), new)
             \o SubSeq(line, IF bracketed THEN close + 1 ELSE close, Len(line))

\* The links of the scan on one line, the last first, so that no column moves before it is used.
SpliceAt(line, found, col) ==
    LET r == CHOOSE q \in found : q.col = col
    IN  IF \E q \in found : q.col = col THEN splice_body_destination(line, col, r.written, moved_name(r))
        ELSE line
\* Mutant of RewriteLine: in the order they are written.
RewriteLineForward(line, found) ==
    LET rewritten[n \in 0 .. Len(line)] == IF n = 0 THEN line ELSE SpliceAt(rewritten[n - 1], found, n)
    IN  rewritten[Len(line)]
RewriteLine(line, found) ==
    LET rewritten[n \in 0 .. Len(line)] ==
          IF n = 0 THEN line ELSE SpliceAt(rewritten[n - 1], found, Len(line) + 1 - n)
    IN  rewritten[Len(line)]
BodyRefs(refs) == {r \in refs : r.field = "$body" /\ moved_name(r) # r.written}
RewriteBody(f, refs) ==
    [i \in DOMAIN f.body |-> RewriteLine(f.body[i], {r \in BodyRefs(refs) : r.line = LinesAbove(f) + i})]

\* Mutant of RewriteCall: a list of refs is written as one ref.
RewriteCallScalar(original, r) == PutCall(r.field, TextValue(moved_name(r)))

\* The refs in fields: an item of a list where it still is one, a scalar whatever it holds now.
RewriteCall(original, r) ==
    IF HoldsList(original, r.field) THEN ReplaceCall(r.field, r.written, moved_name(r))
    ELSE PutCall(r.field, TextValue(moved_name(r)))
FieldRefs(refs) == {r \in refs : r.field # "$body" /\ moved_name(r) # r.written}
RewriteFields(fields, refs) ==
    LET Calls(found) == [n \in DOMAIN found |-> RewriteCall(fields, found[n])]
    IN  Told(fields, Calls(SetToSeq(FieldRefs(refs))))

rewrite_holder(f, refs) ==
    LET fields == Fields(f)
        body == RewriteBody(f, refs)
    IN  IF FieldRefs(refs) = {} THEN [f EXCEPT !.body = body]
        ELSE assemble_frontmatter(f.block = "closed", finish(RewriteFields(fields, refs)), body)

\* Under the locks the file is read again, and the refs are those of the scan. A block that can
\* no longer be read stops the whole command.
MvRewrite ==
    /\ scan # Idle /\ file # Absent
    /\ scan' = Idle
    /\ IF Readable(file)
       THEN /\ file' = rewrite_holder(file, scan.refs)
            /\ moved' = TRUE
            /\ report' = [op |-> "mv", ops |-> <<>>, before |-> file, fields |-> <<>>, clock |-> clock,
                          scan |-> scan]
            /\ Passes
       ELSE UNCHANGED <<file, clock, moved, report>>
    /\ UNCHANGED schema

\* mv_document_change, when the file itself is moved within its collection: the name it had goes
\* to the end of its `auto: moves` field, unless it is there from a run that was stopped.
MovesField ==
    schema.fields[CHOOSE i \in DOMAIN schema.fields :
                    /\ schema.fields[i].auto = "moves"
                    /\ \A j \in DOMAIN schema.fields : schema.fields[j].auto = "moves" => i <= j]
RecordMove(f) ==
    LET field == MovesField.name
        fields == Fields(f)
        recorded == HoldsList(fields, field) /\ FieldValue(fields, field).items # <<>>
                    /\ Last(FieldValue(fields, field).items) = PreviousName
    IN  IF recorded THEN f
        ELSE assemble_frontmatter(f.block = "closed",
                                  finish(append_item(fields, field, PreviousName)), f.body)
MvItself ==
    /\ Passes
    /\ Collected /\ file # Absent /\ Readable(file)
    /\ AutoFields({"moves"}) # {}
    /\ file' = RecordMove(file)
    /\ report' = Report("mvItself", <<>>, file, <<>>)
    /\ UNCHANGED <<schema, scan, moved>>

-----------------------------------------------------------------------------
(* A person saves the file, or deletes it.                                    *)
EditByHand ==
    /\ Passes
    /\ \E f \in HandFiles \cup {Absent} : file' = f
    /\ file' # file
    /\ report' = Report("hand", <<>>, file, <<>>)
    /\ UNCHANGED <<schema, scan, moved>>

Init ==
    /\ schema \in Schemas \cup {NoSchema}
    /\ file \in HandFiles \cup {Absent}
    /\ clock = 0
    /\ scan = Idle
    /\ moved = FALSE
    /\ report = Report("hand", <<>>, Absent, <<>>)

Next ==
    \/ \E ops \in Sets, ifs \in Ifs : set_collected(ops, ifs) \/ set_loose(ops, ifs)
    \/ \E ops \in Sets : new_document(ops)
    \/ MvScan \/ MvRewrite \/ MvItself
    \/ EditByHand

Spec == Init /\ [][Next]_vars

-----------------------------------------------------------------------------
(* Properties.                                                                *)

NamedBy(ops) == {ops[i].field : i \in DOMAIN ops}
Taken(ops) == {ops[i].field : i \in {j \in DOMAIN ops : ops[j].kind = "remove"}}
Updated == {f.name : f \in AutoFields({"update"})}
InOrder(before, after, names) ==
    \A a, b \in names : FieldAt(before, a) < FieldAt(before, b) <=> FieldAt(after, a) < FieldAt(after, b)

\* Although it writes the whole block anew, from typed values, `set` leaves every field it was
\* not told to write with its value, every field it was not told to remove in its place, and the
\* body as it was; the `auto: update` fields are the time of the write exactly when another value
\* is no longer the same; and the document it prints is the one the file holds.
SetChangesWhatItSays ==
    report.op = "set" =>
      LET SaysSo(before, after) ==
            /\ report.fields = after
            /\ file.body = report.before.body
            /\ \A name \in (NamesOf(before) \cup NamesOf(after)) \ (NamedBy(report.ops) \cup Updated) :
                 SameField(before, after, name)
            /\ Readable(file) /\ InOrder(before, after, (NamesOf(before) \cap NamesOf(after)) \ Taken(report.ops))
            /\ \A stamp \in Updated :
                 IF \E name \in NamesOf(before) \cup NamesOf(after) :
                      name \notin Updated /\ ~SameField(before, after, name)
                 THEN HasField(after, stamp) /\ FieldValue(after, stamp).items = <<TimeAt(report.clock)>>
                 ELSE SameField(before, after, stamp)
      IN  SaysSo(Fields(report.before), Fields(file))

\* No command leaves an error in the block that was not there before it: `set` and `new` leave
\* none at all, and `mv`, which checks nothing it writes, makes no value stop fitting its type
\* and moves no field along its transitions, whatever was written since it looked. Left out is a
\* list of refs that was removed since: rewrite_holder then writes the field anew, as a scalar.
ErrorsIn(f) == {e \in check_document(f, schema, How) : e.level = "error"}
NoCommandBreaksTheBlock ==
    report.op # "hand" /\ file # Absent /\ Collected =>
      LET Keeps(before, after) ==
            /\ \A e \in ErrorsIn(file) :
                 /\ report.op \notin {"set", "new"}
                 /\ e \in ErrorsIn(report.before) \/ ~HasField(before, e.field)
            /\ check_transitions(schema, before, after) = {}
      IN  Keeps(Fields(report.before), Fields(file))

\* When nothing was written between the scan and the rewrite, every link and every ref that named
\* the moved document names it afterwards, wherever on its line or in its list it stands and
\* however many stand there, every other word of the body and every other value is as it was, and
\* the fields are in their order. Left out are the lines on which a link stands around an image:
\* the first destination after the column is then the image's, and splice_body_destination leaves
\* the link as it was.
Nested(line) == \E i \in Openers(line) : WordsEnd(line, i) # Min({k \in i .. Len(line) : line[k] = "]("})
Decoded(written) == ReplaceAll(written, "%20", " ")
NewName(written) == IF Destination(written) \in DOMAIN Renamed THEN moved_body_link(written) ELSE written
\* The words of a line, with the destination of each link at its "[", not where it stands.
InDestination(line) ==
    UNION {LET from == WordsEnd(line, at) + 1
           IN  from .. IF line[from] = "<" THEN CloseOf(line, from) ELSE CloseOf(line, from) - 1 :
             at \in Openers(line)}
Shown(line, at) ==
    IF at \in InDestination(line) THEN <<>>
    ELSE <<[word |-> line[at], to |-> IF line[at] \in Opens THEN WrittenAt(line, at) ELSE NoText]>>
Words(line) ==
    LET words[n \in 0 .. Len(line)] ==
          IF n = 0 THEN <<>> ELSE Shown(line, Len(line) + 1 - n) \o words[n - 1]
    IN  words[Len(line)]
Follow(new, old) ==
    /\ Len(new) = Len(old)
    /\ \A n \in 1 .. Len(old) : /\ new[n].word = old[n].word
                                /\ Decoded(new[n].to) = Decoded(NewName(old[n].to))
NewOf(written) == IF written \in DOMAIN Renamed THEN Renamed[written] ELSE written
Renewed(value) == [value EXCEPT !.items = [n \in DOMAIN @ |-> NewOf(@[n])]]
LinksFollow ==
    report.op = "mv" /\ report.before = report.scan.at =>
      /\ DOMAIN file.body = DOMAIN report.before.body
      /\ \A i \in DOMAIN file.body :
           Nested(report.before.body[i]) \/ Follow(Words(file.body[i]), Words(report.before.body[i]))
      /\ LET Follows(before, after) ==
               /\ NamesOf(before) = NamesOf(after) /\ InOrder(before, after, NamesOf(before))
               /\ \A name \in NamesOf(before) :
                    FieldValue(after, name) = IF name \in {r.field : r \in RefsIn(before)}
                                              THEN Renewed(FieldValue(before, name))
                                              ELSE FieldValue(before, name)
         IN  Follows(Fields(report.before), Fields(file))
=============================================================================
