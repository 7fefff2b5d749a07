---------------------------- MODULE References ----------------------------
(* The refs of a project's documents (typdoc-core: refs.rs, and of project.rs *)
(* document_out_refs, refs, incoming_refs, prescan_refs and the scans of mv): *)
(* what a document refers to, what refers to it, which names were moved away  *)
(* from, and which documents lie on a cycle.                                  *)
(*                                                                            *)
(* Names has the grammar of a written name; here a name comes with what it    *)
(* reads as in its place, `Reads`:                                            *)
(*   [is |-> "key", ns, key, slug], [is |-> "path", path],                    *)
(*   [is |-> "import", alias, rest] with the reading of the rest,             *)
(*   [is |-> "badPrefix"], [is |-> "absolute"], [is |-> "notARef"] (a URL).   *)
EXTENDS Queries, Validation, Bodies

CONSTANTS
    Alphabet,         \* the characters of the paths, in byte order
    Entries,          \* what the index says of a path a collection matches: [collection, ns, key, slug, inForm]
    Collections,      \* by name: [schema, name, levels, ignore, inlineCode, fencedCode], a schema with its name
    Loose,            \* the files of the project no collection matches: path |-> [ns, file]
    Imports,          \* by alias: [loaded, entries, files, codes], an entry [key, slug, schema, doc, readable]
    Global,           \* the levels the project sets
    Reads(_, _, _)    \* a written name, the document it stands in, and "ref", "link", "mention" or "record"

VARIABLE disk         \* the documents: path |-> file, or Absent

Absent == [block |-> "absent", entries |-> <<>>, body |-> <<>>]
Indexed(path) == path \in DOMAIN Entries /\ disk[path] # Absent
Documents == {p \in DOMAIN Entries : disk[p] # Absent}
CollectionOf(path) == Collections[Entries[path].collection]
SchemaOf(path) == CollectionOf(path).schema

\* str::cmp, and a BTreeSet's order.
Byte == [char \in ToSet(Alphabet) |-> SelectInSeq(Alphabet, LAMBDA c : c = char)]
TextBefore(a, b) ==
    LET differ == {i \in 1 .. Min({Len(a), Len(b)}) : a[i] # b[i]}
    IN  IF differ = {} THEN Len(a) < Len(b) ELSE Byte[a[Min(differ)]] < Byte[b[Min(differ)]]
FirstText(texts) == CHOOSE t \in texts : \A u \in texts \ {t} : TextBefore(t, u)

-----------------------------------------------------------------------------
(* Resolving one name. What is found has the project it is in (Home for this  *)
(* one), its schema's name and code when it is in a collection, how it was    *)
(* written, and whether the slug it was written with is another now.          *)
Home == "home"
Unresolved(reason) == [found |-> FALSE, reason |-> reason]
Info(collection) == <<[name |-> collection.schema.name, coded |-> collection.schema.code # NoText]>>
NoInfo == <<>>
Resolved(project, path, info, via, stale) ==
    [found |-> TRUE, project |-> project, path |-> path, info |-> info, via |-> via, stale |-> stale]

resolve_path(path) ==
    CASE Indexed(path) -> Resolved(Home, path, Info(CollectionOf(path)), "path", FALSE)
      [] ~Indexed(path) /\ path \in DOMAIN Loose -> Resolved(Home, path, NoInfo, "path", FALSE)
      [] OTHER -> Unresolved("not-found")

\* The first path of a key, when two files have it.
KeyGroup(ns, key) == {p \in Documents : Entries[p].ns = ns /\ Entries[p].key = key}
Stale(slug, entry) == slug # NoText /\ slug # entry.slug
resolve_key(reading) ==
    LET group == KeyGroup(reading.ns, reading.key)
        path == FirstText(group)
    IN  IF group = {} THEN Unresolved("not-found")
        ELSE Resolved(Home, path, Info(CollectionOf(path)), "key", Stale(reading.slug, Entries[path]))

resolve_in_import(alias, reading) ==
    LET there == Imports[alias]
        named == {p \in DOMAIN there.entries :
                    IF reading.is = "key" THEN there.entries[p].key = reading.key ELSE p = reading.path}
        Of(path) == Resolved(alias, path, Info(there.entries[path]), reading.is,
                             reading.is = "key" /\ Stale(reading.slug, there.entries[path]))
    IN  CASE ~there.loaded -> Unresolved("import-absent")
          [] there.loaded /\ named # {} -> Of(CHOOSE p \in named : TRUE)
          [] there.loaded /\ named = {} /\ reading.is = "path" /\ reading.path \in there.files ->
               Resolved(alias, reading.path, NoInfo, "path", FALSE)
          [] OTHER -> Unresolved("not-found")

Resolve(reading) ==
    CASE reading.is = "key" -> resolve_key(reading)
      [] reading.is = "path" -> resolve_path(reading.path)
      [] reading.is = "import" -> resolve_in_import(reading.alias, reading.rest)
      [] reading.is = "absolute" -> Unresolved("absolute")
      [] reading.is = "notARef" -> Unresolved("not-found")
      [] OTHER -> Unresolved("bad-prefix")
resolve_one(written, holder) == Resolve(Reads(written, holder, "ref"))

\* A write's candidate need not be on disk yet: its own key and path name it.
NoCandidate == NoText
IsCandidate(reading, candidate) ==
    /\ candidate # NoCandidate
    /\ \/ reading.is = "path" /\ reading.path = candidate
       \/ reading.is = "key" /\ reading.ns = Entries[candidate].ns /\ reading.key = Entries[candidate].key
resolve_one_for_candidate(written, holder, candidate) ==
    LET reading == Reads(written, holder, "ref")
    IN  IF IsCandidate(reading, candidate) THEN Resolved(Home, candidate, NoInfo, reading.is, FALSE)
        ELSE Resolve(reading)

\* A body link: never a key, and a URL is no ref at all.
classify_body(target, holder) == Reads(target, holder, "link")

\* A qualified name allows a schema of that import, a bare one a schema of this project.
target_allowed(target, resolved) ==
    target = <<>> \/ (resolved.info # NoInfo /\ <<resolved.project, resolved.info[1].name>> \in target[1])

-----------------------------------------------------------------------------
(* The refs of a document, in its fields and in its body.                     *)
RefTypes == {"ref", "ref[]"}
ref_values(value) == IF value.type = "Empty" THEN <<NoText>> ELSE value.items
IsRefField(schema, name, value) ==
    Declares(schema, name) /\ Declared(schema, name).kind \in RefTypes /\ fits(Declared(schema, name).kind, value)
FieldRefs(schema, fields) ==
    UNION {{[field |-> fields[i].name, at |-> n, written |-> ref_values(fields[i].value)[n]] :
              n \in DOMAIN ref_values(fields[i].value)} :
             i \in {j \in DOMAIN fields : IsRefField(schema, fields[j].name, fields[j].value)}}

Reference(field, at, written, other) == [field |-> field, at |-> at, written |-> written, other |-> other]
BodyRefs(body) ==
    {[field |-> "$body", at |-> l.line, written |-> l.written] :
       l \in {k \in scan_links(body) : TargetOf(k.written) # NoTarget}}
document_out_refs(path, fields, body) ==
    {Reference(r.field, r.at, r.written, resolve_one(r.written, path)) : r \in FieldRefs(SchemaOf(path), fields)}
    \cup {Reference(r.field, r.at, r.written, Resolve(classify_body(TargetOf(r.written), path))) :
            r \in {b \in BodyRefs(body) : classify_body(TargetOf(b.written), path).is # "notARef"}}

FieldsOf(path) == ReadFields(disk[path], SchemaOf(path))
refs(path) == document_out_refs(path, FieldsOf(path), disk[path].body)

is_same_document(other, path) == other.found /\ other.project = Home /\ other.path = path

\* refs --reverse and incoming_refs: a document that cannot be read refers to nothing.
Readables == {p \in Documents : Readable(disk[p])}
incoming_refs == UNION {{[holder |-> p, reference |-> r] : r \in refs(p)} : p \in Readables}
refs_reverse(path) == {i \in incoming_refs : is_same_document(i.reference.other, path)}

-----------------------------------------------------------------------------
(* What mv finds before it has a lock.                                        *)
LinksOff(path) ==
    effective_level("error", "body.links", Global, CollectionOf(path).levels, FALSE, FALSE) = "off"
mv_rewrites(path) == {i \in refs_reverse(path) : i.reference.field # "$body" \/ ~LinksOff(i.holder)}
mv_reverse_mentions(path) ==
    IF Entries[path].key = NoText THEN {}
    ELSE UNION {{[holder |-> p, at |-> i, written |-> disk[p].body[i].written] :
                   i \in {j \in mentions(disk[p].body, CollectionOf(p).inlineCode, CollectionOf(p).fencedCode) :
                            is_same_document(Resolve(Reads(disk[p].body[j].written, p, "mention")), path)}} :
                  p \in {q \in Documents : Splits(disk[q])}}
mv_unrewritten(path) ==
    {[holder |-> i.holder, at |-> i.reference.at, written |-> i.reference.written] :
       i \in refs_reverse(path) \ mv_rewrites(path)}
    \cup mv_reverse_mentions(path)

-----------------------------------------------------------------------------
(* prescan_refs: what every document of `texts` records and refers to, the    *)
(* candidate of a write among them.                                           *)
TextsWith(candidate, file) ==
    [p \in Documents \cup (IF candidate = NoCandidate THEN {} ELSE {candidate}) |->
       IF p = candidate THEN file ELSE disk[p]]
Scanned(texts) == {p \in DOMAIN texts : Readable(texts[p])}

\* MovedFrom::of: a key of one namespace, or a path.
NotMoved == <<>>
MovedFrom(reading) ==
    CASE reading.is = "key" -> <<"key", reading.ns, reading.key>>
      [] reading.is = "path" -> <<"path", reading.path>>
      [] OTHER -> NotMoved

\* The names that documents recorded moving away from, in their `auto: moves` fields.
RecordsIn(schema, fields) ==
    UNION {ToSet(fields[i].value.items) :
             i \in {j \in DOMAIN fields : /\ Declares(schema, fields[j].name)
                                          /\ Declared(schema, fields[j].name).auto = "moves"
                                          /\ fields[j].value.type = "List"}}
moved_from(texts) ==
    (UNION {{MovedFrom(Reads(w, p, "record")) : w \in RecordsIn(SchemaOf(p), ReadFields(texts[p], SchemaOf(p)))} :
              p \in Scanned(texts)})
    \ {NotMoved}

AcyclicFields ==
    UNION {{f.name : f \in {g \in ToSet(SchemaOf(p).fields) : g.acyclic /\ g.kind \in RefTypes}} : p \in DOMAIN Entries}

\* The paths of those that are found.
Ends(ends) ==
    LET found[n \in 0 .. Len(ends)] ==
          IF n = 0 THEN <<>>
          ELSE IF ends[n].found THEN Append(found[n - 1], ends[n].path) ELSE found[n - 1]
    IN  found[Len(ends)]

\* The edges of a field: where each document's refs lead, in the order they are written.
Outgoing(texts, field, candidate) ==
    [p \in DOMAIN texts |->
       LET schema == SchemaOf(p)
           fields == ReadFields(texts[p], schema)
           ends == [n \in DOMAIN ref_values(FieldValue(fields, field)) |->
                      resolve_one_for_candidate(ref_values(FieldValue(fields, field))[n], p, candidate)]
       IN  IF /\ Readable(texts[p]) /\ HasField(fields, field)
              /\ IsRefField(schema, field, FieldValue(fields, field)) /\ Declared(schema, field).acyclic
           THEN Ends(ends) ELSE <<>>]

\* cyclic_nodes: a depth-first search with one frame for each node on the path, begun anew at
\* each node in order that is not done. A node with a frame is gray and a `done` one black. A
\* cycle is found where a child is gray.
Children(outgoing, node) == IF node \in DOMAIN outgoing THEN outgoing[node] ELSE <<>>
Nodes(outgoing) ==
    {p \in DOMAIN outgoing : outgoing[p] # <<>>} \cup UNION {ToSet(outgoing[p]) : p \in DOMAIN outgoing}
Push(search, node) == [search EXCEPT !.frames = Append(@, [node |-> node, next |-> 1])]
Pop(search) == [search EXCEPT !.frames = Front(@), !.done = @ \cup {Last(search.frames).node}]
Begin(search, outgoing) ==
    IF Nodes(outgoing) \subseteq search.done THEN search
    ELSE Push(search, FirstText(Nodes(outgoing) \ search.done))

Gray(search, node) == {i \in DOMAIN search.frames : search.frames[i].node = node}

\* Mutant of CycleFrom: the child that closes a cycle is left out.
CycleBelow(search, child) ==
    {search.frames[i].node : i \in Min(Gray(search, child)) + 1 .. Len(search.frames)}

CycleFrom(search, child) == {search.frames[i].node : i \in Min(Gray(search, child)) .. Len(search.frames)}
turn(search, outgoing) ==
    LET depth == Len(search.frames)
        frame == Last(search.frames)
        child == Children(outgoing, frame.node)[frame.next]
        on == [search EXCEPT !.frames[depth].next = @ + 1]
    IN  IF depth = 0 THEN Begin(search, outgoing)
        ELSE IF frame.next > Len(Children(outgoing, frame.node)) THEN Pop(search)
        ELSE IF Gray(search, child) # {} THEN [on EXCEPT !.cyclic = @ \cup CycleFrom(search, child)]
        ELSE IF child \in search.done THEN on
        ELSE Push(on, child)

\* Each node is pushed and popped once and each of its children looked at once, so after as many
\* turns as that the search is over.
Turns(outgoing) ==
    Cardinality(UNION {{p} \X (0 .. Len(Children(outgoing, p)) + 1) : p \in Nodes(outgoing)})
cyclic_nodes(outgoing) ==
    LET turns == Turns(outgoing)
        search[n \in 0 .. turns] ==
          IF n = 0 THEN [frames |-> <<>>, done |-> {}, cyclic |-> {}] ELSE turn(search[n - 1], outgoing)
    IN  search[turns].cyclic

\* The documents found on a cycle, each with the field.
acyclic_findings(texts, candidate) ==
    UNION {{<<p, Finding("error", "refs.acyclic", edges.field)>> :
              p \in cyclic_nodes(edges.outgoing) \cap DOMAIN texts} :
             edges \in {[field |-> field, outgoing |-> Outgoing(texts, field, candidate)] : field \in AcyclicFields}}
=============================================================================
