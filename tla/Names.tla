------------------------------- MODULE Names -------------------------------
(* The name grammar (core/name.rs, and read_key of core/argument.rs): how a   *)
(* written name is read as a document, and how a document is written as a     *)
(* name. A scene is a project as names see it: its namespaces (a name and a   *)
(* folder each), the documents of its index, the other files on its disk, and *)
(* its imports (a scene by alias, or Absent).                                 *)
EXTENDS Templates

Absent == [absent |-> TRUE]

(* Paths ---------------------------------------------------------------------*)

(* schema::normalize: `.` dropped, `..` taken against what is before it.      *)
Normalize(path) ==
    LET Keep(kept, part) ==
            IF part \in {<<>>, <<".">>} THEN kept
            ELSE IF part = <<"..">> /\ kept # <<>> /\ Last(kept) # <<"..">>
            THEN Front(kept) ELSE Append(kept, part)
        joined == PathOf(FoldLeft(Keep, <<>>, Segments(path)))
    IN  IF IsPrefix(<<"/">>, path) THEN <<"/">> \o joined ELSE joined

JoinPath(base, rest) ==
    Normalize(IF base = <<>> THEN rest ELSE base \o <<"/">> \o rest)

FolderOf(path) ==
    LET segments == Segments(path) IN PathOf(Front(segments))

(* `path` written from the folder `base`.                                     *)
RelativeTo(base, path) ==
    LET Names(p) == SelectSeq(Segments(p), LAMBDA s : s # <<>>)
        from == Names(base)
        to == Names(path)
        common == Max({n \in 0 .. Min({Len(from), Len(to)}) :
                         SubSeq(from, 1, n) = SubSeq(to, 1, n)})
    IN  PathOf([i \in 1 .. Len(from) - common |-> <<"..">>]
               \o SubSeq(to, common + 1, Len(to)))

FromDocument(text) == IsPrefix(<<".", "/">>, text) \/ IsPrefix(<<"..", "/">>, text)

(* Namespaces ----------------------------------------------------------------*)

(* The namespace of that name, or `default` in a project with one; 0 if none. *)
NamespaceNamed(namespaces, name) ==
    LET at == {i \in DOMAIN namespaces : namespaces[i].name = name}
    IN  IF at # {} THEN Min(at)
        ELSE IF name = <<"default">> /\ Len(namespaces) = 1 THEN 1 ELSE 0

PrefixOf(namespaces, n) ==
    IF Len(namespaces) = 1 THEN <<"default">> ELSE namespaces[n].name

InFolder(folder, path) == folder = path \/ IsPrefix(folder \o <<"/">>, path)

(* The namespace with the deepest folder that holds `path`; 0 outside all.    *)
NamespaceOfPath(namespaces, path) ==
    LET within == {i \in DOMAIN namespaces :
                     namespaces[i].folder # <<>> /\ InFolder(namespaces[i].folder, path)}
        root == {i \in DOMAIN namespaces : namespaces[i].folder = <<>>}
    IN  IF within # {}
        THEN CHOOSE i \in within :
                 \A j \in within : Len(namespaces[i].folder) >= Len(namespaces[j].folder)
        ELSE IF root # {} THEN Min(root) ELSE 0

(* Keys: CODE-number, alone or with a slug, and never ending in `.md`.        *)
NoKey == [isKey |-> FALSE]
ReadKey(text) ==
    LET digits == LeadingDigits(SubSeq(text, 3, Len(text)))
        rest == SubSeq(text, 3 + digits, Len(text))
        slug == Tail(rest)
    IN  IF \/ IsSuffix(<<".md">>, text) \/ Len(text) < 3
           \/ text[1] \notin Codes \/ text[2] # "-" \/ digits = 0
        THEN NoKey
        ELSE IF rest = <<>> THEN [key |-> text, slug |-> None]
        ELSE IF rest[1] = "-" /\ ValidSlug(slug)
        THEN [key |-> SubSeq(text, 1, 2 + digits), slug |-> slug]
        ELSE NoKey

(* Places: a ref or a body link in a document, a mention, an argument.        *)
RefIn(path, ns, base) == [kind |-> "ref", path |-> path, ns |-> ns, refBase |-> base, scope |-> {ns}]
LinkIn(path, ns, base) == [RefIn(path, ns, base) EXCEPT !.kind = "body"]
MentionIn(ns) == [kind |-> "mention", path |-> <<>>, ns |-> ns, refBase |-> "file", scope |-> {ns}]
ArgumentIn(scope) == [kind |-> "argument", path |-> <<>>, ns |-> 0, refBase |-> "file", scope |-> scope]

InDocument(place) == place.kind \in {"ref", "body"}
Here(place) == IF InDocument(place) THEN FolderOf(place.path) ELSE <<>>
Base(place, namespaces) ==
    IF ~InDocument(place) THEN <<>>
    ELSE IF place.refBase = "file" THEN FolderOf(place.path) ELSE namespaces[place.ns].folder
(* Reading -------------------------------------------------------------------*)

(* What a place allows: Rules::of, and Rules::in_import for the rest after an *)
(* alias. `keys` is the set of namespaces a key is looked up in.              *)
NoKeys == {}
NeedsPrefix == {0}
RulesOf(place, namespaces) ==
    [base |-> Base(place, namespaces), here |-> Here(place),
     keys |-> IF place.kind = "body" THEN NoKeys ELSE place.scope,
     bodyLink |-> place.kind = "body", mention |-> place.kind = "mention",
     inDocument |-> InDocument(place), inImport |-> FALSE]

InImport(rules, namespaces) ==
    [rules EXCEPT !.base = <<>>, !.here = <<>>, !.inDocument = FALSE, !.inImport = TRUE,
                  !.keys = IF rules.bodyLink THEN NoKeys
                           ELSE IF Len(namespaces) = 1 THEN {1} ELSE NeedsPrefix]

(* The outcomes of reading; the last four are also outcomes of resolving.     *)
KeyReading(namespaces, read) == [is |-> "key", namespaces |-> namespaces, key |-> read.key, slug |-> read.slug]
PathReading(path) == [is |-> "path", path |-> path]
ImportReading(alias, rest) == [is |-> "import", alias |-> alias, rest |-> rest]
BadPrefix == [is |-> "badPrefix"]
Absolute == [is |-> "absolute"]
NotARef == [is |-> "notARef"]
NoReading == [is |-> "nothing"]

URLSchemes == {<<"http">>, <<"https">>, <<"mailto">>, <<"file">>}

(* `text` as a key where `keys` says that one is read.                        *)
KeyIn(text, keys, rules) ==
    IF rules.bodyLink \/ ReadKey(text) = NoKey THEN NoReading
    ELSE IF keys = NeedsPrefix THEN BadPrefix
    ELSE KeyReading(keys, ReadKey(text))

(* read_with: the steps of the grammar in their order.                        *)
ReadWith(text, rules, namespaces) ==
    LET prefix == Left(text, <<":">>)
        rest == Right(text, <<":">>)
        prefixed == Has(text, <<":">>)
        named == NamespaceNamed(namespaces, prefix)
        inNamed == KeyIn(rest, {named}, rules)
        plain == KeyIn(text, rules.keys, rules)
    IN  IF rules.bodyLink /\ prefixed
             /\ (prefix \in URLSchemes \/ IsPrefix(<<"/", "/">>, rest)) THEN NotARef
        ELSE IF rules.inDocument /\ FromDocument(text)
             THEN PathReading(JoinPath(rules.here, text))
        ELSE IF rules.inDocument /\ IsPrefix(<<"/">>, text) THEN Absolute
        ELSE IF Has(text, <<":", ":">>)
             THEN IF rules.inImport THEN BadPrefix
                  ELSE ImportReading(Left(text, <<":", ":">>), Right(text, <<":", ":">>))
        ELSE IF prefixed /\ named > 0
             THEN IF inNamed # NoReading THEN inNamed
                  ELSE IF rules.mention THEN BadPrefix
                  ELSE PathReading(JoinPath(namespaces[named].folder, rest))
        ELSE IF prefixed
             THEN IF rules.bodyLink /\ ~IsSuffix(<<".md">>, rest) THEN NotARef ELSE BadPrefix
        ELSE IF plain # NoReading THEN plain
        ELSE IF rules.mention THEN BadPrefix
        ELSE PathReading(JoinPath(rules.base, text))

(* locate: a reading and the import it is to be looked up in, if any.         *)
Located(import, reading) == [import |-> import, reading |-> reading]
Locate(text, place, scene) ==
    LET There(rules, first, imported) ==
            IF imported = Absent THEN Located(None, [is |-> "importAbsent"])
            ELSE Located(first.alias, ReadWith(first.rest, InImport(rules, imported.namespaces),
                                               imported.namespaces))
        Followed(rules, first) ==
            IF first.is # "import" THEN Located(None, first)
            ELSE IF first.alias \notin DOMAIN scene.imports THEN Located(None, BadPrefix)
            ELSE There(rules, first, scene.imports[first.alias])
        Read(rules) == Followed(rules, ReadWith(text, rules, scene.namespaces))
    IN  Read(RulesOf(place, scene.namespaces))

(* resolve_key_in and resolve_path: what is at a reading.                     *)
NotFound == [is |-> "notFound"]
Ambiguous == [is |-> "ambiguous"]
Resolved(project, path, via) == [is |-> "document", project |-> project, path |-> path, via |-> via]
LookUp(located, scene) ==
    LET reading == located.reading
        there == IF located.import = None THEN scene ELSE scene.imports[located.import]
        found == {d \in there.docs : d.ns \in reading.namespaces /\ d.key = reading.key}
    IN  IF reading.is = "key"
        THEN IF found = {} THEN NotFound
             ELSE IF Cardinality({d.ns : d \in found}) > 1 THEN Ambiguous
             ELSE Resolved(located.import, (CHOOSE d \in found : TRUE).path, "key")
        ELSE IF reading.is = "path"
        THEN IF \/ \E d \in there.docs : d.path = reading.path
                \/ reading.path \in there.files
             THEN Resolved(located.import, reading.path, "path")
             ELSE NotFound
        ELSE IF reading.is = "import" THEN BadPrefix
        ELSE reading

Resolve(text, place, scene) == LookUp(Locate(text, place, scene), scene)
(* Writing -------------------------------------------------------------------*)

(* `doc` is an identity: its project (None for this one), namespace, path,    *)
(* key and slug; `namespaces` are those of its project.                       *)
WithPrefix(doc, namespaces) ==
    PrefixOf(namespaces, doc.ns) \o <<":">> \o RelativeTo(namespaces[doc.ns].folder, doc.path)

\* mutant: a path that climbs is written from the base all the same
RelativeFromBase(doc, place, namespaces, start) ==
    LET relative == RelativeTo(IF start = "base" THEN Base(place, namespaces) ELSE Here(place), doc.path)
    IN  IF start = "dot" THEN <<".", "/">> \o relative ELSE relative

(* relative: the path from the place's base (`start` is "base") or from the   *)
(* document's folder ("here", and "dot" to keep a leading `./`).              *)
Relative(doc, place, namespaces, start) ==
    LET Form(base, here, climbs, from, relative) ==
            LET colon == ":" \in Range(Head(Segments(relative)))
            IN  IF \/ /\ climbs /\ base # here /\ place.kind = "ref"
                      /\ NamespaceOfPath(namespaces, doc.path) = doc.ns
                   \/ colon /\ from # here
                THEN WithPrefix(doc, namespaces)
                ELSE IF start = "dot" \/ colon THEN <<".", "/">> \o relative
                ELSE relative
        From(base, here, climbs, from) == Form(base, here, climbs, from, RelativeTo(from, doc.path))
        Climbing(base, here, climbs) ==
            From(base, here, climbs, IF start = "base" /\ ~climbs THEN base ELSE here)
        Start(base, here) ==
            Climbing(base, here, start = "base" /\ IsPrefix(<<"..", "/">>, RelativeTo(base, doc.path)))
    IN  Start(Base(place, namespaces), Here(place))

(* writes_from: whether a bare key at `place` is looked up in `ns` alone.     *)
WritesFrom(place, ns) == place.kind # "body" /\ place.scope = {ns}

\* mutant: the slug a key was written with is dropped
LikeWithoutSlug(doc, written, place, namespaces, inImport) ==
    LET prefixed == Has(written, <<":">>)
        rest == IF prefixed THEN Right(written, <<":">>) ELSE written
    IN  IF InDocument(place) /\ FromDocument(written)
        THEN Relative(doc, place, namespaces, IF IsPrefix(<<".", "/">>, written) THEN "dot" ELSE "here")
        ELSE IF doc.key # None /\ ReadKey(rest) # NoKey
        THEN IF prefixed \/ ~WritesFrom(place, doc.ns)
             THEN PrefixOf(namespaces, doc.ns) \o <<":">> \o doc.key ELSE doc.key
        ELSE IF prefixed THEN WithPrefix(doc, namespaces)
        ELSE Relative(doc, place, namespaces, "base")

LikeInProject(doc, written, place, namespaces, inImport) ==
    LET prefixed == Has(written, <<":">>)
        rest == IF prefixed THEN Right(written, <<":">>) ELSE written
        Key(asKey) ==
            IF doc.slug # None /\ asKey.slug # None
            THEN doc.key \o <<"-">> \o doc.slug ELSE doc.key
        bare == IF inImport THEN Len(namespaces) = 1 ELSE WritesFrom(place, doc.ns)
    IN  IF InDocument(place) /\ ~inImport /\ FromDocument(written)
        THEN Relative(doc, place, namespaces, IF IsPrefix(<<".", "/">>, written) THEN "dot" ELSE "here")
        ELSE IF doc.key # None /\ ReadKey(rest) # NoKey
        THEN (IF prefixed \/ ~bare THEN PrefixOf(namespaces, doc.ns) \o <<":">> ELSE <<>>)
             \o Key(ReadKey(rest))
        ELSE IF prefixed THEN WithPrefix(doc, namespaces)
        ELSE IF inImport \/ ~InDocument(place) THEN doc.path
        ELSE Relative(doc, place, namespaces, "base")

(* The shape `written` has, for another document.                             *)
Like(doc, written, place, namespaces) ==
    LET mark == <<":", ":">>
    IN  IF Has(written, mark)
        THEN Left(written, mark) \o mark
             \o LikeInProject([doc EXCEPT !.project = None], Right(written, mark), place, namespaces, TRUE)
        ELSE LikeInProject(doc, written, place, namespaces, FALSE)

(* The portable name, which every place of the project reads the same way.    *)
Portable(doc, namespaces) ==
    LET alias == IF doc.project = None THEN <<>> ELSE doc.project \o <<":", ":">>
    IN  alias \o (IF doc.key = None THEN WithPrefix(doc, namespaces)
                  ELSE IF Len(namespaces) = 1 THEN doc.key
                  ELSE PrefixOf(namespaces, doc.ns) \o <<":">> \o doc.key)
(* Arguments -----------------------------------------------------------------*)

(* Argument::parse: an argument told apart by its form alone.                 *)
OnDisk(text) == [form |-> "onDisk", path |-> text]
NamedPath(project, ns, path) == [form |-> "path", project |-> project, ns |-> ns, name |-> path]
NamedKey(project, ns, key) == [form |-> "key", project |-> project, ns |-> ns, name |-> key]
ParseArgument(text) ==
    LET imports == Has(text, <<":", ":">>)
        project == IF imports THEN Left(text, <<":", ":">>) ELSE None
        inProject == IF imports THEN Right(text, <<":", ":">>) ELSE text
        prefixed == Has(inProject, <<":">>)
        ns == IF prefixed THEN Left(inProject, <<":">>) ELSE None
        rest == IF prefixed THEN Right(inProject, <<":">>) ELSE inProject
    IN  IF IsPrefix(<<"/">>, text) \/ FromDocument(text)
        THEN IF IsSuffix(<<".md">>, text) THEN OnDisk(text) ELSE Refused
        ELSE IF imports /\ (project = <<>> \/ Has(inProject, <<":", ":">>)) THEN Refused
        ELSE IF IsSuffix(<<".md">>, rest) THEN NamedPath(project, ns, rest)
        ELSE IF ReadKey(rest) # NoKey THEN NamedKey(project, ns, ReadKey(rest).key)
        ELSE Refused

(* discover and discover_for: the nearest folder above that holds a project,  *)
(* for a path on disk the one above its own folder, whatever TYPDOC_DIR says. *)
(* Absolute paths begin with "/"; `projects` are the folders with a config.   *)
Ancestors(dir) ==
    LET segments == Segments(dir) IN {PathOf(SubSeq(segments, 1, n)) : n \in 1 .. Len(segments)}
NearestProject(dir, projects) ==
    LET above == Ancestors(dir) \cap projects
    IN  IF above = {} THEN None
        ELSE CHOOSE p \in above : \A q \in above : Len(q) <= Len(p)

Discover(cwd, typdocDir, projects) ==
    IF typdocDir # None THEN (IF typdocDir \in projects THEN typdocDir ELSE None)
    ELSE NearestProject(cwd, projects)

AbsolutePath(given, cwd) ==
    Normalize(IF IsPrefix(<<"/">>, given) THEN given ELSE cwd \o <<"/">> \o given)

DiscoverFor(argument, cwd, typdocDir, projects) ==
    LET absolute == AbsolutePath(argument.path, cwd)
        root == NearestProject(FolderOf(absolute), projects)
    IN  IF argument.form # "onDisk"
        THEN [root |-> Discover(cwd, typdocDir, projects), argument |-> argument]
        ELSE IF root = None THEN [root |-> None, argument |-> argument]
        ELSE [root |-> root, argument |-> NamedPath(None, None, After(root \o <<"/">>, absolute))]

(* resolve_on_disk: a second argument, in the root that the first one fixed.  *)
ResolveOnDisk(root, given, cwd) ==
    LET absolute == AbsolutePath(given, cwd)
    IN  IF IsPrefix(root \o <<"/">>, absolute)
        THEN NamedPath(None, None, After(root \o <<"/">>, absolute)) ELSE Refused

(* Project::read_argument and resolve, through imported_scope for an alias:   *)
(* the document that an argument names in `scope`.                            *)
ReadArgument(argument, scope, scene) ==
    LET there == IF argument.project = None THEN scene ELSE scene.imports[argument.project]
        imported == argument.project # None
        within == IF argument.ns # None THEN {NamespaceNamed(there.namespaces, argument.ns)} \ {0}
                  ELSE IF imported THEN DOMAIN there.namespaces ELSE scope
        bareKey == imported /\ argument.form = "key" /\ argument.ns = None
        found == Resolve(IF argument.ns = None THEN argument.name
                         ELSE argument.ns \o <<":">> \o argument.name, ArgumentIn(within), there)
        atPath == {d \in there.docs : d.path = argument.name}
    IN  IF imported /\ (argument.project \notin DOMAIN scene.imports) THEN BadPrefix
        ELSE IF there = Absent THEN BadPrefix
        ELSE IF argument.ns # None /\ within = {} THEN BadPrefix
        ELSE IF bareKey /\ Len(there.namespaces) > 1 THEN Ambiguous
        ELSE IF argument.form = "path" /\ argument.ns = None
        THEN IF atPath = {} THEN NotFound ELSE Resolved(argument.project, argument.name, "path")
        ELSE IF found.is = "document" THEN [found EXCEPT !.project = argument.project]
        ELSE found
=============================================================================
