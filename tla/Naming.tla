------------------------------- MODULE Naming -------------------------------
(* A name over its life: a ref or a body link of one document to another is   *)
(* written in some form, and then `new`, `mv` and `mv --renumber` make and    *)
(* move documents around it. Every move rewrites the name in its own form     *)
(* (Project::moved_name); what was written must go on naming the document.    *)
EXTENDS Names

CONSTANTS
    Projects,      \* the scenes to begin with, with their `coded` template and plain `globs`
    Written,       \* what a person may write as a ref or a link, and where
    FreePaths,     \* where an `mv` may go
    Slugs,         \* what `--slug` may be given, None for leaving it out
    Numbers,       \* the numbers keys are issued with
    MaxFiles       \* a bound: how many files `new` may bring a project to

VARIABLES
    scene,  \* the project
    doc,    \* the document the name was written for, as an identity
    place,  \* where the name is written
    text    \* the name as it is written now

vars == <<scene, doc, place, text>>

Paths == {d.path : d \in scene.docs} \cup scene.files

Below(ns, path) ==
    LET folder == scene.namespaces[ns].folder
    IN  IF folder = <<>> THEN path ELSE After(folder \o <<"/">>, path)

(* Index::build on one path: the identity it gives a file, or NotCoded.       *)
Identity(path, ns, key, slug) ==
    [project |-> None, ns |-> ns, path |-> path, key |-> key, slug |-> slug]
IdentityOf(path) ==
    LET ns == NamespaceOfPath(scene.namespaces, path)
        below == Below(ns, path)
        name == ReadName(scene.coded, below)
    IN  IF ns > 0 /\ name # NotCoded /\ MatchesPath(scene.coded, below)
        THEN Identity(path, ns, name.key, name.slug)
        ELSE Identity(path, ns, None, None)
IsIndexed(path) ==
    LET ns == NamespaceOfPath(scene.namespaces, path)
    IN  ns > 0 /\ \E t \in scene.globs \cup {scene.coded} : MatchesPath(t, Below(ns, path))

Put(paths, path) ==
    [scene EXCEPT !.docs = {d \in @ : d.path \notin paths}
                           \cup (IF IsIndexed(path) THEN {IdentityOf(path)} ELSE {}),
                  !.files = (@ \ paths) \cup (IF IsIndexed(path) THEN {} ELSE {path})]

(* moved_name, moved_body_link and Project::mv's choice of the new identity.  *)
MovedName(to, written) ==
    IF to.ns > 0 THEN Like(to, written, place, scene.namespaces)
    ELSE LET outside == [to EXCEPT !.ns = 1, !.key = None, !.slug = None]
         IN  IF FromDocument(written)
             THEN Like(outside, written, place, scene.namespaces)
             ELSE Relative(outside, place, scene.namespaces, "base")

Moved(to) ==
    /\ scene' = Put({doc.path}, to.path)
    /\ doc' = to
    /\ text' = IF place.kind = "body" /\ Has(text, <<"#">>)
               THEN MovedName(to, Left(text, <<"#">>)) \o <<"#">> \o Right(text, <<"#">>)
               ELSE MovedName(to, text)
    /\ UNCHANGED place

(* check_new_slug.                                                            *)
SlugRefused(slug) ==
    \/ slug # None /\ ~ValidSlug(slug)
    \/ slug # None /\ scene.coded.slug = "none"
    \/ slug = None /\ scene.coded.slug = "required"

KeyFor(number) == scene.coded.code \o <<"-">> \o number
PathFor(ns, key, slug) ==
    LET folder == scene.namespaces[ns].folder
        below == Render(scene.coded, key, slug)
    IN  IF folder = <<>> THEN below ELSE folder \o <<"/">> \o below

(* The parts of `new` and allocate_key that make a name out of a number.      *)
New(ns, number, slug) ==
    LET path == PathFor(ns, KeyFor(number), slug)
    IN  /\ Cardinality(Paths) < MaxFiles
        /\ ~SlugRefused(slug)
        /\ ~\E d \in scene.docs : d.ns = ns /\ d.key = KeyFor(number)
        /\ path \notin Paths
        /\ scene' = Put({}, path)
        /\ UNCHANGED <<doc, place, text>>

(* `mv` of a document without a code: a coded path is refused, and one that   *)
(* no collection matches is a file like any other from then on.               *)
Mv(path) ==
    LET ns == NamespaceOfPath(scene.namespaces, path)
    IN  /\ doc.key = None /\ IsIndexed(doc.path)
        /\ path \notin Paths
        /\ ns > 0 => ~MatchesPath(scene.coded, Below(ns, path))
        /\ Moved(Identity(path, ns, None, None))

(* `mv` of a coded document: only its slug may change (mv_slug_destination).  *)
MvSlug(path) ==
    LET name == ReadName(scene.coded, Below(doc.ns, path))
    IN  /\ doc.key # None
        /\ path \notin Paths
        /\ NamespaceOfPath(scene.namespaces, path) = doc.ns
        /\ name # NotCoded /\ name.key = doc.key
        /\ MatchesPath(scene.coded, Below(doc.ns, path))
        /\ name.slug # None => ValidSlug(name.slug)
        /\ Moved(Identity(path, doc.ns, doc.key, name.slug))

(* `mv --renumber` into another namespace: a new key, the old slug.           *)
Renumber(ns, number) ==
    LET path == PathFor(ns, KeyFor(number), doc.slug)
    IN  /\ doc.key # None /\ ns # doc.ns
        /\ ~\E d \in scene.docs : d.ns = ns /\ d.key = KeyFor(number)
        /\ path \notin Paths
        /\ Moved(Identity(path, ns, KeyFor(number), doc.slug))
(* A body link is read without its anchor; a ref is read whole.               *)
Names(written) ==
    LET name == IF place.kind = "body" /\ Has(written, <<"#">>)
                THEN Left(written, <<"#">>) ELSE written
    IN  Resolve(name, place, scene)

(* Whatever moves happen and however the name was written, it goes on naming  *)
(* the document (SPC-18: every name typdoc writes reads back as the document  *)
(* it was written for).                                                       *)
StillNames ==
    \E n \in {Names(text)} : n.is = "document" /\ n.project = None /\ n.path = doc.path

Init ==
    /\ scene \in Projects
    /\ doc \in scene.docs
    /\ \E w \in Written :
          /\ place = w.place /\ text = w.text
          /\ place.path # doc.path
          /\ place.ns \in DOMAIN scene.namespaces
          /\ NamespaceOfPath(scene.namespaces, place.path) = place.ns
          /\ StillNames

Next ==
    \/ \E ns \in DOMAIN scene.namespaces, n \in Numbers :
          Renumber(ns, n) \/ \E slug \in Slugs : New(ns, n, slug)
    \/ \E path \in FreePaths : Mv(path) \/ MvSlug(path)

Spec == Init /\ [][Next]_vars

-----------------------------------------------------------------------------
(* The variables hold what they should; a document lies in the folder of its  *)
(* namespace.                                                                 *)
TypeOK ==
    /\ \A d \in scene.docs :
          /\ d.ns \in DOMAIN scene.namespaces /\ d.project = None
          /\ LET folder == scene.namespaces[d.ns].folder
             IN  folder # <<>> => InFolder(folder, d.path)
    /\ doc.ns \in 0 .. Len(scene.namespaces)
    /\ \E w \in Written : place = w.place
    /\ text # <<>>

(* The next load reads from the file name mv chose the key and slug that mv   *)
(* gave the document: Template::read is the inverse of Template::render.      *)
IdentitySurvivesReload == doc.key # None => doc \in scene.docs

(* No two files of a namespace ever carry one key, whatever slugs they have.  *)
OneFilePerKey ==
    \A d, e \in scene.docs : d.key # None /\ d.key = e.key /\ d.ns = e.ns => d = e

(* The portable name of a document reads back as it from every place that     *)
(* takes a name of its kind: a key in refs, mentions and arguments, a path in *)
(* refs and arguments, and through an import from the project that imports it.*)
Finds(d, found) == found.is = "document" /\ found.path = d.path /\ found.project = d.project
PortableEverywhere ==
    LET scopes == SUBSET DOMAIN scene.namespaces \ {{}}
        places(d) == (IF place.kind = "ref" THEN {place} ELSE {})
                     \cup (IF d.key = None THEN {} ELSE {MentionIn(n) : n \in DOMAIN scene.namespaces})
        reads(d, name) == /\ \A p \in places(d) : Finds(d, Resolve(name, p, scene))
                          /\ \A s \in scopes : Finds(d, ReadArgument(ParseArgument(name), s, scene))
    IN  /\ \A d \in scene.docs : reads(d, Portable(d, scene.namespaces))
        /\ \A alias \in DOMAIN scene.imports :
              scene.imports[alias] # Absent =>
                 \A d \in scene.imports[alias].docs :
                    LET there == [d EXCEPT !.project = alias]
                    IN  reads(there, Portable(there, scene.imports[alias].namespaces))

(* From any folder of the project, and from one beside it, a document's path  *)
(* on disk, relative or absolute, finds this project and the document, however*)
(* TYPDOC_DIR is set; as a second argument it finds the same document.        *)
DiskRoot == <<"/", "p">>
OtherProject == <<"/", "o">>
OnDiskFinds ==
    LET cwds == {DiskRoot, OtherProject, DiskRoot \o <<"/", "d">>, DiskRoot \o <<"/">> \o FolderOf(doc.path)}
        absolute == DiskRoot \o <<"/">> \o doc.path
        relative(cwd) == <<".", "/">> \o RelativeTo(cwd, absolute)
        named == NamedPath(None, None, doc.path)
    IN  \A cwd \in cwds, dir \in {None, OtherProject} :
           \A written \in {absolute, relative(cwd)} :
              /\ DiscoverFor(ParseArgument(written), cwd, dir, {DiskRoot, OtherProject})
                   = [root |-> DiskRoot, argument |-> named]
              /\ ResolveOnDisk(DiskRoot, written, cwd) = named

(* Every document is found by each name typdoc has for it, and each key names *)
(* one document, at every moment (SPC-18).                                    *)
NamesFindDocuments ==
    TypeOK /\ IdentitySurvivesReload /\ OneFilePerKey /\ PortableEverywhere /\ OnDiskFinds

(* A move keeps the form of the name: a key stays a key while the document    *)
(* has one, a prefix stays a prefix, and a rewritten slug is the current one. *)
KeyOfText(written) ==
    IF place.kind = "body" THEN NoKey
    ELSE ReadKey(IF Has(written, <<":">>) THEN Right(written, <<":">>) ELSE written)
FormKept ==
    [][ LET before == KeyOfText(text)
            after == KeyOfText(text')
        IN  /\ before # NoKey => after # NoKey
            /\ Has(text, <<":">>) /\ doc'.ns > 0 /\ ~FromDocument(text) => Has(text', <<":">>)
            /\ text' # text /\ before # NoKey =>
                 after.slug = (IF before.slug = None THEN None
                               ELSE doc'.slug) ]_vars
=============================================================================
