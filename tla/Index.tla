------------------------------- MODULE Index -------------------------------
(* What a run reads (core/index.rs): the walk of each namespace folder by     *)
(* each collection's template, the index built from it, the stray files of    *)
(* the coded folders, and the audit's own walk.                               *)
(* A tree is a function from paths, sequences of names from the project       *)
(* folder, to the kind of what is there. A namespace is its `name` and the    *)
(* path of its `folder`; a member is a collection's `name` and `template`.    *)
EXTENDS Templates

Kinds == {"folder", "file", "linkToFolder", "linkToFile"}
Links == {"linkToFolder", "linkToFile"}

Utf8(name) == "xFF" \notin Range(name)
IsTempName(name) == name[1] = ".typdoc-tmp-"
IsMarkdown(name) == Last(name) = ".md"

IsFile(tree, p) == p \in DOMAIN tree /\ tree[p] = "file"
ConfigFile(dir) == dir \o <<<<".typdoc">>, <<"config.json">>>>
List(tree, dir) == {p \in DOMAIN tree : Len(p) = Len(dir) + 1 /\ IsPrefix(dir, p)}

Reached(p, as) == [path |-> p, as |-> as]

(* An entry that the last step of a template matches.                         *)
Take(tree, p) ==
    IF tree[p] = "file" /\ IsTempName(Last(p)) THEN {Reached(p, "leftover")}
    ELSE IF tree[p] \in Links THEN {Reached(p, "link")}
    ELSE IF ~Utf8(Last(p)) THEN {Reached(p, "notUtf8")}
    ELSE IF tree[p] = "file" THEN {Reached(p, "document")}
    ELSE {}

(* walk, as one entry sees it: it comes to an entry if it stands in the folder *)
(* of the entry, and what it does with it depends on the step it stands at.    *)
FolderLike(tree, p) == tree[p] \in {"folder", "linkToFolder"}

\* A `**` that is not the last step takes no folder as well.
From(t, at) == {k \in at .. Len(t.steps) : \A j \in at .. k - 1 : t.steps[j] = Folders}

\* The step that an entry is entered with, if it is.
Enters(tree, p, t, at) ==
    IF t.steps[at] = Folders THEN {k \in {at} : FolderLike(tree, p) /\ ~Hidden(Last(p))}
    ELSE {k \in {at + 1} : at < Len(t.steps) /\ MatchesFolder(t.steps[at], Last(p), t)}
Takes(tree, p, t, at) ==
    /\ at = Len(t.steps)
    /\ IF t.steps[at] = Folders THEN ~FolderLike(tree, p) ELSE Matches(t.steps[at], Last(p), t)

\* An entry that is entered is read unless it is no folder, a link, or another project.
Opens(tree, p) == tree[p] = "folder" /\ ~IsFile(tree, ConfigFile(p)) /\ Utf8(Last(p))
Enter(tree, p) ==
    IF tree[p] \in Links THEN {Reached(p, "link")}
    ELSE IF tree[p] # "folder" \/ IsFile(tree, ConfigFile(p)) \/ Utf8(Last(p)) THEN {}
    ELSE {Reached(p, "notUtf8")}

\* The steps the walk of `dir` stands at in a folder below it.
StandsIn(tree, here, t, above) ==
    IF ~Opens(tree, here) THEN {}
    ELSE UNION {From(t, k) : k \in UNION {Enters(tree, here, t, at) : at \in above}}
Stands(tree, dir, t, folder) ==
    LET stands[n \in 0 .. Len(folder) - Len(dir)] ==
          IF n = 0 THEN From(t, 1)
          ELSE StandsIn(tree, SubSeq(folder, 1, Len(dir) + n), t, stands[n - 1])
    IN  stands[Len(folder) - Len(dir)]

Beneath(tree, dir) == {p \in DOMAIN tree : p # dir /\ IsPrefix(dir, p)}
Walk(tree, dir, t) ==
    LET Found(p) == UNION {(IF Enters(tree, p, t, at) # {} THEN Enter(tree, p) ELSE {})
                        \cup (IF Takes(tree, p, t, at) THEN Take(tree, p) ELSE {}) :
                          at \in Stands(tree, dir, t, Front(p))}
    IN  UNION {Found(p) : p \in Beneath(tree, dir)}

(* The order of a BTreeMap of paths. Ascii lists the tokens in order.         *)
Ascii == <<" ", "-", ".agents", ".md", ".typdoc", ".typdoc-tmp-", "/", "0", "1", "2", ":", "US",
           "WF", "a", "b", "config.json", "index", "notes", "state", "story", "tickets", "xFF">>
Rank(token) == CHOOSE i \in DOMAIN Ascii : Ascii[i] = token
Before(a, b) ==
    \/ a # b /\ IsPrefix(a, b)
    \/ \E i \in DOMAIN a \cap DOMAIN b :
         SubSeq(a, 1, i - 1) = SubSeq(b, 1, i - 1) /\ Rank(a[i]) < Rank(b[i])
InOrder(paths) ==
    [i \in 1 .. Cardinality(paths) |->
       CHOOSE p \in paths : Cardinality({q \in paths : Before(PathOf(q), PathOf(p))}) = i - 1]

(* One file that one member of one namespace matches.                         *)
Hit(path, member, space) == [path |-> path, member |-> member, space |-> space]
Of(reached, as) == {r.path : r \in {x \in reached : x.as = as}}

(* The order of the walks: by namespace, by collection, by path.              *)
HitsOf(tree, space, member) ==
    LET found == InOrder(Of(Walk(tree, space.folder, member.template), "document"))
    IN  [i \in DOMAIN found |-> Hit(found[i], member, space)]
HitsIn(tree, space, members) == FlattenSeq([j \in DOMAIN members |-> HitsOf(tree, space, members[j])])
Hits(tree, spaces, members) == FlattenSeq([i \in DOMAIN spaces |-> HitsIn(tree, spaces[i], members)])

BelowSpace(space, path) == PathOf(SubSeq(path, Len(space.folder) + 1, Len(path)))

Empty == [p \in {} |-> <<>>]
At(f, key, default) == IF key \in DOMAIN f THEN f[key] ELSE default
Bound(f, key, value) == [k \in DOMAIN f \cup {key} |-> IF k = key THEN value ELSE f[k]]

(* Index::build, one file of one walk: a second match makes an overlap, and   *)
(* only the first match of a coded file enters the group of its key.          *)
AddNamed(index, hit, name) ==
    LET first == index.entries[hit.path]
        names == At(index.overlaps, hit.path, <<first.collection>>)
        key == <<hit.space.name, name.key>>
        entry == [collection |-> hit.member.name, namespace |-> hit.space.name,
                  key |-> IF name = NotCoded THEN None ELSE name.key]
    IN  IF hit.path \in DOMAIN index.entries
        THEN [index EXCEPT !.overlaps =
                Bound(@, hit.path, IF hit.member.name \in Range(names) THEN names
                                   ELSE Append(names, hit.member.name))]
        ELSE [index EXCEPT
                !.entries = Bound(@, hit.path, entry),
                !.keys = IF name = NotCoded THEN @
                         ELSE Bound(@, key, Append(At(@, key, <<>>), hit.path))]
AddHit(index, hit) ==
    AddNamed(index, hit, ReadName(hit.member.template, BelowSpace(hit.space, hit.path)))

(* The end of Index::build: an overlapping file answers for no collection.    *)
Retain(kept, path, gone) == IF path \in gone THEN kept ELSE Append(kept, path)
Without(paths, gone) ==
    LET kept[n \in 0 .. Len(paths)] == IF n = 0 THEN <<>> ELSE Retain(kept[n - 1], paths[n], gone)
    IN  kept[Len(paths)]
Prune(index) ==
    LET left == [k \in DOMAIN index.keys |-> Without(index.keys[k], DOMAIN index.overlaps)]
    IN  [index EXCEPT
           !.entries = Restrict(@, DOMAIN @ \ DOMAIN index.overlaps),
           !.keys = Restrict(left, {k \in DOMAIN left : left[k] # <<>>})]

NoIndex == [entries |-> Empty, keys |-> Empty, overlaps |-> Empty]
AddHits(hits) ==
    LET added[n \in 0 .. Len(hits)] == IF n = 0 THEN NoIndex ELSE AddHit(added[n - 1], hits[n])
    IN  added[Len(hits)]
Build(tree, spaces, members) == Prune(AddHits(Hits(tree, spaces, members)))

(* What the walks reached and could not read.                                 *)
Unreadable(tree, spaces, members) ==
    {r \in UNION {Walk(tree, s.folder, m.template) :
                    s \in Range(spaces), m \in Range(members)} : r.as # "document"}

(* Index::key: the first file found, when more than one carries the key.      *)
KeyGroup(index, space, key) == At(index.keys, <<space, key>>, <<>>)
LookUpKey(index, space, key) ==
    LET group == KeyGroup(index, space, key) IN IF group = <<>> THEN None ELSE Head(group)

(* stray_files: the files in the folder of coded collections that none of     *)
(* them matches. The folder is read by its path, which follows a link, and a  *)
(* file in its place fails the run. Behind is what lies behind every link.    *)
Behind == {<<"a", ".md">>}
FolderOf(space, t) ==
    space.folder \o (IF LiteralFolder(t) = <<>> THEN <<>> ELSE Segments(LiteralFolder(t)))
FilesIn(tree, dir) ==
    IF \E n \in 1 .. Len(dir) : At(tree, SubSeq(dir, 1, n), "none") = "linkToFolder"
    THEN {Append(dir, name) : name \in Behind}
    ELSE {p \in List(tree, dir) : tree[p] = "file"}
Scanned(members) ==
    {m \in Range(members) : KeyInLastStep(m.template) /\ LiteralFolder(m.template) # None}
ScannedFolders(spaces, members) ==
    {FolderOf(s, m.template) : s \in Range(spaces), m \in Scanned(members)}
StrayFilesFail(tree, spaces, members) ==
    \E dir \in ScannedFolders(spaces, members) : \E n \in 1 .. Len(dir) :
        At(tree, SubSeq(dir, 1, n), "none") \in {"file", "linkToFile"}

\* mutant: a file whose name begins with `.` is passed over
StrayFilesNotHidden(tree, spaces, members) ==
    LET Fits(p) == \E s \in Range(spaces), m \in Scanned(members) :
                     /\ FolderOf(s, m.template) = Front(p)
                     /\ Matches(Last(m.template.steps), Last(p), m.template)
    IN  {p \in UNION {FilesIn(tree, dir) : dir \in ScannedFolders(spaces, members)} :
           Utf8(Last(p)) /\ ~IsTempName(Last(p)) /\ ~Fits(p) /\ ~Hidden(Last(p))}

StrayFiles(tree, spaces, members) ==
    LET Fits(p) == \E s \in Range(spaces), m \in Scanned(members) :
                     /\ FolderOf(s, m.template) = Front(p)
                     /\ Matches(Last(m.template.steps), Last(p), m.template)
    IN  {p \in UNION {FilesIn(tree, dir) : dir \in ScannedFolders(spaces, members)} :
           Utf8(Last(p)) /\ ~IsTempName(Last(p)) /\ ~Fits(p)}

(* walk_every_file: every file `--audit` has to account for. A hidden folder  *)
(* is entered when any template writes its name.                              *)
WalkEveryFile(tree, dir, named) ==
    LET Entered(folder) == Opens(tree, folder) /\ (Hidden(Last(folder)) => Last(folder) \in named)
    IN  {p \in Beneath(tree, dir) :
           /\ tree[p] = "file" /\ Utf8(Last(p)) /\ IsMarkdown(Last(p)) /\ ~IsTempName(Last(p))
           /\ \A n \in Len(dir) + 1 .. Len(p) - 1 : Entered(SubSeq(p, 1, n))}

AllMarkdownFiles(tree, spaces, members) ==
    LET named == UNION {LiteralFolderNames(m.template) : m \in Range(members)}
    IN  UNION {WalkEveryFile(tree, s.folder, named) : s \in Range(spaces)}

(* Project::audit_report: the files of no collection.                         *)
Uncollected(tree, spaces, members, index) ==
    AllMarkdownFiles(tree, spaces, members) \ (DOMAIN index.entries \cup DOMAIN index.overlaps)
=============================================================================
