------------------------------ MODULE Reading ------------------------------
(* `typdoc validate --audit` beside a person who edits the project folder:    *)
(* which files a run reads, under which namespaces, and what it says of the   *)
(* files it does not read (core/index.rs, core/namespaces.rs, core/scope.rs,  *)
(* core/project.rs validate).                                                 *)
EXTENDS Namespaces

CONSTANTS
    Base,          \* the tree of a new project
    Pool,          \* what a person may make: [path, kind]
    MaxMade,       \* bound: how much of Pool is there at once
    Configs,       \* the lists that `namespaces` may hold, NoEntries among them
    MemberLists,   \* the collections a project may have, in the order of their names
    Runs,          \* how a run is started: [flag, variable, cwd], None for no value
    Imports        \* the aliases and the namespaces of each import

\* A name in a folder, in the characters there are.
FileName == Seq(Range(Ascii) \ {"/"}) \ {<<>>}
FilePath == Seq(FileName)

\* A new project's tree hangs together, and what a person makes has a path and a kind.
ASSUME TreeAssumption ==
    /\ IsFiniteSet(DOMAIN Base)
    /\ \A p \in DOMAIN Base :
         /\ p \in FilePath /\ Base[p] \in Kinds
         /\ p # <<>> => Front(p) \in DOMAIN Base /\ Base[Front(p)] = "folder"
    /\ \A item \in Pool : item.path \in FilePath /\ item.kind \in Kinds

\* `namespaces` is a list of texts.
ASSUME ConfigAssumption == Configs \subseteq Seq(Seq(STRING))

\* Collections have names of their own, and templates of one segment at least (ParseTemplate).
ASSUME MemberAssumption ==
    \A list \in MemberLists :
        /\ list \in Seq(Range(list))
        /\ \A i, j \in DOMAIN list : list[i].name = list[j].name => i = j
        /\ \A i \in DOMAIN list :
             /\ list[i].template.steps \in Seq(Seq(STRING \ {"/"}) \ {<<>>})
             /\ list[i].template.steps # <<>>

VARIABLES tree, entries, members, report

vars == <<tree, entries, members, report>>

NoReport == [done |-> FALSE]

(* The namespace whose folder holds a path.                                   *)
SpaceHolding(spaces, path) ==
    CHOOSE s \in Range(spaces) : IsPrefix(s.folder, path)

(* Project::validate over the whole project, and its audit report.            *)
Report(scope, resolved, index) ==
    LET spaces == resolved.spaces
        InScope(p) == SpaceHolding(spaces, p).name \in scope.namespaces
        Seen(paths) == {p \in paths : InScope(p)}
        unreadable == {r \in Unreadable(tree, spaces, members) : InScope(r.path)}
    IN  [done |-> TRUE, scope |-> scope, resolved |-> resolved, index |-> index,
         documents |-> Seen(DOMAIN index.entries),
         overlapping |-> Seen(DOMAIN index.overlaps),
         notRead |-> {r.path : r \in unreadable} \cup {<<n>> : n \in resolved.skipped},
         strays |-> Seen(StrayFiles(tree, spaces, members)),
         uncollected |-> Seen(Uncollected(tree, spaces, members, index))]

Validate(run) ==
    /\ ~report.done
    /\ LoadErrors(tree, entries) = {}
    /\ \E resolved \in {ResolveNamespaces(tree, entries)} :
          /\ ~StrayFilesFail(tree, resolved.spaces, members)
          /\ \E scope \in {ChooseScope(resolved.spaces, None, run.flag, run.variable, run.cwd, Imports)} :
                /\ scope # Refused
                /\ scope.imports = {}
                /\ report' = Report(scope, resolved, Build(tree, resolved.spaces, members))
    /\ UNCHANGED <<tree, entries, members>>

(* A person, between two runs.                                                *)
Make(item) ==
    /\ item.path \notin DOMAIN tree
    /\ \E dir \in DOMAIN tree : dir = Front(item.path) /\ tree[dir] = "folder"
    /\ Cardinality(DOMAIN tree \ DOMAIN Base) < MaxMade
    /\ tree' = Bound(tree, item.path, item.kind)
    /\ report' = NoReport
    /\ UNCHANGED <<entries, members>>

Delete(path) ==
    /\ path \in DOMAIN tree \ DOMAIN Base
    /\ List(tree, path) = {}
    /\ tree' = Restrict(tree, DOMAIN tree \ {path})
    /\ report' = NoReport
    /\ UNCHANGED <<entries, members>>

Configure(list) ==
    /\ list # entries
    /\ entries' = list
    /\ report' = NoReport
    /\ UNCHANGED <<tree, members>>

Init ==
    /\ tree = Base
    /\ entries \in Configs
    /\ members \in MemberLists
    /\ report = NoReport

Next ==
    \/ \E run \in Runs : Validate(run)
    \/ \E item \in Pool : Make(item)
    \/ \E path \in DOMAIN tree : Delete(path)
    \/ \E list \in Configs : Configure(list)

Spec == Init /\ [][Next]_vars

-----------------------------------------------------------------------------
(* A tree hangs together, a report speaks of what is there, and the index is  *)
(* well formed: no key without a file, no overlap of one collection.          *)
TypeOK ==
    /\ \A p \in DOMAIN tree : p # <<>> => Front(p) \in DOMAIN tree
    /\ \A p \in DOMAIN tree : tree[p] \in Kinds
    /\ entries \in Configs /\ members \in MemberLists
    /\ report.done =>
         report.documents \cup report.overlapping \cup report.uncollected \cup report.notRead
           \subseteq DOMAIN tree
    /\ report.done =>
         /\ \A k \in DOMAIN report.index.keys : report.index.keys[k] # <<>>
         /\ \A p \in report.overlapping : Len(report.index.overlaps[p]) > 1

(* The folders from a namespace folder down to a file, without either.        *)
FoldersAbove(space, path) == {SubSeq(path, 1, n) : n \in Len(space.folder) + 1 .. Len(path) - 1}
NamedFolders == UNION {LiteralFolderNames(m.template) : m \in Range(members)}

(* A file a person would call part of the project: in a namespace folder, not *)
(* behind a link, not in a folder of another project, not in a hidden folder  *)
(* that no collection names.                                                  *)
Visible(space, path) ==
    /\ tree[path] = "file"
    /\ space.folder # path /\ IsPrefix(space.folder, path)
    /\ Utf8(Last(path)) /\ ~IsTempName(Last(path))
    /\ \A dir \in FoldersAbove(space, path) :
         /\ tree[dir] = "folder" /\ Utf8(Last(dir))
         /\ ~IsFile(tree, ConfigFile(dir))
         /\ Hidden(Last(dir)) => Last(dir) \in NamedFolders
Plain(space, path) == Visible(space, path) /\ \A dir \in FoldersAbove(space, path) : ~Hidden(Last(dir))

ScopeSpaces == {s \in Range(report.resolved.spaces) : s.name \in report.scope.namespaces}

(* Every Markdown file of the namespaces in scope is in the report exactly    *)
(* once, as a document, an overlap or an uncollected file, and nothing else   *)
(* is: the walk by the templates and the audit's own walk agree on what the   *)
(* project holds (index.rs walk_every_file; SPC-12, `--audit`).               *)
EveryFileAnswered ==
    report.done =>
        LET Markdown(paths) == {p \in paths : IsMarkdown(Last(p))}
            visible == UNION {{p \in DOMAIN tree : Visible(s, p)} : s \in ScopeSpaces}
        IN  /\ Markdown(report.documents) \cup Markdown(report.overlapping) \cup report.uncollected
                 = Markdown(visible)
            /\ report.documents \cap report.overlapping = {}
            /\ report.documents \cup report.overlapping \subseteq visible

(* `notes/**` fits a file `notes` where the folder `notes` would be: a `**`   *)
(* may take nothing. Its walk takes what is in that folder, as `**` and `*`.  *)
OnlyAsFolder(t, below) ==
    Last(t.steps) = Folders /\ ~FitsSteps(Append(t.steps, <<"*">>), Segments(below), t)

(* A file that a path argument of `new` or `mv` would put in a collection is  *)
(* read back as a document of that collection, and one that two would claim   *)
(* as an overlap: the walk and Template::matches_path agree on every file     *)
(* outside hidden folders, except one in the place of the folder before a     *)
(* `**` at the end of a template, which the walk does not take.               *)
WalkAgreesWithMatch ==
    report.done =>
        \A s \in ScopeSpaces : \A p \in {q \in DOMAIN tree : Plain(s, q)} :
            LET below == BelowSpace(s, p)
                Claims(m) == MatchesPath(m.template, below) /\ ~OnlyAsFolder(m.template, below)
                claims == {m.name : m \in {x \in Range(members) : Claims(x)}}
            IN  /\ (p \in report.documents) <=> (Cardinality(claims) = 1)
                /\ (p \in report.overlapping) <=> (Cardinality(claims) > 1)
                /\ p \in report.documents => report.index.entries[p].collection \in claims
                /\ p \in report.overlapping => Range(report.index.overlaps[p]) = claims

(* A key finds a document whenever one document of its namespace carries it,  *)
(* the first of them, and never a file that two collections claim.            *)
KeysFindDocuments ==
    report.done =>
        LET index == report.index
            Carriers(k) == {p \in DOMAIN index.entries :
                              index.entries[p].namespace = k[1] /\ index.entries[p].key = k[2]}
            carried == {<<e.namespace, e.key>> :
                          e \in {index.entries[p] : p \in DOMAIN index.entries}}
        IN  /\ \A k \in {c \in carried : c[2] # None} :
                 LET found == LookUpKey(index, k[1], k[2])
                 IN  /\ found \in Carriers(k)
                     /\ \A p \in Carriers(k) \ {found} :
                          index.entries[p].collection = index.entries[found].collection
                            => Before(PathOf(found), PathOf(p))
                     /\ Range(KeyGroup(index, k[1], k[2])) = Carriers(k)
            /\ DOMAIN index.keys \subseteq carried

(* The last entry of `namespaces` that reaches a folder decides whether it is *)
(* a namespace (SPC-7), whatever came before it.                              *)
LastEntryDecides ==
    report.done /\ entries # NoEntries =>
        LET Reaches(i, n) == n \in EntryFolders(tree, entries[i]).folders
            Deciding(n) == {i \in DOMAIN entries : Reaches(i, n)}
            folders == {p[1] : p \in {q \in List(tree, <<>>) : tree[q] = "folder"}}
        IN  /\ NamesOf(report.resolved.spaces) =
                 {n \in folders : Deciding(n) # {} /\ ~Negated(entries[Max(Deciding(n))])}
            /\ report.resolved.excluded =
                 {n \in folders : Deciding(n) # {} /\ Negated(entries[Max(Deciding(n))])}

(* An excluded namespace is fully invisible (SPC-7): nothing in its folder is *)
(* read or reported, and naming it fails as naming no namespace does. (A      *)
(* folder whose name no namespace may have cannot be named at all: `default`  *)
(* is the one namespace there is, `*` a pattern.)                             *)
ExcludedIsInvisible ==
    report.done =>
        \A n \in report.resolved.excluded :
            /\ \A p \in report.documents \cup report.overlapping \cup report.uncollected
                        \cup report.strays \cup (report.notRead \ {<<n>>}) : p[1] # n
            /\ ~NameProblem(n) =>
                 /\ ChooseScope(report.resolved.spaces, n, None, None, <<>>, Imports) = Refused
                 /\ ChooseScope(report.resolved.spaces, None, n, None, <<>>, Imports) = Refused
            /\ n \notin report.scope.namespaces

(* The state file of a namespace that a `!` excludes stops no run, and that   *)
(* of a folder no entry reaches does (SPC-7): its numbers are not lost.       *)
StateSurvivesExclusion ==
    entries # NoEntries =>
        LET Reaching(n) == {i \in DOMAIN entries : n \in EntryFolders(tree, entries[i]).folders}
            Decided(p, reaching, orphans) ==
                IF reaching = {} THEN p \in orphans
                ELSE Negated(entries[Max(reaching)]) => p \notin orphans
        IN  \A p \in List(tree, StateFolder) :
               Decided(p, Reaching(Last(p)), Orphans(tree, ResolveNamespaces(tree, entries)))

(* No file in the folder of a coded collection is passed over in silence: it  *)
(* is a document, an overlap or a stray file, unless it cannot be named or is *)
(* a leftover of typdoc's own (PRN-3, `filename.pattern`).                    *)
NothingSilent ==
    report.done =>
        \A s \in ScopeSpaces, m \in Scanned(members) : \A p \in {q \in DOMAIN tree : Visible(s, q)} :
            Front(p) = FolderOf(s, m.template) =>
                p \in report.documents \cup report.overlapping \cup report.strays

(* What a run reads is what the folders hold: one index, whichever way a file *)
(* is looked at, by walking, by matching its path or by its key.              *)
IndexSound == TypeOK /\ EveryFileAnswered /\ WalkAgreesWithMatch /\ KeysFindDocuments

(* The namespaces list decides by its last word, and its exclusions hide a    *)
(* folder without losing the numbers of its documents.                        *)
NamespacesDecide == LastEntryDecides /\ ExcludedIsInvisible /\ StateSurvivesExclusion
=============================================================================
