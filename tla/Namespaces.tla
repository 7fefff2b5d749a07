----------------------------- MODULE Namespaces -----------------------------
(* The namespaces of a project (core/namespaces.rs), the state files that     *)
(* name none (core/state.rs), and the namespaces a command reads              *)
(* (core/scope.rs).                                                           *)
EXTENDS Index

Reserved == {<<"http">>, <<"https">>, <<"mailto">>, <<"file">>}
PlainName(name) == name # <<>> /\ Range(name) \cap {" ", ".md", ".agents", ".typdoc", ".typdoc-tmp-", "xFF", "*", ":"} = {}

(* Every entry of `namespaces` is one segment; what a `!` or a text reaches.  *)
Negated(entry) == entry # <<>> /\ entry[1] = "!"
PatternOf(entry) == IF Negated(entry) THEN Tail(entry) ELSE entry
IsGlob(pattern) == "*" \in Range(pattern)
OneSegment(pattern) == "/" \notin Range(pattern) /\ SegmentReads(pattern, FALSE)
Glob == [code |-> None, readsSlug |-> FALSE]

Nothing == [folders |-> {}, skipped |-> {}, refused |-> FALSE]
EntryRefused == [Nothing EXCEPT !.refused = TRUE]

(* entry_folders: a link is refused by name and skipped by a glob.            *)
EntryFolders(tree, entry) ==
    LET pattern == PatternOf(entry)
        candidates == {p \in List(tree, <<>>) : MatchesFolder(pattern, p[1], Glob)}
        Names(ps) == {p[1] : p \in ps}
        folders == {p \in candidates : tree[p] = "folder"}
    IN  IF ~OneSegment(pattern) THEN EntryRefused
        ELSE IF ~IsGlob(pattern) /\ \E p \in candidates : tree[p] \in Links THEN EntryRefused
        ELSE IF ~IsGlob(pattern) /\ ~Negated(entry) /\ ~\E p \in folders : Utf8(p[1])
        THEN EntryRefused
        ELSE [folders |-> {n \in Names(folders) : Utf8(n)},
              skipped |-> {n \in Names(folders) : ~Utf8(n)}
                          \cup {p[1] : p \in {q \in candidates : tree[q] = "linkToFolder"}},
              refused |-> FALSE]

NotMatched == [matched |-> {}, excluded |-> {}, skipped |-> {}, refused |-> {}]

\* mutant: a folder that is named again stays excluded
ApplyFoundOnce(sofar, entry, found) ==
        [matched |-> IF Negated(entry) THEN sofar.matched \ found.folders
                     ELSE sofar.matched \cup found.folders,
         excluded |-> IF Negated(entry) THEN sofar.excluded \cup found.folders
                      ELSE sofar.excluded,
         skipped |-> sofar.skipped \cup found.skipped,
         refused |-> sofar.refused \cup (IF found.refused THEN {entry} ELSE {})]

(* One entry of the list: `!` takes away, a plain entry puts back.            *)
ApplyFound(sofar, entry, found) ==
        [matched |-> IF Negated(entry) THEN sofar.matched \ found.folders
                     ELSE sofar.matched \cup found.folders,
         excluded |-> IF Negated(entry) THEN sofar.excluded \cup found.folders
                      ELSE sofar.excluded \ found.folders,
         skipped |-> sofar.skipped \cup found.skipped,
         refused |-> sofar.refused \cup (IF found.refused THEN {entry} ELSE {})]

ApplyEntries(tree, entries) ==
    LET applied[n \in 0 .. Len(entries)] ==
          IF n = 0 THEN NotMatched
          ELSE ApplyFound(applied[n - 1], entries[n], EntryFolders(tree, entries[n]))
    IN  applied[Len(entries)]

NameProblem(name) == name \in Reserved \/ name = <<"default">> \/ ~PlainName(name)
Nests(tree, name) == <<name, <<".typdoc">>>> \in DOMAIN tree

NoEntries == <<None>>            \* `namespaces` is not a key of config.json
Default == [name |-> <<"default">>, folder |-> <<>>]
SpaceOf(path) == [name |-> path[1], folder |-> path]

(* namespaces::resolve, with the config errors it reports. The namespaces are *)
(* in the order of their names.                                               *)
Kept(all, bad) ==
    LET Spaces(paths) == [i \in DOMAIN paths |-> SpaceOf(paths[i])]
    IN  [spaces |-> Spaces(InOrder({<<n>> : n \in all.matched \ bad})),
         skipped |-> all.skipped, excluded |-> all.excluded, errors |-> all.refused \cup bad]
ResolveNamespaces(tree, entries) ==
    LET Checked(all) == Kept(all, {n \in all.matched : NameProblem(n) \/ Nests(tree, n)})
    IN  IF entries = NoEntries
        THEN [spaces |-> <<Default>>, skipped |-> {}, excluded |-> {}, errors |-> {}]
        ELSE Checked(ApplyEntries(tree, entries))

(* state::orphans: a state file of no namespace, unless a `!` excludes it.    *)
StateFolder == <<<<".typdoc">>, <<"state">>>>

Orphans(tree, resolved) ==
    {p \in List(tree, StateFolder) :
        Last(p) \notin {s.name : s \in Range(resolved.spaces)} \cup resolved.excluded}

(* The config errors that the namespaces and their state files give a run.    *)
LoadErrors(tree, entries) ==
    LET Errors(resolved) == resolved.errors \cup Orphans(tree, resolved)
    IN  Errors(ResolveNamespaces(tree, entries))

NamesOf(spaces) == {s.name : s \in Range(spaces)}

(* scope.rs glob_match: a name has to be there, a glob may reach nothing.     *)
NoChoice == {<<"refused">>}
GlobMatch(item, available) ==
    LET reads == /\ item # <<>>
                 /\ \A i \in DOMAIN item : item[i] = "*" \/ PlainName(<<item[i]>>)
                 /\ \A i \in 1 .. Len(item) - 1 : ~(item[i] = "*" /\ item[i + 1] = "*")
        fitting == {n \in available : Matches(item, n, Glob)}
    IN  IF ~reads \/ (fitting = {} /\ ~IsGlob(item)) THEN NoChoice ELSE fitting

(* `alias::pattern`; `imports` is a function from the aliases to the names an *)
(* import has, AbsentHere for one that is not on this machine.                *)
AbsentHere == {None}
IsImport(item) == Has(item, <<":", ":">>)
GlobInImport(item, imports) ==
    LET alias == Left(item, <<":", ":">>)
    IN  IF alias \notin DOMAIN imports \/ imports[alias] = AbsentHere THEN NoChoice
        ELSE GlobMatch(Right(item, <<":", ":">>), imports[alias])

Scope(source, namespaces, imports) ==
    [source |-> source, namespaces |-> namespaces, imports |-> imports]

(* scope::select: `--namespace` and TYPDOC_NAMESPACE, names or globs.         *)
Select(spaces, list, imports, source) ==
    LET items == Range(SplitBy(list, ","))
        own == {i \in items : ~IsImport(i)}
        Other(i) == {<<Left(i, <<":", ":">>), n>> : n \in GlobInImport(i, imports)}
    IN  IF \/ \E i \in own : GlobMatch(i, NamesOf(spaces)) = NoChoice
           \/ \E i \in items \ own : GlobInImport(i, imports) = NoChoice
        THEN Refused
        ELSE Scope(source, UNION {GlobMatch(i, NamesOf(spaces)) : i \in own},
                   UNION {Other(i) : i \in items \ own})

(* The namespace whose folder holds the current directory.                    *)
Inside(spaces, cwd) ==
    {s.name : s \in {x \in Range(spaces) : x.folder # <<>> /\ IsPrefix(x.folder, cwd)}}

(* name.rs namespace_named: `default` also names the one namespace there is.  *)
NamedByPrefix(spaces, prefix) ==
    IF prefix \notin NamesOf(spaces) /\ prefix = <<"default">> /\ Len(spaces) = 1
    THEN NamesOf(spaces) ELSE {prefix} \cap NamesOf(spaces)

(* scope::choose: the first that applies decides.                             *)
ChooseScope(spaces, prefix, flag, variable, cwd, imports) ==
    IF prefix # None
    THEN IF NamedByPrefix(spaces, prefix) = {} THEN Refused
         ELSE Scope("prefix", NamedByPrefix(spaces, prefix), {})
    ELSE IF flag # None THEN Select(spaces, flag, imports, "flag")
    ELSE IF variable \notin {None, <<>>} THEN Select(spaces, variable, imports, "variable")
    ELSE IF Inside(spaces, cwd) # {} THEN Scope("directory", Inside(spaces, cwd), {})
    ELSE Scope("everything", NamesOf(spaces), {})
=============================================================================
