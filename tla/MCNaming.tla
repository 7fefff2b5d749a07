------------------------------ MODULE MCNaming ------------------------------
(* Projects, names and moves for TLC.                                         *)
EXTENDS Naming

A == <<"a">>
B == <<"b">>
InA(rest) == <<"a", "/">> \o rest
InB(rest) == <<"b", "/">> \o rest
Md(name) == <<name, ".md">>
K1 == <<"WF", "-", "1">>
Slugged(key) == key \o <<"-", "s">>
AsFile(key) == key \o <<".md">>

Ident(ns, path, key, slug) == [project |-> None, ns |-> ns, path |-> path, key |-> key, slug |-> slug]
NoImports == [alias \in {} |-> Absent]
Scene(namespaces, docs, coded, globs, imports) ==
    [namespaces |-> namespaces, docs |-> docs, files |-> {}, coded |-> coded, globs |-> globs,
     imports |-> imports]

Coded(pattern, mode) == Bind(ParseTemplate(pattern), <<"WF">>, mode)
Glob(pattern) == ParseTemplate(pattern)
Notes == {Glob(<<"x", ".md">>), Glob(<<"*", "*", "/", "n", "*", ".md">>), Glob(<<"h", ".md">>),
          Glob(<<"d", "/", "*", ".md">>)}

TwoFolders == <<[name |-> A, folder |-> A], [name |-> B, folder |-> B]>>
OneRoot == <<[name |-> <<"default">>, folder |-> <<>>]>>

Memory == Scene(OneRoot, {Ident(1, AsFile(K1), K1, None), Ident(1, Md("n"), None, None)},
                Coded(<<"{key}", ".md">>, "optional"), Notes, NoImports)
Chief == Scene(TwoFolders, {Ident(2, InB(AsFile(K1)), K1, None), Ident(1, InA(Md("n")), None, None)},
               Coded(<<"{key}", ".md">>, "optional"), Notes, NoImports)
Imports == [alias \in {<<"m">>, <<"c">>, <<"gone">>} |->
              IF alias = <<"m">> THEN Memory ELSE IF alias = <<"c">> THEN Chief ELSE Absent]

MCProjects == {
    Scene(TwoFolders, {Ident(1, InA(Md("n")), None, None), Ident(1, InA(AsFile(K1)), K1, None),
                       Ident(2, InB(AsFile(Slugged(K1))), K1, <<"s">>)},
          Coded(<<"{key}", ".md">>, "optional"), Notes, Imports),
    Scene(TwoFolders, {Ident(2, InB(Md("n")), None, None),
                       Ident(1, InA(<<"t", "/">> \o K1 \o <<"2", ".md">>), K1, None)},
          Coded(<<"t", "/", "{key}", "2", ".md">>, "none"), Notes, NoImports),
    Scene(OneRoot, {Ident(1, Md("n"), None, None), Ident(1, Slugged(K1) \o <<"/", "n", ".md">>, K1, <<"s">>)},
          Coded(<<"{key}", "/", "n", ".md">>, "required"), Notes, Imports)}

Forms(path) == {path, <<".", "/">> \o path, <<"..", "/">> \o path, <<"default", ":">> \o path,
                <<"a", ":">> \o path, <<"b", ":">> \o path}
MCWrittenNames ==
    UNION {Forms(p) : p \in {Md("n"), InA(Md("n")), InB(Md("n")), AsFile(K1), Slugged(K1), K1,
                             InB(AsFile(Slugged(K1))), <<"t", "/">> \o K1 \o <<"2", ".md">>}}
    \cup {Md("n") \o <<"#", "h">>, <<"..", "/">> \o Md("n") \o <<"#", "h">>, <<"a", ":">> \o K1 \o <<"-", "old">>}

MCHolders ==
    {RefIn(path, ns, base) : path \in {InA(Md("h")), <<"h", ".md">>, InA(<<"d", "/", "h", ".md">>),
                                       InB(<<"d", "/", "h", ".md">>)},
                             ns \in {1, 2}, base \in {"file", "namespace"}}
    \cup {LinkIn(InA(Md("h")), 1, "file"), LinkIn(InB(<<"d", "/", "h", ".md">>), 2, "namespace"),
          LinkIn(Md("h"), 1, "file")}

AllWritten == {[place |-> p, text |-> t] : p \in MCHolders, t \in MCWrittenNames}

(* Where the base is not the holder's folder, `../` and body links lose what  *)
(* they name when it moves below the holder.                                  *)
Loses(w) == w.place.refBase = "namespace" /\ (FromDocument(w.text) \/ w.place.kind = "body")
MCWritten == {w \in AllWritten : ~Loses(w)}

MCFreePaths == {
    InA(<<"d", "/", "n", ".md">>), InB(<<"n", "2", ".md">>), Md("n"), <<"x", "/", "n", ".md">>,
    <<"n", ":", "1", ".md">>, InA(<<"t", "/", "n", ".md">>),
    InA(AsFile(Slugged(K1))), InB(AsFile(K1)), InA(AsFile(K1 \o <<"-", "t">>)),
    K1 \o <<"-", "t", "/", "n", ".md">>, InA(AsFile(K1 \o <<"-", " ">>)),
    InA(AsFile(K1 \o <<"0">>)), InA(<<"t", "/">> \o AsFile(K1 \o <<"2">>))}

MCSlugs == {None, <<"s">>, <<>>, <<"1", "x">>, <<"a", " ">>}
MCNumbers == {<<"1">>, <<"2">>, <<"1", "0">>, <<"1", "2">>}
=============================================================================
