----------------------------- MODULE MCReading -----------------------------
(* Reading for TLC: two namespace folders, and collections that share a       *)
(* folder, reach into hidden folders and take everything.                     *)
EXTENDS Reading, TLC

One == <<"story", "-", "1">>
Two == <<"story", "-", "2">>
Tickets == <<"tickets">>
Agents == <<".agents">>
Typdoc == <<".typdoc">>

MCBase == <<>> :> "folder" @@ <<One>> :> "folder" @@ <<Two>> :> "folder" @@ <<Typdoc>> :> "folder"
          @@ <<Typdoc, <<"config.json">>>> :> "file" @@ <<Typdoc, <<"state">>>> :> "folder"
          @@ <<One, Tickets>> :> "folder"

Item(path, kind) == [path |-> path, kind |-> kind]
MCPool ==
    {Item(<<One, Tickets, f>>, "file") :
       f \in {<<"WF", "-", "1", ".md">>, <<"WF", "-", "1", "-", "a", ".md">>, <<"a", ".md">>}}
    \cup {Item(<<One, Tickets, Typdoc>>, "folder"), Item(<<One, Tickets, Typdoc, <<"config.json">>>>, "file"),
          Item(<<One, Agents>>, "folder"), Item(<<One, Agents, <<"a", ".md">>>>, "file"),
          Item(<<One, Tickets, Agents>>, "file"), Item(<<One, <<"xFF", ".md">>>>, "file"), Item(<<One, <<".typdoc-tmp-", "1">>>>, "file"),
          Item(<<One, <<"a", ".md">>>>, "linkToFile"), Item(<<One, <<"b">>>>, "folder"),
          Item(<<One, <<"b">>, <<"a", ".md">>>>, "file"), Item(<<One, <<"b">>>>, "file"),
          Item(<<Two, Tickets>>, "linkToFolder"), Item(<<Two, <<"a", ".md">>>>, "file"),
          Item(<<<<"story", "-", "0">>>>, "linkToFolder"), Item(<<Two, Typdoc>>, "folder"),
          Item(<<Typdoc, <<"state">>, Two>>, "file")}

Template(text, code) == Bind(ParseTemplate(text), code, "optional")
Member(name, text, code) == [name |-> name, template |-> Template(text, code)]
WFFiles == <<"tickets", "/", "{key}", ".md">>
MCMemberLists ==
    {<<Member("agents", <<"*", "*", "/", ".agents", "/", "*", ".md">>, None),
       Member("coded", WFFiles, <<"WF">>),
       Member("plain", <<"*", ".md">>, None)>>,
     <<Member("all", <<"*", "*", "/", "*", ".md">>, None),
       Member("coded", WFFiles, <<"WF">>)>>,
     <<Member("coded", WFFiles, <<"WF">>),
       Member("deep", <<"*", "*">>, None),
       Member("hidden", <<".agents", "/", "a", ".md">>, None)>>,
     <<Member("coded", WFFiles, <<"WF">>),
       Member("slugs", <<"tickets", "/", "*", "-", "a", ".md">>, None),
       Member("under", <<"b", "/", "*", "*">>, None)>>}

Stories == <<"story", "-", "*">>
MCConfigs == {<<Stories>>, <<Stories, <<"!">> \o Two>>, <<Stories, <<"!">> \o Stories, One, <<"!">> \o Two, Two>>,
              <<<<"!">> \o One, Stories, <<"!">> \o Two>>, NoEntries}
Run(flag, variable, cwd) == [flag |-> flag, variable |-> variable, cwd |-> cwd]
MCRuns == {Run(None, None, <<>>), Run(None, None, <<One, Tickets>>), Run(None, One, <<Two>>),
           Run(One \o <<",">> \o Two, None, <<>>),
           Run(<<"a", ":", ":", "*">>, None, <<>>)}
MCImports == <<"a">> :> {<<"default">>}
=============================================================================
