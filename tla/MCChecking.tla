----------------------------- MODULE MCChecking -----------------------------
(* Checking for TLC: three documents of a numbered collection in namespace    *)
(* one, two of them with the same key, a note in namespace two, two documents *)
(* whose keys end in more than the largest number, a loose file, an import    *)
(* with a document at the path of one of this project's, and an import that   *)
(* is not on this machine.                                                    *)
EXTENDS Checking, TLC

One == <<"one">>
Two == <<"two">>
PathA == <<"one", "/", "WF", "-", "1", "-", "a", ".md">>
PathB == <<"one", "/", "WF", "-", "2", "-", "b", ".md">>
PathC == <<"one", "/", "WF", "-", "2", ".md">>
PathN == <<"two", "/", "n", ".md">>
PathV == <<"one", "/", "OL", "-", "2", "0", ".md">>
PathW == <<"one", "/", "OL", "-", "2", "1", ".md">>
PathR == <<"two", "/", "r", ".md">>
MCAlphabet == <<",", "-", ".md", "/", "0", "1", "2", ":", "OL", "WF", "a", "b", "large", "n", "note", "notes", "old", "one",
                "r", "ticket", "tickets", "two", "x", "y", "zz">>

Key(number) == <<"WF", "-", number>>
OneKey(number) == <<"one", ":", "WF", "-", number>>
Note == <<"two", ":", "n", ".md">>
Loose_ == <<"two", ":", "r", ".md">>
NoSlug == <<"WF", "-", "2", ".md">>
Slugged == <<"WF", "-", "1", "-", "old">>
There == <<"x", ":", ":", "WF", "-", "1">>
ThereByPath == <<"x", ":", ":", "b", ".md">>
Away == <<"y", ":", ":", "WF", "-", "1">>
Bad == <<"zz", ":", "a", ".md">>
Rooted == <<"/", "a", ".md">>
Url == <<"http", ":", "/", "a">>
OldPath == <<"old", ".md">>
Asset == <<"assets", "/", "a", ".md">>

AKey(number, slug) == [is |-> "key", ns |-> One, key |-> Key(number), slug |-> slug]
APath(path) == [is |-> "path", path |-> path]
Into_(alias, rest) == [is |-> "import", alias |-> alias, rest |-> rest]
AwayAsset == <<"y", ":", ":">> \o Asset
MCReads(written, holder, place) ==
    CASE written = Note -> APath(PathN)
      [] written = Loose_ -> APath(PathR)
      [] written = NoSlug -> APath(PathC)
      [] written = OldPath -> APath(<<"one", "/", "old", ".md">>)
      [] written = <<"one", "/", "old", ".md">> -> APath(written)
      [] written = Asset -> APath(written)
      [] written = Bad -> [is |-> "badPrefix"]
      [] written = Rooted -> [is |-> "absolute"]
      [] written = Url /\ place = "link" -> [is |-> "notARef"]
      [] written = ThereByPath -> Into_("x", APath(PathB))
      [] written = There -> Into_("x", IF place = "link" THEN APath(Key("1")) ELSE AKey("1", NoText))
      [] written = Away -> Into_("y", IF place = "link" THEN APath(Key("1")) ELSE AKey("1", NoText))
      [] written = AwayAsset -> Into_("y", APath(Asset))
      [] written = Slugged /\ place # "link" -> AKey("1", <<"old">>)
      [] written \in {OneKey(n) : n \in Digits} /\ place # "link" -> AKey(written[5], NoText)
      [] written \in {Key(n) : n \in Digits} /\ place # "link" /\ Head(holder) = "one" -> AKey(written[3], NoText)
      [] OTHER -> APath(written)

Field(name, kind) == [name |-> name, kind |-> kind, required |-> FALSE, values |-> <<>>, transitions |-> <<>>,
                      auto |-> "", target |-> <<>>, acyclic |-> FALSE]
Depends == [Field("depends", "ref[]") EXCEPT !.acyclic = TRUE]
Ticket == [name |-> <<"ticket">>, code |-> <<"WF">>,
           fields |-> <<[Depends EXCEPT !.target = <<{<<Home, <<"ticket">>>>, <<Home, <<"note">>>>}>>],
                        [Field("moves", "list") EXCEPT !.auto = "moves"], Field("parent", "ref"),
                        Field("points", "number")>>]
NoteSchema == [name |-> <<"note">>, code |-> NoText, fields |-> <<Depends, Field("parent", "ref")>>]
LargeSchema == [name |-> <<"large">>, code |-> <<"OL">>, fields |-> <<>>]
Collection(schema, levels) ==
    [schema |-> schema, name |-> schema.name, levels |-> levels, ignore |-> {Asset}, inlineCode |-> TRUE, fencedCode |-> FALSE]
Tickets == <<"tickets">>
Notes == <<"notes">>
Large == <<"large">>
MCCollections == Tickets :> Collection(Ticket, "body.anchors" :> "warn" @@ "imports.absent" :> "off")
                 @@ Notes :> Collection(NoteSchema, "body.anchors" :> "off" @@ "body.links" :> "off" @@ "refs.moved" :> "off" @@ "refs.slug" :> "error")
                 @@ Large :> Collection(LargeSchema, [rule \in {} |-> "off"])
MCGlobal == "refs.codedByPath" :> "off"
Entry(collection, ns, key, slug, inForm) ==
    [collection |-> collection, ns |-> ns, key |-> key, slug |-> slug, inForm |-> inForm]
MCEntries == PathA :> Entry(Tickets, One, Key("1"), <<"a">>, TRUE) @@ PathB :> Entry(Tickets, One, Key("2"), <<"b">>, TRUE)
             @@ PathC :> Entry(Tickets, One, Key("2"), NoText, FALSE) @@ PathN :> Entry(Notes, Two, NoText, NoText, TRUE)
             @@ PathV :> Entry(Large, One, <<"OL", "-", "2", "0">>, NoText, TRUE) @@ PathW :> Entry(Large, One, <<"OL", "-", "2", "1">>, NoText, TRUE)
MCLoose == PathR :> [ns |-> Two, file |-> NoBlock(<<HeadingLine(1, <<"H">>)>>)]
ThereDoc == [path |-> PathB, key |-> Key("1"), code |-> <<"WF">>, collection |-> Tickets, schema |-> <<"ticket">>,
             namespace |-> One, fields |-> <<[name |-> "points", value |-> [type |-> "Number", items |-> <<<<"2">>>>]]>>]
MCImports == "x" :> [loaded |-> TRUE, codes |-> {<<"WF">>}, files |-> {},
                     entries |-> PathB :> [key |-> Key("1"), slug |-> <<"b">>, schema |-> Ticket, doc |-> ThereDoc, readable |-> TRUE]]
             @@ "y" :> [loaded |-> FALSE, codes |-> {}, files |-> {}, entries |-> [p \in {} |-> 0]]
             @@ "two" :> [loaded |-> FALSE, codes |-> {}, files |-> {}, entries |-> [p \in {} |-> 0]]
MCNamespaces == {One, Two}
MCOverlaps == <<"one", "/", "o">> :> [ns |-> One, collections |-> {Tickets, Notes}]
MCNotRead == <<"two", "/", "t">> :> [ns |-> Two, finding |-> Finding("warn", "files.leftover", "")]

BodyA == <<HeadingLine(1, <<"H", ".">>), HeadingLine(2, <<"H">>), HeadingLine(1, <<"a", " ", "!">>),
           Inline(Note \o <<"#", "h">>), Inline(<<"#", "H", "-", "1">>), Use("d"), Definition("d", OldPath),
           Definition("d", Note), Inline(Rooted), Inline(ThereByPath), Inline(Away), Inline(Bad), Inline(Asset),
           Autolink(Url), Broken(<<"a", " ", "b", ".md">>, FALSE), Word(Key("0"), "text"), Word(OneKey("2"), "code"),
           Word(<<"US", "-", "1">>, "text"), Word(Key("2"), "fence")>>
BodyN == <<HeadingLine(1, <<"H">>), Use("d"), Definition("e", Bad), Inline(NoSlug \o <<"#", "h">>), Inline(Url), Inline(Away),
           Inline(AwayAsset)>>
Deps(names) == Items("depends", names)
Parent(name) == Scalar("parent", name)
MCHandFiles ==
    PathA :> {Absent, Closed(<<Deps(<<OneKey("2")>>), Parent(Slugged), Scalar("points", <<"1">>)>>, BodyA)}
    @@ PathB :> {Absent, Unclosed(<<>>),
                 Closed(<<Deps(<<>>), Items("moves", <<Key("0"), <<"one", "/", "old", ".md">>>>), Null("parent", NoText)>>, <<>>)}
    @@ PathC :> {Absent, Closed(<<Deps(<<ThereByPath, Key("0")>>), Parent(There)>>, <<Use("d"), Definition("d", Note)>>)}
    @@ PathN :> {Absent, NoBlock(BodyN), Closed(<<Deps(<<OneKey("2")>>), Parent(OldPath)>>, BodyN)}
    @@ PathV :> {} @@ PathW :> {}
MCRefLists == {<<>>, <<OneKey("1")>>, <<OneKey("2"), Note>>}
MCStarts == {[p \in DOMAIN MCEntries |-> IF p \in {PathV, PathW} THEN Closed(<<>>, <<>>) ELSE Absent]}
MCSchemaFindings == {<<<<"schemas", "/", "t", ".json">>, Finding("error", "schema.valid", "depends")>>}
Literal(text) == <<[kind |-> "literal", segments |-> <<text>>]>>
Plain(field, items) == [dir |-> None, field |-> field, op |-> "=", items |-> items]
MCPlains == {Plain("points", Literal(<<"1">>)), Plain("parent", <<[kind |-> "present", segments |-> <<NoText, NoText>>]>>)}
MCArrows == {"depends", "$body"}
MCSorts == {<<>>, <<[field |-> "points", desc |-> TRUE]>>, <<[field |-> "parent", desc |-> FALSE], [field |-> "key", desc |-> TRUE]>>}
=============================================================================
