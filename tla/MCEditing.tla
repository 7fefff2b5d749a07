----------------------------- MODULE MCEditing -----------------------------
(* Editing for TLC: a schema with a field of each kind, a schema without a    *)
(* code, and a document that moves to a folder with a blank in its name.      *)
EXTENDS Editing, TLC

Field(name, kind) == [name |-> name, kind |-> kind, required |-> FALSE, values |-> <<>>,
                      transitions |-> <<>>, auto |-> "", default |-> <<>>, acyclic |-> FALSE]
Open == <<"open">>
Claimed == <<"claimed">>
Status == [Field("status", "enum") EXCEPT !.required = TRUE, !.values = <<Open, Claimed, <<"closed">>>>,
             !.transitions = <<{<<Open, Claimed>>, <<Claimed, Open>>}>>, !.default = <<TextValue(Open)>>]
Touched == [Field("touched", "datetime") EXCEPT !.auto = "update"]
Coded == [code |-> <<"WF">>,
          fields |-> <<[Field("depends", "ref[]") EXCEPT !.acyclic = TRUE],
                       [Field("moves", "list") EXCEPT !.auto = "moves"], Field("parent", "ref"),
                       Field("points", "number"), Status, Field("title", "string"), Touched>>]
Plain == [code |-> NoText, fields |-> <<[Field("tags", "list") EXCEPT !.default = <<ListValue(<<<<"t">>>>)>>],
                                        [Field("title", "string") EXCEPT !.required = TRUE]>>]
MCSchemas == {Coded, Plain}
MCEntry == [path |-> <<"n", ".md">>, key |-> NoText, code |-> NoText, collection |-> <<"c">>,
            schema |-> <<"s">>, namespace |-> <<"default">>]
MCHow == [global |-> [r \in {"frontmatter.unknown"} |-> "warn"], collection |-> NoSettings,
          strict |-> FALSE, audit |-> FALSE]

A == <<"a", ".md">>
B == <<"b", ".md">>
C == <<"c", ".md">>
MCRenamed == A :> <<"d", " ", "/", "a", ".md">> @@ <<"%20", "a">> :> <<"d", " ", "/", "a", ".md">>
             @@ <<"WF", "-", "1">> :> <<"WF", "-", "1">>
MCResolving == DOMAIN MCRenamed \cup {B, C}
MCCyclic == {C}

Assign(field, raw) == [kind |-> "set", field |-> field, raw |-> raw]
Take(field) == [kind |-> "remove", field |-> field, raw |-> <<>>]
MCSets == {<<Assign("status", Claimed)>>, <<Assign("status", <<"closed">>)>>,
           <<Assign("points", <<"1", ".00">>), Assign("parent", A)>>, <<Take("points"), Assign("depends", A \o <<",">> \o A)>>,
           <<Assign("depends", <<"b", "\\", ",">>)>>, <<Assign("depends", B)>>, <<Assign("depends", C)>>,
           <<Take("parent"), Assign("parent", B)>>,
           <<Assign("touched", <<"x">>)>>,
           <<Assign("title", <<"\\", "*", "x">>), Assign("tags", <<"x", ",", "y">>)>>}
MCIfs == {<<>>, <<parse(<<"status", "=", "open">>), parse(<<"points", "<", "2">>)>>}

Link(to) == <<"[", "x", "](">> \o to \o <<")">>
Body == <<Link(A) \o Link(B) \o Link(A \o <<"#", "h">>),
          <<"[", "![", "x", "](">> \o B \o <<")", "](">> \o A \o <<")">>,
          Link(<<"<">> \o A \o <<">">>) \o Link(<<"%20", "a">>)>>
MCHandFiles ==
    {NoBlock(Body), Unclosed(Body), Closed(<<Mapping("points")>>, Body),
     Closed(<<Scalar("title", <<"t">>), Scalar("points", <<"1", ".0">>), Null("parent", NoText),
              Items("tags", <<<<"t">>>>), Scalar("status", Open)>>, Body),
     Closed(<<Scalar("status", Claimed), Items("depends", <<A, B, A>>), Null("title", <<"~">>),
              Scalar("touched", <<"day1", "T", "0">>), Scalar("parent", A)>>, Body)}
=============================================================================
