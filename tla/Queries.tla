----------------------------- MODULE Queries -----------------------------
(* The conditions of --where, --if and --sort (typdoc-core: query.rs, and the *)
(* sort of project.rs): an expression parsed, then evaluated over a document  *)
(* by the schema of its collection. An expression is a text; a condition is   *)
(* [field, op, items], a condition on refs [dir, quant, field, inner].        *)
EXTENDS Frontmatter

PseudoFields == {"path", "key", "code", "collection", "schema", "namespace"}
Operators == {"!=", "<=", ">=", "=", "<", ">"}
Ordering == {"<", "<=", ">", ">="}
Punctuation == Operators \cup Digits \cup {".", ":", "(", ")", ",", "*", "\\", "$body", " "}

None == "none"
NotParsed == [parsed |-> FALSE]

(* parse_value and finish_item: `,` ends an item, `*` a segment of a glob,    *)
(* `\` keeps the `,`, `*` or `\` after it; an item may not be empty.          *)
ItemOf(segments) ==
    [segments |-> segments,
     kind |-> IF Len(segments) = 1 THEN "literal"
              ELSE IF segments = <<NoText, NoText>> THEN "present" ELSE "glob"]
finish_item(read) ==
    IF read.segments = <<NoText>> THEN [read EXCEPT !.parsed = FALSE]
    ELSE [read EXCEPT !.items = Append(@, ItemOf(read.segments)), !.segments = <<NoText>>]
Kept(read, char) == [read EXCEPT !.segments = [@ EXCEPT ![Len(@)] = Append(@, char)], !.escaped = FALSE]
read_char(read, char) ==
    IF ~read.parsed THEN read
    ELSE IF read.escaped
    THEN IF char \in {",", "*", "\\"} THEN Kept(read, char) ELSE [read EXCEPT !.parsed = FALSE]
    ELSE CASE char = "\\" -> [read EXCEPT !.escaped = TRUE]
           [] char = "*" -> [read EXCEPT !.segments = Append(@, NoText)]
           [] char = "," -> finish_item(read)
           [] OTHER -> Kept(read, char)
parse_value(value) ==
    LET read == FoldLeft(read_char, [parsed |-> TRUE, escaped |-> FALSE, segments |-> <<NoText>>, items |-> <<>>], value)
    IN  IF read.escaped THEN [read EXCEPT !.parsed = FALSE]
        ELSE IF read.parsed THEN finish_item(read) ELSE read

(* parse_plain: a field name, an operator, a value; an ordering takes one     *)
(* item.                                                                      *)
parse_plain(expr) ==
    IF Len(expr) < 3 \/ expr[1] \in Punctuation \/ expr[2] \notin Operators THEN NotParsed
    ELSE LET value == parse_value(SubSeq(expr, 3, Len(expr)))
         IN  IF ~value.parsed \/ (expr[2] \in Ordering /\ Len(value.items) > 1) THEN NotParsed
             ELSE [parsed |-> TRUE, dir |-> None, field |-> expr[1], op |-> expr[2],
                   items |-> value.items]

(* parse_ref_expr: ref.any(f), refby.none($body).status=open; `all` needs a   *)
(* condition, and what follows is a plain condition only.                     *)
parse_ref(expr) ==
    IF \/ Len(expr) < 6 \/ expr[3] \notin {"all", "any", "none"} \/ expr[4] # "("
       \/ expr[5] \in Punctuation \ {"$body"} \/ expr[6] # ")"
    THEN NotParsed
    ELSE LET rest == SubSeq(expr, 7, Len(expr))
             Ref(inner) == [parsed |-> TRUE, dir |-> expr[1], quant |-> expr[3],
                            field |-> expr[5], inner |-> inner]
         IN  CASE rest = <<>> /\ expr[3] # "all" -> Ref(<<>>)
               [] rest # <<>> /\ rest[1] = "." /\ parse_plain(Tail(rest)).parsed ->
                    Ref(<<parse_plain(Tail(rest))>>)
               [] OTHER -> NotParsed

parse(expr) ==
    IF Len(expr) > 1 /\ expr[1] \in {"ref", "refby"} /\ expr[2] = "." THEN parse_ref(expr)
    ELSE parse_plain(expr)

(* The answer of a condition, or why it cannot be given.                      *)
Answer(holds) == [error |-> None, holds |-> holds]
QueryError(why) == [error |-> why, holds |-> FALSE]

(* field_value: the value a document has in a field, as a set of at most one. *)
(* A document is [path, key, code, collection, schema, namespace, fields]; an *)
(* empty text stands for a part it does not have.                             *)
field_value(field, doc) ==
    IF field \in PseudoFields
    THEN IF field \in {"key", "code", "namespace"} /\ doc[field] = NoText THEN {}
         ELSE {TextValue(doc[field])}
    ELSE IF HasField(doc.fields, field) THEN {FieldValue(doc.fields, field)} ELSE {}

value_is_empty(value) == value.items = <<>> \/ (value.type = "Text" /\ value.items[1] = NoText)

(* value_as_text: the texts a literal or a glob is compared with; a list has  *)
(* none as a scalar and each of its own as a list.                            *)
TextsIn(value, isArray) ==
    IF isArray THEN IF value.type = "List" THEN ToSet(value.items) ELSE {}
    ELSE CASE value.type = "List" -> {}
           [] value.type = "Empty" -> {NoText}
           [] value.type = "Number" -> {Converted(value.items[1])}
           [] OTHER -> {value.items[1]}

(* glob_matches: the first segment begins the text, the last ends what is     *)
(* left, and each one between is taken where it first occurs.                 *)
TakeSegment(left, segment) ==
    IF left.fits /\ Has(left.text, segment) THEN [left EXCEPT !.text = Right(@, segment)]
    ELSE [left EXCEPT !.fits = FALSE]
glob_matches(segments, text) ==
    LET start == [fits |-> IsPrefix(segments[1], text), text |-> After(segments[1], text)]
        left == FoldLeft(TakeSegment, start, SubSeq(segments, 2, Len(segments) - 1))
    IN  left.fits /\ IsSuffix(Last(segments), left.text)

(* check_item: a literal must read as the field's type, or be one of an       *)
(* enum's values; a glob is never coerced.                                    *)
check_item(item, plan) ==
    IF item.kind # "literal" THEN None
    ELSE CASE plan.kind = "enum" /\ item.segments[1] \notin ToSet(plan.values) ->
                "NotAnEnumValue"
           [] plan.kind \in {"number", "bool", "date", "datetime"}
              /\ coerce(plan.kind, TextValue(item.segments[1])).type = "Text" -> "CannotCoerce"
           [] OTHER -> None

ItemMatches(item, plan, value) ==
    IF item.kind = "present" THEN ~value_is_empty(value)
    ELSE IF item.kind = "literal" /\ plan.kind \in {"number", "bool", "date", "datetime"}
    THEN SameValue(coerce(plan.kind, TextValue(item.segments[1])), value)
    ELSE \E text \in TextsIn(value, plan.kind \in ListTypes) :
           IF item.kind = "literal" THEN text = item.segments[1]
           ELSE glob_matches(item.segments, text)

(* ordering_matches: numbers by value, dates by day, instants by time; an     *)
(* instant is compared with a date by its day. A field with no value, or with *)
(* one that does not fit, is never before or after anything.                  *)
Instant(text) == <<DayValue[text[1]], IF Len(text) = 3 THEN NumberValue[text[3]] ELSE 0>>
Before(a, b) == a[1] < b[1] \/ (a[1] = b[1] /\ a[2] < b[2])
Places(kind, have, wanted) ==
    CASE kind = "number" -> <<<<NumberValue[have[1]], 0>>, <<NumberValue[wanted[1]], 0>>>>
      [] kind = "datetime" /\ date(wanted) -> <<Instant(<<have[1]>>), Instant(wanted)>>
      [] OTHER -> <<Instant(have), Instant(wanted)>>
Compares(op, places) ==
    \/ op \in {"<", "<="} /\ Before(places[1], places[2])
    \/ op \in {">", ">="} /\ Before(places[2], places[1])
    \/ op \in {"<=", ">="} /\ places[1] = places[2]

TypeNamed(kind) == [number |-> "Number", date |-> "Date", datetime |-> "Datetime"][kind]
ordering_matches(op, item, kind, values) ==
    IF kind \notin {"number", "date", "datetime"} THEN QueryError("OrderingNotAllowed")
    ELSE IF item.kind # "literal" THEN QueryError("CannotCoerce")
    ELSE LET wanted == item.segments[1]
             have == {v \in values : v.type = TypeNamed(kind)}
             reads == \/ coerce(kind, TextValue(wanted)).type # "Text"
                      \/ kind = "datetime" /\ date(wanted)
         IN  IF have = {} THEN Answer(FALSE)
             ELSE IF ~reads THEN QueryError("CannotCoerce")
             ELSE Answer(\A v \in have : Compares(op, Places(kind, v.items[1], wanted)))

(* evaluate.                                                                  *)
StringPlan == [kind |-> "string", values |-> <<>>]
evaluate(condition, schema, doc) ==
    IF condition.field \notin PseudoFields /\ ~Declares(schema, condition.field)
    THEN QueryError("UnknownField")
    ELSE LET plan == IF condition.field \in PseudoFields THEN StringPlan
                     ELSE Declared(schema, condition.field)
             values == field_value(condition.field, doc)
             errors == {check_item(condition.items[i], plan) : i \in DOMAIN condition.items} \ {None}
             matched == \E i \in DOMAIN condition.items : \E v \in values :
                          ItemMatches(condition.items[i], plan, v)
         IN  IF condition.op \in Ordering
             THEN ordering_matches(condition.op, condition.items[1], plan.kind, values)
             ELSE IF errors # {} THEN QueryError(CHOOSE e \in errors : TRUE)
             ELSE Answer(IF condition.op = "=" THEN matched ELSE ~matched)

(* condition_matches, for a list over collections of several schemas: a field *)
(* this document's schema does not have is absent, never an error.            *)
condition_matches(condition, schema, doc) ==
    IF condition.field \notin PseudoFields /\ ~Declares(schema, condition.field)
    THEN Answer(condition.op = "!=")
    ELSE evaluate(condition, schema, doc)

combine_quant(quant, holds) ==
    CASE quant = "all" -> \A h \in holds : h
      [] quant = "any" -> \E h \in holds : h
      [] quant = "none" -> ~\E h \in holds : h
=============================================================================
