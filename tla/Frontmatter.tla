--------------------------- MODULE Frontmatter ---------------------------
(* The frontmatter of a document (typdoc-core: frontmatter.rs, document.rs,   *)
(* coerce.rs): the block between the fences read into typed values by the     *)
(* schema, the writer that edits them, and the block it writes back.          *)
(*                                                                            *)
(* A file is [block, entries, body]: `block` says whether it has a fenced     *)
(* block, `entries` what the block holds, key by key, and `body` its lines.   *)
(* YAML itself (quotes, comments, anchors, flow and block forms) belongs to   *)
(* the library and is not modelled: an entry has a shape and its texts.       *)
EXTENDS Texts

NoText == <<>>

(* Document.fields: a value has a type and its texts as written.              *)
TextValue(text) == [type |-> "Text", items |-> <<text>>]
EmptyValue == [type |-> "Empty", items |-> <<>>]
ListValue(texts) == [type |-> "List", items |-> texts]

(* The scalars a typed field takes. The library that reads a number forgets   *)
(* how many zeros end its fraction, and a date and a datetime are read by     *)
(* their days, then by the time of day.                                       *)
NumberValue == [d \in Digits |-> CHOOSE n \in 0 .. 2 : d = <<"0", "1", "2">>[n + 1]]
IsNumber(text) ==
    \/ Len(text) = 1 /\ text[1] \in Digits
    \/ Len(text) = 2 /\ text[1] \in Digits /\ text[2] \in {".0", ".00"}
Converted(text) == IF Len(text) = 2 THEN <<text[1], ".0">> ELSE text
DayValue == [d \in {"day1", "day2"} |-> IF d = "day1" THEN 1 ELSE 2]
date(text) == Len(text) = 1 /\ text[1] \in DOMAIN DayValue
datetime(text) == Len(text) = 3 /\ date(<<text[1]>>) /\ text[2] = "T" /\ text[3] \in Digits

(* Number's own equality is by what was read, every other value's by text.    *)
SameValue(v, w) ==
    /\ v.type = w.type
    /\ IF v.type = "Number" THEN Converted(v.items[1]) = Converted(w.items[1])
       ELSE v.items = w.items

(* coerce: `written`, typed by the field's type when it reads as one; fields  *)
(* keeps it as it was written when it does not.                               *)
TextTypes == {"string", "enum", "ref"}
ListTypes == {"list", "ref[]"}
coerce(kind, written) ==
    IF written.type # "Text" THEN written
    ELSE LET text == written.items[1]
             As(type) == [written EXCEPT !.type = type]
         IN  CASE kind = "number" /\ IsNumber(text) -> As("Number")
               [] kind = "bool" /\ text \in {<<"true">>, <<"false">>} -> As("Bool")
               [] kind = "date" /\ date(text) -> As("Date")
               [] kind = "datetime" /\ datetime(text) -> As("Datetime")
               [] OTHER -> written

fits(kind, value) ==
    \/ kind = "other" /\ value.type \in {"Text", "List", "Empty"}
    \/ kind \in TextTypes /\ value.type \in {"Text", "Empty"}
    \/ kind \in ListTypes /\ value.type = "List"
    \/ <<kind, value.type>> \in {<<"number", "Number">>, <<"bool", "Bool">>,
                                 <<"date", "Date">>, <<"datetime", "Datetime">>}

(* split: the block and the body of a text; `unclosed` is an error.           *)
(* fields: "unreadable" is a block the library or the shapes refuse: two      *)
(* entries of one name, a mapping, a list that holds more than text.          *)
NoBlock(body) == [block |-> "none", entries |-> <<>>, body |-> body]
Closed(entries, body) == [block |-> "closed", entries |-> entries, body |-> body]
Unclosed(body) == [block |-> "unclosed", entries |-> <<>>, body |-> body]
Splits(file) == file.block # "unclosed"

Scalar(name, text) == [name |-> name, shape |-> "scalar", items |-> <<text>>]
Null(name, text) == [name |-> name, shape |-> "null", items |-> <<text>>]
Items(name, texts) == [name |-> name, shape |-> "list", items |-> texts]
Mapping(name) == [name |-> name, shape |-> "mapping", items |-> <<>>]

FieldAt(fields, name) ==
    LET at == {i \in DOMAIN fields : fields[i].name = name}
    IN  IF at = {} THEN 0 ELSE Min(at)
HasField(fields, name) == FieldAt(fields, name) # 0
FieldValue(fields, name) == fields[FieldAt(fields, name)].value
NamesOf(fields) == {fields[i].name : i \in DOMAIN fields}

(* Resolved::field: the schema's own record of a field.                       *)
Declares(schema, name) == \E i \in DOMAIN schema.fields : schema.fields[i].name = name
Declared(schema, name) ==
    schema.fields[CHOOSE i \in DOMAIN schema.fields : schema.fields[i].name = name]

Readable(file) ==
    /\ Splits(file)
    /\ \A i \in DOMAIN file.entries :
         /\ file.entries[i].shape # "mapping"
         /\ \A j \in 1 .. i - 1 : file.entries[j].name # file.entries[i].name

ShapeValue(entry) ==
    CASE entry.shape = "list" -> ListValue(entry.items)
      [] entry.shape = "null" /\ entry.items[1] = NoText -> EmptyValue
      [] OTHER -> TextValue(entry.items[1])

ReadFields(file, schema) ==
    [i \in DOMAIN file.entries |->
        LET entry == file.entries[i]
        IN  [name |-> entry.name,
             value |-> IF Declares(schema, entry.name)
                       THEN coerce(Declared(schema, entry.name).kind, ShapeValue(entry))
                       ELSE ShapeValue(entry)]]

(* YamlSerdeWriter: each call finds the first field of the name; what is not  *)
(* there yet is pushed at the end.                                            *)
Put(fields, name, value) ==
    IF HasField(fields, name) THEN [fields EXCEPT ![FieldAt(fields, name)].value = value]
    ELSE Append(fields, [name |-> name, value |-> value])
set_scalar(fields, name, text) == Put(fields, name, TextValue(text))
set_list(fields, name, texts) == Put(fields, name, ListValue(texts))
HoldsList(fields, name) == HasField(fields, name) /\ FieldValue(fields, name).type = "List"
append_item(fields, name, item) ==
    Put(fields, name, ListValue(IF HoldsList(fields, name)
                                THEN Append(FieldValue(fields, name).items, item)
                                ELSE <<item>>))
replace_item(fields, name, old, new) ==
    IF HoldsList(fields, name) /\ Contains(FieldValue(fields, name).items, old)
    THEN LET items == FieldValue(fields, name).items
         IN  Put(fields, name, ListValue([items EXCEPT ![Min({i \in DOMAIN items : items[i] = old})] = new]))
    ELSE fields
remove_field(fields, name) ==
    IF HasField(fields, name) THEN RemoveAt(fields, FieldAt(fields, name)) ELSE fields

(* finish: an empty value is written with nothing after its colon; a number,  *)
(* a bool, a date and a datetime with the text they were read from.           *)
finish(fields) ==
    [i \in DOMAIN fields |->
        CASE fields[i].value.type = "List" -> Items(fields[i].name, fields[i].value.items)
          [] fields[i].value.type = "Empty" -> Null(fields[i].name, NoText)
          [] OTHER -> Scalar(fields[i].name, fields[i].value.items[1])]

(* splice, and assemble_frontmatter, which adds no block where none was.      *)
splice(block, body) == Closed(block, body)
assemble_frontmatter(hasBlock, block, body) ==
    IF hasBlock THEN splice(block, body) ELSE NoBlock(body)
=============================================================================
