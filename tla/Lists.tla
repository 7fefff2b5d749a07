------------------------------- MODULE Lists -------------------------------
(* list (typdoc-core: project.rs list, list_all and the sort): which          *)
(* documents meet every condition, in which order, and which dangling refs    *)
(* the conditions met on their way. A filter is [collections, codes, wheres,  *)
(* sort], its conditions parsed (Queries), a sort key [field, desc].          *)
EXTENDS References

CONSTANT LargestNumber     \* the largest number of a key that an unsigned 64-bit integer holds
ASSUME LargestAssumption == LargestNumber \in Nat

CollectionNames == DOMAIN Collections
Refusal(why) == [error |-> why, documents |-> {}, dangling |-> {}]

\* select_collections: a name or a code that matches nothing is refused.
Coded(codes) == {c \in CollectionNames : Collections[c].schema.code \in codes}
SelectionError(filter) ==
    \/ filter.collections \ CollectionNames # {}
    \/ \E code \in filter.codes : Coded({code}) = {}
select_collections(filter) ==
    IF filter.collections = {} /\ filter.codes = {} THEN CollectionNames
    ELSE filter.collections \cup Coded(filter.codes)

-----------------------------------------------------------------------------
(* A field some schema in scope has to have.                                  *)
KnownIn(field, collections) ==
    field \in PseudoFields \/ \E c \in collections : Declares(Collections[c].schema, field)

\* schemas_declaring_ref_field: never only the selected ones.
schemas_declaring_ref_field(field) ==
    {c \in CollectionNames :
       \/ field = "$body"
       \/ Declares(Collections[c].schema, field) /\ Declared(Collections[c].schema, field).kind \in RefTypes}

\* ref_condition_inner_scope: where the condition after the arrow is asked.
ref_condition_inner_scope(condition, declaring) ==
    LET targets == {Declared(Collections[c].schema, condition.field).target : c \in declaring}
    IN  CASE condition.field = "$body" -> CollectionNames
          [] condition.field # "$body" /\ condition.dir = "refby" -> declaring
          [] OTHER -> {c \in CollectionNames :
                         \E t \in targets : t = <<>> \/ <<Home, Collections[c].schema.name>> \in t[1]}

check_ref_condition_scope(condition) ==
    LET declaring == schemas_declaring_ref_field(condition.field)
    IN  /\ declaring # {}
        /\ condition.inner # <<>> =>
             KnownIn(condition.inner[1].field, ref_condition_inner_scope(condition, declaring))

IsRefCondition(condition) == condition.dir # None
InScope(condition, selected) ==
    IF IsRefCondition(condition) THEN check_ref_condition_scope(condition)
    ELSE KnownIn(condition.field, selected)

-----------------------------------------------------------------------------
(* What a condition asks.                                                     *)
DocumentAt(path) ==
    LET entry == Entries[path]
    IN  [path |-> path, key |-> entry.key, code |-> SchemaOf(path).code, collection |-> entry.collection,
         schema |-> SchemaOf(path).name, namespace |-> entry.ns, fields |-> FieldsOf(path)]
Uncollected(path, ns) ==
    [path |-> path, key |-> NoText, code |-> NoText, collection |-> NoText, schema |-> NoText,
     namespace |-> ns, fields |-> <<>>]
EmptySchema == [name |-> NoText, code |-> NoText, fields |-> <<>>]
HasFields(path) == Readable(disk[path]) /\ disk[path].block = "closed"

\* Mutant of absent_result: no condition holds of a document that cannot be read.
never_met(op) == Answer(FALSE)

\* evaluate_reached: a target outside every collection has no fields, one that cannot be read has
\* no answer but `!=`.
absent_result(op) == Answer(op = "!=")
evaluate_reached(path, inner) ==
    CASE ~Indexed(path) -> condition_matches(inner, EmptySchema, Uncollected(path, Loose[path].ns))
      [] Indexed(path) /\ ~HasFields(path) -> absent_result(inner.op)
      [] OTHER -> condition_matches(inner, SchemaOf(path), DocumentAt(path))
evaluate_reached_target(other, inner) ==
    IF other.project = Home THEN evaluate_reached(other.path, inner)
    ELSE LET there == Imports[other.project]
         IN  CASE other.path \notin DOMAIN there.entries ->
                    condition_matches(inner, EmptySchema, Uncollected(other.path, NoText))
               [] other.path \in DOMAIN there.entries /\ ~there.entries[other.path].readable ->
                    absent_result(inner.op)
               [] OTHER -> condition_matches(inner, there.entries[other.path].schema, there.entries[other.path].doc)

\* One error of several answers ends the list.
ErrorsOf(answers) == {a.error : a \in answers} \ {None}
OneOf(errors) == CHOOSE e \in errors : TRUE
Combine(quant, answers) ==
    IF ErrorsOf(answers) # {} THEN QueryError(OneOf(ErrorsOf(answers)))
    ELSE Answer(combine_quant(quant, {a.holds : a \in answers}))

\* evaluate_ref_condition: a dangling ref is an arrow that leads to nothing. An arrow of
\* refby.* comes from any document that can be read, one with no block too.
Arrow(inner, reached) == IF inner = <<>> THEN Answer(TRUE) ELSE reached
evaluate_ref_condition(condition, path, incoming) ==
    IF condition.dir = "ref"
    THEN Combine(condition.quant,
           {Arrow(condition.inner,
                  IF r.other.found THEN evaluate_reached_target(r.other, condition.inner[1])
                  ELSE absent_result(condition.inner[1].op)) :
              r \in {q \in refs(path) : q.field = condition.field}})
    ELSE Combine(condition.quant,
           {Arrow(condition.inner, condition_matches(condition.inner[1], SchemaOf(i.holder), DocumentAt(i.holder))) :
              i \in {j \in incoming : /\ j.reference.field = condition.field
                                      /\ is_same_document(j.reference.other, path)}})

Asked(condition, path, incoming) ==
    IF IsRefCondition(condition) THEN evaluate_ref_condition(condition, path, incoming)
    ELSE condition_matches(condition, SchemaOf(path), DocumentAt(path))

\* The conditions are asked in turn, up to the first that does not hold; each that is asked
\* tells of its dangling refs.
Holding(wheres, path, incoming) ==
    LET Of(answers) ==
          LET ends == {a \in answers : ~a.says.holds}
              last == IF ends = {} THEN Len(wheres) ELSE Min({a.at : a \in ends})
              Tells(field) == \E i \in 1 .. last : IsRefCondition(wheres[i]) /\ wheres[i].dir = "ref" /\ wheres[i].field = field
          IN  [path |-> path,
               keep |-> ends = {},
               error |-> IF ends = {} THEN None ELSE (CHOOSE a \in ends : a.at = last).says.error,
               dangling |-> {[path |-> path, field |-> r.field, written |-> r.written] :
                               r \in {q \in refs(path) : ~q.other.found /\ Tells(q.field)}}]
    IN  Of({[at |-> i, says |-> Asked(wheres[i], path, incoming)] : i \in DOMAIN wheres})

\* list. Only a document with a block that can be read is a candidate.
Candidates(scope, selected) ==
    {p \in Documents : Entries[p].collection \in selected /\ Entries[p].ns \in scope /\ HasFields(p)}
list(scope, filter) ==
    LET selected == select_collections(filter)
        Answered(incoming) == {Holding(filter.wheres, p, incoming) : p \in Candidates(scope, selected)}
        Listed(answered) ==
          IF ErrorsOf(answered) # {} THEN Refusal(OneOf(ErrorsOf(answered)))
          ELSE [error |-> None, documents |-> {a.path : a \in {b \in answered : b.keep}},
                dangling |-> UNION {a.dangling : a \in answered}]
    IN  IF SelectionError(filter) THEN Refusal("NoSuchCollection")
        ELSE IF \E i \in DOMAIN filter.wheres : ~InScope(filter.wheres[i], selected) THEN Refusal("UnknownField")
        ELSE Listed(Answered(incoming_refs))

-----------------------------------------------------------------------------
(* The order of a list: a value sorts with the values of its own type, and    *)
(* one that is missing sorts last, whichever way the others go. A number, a   *)
(* truth value and the place in an enum are numbers of three types, a date    *)
(* and a datetime instants of two.                                            *)
Missing == [sort |-> "missing"]
ByNumber(type, number) == [sort |-> type, at |-> number]
ByInstant(type, instant) == [sort |-> type, at |-> instant]
ByText(text) == [sort |-> "text", at |-> text]

\* key_sort_value: the digits a key ends in, as a number. Digits that no unsigned 64-bit integer
\* holds are no number, as none at all are, and come before every number.
NoNumber == -1
KeyNumber(digits) ==
    LET number[n \in 0 .. Len(digits)] ==
          IF n = 0 THEN 0 ELSE 10 * number[n - 1] + NumberValue[digits[n]]
    IN  number[Len(digits)]
key_sort_value(key) ==
    LET digits == Max({n \in 0 .. Len(key) : \A i \in Len(key) - n + 1 .. Len(key) : key[i] \in Digits})
    IN  [sort |-> "key", at |-> SubSeq(key, 1, Len(key) - digits),
         number |-> LET number == KeyNumber(SubSeq(key, Len(key) - digits + 1, Len(key)))
                    IN  IF digits = 0 \/ number > LargestNumber THEN NoNumber ELSE number]

named_sort_value(field, value) ==
    CASE field.kind = "enum" ->
           LET text == IF value.type = "Empty" THEN NoText ELSE value.items[1]
           IN  IF value.type \in {"Text", "Empty"} /\ Contains(field.values, text)
               THEN ByNumber("enum", SelectInSeq(field.values, LAMBDA v : v = text)) ELSE Missing
      [] field.kind = "number" ->
           IF value.type = "Number" THEN ByNumber("number", NumberValue[value.items[1][1]]) ELSE Missing
      [] field.kind = "bool" ->
           IF value.type = "Bool" THEN ByNumber("bool", IF value.items[1] = <<"true">> THEN 1 ELSE 0) ELSE Missing
      [] field.kind \in {"date", "datetime"} ->
           IF value.type = TypeNamed(field.kind) THEN ByInstant(field.kind, Instant(value.items[1])) ELSE Missing
      [] OTHER -> CASE value.type = "List" -> ByText(JoinBy(value.items, <<",">>))
                    [] value.type = "Empty" -> ByText(NoText)
                    [] value.type = "Text" -> ByText(value.items[1])
                    [] OTHER -> Missing
sort_value(field, doc, schema) ==
    CASE field = "key" -> IF doc.key = NoText THEN Missing ELSE key_sort_value(doc.key)
      [] field \in PseudoFields \ {"key"} ->
           IF field \in {"code", "namespace"} /\ doc[field] = NoText THEN Missing ELSE ByText(doc[field])
      [] OTHER -> IF Declares(schema, field) /\ HasField(doc.fields, field)
                  THEN named_sort_value(Declared(schema, field), FieldValue(doc.fields, field)) ELSE Missing

\* cmp_same_type, cmp_key_number: values of two types are taken for equal.
same_type_before(a, b) ==
    CASE a.sort # b.sort -> FALSE
      [] a.sort = b.sort /\ a.sort \in {"number", "bool", "enum"} -> a.at < b.at
      [] a.sort = b.sort /\ a.sort \in {"date", "datetime"} -> Before(a.at, b.at)
      [] a.sort = "key" /\ b.sort = "key" -> TextBefore(a.at, b.at) \/ (a.at = b.at /\ a.number < b.number)
      [] OTHER -> a.sort = "text" /\ TextBefore(a.at, b.at)

sort_before(key, a, b) ==
    LET va == sort_value(key.field, a, SchemaOf(a.path))
        vb == sort_value(key.field, b, SchemaOf(b.path))
    IN  CASE vb = Missing -> va # Missing
          [] va = Missing /\ vb # Missing -> FALSE
          [] OTHER -> IF key.desc THEN same_type_before(vb, va) ELSE same_type_before(va, vb)

\* compare_identity: a key against a path is compared as text.
identity_before(a, b) ==
    IF a.key # NoText /\ b.key # NoText THEN same_type_before(key_sort_value(a.key), key_sort_value(b.key))
    ELSE TextBefore(IF a.key = NoText THEN a.path ELSE a.key, IF b.key = NoText THEN b.path ELSE b.key)

\* list reads its documents in the order of their paths, the order of the index, and its sort is
\* stable: two that compare_identity takes for equal stay in that order.
StandsBefore(a, b) ==
    identity_before(a, b) \/ (~identity_before(b, a) /\ TextBefore(a.path, b.path))

\* The sort of list: by the first key that tells the two apart, then by identity.
ListedBefore(sort, a, b) ==
    LET tells == {i \in DOMAIN sort : sort_before(sort[i], a, b) \/ sort_before(sort[i], b, a)}
    IN  IF tells = {} THEN StandsBefore(a, b) ELSE sort_before(sort[Min(tells)], a, b)
=============================================================================
