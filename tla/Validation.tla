---------------------------- MODULE Validation ----------------------------
(* What validate finds in one document's frontmatter, and the level of a rule *)
(* (typdoc-core: validate.rs). A finding is [level, rule, field, at]: the     *)
(* rule's level after the project's and the collection's settings, the field  *)
(* it is about and where in the file it is ("" and 0 when nowhere). Messages  *)
(* are left out.                                                              *)
EXTENDS Frontmatter

Finding(level, rule, field) == [level |-> level, rule |-> rule, field |-> field, at |-> 0]
FindingAt(level, rule, field, at) == [level |-> level, rule |-> rule, field |-> field, at |-> at]
TypesError(field) == Finding("error", "frontmatter.types", field)

(* effective_level, of the rules a config may set: a function from rules to   *)
(* levels for the project and one for the collection, which wins. `off` is    *)
(* heard of only under --audit, and --strict raises a warning.                *)
effective_level(default, rule, global, collection, strict, audit) ==
    LET set == IF rule \in DOMAIN collection THEN collection[rule]
               ELSE IF rule \in DOMAIN global THEN global[rule]
               ELSE default
    IN  CASE set = "off" /\ audit -> "info"
          [] set = "warn" /\ strict -> "error"
          [] OTHER -> set

(* A finding of a rule that may be off: none then.                            *)
AtLevel(level, rule, field, at) ==
    IF level = "off" THEN {} ELSE {FindingAt(level, rule, field, at)}

(* No settings at all.                                                        *)
NoSettings == [rule \in {} |-> "off"]

enum_text(value) == IF value.type = "Empty" THEN NoText ELSE value.items[1]
IsEnumText(value) == value.type \in {"Text", "Empty"}

(* check_document: a block that cannot be read is the one finding of its      *)
(* file. `how` is [global, collection, strict, audit].                        *)
check_document(file, schema, how) ==
    IF ~Readable(file) THEN {Finding("error", "frontmatter.parse", "")}
    ELSE LET fields == ReadFields(file, schema)
             level == effective_level("warn", "frontmatter.unknown", how.global,
                                      how.collection, how.strict, how.audit)
             Of(i) ==
               LET name == fields[i].name
                   value == fields[i].value
               IN  IF ~Declares(schema, name)
                   THEN AtLevel(level, "frontmatter.unknown", name, 0)
                   ELSE LET field == Declared(schema, name)
                        IN  IF \/ ~fits(field.kind, value)
                               \/ field.kind = "enum" /\ ~Contains(field.values, enum_text(value))
                            THEN {TypesError(name)} ELSE {}
         IN  {TypesError(field.name) :
                field \in {f \in ToSet(schema.fields) : f.required /\ ~HasField(fields, f.name)}}
             \cup UNION {Of(i) : i \in DOMAIN fields}

(* check_transitions: a field that had a value and has another must move as   *)
(* its map allows; a field that comes or goes moves nowhere.                  *)
check_transitions(schema, before, after) ==
    LET Moves(field) ==
          /\ field.transitions # <<>>
          /\ HasField(before, field.name) /\ HasField(after, field.name)
          /\ LET from == FieldValue(before, field.name)
                 to == FieldValue(after, field.name)
             IN  /\ ~SameValue(from, to) /\ IsEnumText(from) /\ IsEnumText(to)
                 /\ <<enum_text(from), enum_text(to)>> \notin field.transitions[1]
    IN  {Finding("error", "frontmatter.transitions", field.name) :
           field \in {f \in ToSet(schema.fields) : Moves(f)}}

(* check_auto_direct: an `auto` field is never written by name.               *)
check_auto_direct(schema, ops) ==
    {TypesError(name) :
       name \in {ops[i].field : i \in DOMAIN ops}
                \cap {f.name : f \in {g \in ToSet(schema.fields) : g.auto # ""}}}

Refused(findings) == \E f \in findings : f.level = "error"
=============================================================================
