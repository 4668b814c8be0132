------------------------------- MODULE Schema -------------------------------
(***************************************************************************)
(* The schema registry (schema.py): how an answer of the service is made   *)
(* to fit the types of its api, which schema it gets, whether the registry *)
(* accepts that schema, what the file of the answer then holds, and        *)
(* whether a reader (reader.py) can unite the files of an api.             *)
(*                                                                         *)
(* An answer has a sequence of column names and a sequence of rows, each a *)
(* function of the columns; a value missing at the end of a row is null.   *)
(* A registry is the sequence of the schemas of one api, oldest first.     *)
(***************************************************************************)
EXTENDS Naturals, Sequences, SequencesExt

(* Values are classes: those that no conversion treats differently are one.*)
(* A bit is 0 or 1, a whole number is another integral one; a text is      *)
(* named after what it spells, a boolean text among them ("yes", "False"), *)
(* and "text" spells nothing of the kind.                                  *)
Ints == {"bit", "int"}
Floats == {"float_bit", "whole", "fraction"}
Texts == {"bit_text", "int_text", "float_bit_text", "whole_text",
          "fraction_text", "bool_text", "blank", "text"}
Values == {"null", "bool"} \union Ints \union Floats \union Texts

Types == {"bool", "int", "float", "string"}

(* infer_value_type *)
TypeOf(v) ==
    CASE v \in Ints -> "int"
      [] v \in Floats -> "float"
      [] v \in Texts -> "string"
      [] OTHER -> v

(* widen_type: a boolean and a number make what comes last.                *)
Widen(current, new) ==
    LET types == {current, new} \ {"null"}
    IN  CASE types = {"int", "float"} -> "float"
          [] "string" \in types -> "string"
          [] OTHER -> IF new = "null" THEN current ELSE new

(* infer_schema, for one column: the type of a column of nulls is the hint.*)
ColumnType(column, hint) ==
    LET type == FoldLeft(Widen, "null", [i \in DOMAIN column |-> TypeOf(column[i])])
    IN  IF type = "null" THEN hint ELSE type

-----------------------------------------------------------------------------
(* coerce_value_to_logical_type: a value that cannot be read as the type   *)
(* stays what it is.                                                       *)

Spelt == [bool |-> "bool_text", bit |-> "bit_text", int |-> "int_text",
          float_bit |-> "float_bit_text", whole |-> "whole_text",
          fraction |-> "fraction_text"]
AsString(v) == IF v \in DOMAIN Spelt THEN Spelt[v] ELSE v

AsFloat(v) ==
    CASE v \in {"bit", "bit_text", "float_bit_text"} -> "float_bit"
      [] v \in {"int", "int_text", "whole_text"} -> "whole"
      [] v = "fraction_text" -> "fraction"
      [] v = "blank" -> "null"
      [] OTHER -> v

AsInt(v) ==
    CASE v \in {"bool", "float_bit", "bit_text", "float_bit_text"} -> "bit"
      [] v \in {"whole", "int_text", "whole_text"} -> "int"
      [] v = "blank" -> "null"
      [] OTHER -> v

AsBool(v) == IF v \in {"bit", "bit_text", "bool_text"} THEN "bool" ELSE v

Coerce(v, type) ==
    CASE type = "string" -> AsString(v)
      [] type = "float" -> AsFloat(v)
      [] type = "int" -> AsInt(v)
      [] type = "bool" -> AsBool(v)

-----------------------------------------------------------------------------
Columns(schema) == {schema.fields[i] : i \in DOMAIN schema.fields}

(* latest_schema_for_api *)
LatestSchema(registry) == registry[Len(registry)]

(* normalize_items_for_schema: only the columns of the latest schema have  *)
(* a type to be read as.                                                   *)
Normalize(registry, answer) ==
    IF registry = <<>> THEN answer.rows
    ELSE [i \in DOMAIN answer.rows |->
            [c \in Columns(answer) |->
                IF c \in Columns(LatestSchema(registry))
                THEN Coerce(answer.rows[i][c], LatestSchema(registry).types[c])
                ELSE answer.rows[i][c]]]

ColumnOf(rows, c) == [i \in DOMAIN rows |-> rows[i][c]]

Hint(registry, c) ==
    IF registry # <<>> /\ c \in Columns(LatestSchema(registry))
    THEN LatestSchema(registry).types[c] ELSE "string"

(* SchemaRegistry.prepare: the schema an answer gets.                      *)
Prepare(registry, answer) ==
    LET rows == Normalize(registry, answer)
    IN  [fields |-> answer.fields,
         types |-> [c \in Columns(answer) |->
                       ColumnType(ColumnOf(rows, c), Hint(registry, c))],
         nullable |-> [c \in Columns(answer) |-> \E i \in DOMAIN rows : rows[i][c] = "null"]]

(* compare_schemas *)
Incompatible(old, new) ==
    {c \in Columns(old) \intersect Columns(new) :
        /\ old.types[c] # new.types[c]
        /\ ~(old.types[c] = "int" /\ new.types[c] = "float")
        /\ old.types[c] # "null"}

Kept(fields, other) == SelectSeq(fields, LAMBDA c : c \in Columns(other))

ChangeType(old, new) ==
    LET missing == Columns(old) \ Columns(new)
        widened == {c \in Columns(old) : old.types[c] # new.types[c]}
    IN  CASE Incompatible(old, new) # {} -> "incompatible_type_change"
          [] Incompatible(old, new) = {} /\ missing # {} -> "missing_column_warning"
          [] Incompatible(old, new) = {} /\ missing = {} ->
                IF widened # {} THEN "type_widening"
                ELSE IF Columns(new) # Columns(old) THEN "add_column"
                ELSE IF Kept(new.fields, old) # old.fields THEN "reorder"
                ELSE "same"

(* The decision of prepare, for the latest schema it has read.             *)
Accepts(registry, answer) ==
    registry = <<>> \/ Incompatible(LatestSchema(registry), Prepare(registry, answer)) = {}

(* SchemaRegistry.commit: insert or ignore.                                *)
Register(registry, schema) ==
    IF \E i \in DOMAIN registry : registry[i] = schema THEN registry
    ELSE Append(registry, schema)

-----------------------------------------------------------------------------
(* The file of an answer and its readers *)

(* What pyarrow makes of a list of values: ints among floats are floats,   *)
(* any other mixture is an error.                                          *)
FileType(column) ==
    LET types == {TypeOf(column[i]) : i \in DOMAIN column} \ {"null"}
    IN  CASE types = {} -> "null"
          [] types = {"int", "float"} -> "float"
          [] types # {} /\ (\A s, t \in types : s = t) -> CHOOSE t \in types : TRUE
          [] OTHER -> "error"

(* _write_parquet: a file has the columns of its answer, none if there are *)
(* no rows, and is not written if a column cannot be.                      *)
FileOf(registry, answer) ==
    LET rows == Normalize(registry, answer)
    IN  [c \in IF rows = <<>> THEN {} ELSE Columns(answer) |-> FileType(ColumnOf(rows, c))]

Writable(file) == \A c \in DOMAIN file : file[c] # "error"

(* LakeReader._union_tables: a column that a file lacks is null there, and *)
(* concat_tables unites null with any type and no other two types.         *)
Readable(files) ==
    \A f, g \in files : \A c \in DOMAIN f \intersect DOMAIN g :
        f[c] = g[c] \/ "null" \in {f[c], g[c]}
=============================================================================
