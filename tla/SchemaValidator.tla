--------------------------- MODULE SchemaValidator ---------------------------
(***************************************************************************)
(* internal/ingestion/validator.go: the subset of JSON Schema that a       *)
(* payload is validated against before it is stored.  A schema node is a   *)
(* record [type, required, properties, items, enum, min, max]; the absent  *)
(* items, min and max are None, the absent properties too.  minLength and  *)
(* maxLength, which schemaNode parses and nothing reads, are left out.     *)
(*                                                                         *)
(* validateNode calls itself through the parameter ValidateChild, which a  *)
(* configuration binds to ValidateNode.                                    *)
(***************************************************************************)
EXTENDS JsonValue

CONSTANTS
  SchemaNode,             \* the schema nodes that occur, with their parts
  ValidateChild(_, _)

ASSUME SchemaNodeAssumption ==
  \A schema \in SchemaNode :
    /\ Depth(schema) \in Nat
    /\ schema.properties # None => \A k \in DOMAIN schema.properties :
         schema.properties[k] \in SchemaNode /\ Depth(schema.properties[k]) < Depth(schema)
    /\ schema.items # None => schema.items \in SchemaNode /\ Depth(schema.items) < Depth(schema)
    /\ {schema.min, schema.max} \subseteq Int \cup {None}

(* Fields that must be there: absent and null are both missing. *)
Missing(schema, f) == {k \in schema.required : Field(f, k) = Nil}

Below(h, schema) == schema.min # None /\ h < schema.min
Above(h, schema) == schema.max # None /\ h > schema.max

(***************************************************************************)
(* validateNode: where in the value it reports an error, as paths from the *)
(* value.  A nil value is accepted by every schema; limits apply to whole  *)
(* numbers of type "integer" only; an unknown type accepts everything.     *)
(***************************************************************************)
Here == {<<>>}
Under(k, paths) == {<<k>> \o path : path \in paths}

ValidateObject(schema, f) ==
  LET Declared == IF schema.properties = None THEN {} ELSE DOMAIN schema.properties
  IN {<<k>> : k \in Missing(schema, f)}
       \cup UNION {Under(k, ValidateChild(schema.properties[k], f[k])) :
                     k \in {k \in Declared : Field(f, k) # Nil}}

ValidateArray(schema, s) ==
  IF schema.items = None THEN {}
  ELSE UNION {Under(i, ValidateChild(schema.items, s[i])) : i \in DOMAIN s}

ValidateInteger(schema, v) ==
  IF \/ ~Is(v, "num")
     \/ ~Whole(v.num)
     \/ Below(v.num, schema) \/ Above(v.num, schema)
  THEN Here ELSE {}

ValidateString(schema, v) ==
  IF ~Is(v, "str") \/ (schema.enum # {} /\ v \notin schema.enum)
  THEN Here ELSE {}

ValidateNode(schema, v) ==
  CASE v = Nil -> {}
    [] v # Nil /\ schema.type = "object" ->
         IF Is(v, "obj") THEN ValidateObject(schema, v.obj) ELSE Here
    [] v # Nil /\ schema.type = "array" ->
         IF Is(v, "arr") THEN ValidateArray(schema, v.arr) ELSE Here
    [] v # Nil /\ schema.type = "string" -> ValidateString(schema, v)
    [] v # Nil /\ schema.type = "integer" -> ValidateInteger(schema, v)
    [] v # Nil /\ schema.type = "number" -> IF Is(v, "num") THEN {} ELSE Here
    [] v # Nil /\ schema.type = "boolean" -> IF Is(v, "bool") THEN {} ELSE Here
    [] OTHER -> {}

ASSUME ValidateRecursion ==
  \A schema \in SchemaNode, v \in Value : ValidateChild(schema, v) = ValidateNode(schema, v)
=============================================================================
