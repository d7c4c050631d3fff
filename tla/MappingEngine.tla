---------------------------- MODULE MappingEngine ----------------------------
(***************************************************************************)
(* internal/mapping/engine.go: the request a delivery contract makes of a  *)
(* payload.                                                                *)
(*                                                                         *)
(* A template node is a string [str], a mapping [map], a list [list] or    *)
(* any other constant [const].  A template string is a sequence of pieces  *)
(* [text |-> ..] and references [ref |-> <<scope, path>>], in which an     *)
(* empty path stands for @{scope} itself.  A context is the payload and    *)
(* the current element of $each.  Whatever fails yields Err.               *)
(*                                                                         *)
(* Not covered: a mapping with both "k" and "$$k", of which Go keeps one   *)
(* at random; text that is a number only after concatenation.              *)
(*                                                                         *)
(* What calls itself in the code does so here through a parameter (..Rest, *)
(* ..Child), which a configuration binds to the definition itself.         *)
(***************************************************************************)
EXTENDS JsonValue

LOCAL INSTANCE SequencesExt

CONSTANTS
  Template,               \* the template nodes that occur, with their parts
  Path,                   \* the paths of references and their tails
  GetNestedRest(_, _),
  ResolveChild(_, _),
  StringsChild(_)

Err == [error |-> TRUE]
IsErr(x) == "error" \in DOMAIN x

(* The value v made of the parts f, unless one of the parts is Err. *)
AllOrErr(f, v) == IF \E i \in DOMAIN f : IsErr(f[i]) THEN Err ELSE v

-----------------------------------------------------------------------------
(* tostring, and strconv on the strings it makes. *)
Tostring(v) ==
  CASE Is(v, "nil") -> <<>>
    [] Is(v, "str") -> v.str
    [] Is(v, "num") -> <<Image(v.num)>>
    [] Is(v, "bool") -> <<Text(IF v.bool THEN "true" ELSE "false")>>
    [] OTHER -> <<Dump(v)>>

ParsesFloat(s) == Len(s) = 1 /\ "dec" \in DOMAIN s[1]
ParsesInt(s) == ParsesFloat(s) /\ Whole(s[1].dec)
TrueText == {<<Text("true")>>, <<Image(2)>>}
FalseText == {<<Text("false")>>, <<Image(0)>>}

(* int64(v) drops the fraction. *)
Truncate(h) == IF h >= 0 THEN 2 * (h \div 2) ELSE -2 * ((-h) \div 2)

(* Faulty variant of ConvertType: numbers are expected to be int, not float64. *)
ConvertTypeNoFloat(v, type) ==
  IF type = "string" THEN Str(Tostring(v))
  ELSE IF type = "integer" /\ Is(v, "str") /\ ParsesInt(v.str) THEN Num(v.str[1].dec)
  ELSE Err

ConvertType(v, type) ==
  CASE type = "string" -> Str(Tostring(v))
    [] type = "integer" ->
         IF Is(v, "num") THEN Num(Truncate(v.num))
         ELSE IF Is(v, "str") /\ ParsesInt(v.str) THEN Num(v.str[1].dec) ELSE Err
    [] type = "number" ->
         IF Is(v, "num") THEN v
         ELSE IF Is(v, "str") /\ ParsesFloat(v.str) THEN Num(v.str[1].dec) ELSE Err
    [] type = "boolean" ->
         IF Is(v, "bool") THEN v
         ELSE IF Is(v, "num") THEN Bool(v.num # 0)
         ELSE IF Is(v, "str") /\ v.str \in TrueText THEN Bool(TRUE)
         ELSE IF Is(v, "str") /\ v.str \in FalseText THEN Bool(FALSE) ELSE Err
    [] OTHER -> Err

(* A Unix time in seconds as a date. *)
FormatValue(s) == IF ParsesInt(s) THEN Str(<<Date(s[1].dec)>>) ELSE Err

-----------------------------------------------------------------------------
(* References. *)
Context(payload, item) == [payload |-> payload, item |-> item]

Lookup(ctx, scope) ==
  IF scope = "payload" THEN ctx.payload
  ELSE IF Is(ctx.item, "obj") THEN ctx.item.obj ELSE <<>>

GetScopeValue(ctx, scope) ==
  IF scope = "payload" THEN Obj(ctx.payload) ELSE ctx.item

GetNestedField(f, path) ==
  LET v == Field(f, Head(path)) IN
  IF Len(path) = 1 THEN v
  ELSE IF Is(v, "obj") THEN GetNestedRest(v.obj, Tail(path)) ELSE Nil

Dereference(ref, ctx) ==
  IF ref[2] = <<>> THEN GetScopeValue(ctx, ref[1])
  ELSE GetNestedField(Lookup(ctx, ref[1]), ref[2])

Pure(s) == Len(s) = 1 /\ IsRef(s[1])

Interpolate(s, ctx) ==
  FlattenSeq([i \in DOMAIN s |->
                IF IsRef(s[i]) THEN Tostring(Dereference(s[i].ref, ctx)) ELSE <<s[i]>>])

(* A lone reference keeps the type of its value; all else is a string. *)
ResolveField(s, ctx) ==
  IF Pure(s) THEN Dereference(s[1].ref, ctx) ELSE Str(Interpolate(s, ctx))

-----------------------------------------------------------------------------
(* The template of a body. *)
SourceKey == Dollar("source")
TypeKey   == Dollar("type")
FormatKey == Dollar("format")
EachKey   == Dollar("each")

(* strings.TrimPrefix(key, "$$") *)
TrimPrefix(k) == IF k[1] >= 2 THEN <<k[1] - 2, k[2]>> ELSE k

(* The text of a node that must be a plain string, such as a type name. *)
Name(node) == IF "str" \in DOMAIN node THEN node.str[1].text ELSE "not a string"

ResolveEach(v, source, ctx) ==
  IF ~Is(source, "arr") THEN Err
  ELSE LET items == [i \in DOMAIN source.arr |->
                       ResolveChild(v[EachKey], Context(ctx.payload, source.arr[i]))]
       IN AllOrErr(items, Arr(items))

(* $type first, then $format. *)
ResolveSingle(v, source) ==
  LET typed == IF TypeKey \in DOMAIN v THEN ConvertType(source, Name(v[TypeKey]))
                                       ELSE source
  IN IF IsErr(typed) \/ FormatKey \notin DOMAIN v THEN typed
     ELSE IF "str" \in DOMAIN v[FormatKey] THEN FormatValue(Tostring(typed)) ELSE Err

ResolveSourceDirective(v, ctx) ==
  IF "str" \notin DOMAIN v[SourceKey] THEN Err
  ELSE LET source == ResolveField(v[SourceKey].str, ctx) IN
       IF EachKey \in DOMAIN v THEN ResolveEach(v, source, ctx)
                               ELSE ResolveSingle(v, source)

ResolveMapping(v, ctx) ==
  LET resolved == [k \in DOMAIN v |-> ResolveChild(v[k], ctx)]
      renamed == [k \in {TrimPrefix(k) : k \in DOMAIN v} |->
                    resolved[CHOOSE j \in DOMAIN v : TrimPrefix(j) = k]]
  IN AllOrErr(resolved, Obj(renamed))

ResolveNode(node, ctx) ==
  CASE "str" \in DOMAIN node -> ResolveField(node.str, ctx)
    [] "map" \in DOMAIN node -> IF SourceKey \in DOMAIN node.map
                                THEN ResolveSourceDirective(node.map, ctx)
                                ELSE ResolveMapping(node.map, ctx)
    [] "list" \in DOMAIN node ->
         LET items == [i \in DOMAIN node.list |-> ResolveChild(node.list[i], ctx)]
         IN AllOrErr(items, Arr(items))
    [] OTHER -> node.const

(* The template strings of a node, in no particular order. *)
Strings(node) ==
  CASE "str" \in DOMAIN node -> {node.str}
    [] "map" \in DOMAIN node -> UNION {StringsChild(node.map[k]) : k \in DOMAIN node.map}
    [] "list" \in DOMAIN node -> UNION {StringsChild(node.list[i]) : i \in DOMAIN node.list}
    [] OTHER -> {}

(***************************************************************************)
(* buildBody.  A raw body is the JSON text of the template with every      *)
(* reference replaced by text; only the set of its strings is kept here.   *)
(* The errors of json.Marshal, of the template or of the result, are left  *)
(* out: it has none for the values modelled, which exclude the numbers     *)
(* that are not finite.                                                    *)
(***************************************************************************)
BuildBody(body, ctx) ==
  CASE body.type \in {"", "none"} -> Nil
    [] body.type = "raw" -> [raw |-> {Interpolate(s, ctx) : s \in Strings(body.template)}]
    [] body.type = "mapping" -> ResolveNode(body.template, ctx)
    [] OTHER -> Err

(* http.NewRequest refuses a bad method and a path with a bad escape. *)
Acceptable(request, path) ==
  request.method # "bad" /\ \A i \in DOMAIN path : path[i] # Text("%")

(* Who sets the Authorization header: the vendor's auth overrides the contract. *)
Credentials(vendor, request) ==
  CASE vendor.auth = "bearer" /\ {"token"} \subseteq vendor.config -> "vendor"
    [] vendor.auth = "basic" /\ {"user", "pass"} \subseteq vendor.config -> "vendor"
    [] OTHER -> IF "Authorization" \in request.headers THEN "contract" ELSE "none"

BuildRequest(vendor, mapping, payload) ==
  LET ctx  == Context(payload, Nil)
      body == BuildBody(mapping.body, ctx)
      path == Tostring(ResolveField(mapping.request.path, ctx))
  IN IF IsErr(body) \/ ~Acceptable(mapping.request, path) THEN Err
     ELSE [method |-> mapping.request.method, path |-> path, body |-> body,
           authorization |-> Credentials(vendor, mapping.request)]

-----------------------------------------------------------------------------
(* The parts of templates and paths, and what the parameters stand for. *)
ASSUME PathAssumption ==
  \A path \in Path :
    /\ path \in Seq(Nat \X STRING) /\ path # <<>>
    /\ Len(path) > 1 => Tail(path) \in Path

ASSUME TemplateAssumption ==
  \A node \in Template :
    /\ Depth(node) \in Nat
    /\ \/ DOMAIN node = {"str"} /\ \A i \in DOMAIN node.str : IsRef(node.str[i]) =>
            /\ node.str[i].ref[1] \in {"payload", "item"}
            /\ node.str[i].ref[2] \in Path \cup {<<>>}
       \/ DOMAIN node = {"map"} /\ \A k \in DOMAIN node.map :
            node.map[k] \in Template /\ Depth(node.map[k]) < Depth(node)
       \/ DOMAIN node = {"list"} /\ \A i \in DOMAIN node.list :
            node.list[i] \in Template /\ Depth(node.list[i]) < Depth(node)
       \/ DOMAIN node = {"const"} /\ node.const \in Value

ASSUME MappingRecursion ==
  \A v \in Value : Is(v, "obj") =>
    /\ \A path \in Path : GetNestedRest(v.obj, path) = GetNestedField(v.obj, path)
    /\ \A node \in Template, item \in Value :
         ResolveChild(node, Context(v.obj, item)) = ResolveNode(node, Context(v.obj, item))
=============================================================================
