------------------------- MODULE MCConfiguredDelivery -------------------------
(***************************************************************************)
(* Directories for TLC: sound ones that vary the schema and the contract,  *)
(* and one sound directory with up to two files damaged, renamed or        *)
(* rivalled.                                                               *)
(***************************************************************************)
EXTENDS ConfiguredDelivery, TLC

(* Payload fields. *)
a == Key("a")
b == Key("b")
c == Key("c")

(* Schemas. *)
Untyped == [type |-> "", required |-> {}, properties |-> None, items |-> None,
        enum |-> {}, min |-> None, max |-> None]
Typed(type) == [Untyped EXCEPT !.type = type]
Object(required, properties) ==
  [Untyped EXCEPT !.type = "object", !.required = required, !.properties = properties]
Enumerated == [Typed("string") EXCEPT !.enum = {Str(<<Text("x")>>), Str(<<Text("%")>>)}]
Limited == [Typed("integer") EXCEPT !.min = 0, !.max = 6]
Schema(node) == [parses |-> TRUE, node |-> node]

FieldSchemas ==
  {a :> Limited @@ b :> Enumerated @@ c :> [Typed("array") EXCEPT !.items = Typed("integer")],
   a :> Typed("number") @@ b :> Typed("string")
     @@ c :> Object({a}, a :> Typed("boolean"))}
Schemas == {Schema(Object(r, p)) : r \in {{a}, {a, b, c}}, p \in FieldSchemas}
             \cup {Schema(Untyped)}
Base == Schema(Object({a}, a :> Limited @@ b :> Enumerated))

(* Payloads. *)
Payloads ==
  {a :> Num(4) @@ b :> Str(<<Text("x")>>) @@ c :> Arr(<<Num(2), Nil>>),
   a :> Num(5) @@ b :> Str(<<Text("%")>>) @@ c :> Obj(a :> Bool(TRUE)),
   a :> Nil @@ b :> Str(<<Image(4)>>),
   a :> Num(8) @@ b :> Nil,
   a :> Num(4)}
AllRequests == [event : {1}, payload : Payloads]
                 \cup [event : {2}, payload : {a :> Num(4) @@ b :> Str(<<Text("x")>>)}]

(* Templates. *)
Ref(scope, path) == <<[ref |-> <<scope, path>>]>>
Whole1(s) == [str |-> s]
Source(s) == SourceKey :> Whole1(s)
Typ(type) == TypeKey :> Whole1(<<Text(type)>>)
Fmt == FormatKey :> Whole1(<<Text("yyyy")>>)
Map(f) == [map |-> f]
A == Ref("payload", <<a>>)

Nodes ==
  {Map(Source(A) @@ Typ("integer") @@ Fmt),
   Map(Source(A) @@ Typ("boolean")),
   Map(Source(A) @@ Fmt),
   Map(Source(Ref("payload", <<b>>))),
   Map(Source(A) @@ Typ("integer") @@ FormatKey :> [const |-> Num(2)]),
   Map(Source(Ref("payload", <<b>>)) @@ Typ("number")),
   Map(Source(Ref("payload", <<c, a>>)) @@ Typ("string")),
   Map(Source(Ref("payload", <<c>>)) @@ EachKey :> Map(Key("n") :> Whole1(Ref("item", <<>>)))),
   Map(Source(Ref("payload", <<c>>)) @@ EachKey :> Map(Source(Ref("item", <<>>)) @@ Typ("integer"))),
   Map(Source(Ref("payload", <<c>>)) @@ Typ("plural")),
   [list |-> <<Whole1(<<Text("n")>> \o A), [const |-> Num(2)]>>]}

Request(path) == [method |-> "POST", path |-> path, headers |-> {"Authorization"}]
Body(type, f) == [type |-> type, template |-> Map(f)]
SimpleBody == Body("mapping", Key("n") :> Whole1(A))
Bodies == {Body("mapping", Key("n") :> t @@ Escaped("m") :> t) : t \in Nodes}
            \cup {Body(type, Key("n") :> Whole1(A)) : type \in {"", "raw", "plugin"}}

(* Files. *)
File(kind, path, content) == [kind |-> kind, path |-> path, read |-> TRUE, content |-> content]
Retry(n) == [delays |-> TRUE, attempts |-> n]
Vendor(auth, config) == [retry |-> Retry(3), auth |-> auth, config |-> config]
Contract(path, body) == [event |-> 1, retry |-> None, request |-> Request(path), body |-> body]
SimpleContract == Contract(<<Text("/")>>, SimpleBody)

SoundFiles(schema, contract) ==
  {File("route", <<1, 1>>, [event |-> 1, vendors |-> {1, 2}]),
   File("schema", <<1, 1>>, [event |-> 1, schema |-> schema]),
   File("vendor", <<1>>, Vendor("basic", {"user"})),
   File("vendor", <<2>>, Vendor("bearer", {"token"})),
   File("contract", <<1, 1, 1>>, contract),
   File("contract", <<2, 1, 1>>, [contract EXCEPT !.retry = Retry(1)])}
Dir(files) ==
  [stat |-> "dir", events |-> TRUE, vendors |-> TRUE, unlisted |-> {}, files |-> files]

(* Directories without a fault, to vary schema, template and path. *)
SoundDirectories ==
  {Dir(SoundFiles(s, Contract(<<Text("/")>>, body))) : s \in Schemas, body \in Bodies}
    \cup {Dir(SoundFiles(s, Contract(<<Text("/")>> \o Ref("payload", <<b>>), SimpleBody)))
            : s \in Schemas}

(* What may befall a file. *)
Damaged(f) ==
  {[f EXCEPT !.read = FALSE]}
    \cup (IF f.kind \in {"route", "schema", "contract"}
          THEN {[f EXCEPT !.content.event = None], [f EXCEPT !.content.event = 2]} ELSE {})
    \cup (IF f.kind = "schema"
          THEN {[f EXCEPT !.content.schema = None],
                [f EXCEPT !.content.schema.parses = FALSE],
                [f EXCEPT !.content.schema.node.properties = a :> Limited]} ELSE {})
    \cup (IF f.kind = "vendor" THEN {[f EXCEPT !.content.retry.delays = FALSE]} ELSE {})
    \cup (IF f.kind = "contract"
          THEN {[f EXCEPT !.content.retry = [delays |-> FALSE, attempts |-> 1]]} ELSE {})

BaseContract == Contract(<<Text("/")>>, Body("mapping", Key("n") :> Whole1(Ref("payload", <<b>>))))
BaseFiles == SoundFiles(Base, BaseContract)

Extra ==
  {File("route", <<2, 2>>, [event |-> 2, vendors |-> {3}]),
   File("route", <<2, 1>>, [event |-> 1, vendors |-> {2}]),
   File("schema", <<2, 2>>, [event |-> 2, schema |-> Schema(Typed("object"))]),
   File("schema", <<2, 1>>, [event |-> 1, schema |-> Schema(Untyped)]),
   File("contract", <<1, 2, 2>>, [SimpleContract EXCEPT !.event = 2]),
   File("contract", <<1, 2, 1>>, [SimpleContract EXCEPT !.event = 2])}
  \cup {[File("route", <<2, 1>>, [event |-> 1, vendors |-> {2}]) EXCEPT !.read = FALSE]}

OneChange(files) ==
  UNION {{(files \ {f}) \cup {g} : g \in Damaged(f)} : f \in files \cap BaseFiles}
    \cup {files \cup {x} : x \in {x \in Extra :
                                \A f \in files : <<f.kind, f.path>> # <<x.kind, x.path>>}}

(* Directories of the base that cannot be listed. *)
Hidden == {<<"events", <<>>>>, <<"routes", <<1>>>>, <<"schemas", <<1>>>>,
           <<"vendors", <<>>>>, <<"vendors", <<1>>>>, <<"vendors", <<1, 1>>>>}
HidingDirectories ==
  {[Dir(files) EXCEPT !.unlisted = {h}] : files \in OneChange(BaseFiles), h \in Hidden}

FaultyDirectories ==
  {Dir(files) : files \in UNION {OneChange(s) : s \in OneChange(BaseFiles)}}
    \cup HidingDirectories
    \cup {[Dir({}) EXCEPT !.events = FALSE, !.vendors = FALSE],
          [Dir({}) EXCEPT !.stat = "absent"], [Dir({}) EXCEPT !.stat = "file"],
          [Dir({f \in BaseFiles : f.kind \in {"route", "schema"}}) EXCEPT !.vendors = FALSE]}

AllDirectories == SoundDirectories \cup FaultyDirectories

(* The parts of values, schemas and templates, and their nesting. *)
Children(x) ==
  CASE "obj" \in DOMAIN x  -> {x.obj[k] : k \in DOMAIN x.obj}
    [] "arr" \in DOMAIN x  -> {x.arr[i] : i \in DOMAIN x.arr}
    [] "map" \in DOMAIN x  -> {x.map[k] : k \in DOMAIN x.map}
    [] "list" \in DOMAIN x -> {x.list[i] : i \in DOMAIN x.list}
    [] "type" \in DOMAIN x ->
         (IF x.properties = None THEN {} ELSE {x.properties[k] : k \in DOMAIN x.properties})
           \cup (IF x.items = None THEN {} ELSE {x.items})
    [] OTHER -> {}

RECURSIVE Parts(_)
Parts(x) == {x} \cup UNION {Parts(y) : y \in Children(x)}

RECURSIVE Nesting(_)
Nesting(x) == LET below == {Nesting(y) : y \in Children(x)}
              IN IF below = {} THEN 0 ELSE 1 + CHOOSE n \in below : \A m \in below : m <= n

FilesOf(kind) == {f \in UNION {d.files : d \in AllDirectories} : f.kind = kind}
AllSchemaNodes ==
  UNION {Parts(s.node) : s \in {f.content.schema : f \in FilesOf("schema")} \ {None}}
AllTemplates == UNION {Parts(f.content.body.template) : f \in FilesOf("contract")}
AllValues == {Nil, Num(2)} \cup UNION {Parts(Obj(r.payload)) : r \in AllRequests}
AllPaths == {<<a>>, <<b>>, <<c>>, <<c, a>>}

(***************************************************************************)
(* The recursive calls: each parameter is the function itself.  (The LET   *)
(* keeps TLC's coverage statistics from unfolding the recursion.)          *)
(***************************************************************************)
TheValidateNode(schema, v) == LET errors == ValidateNode(schema, v) IN errors
TheNestedField(f, path) == LET value == GetNestedField(f, path) IN value
TheResolveNode(node, ctx) == LET value == ResolveNode(node, ctx) IN value
TheStrings(node) == LET strings == Strings(node) IN strings
TheConforms(v, schema) == LET verdict == Conforms(v, schema) IN verdict
TheAssured(schema, path) == LET node == Assured(schema, path) IN node
TheWellTyped(node, schema) == LET verdict == WellTyped(node, schema) IN verdict

HandlerSymmetry == Permutations(Handlers)
=============================================================================
