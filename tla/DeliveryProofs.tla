---------------------------- MODULE DeliveryProofs ----------------------------
(***************************************************************************)
(* From a payload to the requests of its vendors: the verdict on a payload *)
(* is that of its own schema, whoever filled the cache; a field a body     *)
(* refers to is absent only if the schema lets it be; and a contract whose *)
(* directives fit the schema always builds.                                *)
(*                                                                         *)
(* Statements about nested schemas and templates are shown by induction on *)
(* the depth, in the form that there is no least counterexample.           *)
(***************************************************************************)
EXTENDS ConfiguredDelivery, LoaderProofs, SequenceTheorems

-----------------------------------------------------------------------------
(* validateNode against the meaning of a schema. *)

(* Errors under a key are there if there are any. *)
LEMMA UnderIsEmpty ==
  ASSUME NEW k, NEW paths
  PROVE  Under(k, paths) = {} <=> paths = {}
BY DEF Under

(* There are errors in a value if there are some under one of its keys. *)
LEMMA ErrorsUnderKeys ==
  ASSUME NEW S, NEW errs
  PROVE  UNION {Under(k, errs[k]) : k \in S} = {} <=> \A k \in S : errs[k] = {}
<1>1. ASSUME NEW k \in S, errs[k] # {}
      PROVE  UNION {Under(k2, errs[k2]) : k2 \in S} # {}
  <2>1. PICK e : e \in Under(k, errs[k])
    BY <1>1, UnderIsEmpty
  <2> QED
    BY <2>1
<1>2. ASSUME \A k \in S : errs[k] = {}
      PROVE  UNION {Under(k, errs[k]) : k \in S} = {}
  <2>1. \A k \in S : Under(k, errs[k]) = {}
    BY <1>2, UnderIsEmpty
  <2> QED
    BY <2>1
<1> QED
  BY <1>1, <1>2

(* The kinds of values exclude each other. *)
LEMMA KindsOfValues ==
  ASSUME NEW v \in Value
  PROVE  /\ Is(v, "nil") <=> v = Nil
         /\ Is(v, "num") => v.num \in Int /\ ~Is(v, "str") /\ ~Is(v, "bool")
         /\ Is(v, "obj") => \A k \in DOMAIN v.obj : v.obj[k] \in Value
         /\ Is(v, "arr") => \A i \in DOMAIN v.arr : v.arr[i] \in Value
         /\ ~Is(v, "error")
BY ValueAssumption DEF Is, Nil

(* validateNode reports nothing exactly if v conforms. *)
Decided(schema, v) == ValidateNode(schema, v) = {} <=> Conforms(v, schema)

LEMMA ObjectDecided ==
  ASSUME NEW schema \in SchemaNode, NEW v \in Value, v # Nil, schema.type = "object",
         Is(v, "obj"),
         \A s \in SchemaNode, w \in Value : Depth(s) < Depth(schema) => Decided(s, w)
  PROVE  Decided(schema, v)
<1> DEFINE f == v.obj
           Declared == IF schema.properties = None THEN {} ELSE DOMAIN schema.properties
           Checked == {k \in Declared : Field(f, k) # Nil}
<1>1. ValidateNode(schema, v) = ValidateObject(schema, f)
  BY DEF ValidateNode
<1>2. ASSUME NEW k \in DOMAIN f \cap Declared
      PROVE  /\ f[k] \in Value /\ schema.properties[k] \in SchemaNode
             /\ ValidateChild(schema.properties[k], f[k]) = {}
                  <=> ConformsChild(f[k], schema.properties[k])
  <2>1. f[k] \in Value
    BY KindsOfValues
  <2>2. schema.properties[k] \in SchemaNode /\ Depth(schema.properties[k]) < Depth(schema)
    BY SchemaNodeAssumption
  <2> QED
    BY <2>1, <2>2, ValidateRecursion, ConformsRecursion DEF Decided
<1>3. ASSUME NEW k \in DOMAIN f \cap Declared, k \notin Checked
      PROVE  ConformsChild(f[k], schema.properties[k])
  <2>1. f[k] = Nil
    BY <1>3 DEF Field
  <2> QED
    BY <1>2, <2>1, ConformsRecursion DEF Conforms
<1>4. Checked \subseteq DOMAIN f \cap Declared /\ \A k \in Checked : Field(f, k) = f[k]
  BY DEF Field
<1>5. ValidateObject(schema, f) = {}
        <=> /\ Missing(schema, f) = {}
            /\ \A k \in Checked : ValidateChild(schema.properties[k], f[k]) = {}
  <2>1. ValidateObject(schema, f)
          = {<<k>> : k \in Missing(schema, f)}
              \cup UNION {Under(k, ValidateChild(schema.properties[k], f[k])) : k \in Checked}
    BY DEF ValidateObject
  <2> DEFINE errs == [k \in Checked |-> ValidateChild(schema.properties[k], f[k])]
  <2>2. UNION {Under(k, errs[k]) : k \in Checked} = {} <=> \A k \in Checked : errs[k] = {}
    <3> HIDE DEF errs, Checked
    <3> QED
      BY ErrorsUnderKeys
  <2>3. \A k \in Checked : errs[k] = ValidateChild(schema.properties[k], f[k])
    OBVIOUS
  <2>4. {Under(k, errs[k]) : k \in Checked}
          = {Under(k, ValidateChild(schema.properties[k], f[k])) : k \in Checked}
    BY <2>3
  <2>5. {<<k>> : k \in Missing(schema, f)} = {} <=> Missing(schema, f) = {}
    OBVIOUS
  <2>6. ValidateObject(schema, f)
          = {<<k>> : k \in Missing(schema, f)} \cup UNION {Under(k, errs[k]) : k \in Checked}
    BY <2>1, <2>4
  <2> HIDE DEF errs, Checked, Declared, f
  <2>7. ValidateObject(schema, f) = {}
          <=> Missing(schema, f) = {} /\ UNION {Under(k, errs[k]) : k \in Checked} = {}
    BY <2>5, <2>6
  <2> QED
    BY <2>2, <2>3, <2>7
<1>6. Missing(schema, f) = {} <=> \A k \in schema.required : k \in DOMAIN f /\ f[k] # Nil
  BY DEF Missing, Field
<1>7. (\A k \in Checked : ValidateChild(schema.properties[k], f[k]) = {})
        <=> \A k \in DOMAIN f \cap Declared : ConformsChild(f[k], schema.properties[k])
  <2> HIDE DEF Checked, Declared, f
  <2> QED
    BY <1>2, <1>3, <1>4
<1>8. Conforms(v, schema)
        <=> /\ \A k \in schema.required : k \in DOMAIN f /\ f[k] # Nil
            /\ schema.properties # None =>
                 \A k \in DOMAIN f \cap DOMAIN schema.properties :
                   ConformsChild(f[k], schema.properties[k])
  BY DEF Conforms, HasType
<1>9. (schema.properties # None =>
         \A k \in DOMAIN f \cap DOMAIN schema.properties :
           ConformsChild(f[k], schema.properties[k]))
        <=> \A k \in DOMAIN f \cap Declared : ConformsChild(f[k], schema.properties[k])
  OBVIOUS
<1> HIDE DEF Checked, Declared, f
<1> QED
  BY <1>1, <1>5, <1>6, <1>7, <1>8, <1>9 DEF Decided

LEMMA ArrayDecided ==
  ASSUME NEW schema \in SchemaNode, NEW v \in Value, v # Nil, schema.type = "array",
         Is(v, "arr"),
         \A s \in SchemaNode, w \in Value : Depth(s) < Depth(schema) => Decided(s, w)
  PROVE  Decided(schema, v)
<1>1. ValidateNode(schema, v) = ValidateArray(schema, v.arr)
  BY DEF ValidateNode
<1>2. Conforms(v, schema)
        <=> (schema.items # None => \A i \in DOMAIN v.arr : ConformsChild(v.arr[i], schema.items))
  BY DEF Conforms, HasType
<1>3. CASE schema.items = None
  BY <1>1, <1>2, <1>3 DEF ValidateArray, Decided
<1>4. CASE schema.items # None
  <2>1. schema.items \in SchemaNode /\ Depth(schema.items) < Depth(schema)
    BY <1>4, SchemaNodeAssumption
  <2>2. \A i \in DOMAIN v.arr : v.arr[i] \in Value
    BY KindsOfValues
  <2>3. \A i \in DOMAIN v.arr :
          ValidateChild(schema.items, v.arr[i]) = {} <=> ConformsChild(v.arr[i], schema.items)
    BY <2>1, <2>2, ValidateRecursion, ConformsRecursion DEF Decided
  <2>4. ValidateArray(schema, v.arr)
          = UNION {Under(i, ValidateChild(schema.items, v.arr[i])) : i \in DOMAIN v.arr}
    BY <1>4 DEF ValidateArray
  <2>5. ValidateArray(schema, v.arr) = {}
          <=> \A i \in DOMAIN v.arr : ValidateChild(schema.items, v.arr[i]) = {}
    <3> DEFINE errs == [i \in DOMAIN v.arr |-> ValidateChild(schema.items, v.arr[i])]
    <3>1. UNION {Under(i, errs[i]) : i \in DOMAIN v.arr} = {}
            <=> \A i \in DOMAIN v.arr : errs[i] = {}
      <4> HIDE DEF errs
      <4> QED
        BY ErrorsUnderKeys
    <3>2. {Under(i, errs[i]) : i \in DOMAIN v.arr}
            = {Under(i, ValidateChild(schema.items, v.arr[i])) : i \in DOMAIN v.arr}
      OBVIOUS
    <3> QED
      BY <2>4, <3>1, <3>2
  <2> QED
    BY <1>1, <1>2, <1>4, <2>3, <2>5 DEF Decided
<1> QED
  BY <1>3, <1>4

(* The types without parts. *)
LEMMA LeafDecided ==
  ASSUME NEW schema \in SchemaNode, NEW v \in Value, v # Nil
  PROVE  /\ schema.type = "object" /\ ~Is(v, "obj") => Decided(schema, v)
         /\ schema.type = "array" /\ ~Is(v, "arr") => Decided(schema, v)
         /\ schema.type \notin {"object", "array"} => Decided(schema, v)
<1> USE DEF Decided, ValidateNode, Conforms, HasType, Here
<1>1. CASE schema.type = "object" /\ ~Is(v, "obj")
  BY <1>1
<1>2. CASE schema.type = "array" /\ ~Is(v, "arr")
  BY <1>2
<1>3. CASE schema.type = "string"
  BY <1>3 DEF ValidateString
<1>4. CASE schema.type = "integer"
  <2>1. Is(v, "num") => v.num \in Int
    BY KindsOfValues
  <2>2. schema.min \in Int \cup {None} /\ schema.max \in Int \cup {None}
    BY SchemaNodeAssumption
  <2>3. Is(v, "num") =>
          /\ ~Below(v.num, schema) <=> (schema.min # None => v.num >= schema.min)
          /\ ~Above(v.num, schema) <=> (schema.max # None => v.num <= schema.max)
    BY <2>1, <2>2 DEF Below, Above
  <2> QED
    BY <1>4, <2>3 DEF ValidateInteger
<1>5. CASE schema.type \in {"number", "boolean"}
  BY <1>5
<1>6. CASE schema.type \notin {"object", "array", "string", "integer", "number", "boolean"}
  BY <1>6
<1> QED
  BY <1>1, <1>2, <1>3, <1>4, <1>5, <1>6

(* validateNode and the reference agree on schemas and values of any depth. *)
LEMMA ValidatorIsExact ==
  \A schema \in SchemaNode, v \in Value : ValidateNode(schema, v) = {} <=> Conforms(v, schema)
<1> DEFINE T == {n \in Nat : \E schema \in SchemaNode, v \in Value :
                                Depth(schema) = n /\ ~Decided(schema, v)}
<1>1. T = {}
  <2> SUFFICES ASSUME T # {} PROVE FALSE
    OBVIOUS
  <2>1. PICK k \in T : \A j \in T : k <= j
    <3>1. T \in SUBSET Nat
      OBVIOUS
    <3> HIDE DEF T
    <3> QED
      BY <3>1, LeastNumber
  <2>2. PICK schema \in SchemaNode, v \in Value : Depth(schema) = k /\ ~Decided(schema, v)
    BY <2>1
  <2>3. ASSUME NEW s \in SchemaNode, NEW w \in Value, Depth(s) < Depth(schema)
        PROVE  Decided(s, w)
    <3>1. Depth(s) \in Nat /\ k \in Nat
      BY SchemaNodeAssumption
    <3>2. Depth(s) \notin T
      BY <2>1, <2>2, <2>3, <3>1
    <3> QED
      BY <3>1, <3>2
  <2>4. CASE v = Nil
    BY <2>2, <2>4 DEF Decided, ValidateNode, Conforms
  <2>5. CASE v # Nil
    BY <2>2, <2>3, <2>5, ObjectDecided, ArrayDecided, LeafDecided
  <2> QED
    BY <2>4, <2>5
<1>2. ASSUME NEW schema \in SchemaNode, NEW v \in Value
      PROVE  Decided(schema, v)
  BY <1>1, SchemaNodeAssumption
<1> QED
  BY <1>2 DEF Decided

-----------------------------------------------------------------------------
(* What is known of the cache and of each handler. *)

SchemaOf(e) == GetEventSchema(e).value

(* What validateMap decides for a request. *)
Accepts(r) ==
  /\ SchemaOf(r.event).parses
  /\ ValidateNode(SchemaOf(r.event).node, Obj(r.payload)) = {}

(* The contracts that are served have passed validateCrossConfig. *)
CheckedInv ==
  loadPc = "serving" =>
    \A key \in DOMAIN deliveryContracts :
      IsLoaded(deliveryContracts[key]) => Undeclared(deliveryContracts[key].value) = {}

(* A cached node is that of the schema found under the same key. *)
CacheInv ==
  /\ loadPc # "serving" => DOMAIN cache = {}
  /\ \A e \in DOMAIN cache :
       IsLoaded(GetEventSchema(e)) /\ SchemaOf(e).parses /\ cache[e] = SchemaOf(e).node

(* What its step says of a handler's record. *)
HandlerOk(x) ==
  /\ DOMAIN x = {"pc", "request", "node", "refusal", "outcome"}
  /\ x.pc # "idle" => loadPc = "serving" /\ x.request \in Requests
  /\ x.pc # "answered" => x.refusal = "" /\ DOMAIN x.outcome = {}
  /\ \/ x.pc \notin {"idle", "answered"} \/ x.refusal = "invalid" \/ DOMAIN x.outcome # {}
     => IsLoaded(GetEventSchema(x.request.event))
  /\ x.pc \in {"store", "validate"} =>
       SchemaOf(x.request.event).parses /\ x.node = SchemaOf(x.request.event).node
  /\ x.pc = "accepted" \/ DOMAIN x.outcome # {} => Accepts(x.request)
  /\ x.refusal = "invalid" => ~Accepts(x.request)
  /\ \A v \in DOMAIN x.outcome : x.outcome[v] = Deliver(v, x.request)

HandlerInv == DOMAIN handler = Handlers /\ \A h \in Handlers : HandlerOk(handler[h])

DeliveryInv == LoaderInv /\ CheckedInv /\ CacheInv /\ HandlerInv

LEMMA InitDelivery ==
  ASSUME Init
  PROVE  DeliveryInv
<1>1. LoaderInv
  BY NewLoaderInv DEF Init
<1>2. loadPc = "stat" /\ cache = <<>> /\ handler = [h \in Handlers |-> Idle]
  BY DEF Init, NewLoader
<1>3. CheckedInv /\ CacheInv
  BY <1>2 DEF CheckedInv, CacheInv
<1>4. HandlerOk(Idle)
  BY DEF HandlerOk, Idle
<1>5. HandlerInv
  BY <1>2, <1>4 DEF HandlerInv
<1> QED
  BY <1>1, <1>3, <1>5 DEF DeliveryInv

(* The lookups do not change while the loader does not move. *)
LEMMA LookupsStay ==
  ASSUME UNCHANGED loaderVars
  PROVE  /\ loadPc' = loadPc
         /\ \A e : GetEventSchema(e)' = GetEventSchema(e) /\ SchemaOf(e)' = SchemaOf(e)
         /\ \A r : Accepts(r)' <=> Accepts(r)
         /\ \A v, r : Deliver(v, r)' = Deliver(v, r)
         /\ \A x : HandlerOk(x)' <=> HandlerOk(x)
<1>1. UNCHANGED <<loadPc, eventSchemas, vendorConfigs, deliveryContracts>>
  BY DEF loaderVars, loaderMaps
<1>2. \A e : GetEventSchema(e)' = GetEventSchema(e) /\ SchemaOf(e)' = SchemaOf(e)
  BY <1>1 DEF GetEventSchema, SchemaOf, Find
<1>3. \A r : Accepts(r)' <=> Accepts(r)
  BY <1>2 DEF Accepts
<1>4. \A v, e : /\ GetVendorConfig(v)' = GetVendorConfig(v)
                /\ GetDeliverySpec(v, e)' = GetDeliverySpec(v, e)
  BY <1>1 DEF GetVendorConfig, GetDeliverySpec, Find
<1>5. \A v, r : Deliver(v, r)' = Deliver(v, r)
  BY <1>4 DEF Deliver
<1>6. ASSUME NEW x
      PROVE  HandlerOk(x)' <=> HandlerOk(x)
  <2>1. /\ SchemaOf(x.request.event)' = SchemaOf(x.request.event)
        /\ GetEventSchema(x.request.event)' = GetEventSchema(x.request.event)
    BY <1>2
  <2>2. /\ Accepts(x.request)' <=> Accepts(x.request)
        /\ \A v : Deliver(v, x.request)' = Deliver(v, x.request)
    BY <1>3, <1>5
  <2> QED
    BY <1>1, <2>1, <2>2 DEF HandlerOk
<1> QED
  BY <1>1, <1>2, <1>3, <1>5, <1>6

(* A step of one handler, which leaves the cache alone. *)
LEMMA HandlerMoves ==
  ASSUME DeliveryInv, UNCHANGED <<cache, loaderVars>>, NEW h \in Handlers, NEW y,
         handler' = [handler EXCEPT ![h] = y], HandlerOk(y)
  PROVE  DeliveryInv'
<1>1. UNCHANGED loaderVars /\ UNCHANGED cache
  OBVIOUS
<1>2. LoaderInv'
  BY <1>1, LoaderStutters DEF DeliveryInv
<1>3. UNCHANGED <<loadPc, eventSchemas, deliveryContracts>>
  BY <1>1 DEF loaderVars, loaderMaps
<1>4. CheckedInv'
  BY <1>3 DEF DeliveryInv, CheckedInv, Undeclared, Find
<1>5. CacheInv'
  BY <1>1, LookupsStay DEF DeliveryInv, CacheInv
<1>6. \A g \in Handlers : HandlerOk(handler'[g])
  BY DEF DeliveryInv, HandlerInv
<1>7. HandlerInv'
  BY <1>1, <1>6, LookupsStay DEF DeliveryInv, HandlerInv
<1> QED
  BY <1>2, <1>4, <1>5, <1>7 DEF DeliveryInv

(* The loader's steps come before the first request. *)
LEMMA LoaderMoves ==
  ASSUME DeliveryInv, LoaderNext, UNCHANGED deliveryVars
  PROVE  DeliveryInv'
<1>1. LoaderInv'
  BY LoaderStepKeeps DEF DeliveryInv
<1>2. loadPc # "serving"
  BY DEF LoaderNext, Stat, EndOfWalk, ValidateCrossConfig, NextProcess, LoadRoute, LoadSchema,
         LoadVendor, LoadContract, At
<1>3. CheckedInv'
  <2>1. CASE ValidateCrossConfig
    <3>1. /\ UNCHANGED eventSchemas
          /\ deliveryContracts' = [k \in DOMAIN deliveryContracts |->
                                     CheckedContract(deliveryContracts[k])]
      BY <2>1 DEF ValidateCrossConfig
    <3>2. \A spec : Undeclared(spec)' = Undeclared(spec)
      BY <3>1 DEF Undeclared, Find
    <3>3. \A lv : IsLoaded(CheckedContract(lv)) => Undeclared(CheckedContract(lv).value) = {}
      BY LoadedOrFailed DEF CheckedContract
    <3>4. ASSUME NEW key \in DOMAIN deliveryContracts', IsLoaded(deliveryContracts'[key])
          PROVE  Undeclared(deliveryContracts'[key].value) = {}
      <4>1. deliveryContracts'[key] = CheckedContract(deliveryContracts[key])
        BY <3>1
      <4> QED
        BY <3>3, <3>4, <4>1
    <3> QED
      BY <3>2, <3>4 DEF CheckedInv
  <2>2. CASE ~ValidateCrossConfig
    <3>1. loadPc' # "serving"
      BY <1>2, <2>2 DEF LoaderNext, Stat, EndOfWalk, NextProcess, LoadRoute, LoadSchema,
         LoadVendor, LoadContract, Advance
    <3> QED
      BY <3>1 DEF CheckedInv
  <2> QED
    BY <2>1, <2>2
<1>4. UNCHANGED cache /\ UNCHANGED handler
  BY DEF deliveryVars
<1>5. DOMAIN cache = {}
  BY <1>2 DEF DeliveryInv, CacheInv
<1>6. CacheInv'
  BY <1>4, <1>5 DEF CacheInv
<1>7. ASSUME NEW h \in Handlers
      PROVE  HandlerOk(handler[h])'
  <2>1. /\ DOMAIN handler[h] = {"pc", "request", "node", "refusal", "outcome"}
        /\ handler[h].pc = "idle" /\ handler[h].refusal = "" /\ DOMAIN handler[h].outcome = {}
    BY <1>2 DEF DeliveryInv, HandlerInv, HandlerOk
  <2> QED
    BY <1>4, <2>1 DEF HandlerOk
<1>8. HandlerInv'
  BY <1>4, <1>7 DEF DeliveryInv, HandlerInv
<1> QED
  BY <1>1, <1>3, <1>6, <1>8 DEF DeliveryInv

LEMMA ValidateSchemaKeeps ==
  ASSUME DeliveryInv, NEW h \in Handlers, ValidateSchema(h)
  PROVE  DeliveryInv'
<1>1. UNCHANGED <<cache, loaderVars>> /\ loadPc = "serving"
  BY DEF ValidateSchema
<1> DEFINE Step(r, pc, node) == [Idle EXCEPT !.pc = pc, !.request = r, !.node = node]
           Taken(r) ==
             IF ~IsLoaded(GetEventSchema(r.event))
             THEN [Step(r, "answered", None) EXCEPT !.refusal = "event not found"]
             ELSE IF CacheKey(r.event) \in DOMAIN cache
                  THEN Step(r, "validate", cache[CacheKey(r.event)])
                  ELSE Step(r, "parse", None)
<1>2. PICK r \in Requests : handler' = [handler EXCEPT ![h] = Taken(r)]
  BY DEF ValidateSchema
<1>3. PICK y : y = Taken(r)
  OBVIOUS
<1>4. HandlerOk(y)
  <2>1. CASE ~IsLoaded(GetEventSchema(r.event))
    BY <1>1, <1>3, <2>1 DEF HandlerOk, Idle
  <2>2. CASE IsLoaded(GetEventSchema(r.event)) /\ r.event \in DOMAIN cache
    <3>1. SchemaOf(r.event).parses /\ cache[r.event] = SchemaOf(r.event).node
      BY <2>2 DEF DeliveryInv, CacheInv
    <3>2. y = Step(r, "validate", cache[r.event])
      BY <1>3, <2>2 DEF CacheKey
    <3> QED
      BY <1>1, <2>2, <3>1, <3>2 DEF HandlerOk, Idle
  <2>3. CASE IsLoaded(GetEventSchema(r.event)) /\ r.event \notin DOMAIN cache
    <3>1. y = Step(r, "parse", None)
      BY <1>3, <2>3 DEF CacheKey
    <3> QED
      BY <1>1, <2>3, <3>1 DEF HandlerOk, Idle
  <2> QED
    BY <2>1, <2>2, <2>3
<1> QED
  BY <1>1, <1>2, <1>3, <1>4, HandlerMoves

LEMMA ParseSchemaKeeps ==
  ASSUME DeliveryInv, NEW h \in Handlers, ParseSchema(h)
  PROVE  DeliveryInv'
<1>1. UNCHANGED <<cache, loaderVars>> /\ handler[h].pc = "parse"
  BY DEF ParseSchema, Goes
<1>2. PICK x : x = handler[h]
  OBVIOUS
<1>3. HandlerOk(x) /\ x.pc = "parse"
  BY <1>1, <1>2 DEF DeliveryInv, HandlerInv
<1>4. CASE SchemaOf(x.request.event).parses
  <2> DEFINE y == [x EXCEPT !.pc = "store", !.node = SchemaOf(x.request.event).node]
  <2>1. handler' = [handler EXCEPT ![h] = y]
    BY <1>2, <1>4 DEF ParseSchema, SchemaOf
  <2>2. HandlerOk(y)
    BY <1>3, <1>4 DEF HandlerOk
  <2> HIDE DEF y
  <2> QED
    BY <1>1, <2>1, <2>2, HandlerMoves
<1>5. CASE ~SchemaOf(x.request.event).parses
  <2> DEFINE y == [x EXCEPT !.pc = "answered", !.refusal = "invalid"]
  <2>1. handler' = [handler EXCEPT ![h] = y]
    BY <1>2, <1>5 DEF ParseSchema, SchemaOf, Refuse
  <2>2. HandlerOk(y)
    BY <1>3, <1>5 DEF HandlerOk, Accepts
  <2> HIDE DEF y
  <2> QED
    BY <1>1, <2>1, <2>2, HandlerMoves
<1> QED
  BY <1>4, <1>5

LEMMA ValidatePayloadKeeps ==
  ASSUME DeliveryInv, NEW h \in Handlers, ValidatePayload(h)
  PROVE  DeliveryInv'
<1>1. UNCHANGED <<cache, loaderVars>> /\ handler[h].pc = "validate"
  BY DEF ValidatePayload, Goes
<1>2. PICK x : x = handler[h]
  OBVIOUS
<1>3. HandlerOk(x) /\ x.pc = "validate"
  BY <1>1, <1>2 DEF DeliveryInv, HandlerInv
<1>4. Accepts(x.request) <=> ValidateNode(x.node, Obj(x.request.payload)) = {}
  BY <1>3 DEF HandlerOk, Accepts
<1>5. CASE Accepts(x.request)
  <2> DEFINE y == [x EXCEPT !.pc = "accepted"]
  <2>1. handler' = [handler EXCEPT ![h] = y]
    BY <1>2, <1>4, <1>5 DEF ValidatePayload
  <2>2. HandlerOk(y)
    BY <1>3, <1>5 DEF HandlerOk
  <2> HIDE DEF y
  <2> QED
    BY <1>1, <2>1, <2>2, HandlerMoves
<1>6. CASE ~Accepts(x.request)
  <2> DEFINE y == [x EXCEPT !.pc = "answered", !.refusal = "invalid"]
  <2>1. handler' = [handler EXCEPT ![h] = y]
    BY <1>2, <1>4, <1>6 DEF ValidatePayload, Refuse
  <2>2. HandlerOk(y)
    BY <1>3, <1>6 DEF HandlerOk
  <2> HIDE DEF y
  <2> QED
    BY <1>1, <2>1, <2>2, HandlerMoves
<1> QED
  BY <1>5, <1>6

(* What one handler stores is what any other would have parsed. *)
LEMMA StoreSchemaKeeps ==
  ASSUME DeliveryInv, NEW h \in Handlers, StoreSchema(h)
  PROVE  DeliveryInv'
<1>1. UNCHANGED loaderVars /\ handler[h].pc = "store"
  BY DEF StoreSchema, Goes
<1>2. PICK x : x = handler[h]
  OBVIOUS
<1>3. HandlerOk(x) /\ x.pc = "store"
  BY <1>1, <1>2 DEF DeliveryInv, HandlerInv
<1>4. PICK e : e = x.request.event
  OBVIOUS
<1>5. /\ loadPc = "serving" /\ IsLoaded(GetEventSchema(e)) /\ SchemaOf(e).parses
      /\ x.node = SchemaOf(e).node
  BY <1>3, <1>4 DEF HandlerOk
<1>6. cache' = Put(cache, e, x.node)
  BY <1>2, <1>4 DEF StoreSchema, CacheKey
<1>7. DOMAIN cache' = DOMAIN cache \cup {e}
      /\ \A k \in DOMAIN cache' : cache'[k] = IF k = e THEN x.node ELSE cache[k]
  BY <1>6 DEF Put
<1>8. CacheInv'
  BY <1>1, <1>5, <1>7, LookupsStay DEF DeliveryInv, CacheInv
<1> DEFINE y == [x EXCEPT !.pc = "validate"]
<1>9. handler' = [handler EXCEPT ![h] = y]
  BY <1>2 DEF StoreSchema
<1>10. HandlerOk(y)
  BY <1>3 DEF HandlerOk
<1>11. HandlerInv'
  <2> HIDE DEF y
  <2>1. \A g \in Handlers : HandlerOk(handler'[g])
    BY <1>9, <1>10 DEF DeliveryInv, HandlerInv
  <2> QED
    BY <1>1, <1>9, <2>1, LookupsStay DEF DeliveryInv, HandlerInv
<1>12. LoaderInv'
  BY <1>1, LoaderStutters DEF DeliveryInv
<1>13. UNCHANGED <<loadPc, eventSchemas, deliveryContracts>>
  BY <1>1 DEF loaderVars, loaderMaps
<1>14. CheckedInv'
  BY <1>13 DEF DeliveryInv, CheckedInv, Undeclared, Find
<1> QED
  BY <1>8, <1>11, <1>12, <1>14 DEF DeliveryInv

LEMMA DeliverAllKeeps ==
  ASSUME DeliveryInv, NEW h \in Handlers, DeliverAll(h)
  PROVE  DeliveryInv'
<1>1. UNCHANGED <<cache, loaderVars>> /\ handler[h].pc = "accepted"
  BY DEF DeliverAll, Goes
<1>2. PICK x : x = handler[h]
  OBVIOUS
<1>3. HandlerOk(x) /\ x.pc = "accepted"
  BY <1>1, <1>2 DEF DeliveryInv, HandlerInv
<1>4. PICK r : r = x.request
  OBVIOUS
<1>5. CASE IsLoaded(GetRoutingRules(r.event))
  <2> DEFINE out == [v \in GetRoutingRules(r.event).value |-> Deliver(v, r)]
             y == [x EXCEPT !.pc = "answered", !.outcome = out]
  <2>1. handler' = [handler EXCEPT ![h] = y]
    BY <1>2, <1>4, <1>5 DEF DeliverAll
  <2>2. \A v \in DOMAIN out : out[v] = Deliver(v, r)
    OBVIOUS
  <2>3. HandlerOk(y)
    <3> HIDE DEF out
    <3> QED
      BY <1>3, <1>4, <2>2 DEF HandlerOk
  <2> HIDE DEF y
  <2> QED
    BY <1>1, <2>1, <2>3, HandlerMoves
<1>6. CASE ~IsLoaded(GetRoutingRules(r.event))
  <2> DEFINE y == [x EXCEPT !.pc = "answered", !.refusal = "no routes"]
  <2>1. handler' = [handler EXCEPT ![h] = y]
    BY <1>2, <1>4, <1>6 DEF DeliverAll, Refuse
  <2>2. HandlerOk(y)
    BY <1>3 DEF HandlerOk
  <2> HIDE DEF y
  <2> QED
    BY <1>1, <2>1, <2>2, HandlerMoves
<1> QED
  BY <1>5, <1>6

LEMMA DeliveryInvariance == Spec => []DeliveryInv
<1>1. Init => DeliveryInv
  BY InitDelivery
<1>2. DeliveryInv /\ [Next]_vars => DeliveryInv'
  <2> SUFFICES ASSUME DeliveryInv, [Next]_vars
               PROVE  DeliveryInv'
    OBVIOUS
  <2>1. CASE LoaderNext /\ UNCHANGED deliveryVars
    BY <2>1, LoaderMoves
  <2>2. ASSUME NEW h \in Handlers, ValidateSchema(h) \/ ParseSchema(h) \/ StoreSchema(h)
                                     \/ ValidatePayload(h) \/ DeliverAll(h)
        PROVE  DeliveryInv'
    BY <2>2, ValidateSchemaKeeps, ParseSchemaKeeps, StoreSchemaKeeps, ValidatePayloadKeeps,
       DeliverAllKeeps
  <2>3. ASSUME NEW h \in Handlers, Done(h)
        PROVE  DeliveryInv'
    <3>1. HandlerOk(Idle)
      BY DEF HandlerOk, Idle
    <3> QED
      BY <2>3, <3>1, HandlerMoves DEF Done
  <2>4. CASE UNCHANGED vars
    <3>1. UNCHANGED loaderVars /\ UNCHANGED cache /\ UNCHANGED handler
      BY <2>4 DEF vars, deliveryVars
    <3>2. LoaderInv'
      BY <3>1, LoaderStutters DEF DeliveryInv
    <3>3. UNCHANGED <<loadPc, eventSchemas, deliveryContracts>>
      BY <3>1 DEF loaderVars, loaderMaps
    <3>4. CheckedInv'
      BY <3>3 DEF DeliveryInv, CheckedInv, Undeclared, Find
    <3>5. CacheInv' /\ HandlerInv'
      BY <3>1, LookupsStay DEF DeliveryInv, CacheInv, HandlerInv
    <3> QED
      BY <3>2, <3>4, <3>5 DEF DeliveryInv
  <2> QED
    BY <2>1, <2>2, <2>3, <2>4 DEF Next
<1> QED
  BY <1>1, <1>2, PTL DEF Spec

-----------------------------------------------------------------------------
(* What the lookups return is made of the nodes and templates on disk. *)
LEMMA SchemaIsOnDisk ==
  ASSUME DeliveryInv, loadPc = "serving", NEW e, IsLoaded(GetEventSchema(e))
  PROVE  SchemaOf(e).node \in SchemaNode
<1>1. e \in DOMAIN eventSchemas /\ GetEventSchema(e) = eventSchemas[e]
  BY LoadedOrFailed DEF GetEventSchema, Find
<1>2. PICK f \in Listed(directory) : /\ f.kind = "schema" /\ Sound(f)
                                   /\ eventSchemas[e].value = ValueOf(f)
  <2>1. "schema" \in DOMAIN Turn /\ MapOf("schema") = eventSchemas
    BY TurnIs DEF Kinds, MapOf
  <2> QED
    BY <1>1, <2>1 DEF DeliveryInv, LoaderInv, ServedIsOnDisk
<1>3. f.read /\ f.content.schema # None /\ ValueOf(f) = f.content.schema
  BY <1>2 DEF Sound, ValueOf
<1>4. directory \in Directories /\ f \in directory.files
  BY ListedIs DEF DeliveryInv, LoaderInv, WalkInv
<1> QED
  BY <1>1, <1>2, <1>3, <1>4, ContentAssumption DEF SchemaOf

(* A delivery contract is found under its own event and has passed the check. *)
LEMMA ContractIsOnDisk ==
  ASSUME DeliveryInv, loadPc = "serving", NEW v, NEW e, IsLoaded(GetVendorConfig(v)),
         IsLoaded(GetDeliverySpec(v, e))
  PROVE  LET template == GetDeliverySpec(v, e).value.body.template IN
         /\ template \in Template
         /\ IsLoaded(GetEventSchema(e)) /\ SchemaOf(e).node.properties # None =>
              PayloadRefs(template) \subseteq DOMAIN SchemaOf(e).node.properties
<1>1. PICK contract : contract = Find(deliveryContracts, <<v, e>>)
  OBVIOUS
<1>2. PICK spec : spec = GetDeliverySpec(v, e)
  OBVIOUS
<1>3. /\ IsLoaded(contract)
      /\ \/ spec = contract
         \/ spec = Loaded([contract.value EXCEPT !.retry = GetVendorConfig(v).value.retry])
  BY <1>1, <1>2, LoadedOrFailed DEF GetDeliverySpec
<1>4. <<v, e>> \in DOMAIN deliveryContracts /\ contract = deliveryContracts[<<v, e>>]
  BY <1>1, <1>3, LoadedOrFailed DEF Find
<1>5. PICK f \in Listed(directory) : /\ f.kind = "contract" /\ Sound(f) /\ KeyOf(f) = <<v, e>>
                                   /\ contract.value = ValueOf(f)
  <2>1. "contract" \in DOMAIN Turn /\ MapOf("contract") = deliveryContracts
    BY TurnIs DEF Kinds, MapOf
  <2> QED
    BY <1>3, <1>4, <2>1 DEF DeliveryInv, LoaderInv, ServedIsOnDisk
<1>6. directory \in Directories /\ f \in directory.files /\ f.read
  BY <1>5, SoundIs, ListedIs DEF DeliveryInv, LoaderInv, WalkInv
<1>7. {"event", "body"} \subseteq DOMAIN f.content /\ f.content.body.template \in Template
  BY <1>5, <1>6, DirectoriesAssumption, ContentAssumption
<1>8. EventOf(f) = e
  BY <1>5 DEF KeyOf
<1>9. contract.value = [f.content EXCEPT !.event = e]
  BY <1>5, <1>8 DEF ValueOf
<1>10. /\ contract.value.event = e /\ contract.value.body = f.content.body
       /\ "body" \in DOMAIN contract.value
  BY <1>7, <1>9
<1>11. spec.value.body = f.content.body
  BY <1>3, <1>10, LoadedOrFailed
<1>12. Undeclared(contract.value) = {}
  BY <1>3, <1>4 DEF DeliveryInv, CheckedInv
<1>13. Undeclared(contract.value)
         = IF ~IsLoaded(GetEventSchema(e)) \/ SchemaOf(e).node.properties = None THEN {}
           ELSE ExtractPayloadRefs(f.content.body.template) \ DOMAIN SchemaOf(e).node.properties
  BY <1>10 DEF Undeclared, SchemaOf, GetEventSchema
<1>14. ExtractPayloadRefs(f.content.body.template) = PayloadRefs(f.content.body.template)
  BY <1>7, ContentAssumption
<1> QED
  BY <1>2, <1>7, <1>11, <1>12, <1>13, <1>14

(* A vendor's outcome is a request or a retry only if both lookups succeed. *)
LEMMA OutcomeIs ==
  ASSUME NEW v, NEW r, {"send", "retry"} \cap DOMAIN Deliver(v, r) # {}
  PROVE  /\ IsLoaded(GetVendorConfig(v)) /\ IsLoaded(GetDeliverySpec(v, r.event))
         /\ "retry" \in DOMAIN Deliver(v, r) =>
              IsErr(BuildRequest(GetVendorConfig(v).value, GetDeliverySpec(v, r.event).value,
                                 r.payload))
BY DEF Deliver

-----------------------------------------------------------------------------
(***************************************************************************)
(* For every configuration and any number of handlers that race for the    *)
(* cache of validateMap: a payload is accepted exactly if it conforms, in  *)
(* the program's dialect of JSON Schema, to the schema of its own event.   *)
(***************************************************************************)
THEOREM VerdictIsThatOfTheSchema == Spec => []VerdictMatchesSchema
<1>1. DeliveryInv => VerdictMatchesSchema
  <2> SUFFICES ASSUME DeliveryInv, NEW h \in Handlers
               PROVE  LET r == handler[h].request
                          conforms == /\ SchemaOf(r.event).parses
                                      /\ Conforms(Obj(r.payload), SchemaOf(r.event).node)
                      IN /\ handler[h].pc = "accepted" => conforms
                         /\ handler[h].refusal = "invalid" => ~conforms
    BY DEF VerdictMatchesSchema, SchemaOf
  <2>1. PICK x : x = handler[h]
    OBVIOUS
  <2>2. HandlerOk(x)
    BY <2>1 DEF DeliveryInv, HandlerInv
  <2>3. PICK r : r = x.request
    OBVIOUS
  <2>4. x.pc = "accepted" \/ x.refusal = "invalid" =>
          /\ loadPc = "serving" /\ r \in Requests /\ IsLoaded(GetEventSchema(r.event))
    BY <2>2, <2>3 DEF HandlerOk
  <2>5. x.pc = "accepted" \/ x.refusal = "invalid" =>
          /\ SchemaOf(r.event).node \in SchemaNode /\ Obj(r.payload) \in Value
    BY <2>4, SchemaIsOnDisk, ContentAssumption
  <2>6. x.pc = "accepted" \/ x.refusal = "invalid" =>
          (ValidateNode(SchemaOf(r.event).node, Obj(r.payload)) = {}
             <=> Conforms(Obj(r.payload), SchemaOf(r.event).node))
    BY <2>5, ValidatorIsExact
  <2>7. (x.pc = "accepted" => Accepts(r)) /\ (x.refusal = "invalid" => ~Accepts(r))
    BY <2>2, <2>3 DEF HandlerOk
  <2> QED
    BY <2>1, <2>3, <2>6, <2>7 DEF Accepts
<1> QED
  BY <1>1, DeliveryInvariance, PTL

(***************************************************************************)
(* validateCrossConfig, the required check and the lookup agree on fields: *)
(* one that a body refers to is absent only where the schema allows it.    *)
(***************************************************************************)
THEOREM NilIsAllowed == Spec => []NilOnlyFromOptional
<1>1. DeliveryInv => NilOnlyFromOptional
  <2> SUFFICES ASSUME DeliveryInv, NEW h \in Handlers, NEW v \in Delivered(h),
                      "send" \in DOMAIN handler[h].outcome[v]
               PROVE  LET r == handler[h].request
                          schema == SchemaOf(r.event).node
                          template == GetDeliverySpec(v, r.event).value.body.template
                      IN schema.type = "object" /\ schema.properties # None =>
                           \A k \in PayloadRefs(template) :
                             Field(r.payload, k) = Nil =>
                               k \in DOMAIN schema.properties \ schema.required
    BY DEF NilOnlyFromOptional, SchemaOf
  <2>1. PICK x : x = handler[h]
    OBVIOUS
  <2>2. HandlerOk(x) /\ v \in DOMAIN x.outcome
    BY <2>1 DEF DeliveryInv, HandlerInv, Delivered
  <2>3. PICK r : r = x.request
    OBVIOUS
  <2>4. /\ loadPc = "serving" /\ IsLoaded(GetEventSchema(r.event)) /\ Accepts(r)
        /\ x.outcome[v] = Deliver(v, r)
    BY <2>2, <2>3 DEF HandlerOk
  <2>5. IsLoaded(GetVendorConfig(v)) /\ IsLoaded(GetDeliverySpec(v, r.event))
    BY <2>1, <2>4, OutcomeIs
  <2>6. PICK schema : schema = SchemaOf(r.event).node
    OBVIOUS
  <2>7. PICK template : template = GetDeliverySpec(v, r.event).value.body.template
    OBVIOUS
  <2>8. schema.properties # None => PayloadRefs(template) \subseteq DOMAIN schema.properties
    BY <2>4, <2>5, <2>6, <2>7, ContractIsOnDisk
  <2>9. schema.type = "object" => Missing(schema, r.payload) = {}
    <3>1. ValidateNode(schema, Obj(r.payload)) = {}
      BY <2>4, <2>6 DEF Accepts
    <3>2. Obj(r.payload) # Nil /\ Is(Obj(r.payload), "obj") /\ Obj(r.payload).obj = r.payload
      BY DEF Obj, Nil, Is
    <3>3. schema.type = "object" => ValidateObject(schema, r.payload) = {}
      BY <3>1, <3>2 DEF ValidateNode
    <3>4. {<<k>> : k \in Missing(schema, r.payload)} \subseteq ValidateObject(schema, r.payload)
      BY DEF ValidateObject
    <3> QED
      BY <3>3, <3>4
  <2>10. schema.type = "object" =>
           \A k : Field(r.payload, k) = Nil => k \notin schema.required
    BY <2>9 DEF Missing
  <2> QED
    BY <2>1, <2>3, <2>6, <2>7, <2>8, <2>10
<1> QED
  BY <1>1, DeliveryInvariance, PTL

-----------------------------------------------------------------------------
(* References: what they lead to is a value, and one the schema assures. *)

(* An object that conforms has its required fields, each of its own schema. *)
LEMMA RequiredField ==
  ASSUME NEW schema \in SchemaNode, NEW v \in Value, v # Nil, Conforms(v, schema),
         schema.type = "object", schema.properties # None,
         NEW k \in schema.required \cap DOMAIN schema.properties
  PROVE  /\ Is(v, "obj") /\ k \in DOMAIN v.obj /\ v.obj[k] \in Value /\ v.obj[k] # Nil
         /\ schema.properties[k] \in SchemaNode /\ Conforms(v.obj[k], schema.properties[k])
<1>1. Is(v, "obj") /\ k \in DOMAIN v.obj /\ v.obj[k] # Nil
      /\ ConformsChild(v.obj[k], schema.properties[k])
  BY DEF Conforms, HasType
<1>2. v.obj[k] \in Value
  BY <1>1, KindsOfValues
<1>3. schema.properties[k] \in SchemaNode
  BY SchemaNodeAssumption
<1> QED
  BY <1>1, <1>2, <1>3, ConformsRecursion

LEMMA ReferencePath ==
  ASSUME NEW path \in Path
  PROVE  /\ Len(path) \in Nat /\ Len(path) >= 1 /\ path # <<>>
         /\ Len(path) = 1 => Tail(path) = <<>>
         /\ Len(path) # 1 => /\ Tail(path) \in Path /\ Tail(path) # <<>>
                             /\ Len(Tail(path)) < Len(path)
<1>1. /\ path \in Seq(Nat \X STRING) /\ path # <<>>
      /\ Len(path) > 1 => Tail(path) \in Path
  BY PathAssumption
<1>2. Len(path) \in Nat /\ Len(path) >= 1
  BY <1>1, EmptySeq
<1>3. Tail(path) \in Seq(Nat \X STRING) /\ Len(Tail(path)) = Len(path) - 1
  BY <1>1, HeadTailProperties
<1>4. Len(path) = 1 => Tail(path) = <<>>
  <2> SUFFICES ASSUME Len(path) = 1, Tail(path) # <<>> PROVE FALSE
    OBVIOUS
  <2>1. Len(Tail(path)) \in Nat \ {0}
    BY <1>3, EmptySeq
  <2> QED
    BY <1>3, <2>1
<1>5. Len(path) # 1 => Tail(path) \in Path /\ Len(Tail(path)) # 0
  BY <1>1, <1>2, <1>3
<1>6. Len(path) # 1 => Tail(path) # <<>>
  BY <1>5
<1>7. Len(Tail(path)) < Len(path)
  BY <1>2, <1>3
<1> QED
  BY <1>1, <1>2, <1>4, <1>5, <1>6, <1>7

(* getNestedField returns a value. *)
LEMMA FieldIsValue ==
  ASSUME NEW v \in Value, Is(v, "obj"), NEW k
  PROVE  Field(v.obj, k) \in Value
BY KindsOfValues, ValueAssumption DEF Field

(* Where a path leads in v: to a value, and to one the schema assures. *)
Leads(v, path) ==
  /\ GetNestedField(v.obj, path) \in Value
  /\ \A schema \in SchemaNode :
       Conforms(v, schema) /\ Assured(schema, path) # None =>
         /\ Assured(schema, path) \in SchemaNode
         /\ GetNestedField(v.obj, path) # Nil
         /\ Conforms(GetNestedField(v.obj, path), Assured(schema, path))

LEMMA LeadsOn ==
  ASSUME NEW v \in Value, Is(v, "obj"), NEW path \in Path,
         \A w \in Value, rest \in Path :
           Is(w, "obj") /\ Len(rest) < Len(path) => Leads(w, rest)
  PROVE  Leads(v, path)
<1>1. PICK k : k = Head(path)
  OBVIOUS
<1>2. PICK w : w = Field(v.obj, k)
  OBVIOUS
<1>3. w \in Value
  BY <1>2, FieldIsValue
<1>4. GetNestedField(v.obj, path)
        = IF Len(path) = 1 THEN w
          ELSE IF Is(w, "obj") THEN GetNestedRest(w.obj, Tail(path)) ELSE Nil
  BY <1>1, <1>2 DEF GetNestedField
<1>5. Len(path) # 1 /\ Is(w, "obj") =>
        /\ Tail(path) \in Path /\ Leads(w, Tail(path))
        /\ GetNestedField(v.obj, path) = GetNestedField(w.obj, Tail(path))
  <2>1. Len(path) # 1 => Tail(path) \in Path /\ Len(Tail(path)) < Len(path)
    BY ReferencePath
  <2> QED
    BY <1>3, <1>4, <2>1, MappingRecursion
<1>6. GetNestedField(v.obj, path) \in Value
  BY <1>3, <1>4, <1>5, ValueAssumption DEF Leads
<1>7. ASSUME NEW schema \in SchemaNode, Conforms(v, schema), Assured(schema, path) # None
      PROVE  /\ Assured(schema, path) \in SchemaNode
             /\ GetNestedField(v.obj, path) # Nil
             /\ Conforms(GetNestedField(v.obj, path), Assured(schema, path))
  <2>1. v # Nil /\ path # <<>>
    BY ReferencePath, KindsOfValues DEF Is, Nil
  <2>2. /\ schema.type = "object" /\ schema.properties # None
        /\ k \in schema.required \cap DOMAIN schema.properties
        /\ Assured(schema, path) = AssuredRest(schema.properties[k], Tail(path))
    BY <1>1, <1>7, <2>1 DEF Assured
  <2>3. PICK next : next = schema.properties[k]
    OBVIOUS
  <2>4. /\ w = v.obj[k] /\ w # Nil /\ next \in SchemaNode /\ Conforms(w, next)
    BY <1>2, <1>7, <2>1, <2>2, <2>3, RequiredField DEF Field
  <2>5. Tail(path) \in Path \cup {<<>>}
    BY ReferencePath
  <2>6. Assured(schema, path) = Assured(next, Tail(path))
    BY <2>2, <2>3, <2>4, <2>5, AssuredRecursion
  <2>7. CASE Len(path) = 1
    <3>1. Assured(next, Tail(path)) = next
      BY <2>7, ReferencePath DEF Assured
    <3> QED
      BY <1>4, <2>4, <2>6, <2>7, <3>1
  <2>8. CASE Len(path) # 1
    <3>1. Tail(path) # <<>>
      BY <2>8, ReferencePath
    <3>2. next.type = "object"
      BY <1>7, <2>6, <3>1 DEF Assured
    <3>3. Is(w, "obj")
      BY <2>4, <3>2 DEF Conforms, HasType
    <3> QED
      BY <1>5, <1>7, <2>4, <2>6, <2>8, <3>3 DEF Leads
  <2> QED
    BY <2>7, <2>8
<1> QED
  BY <1>6, <1>7 DEF Leads

LEMMA PathsLead ==
  ASSUME NEW v \in Value, Is(v, "obj"), NEW path \in Path
  PROVE  Leads(v, path)
<1> DEFINE T == {n \in Nat : \E w \in Value, rest \in Path :
                                Is(w, "obj") /\ Len(rest) = n /\ ~Leads(w, rest)}
<1>1. T = {}
  <2> SUFFICES ASSUME T # {} PROVE FALSE
    OBVIOUS
  <2>1. PICK n \in T : \A j \in T : n <= j
    <3>1. T \in SUBSET Nat
      OBVIOUS
    <3> HIDE DEF T
    <3> QED
      BY <3>1, LeastNumber
  <2>2. PICK w \in Value, rest \in Path : Is(w, "obj") /\ Len(rest) = n /\ ~Leads(w, rest)
    BY <2>1
  <2>3. ASSUME NEW w2 \in Value, NEW rest2 \in Path, Is(w2, "obj"), Len(rest2) < Len(rest)
        PROVE  Leads(w2, rest2)
    <3>1. Len(rest2) \in Nat /\ n \in Nat
      BY ReferencePath
    <3>2. Len(rest2) \notin T
      BY <2>1, <2>2, <2>3, <3>1
    <3> QED
      BY <2>3, <3>1, <3>2
  <2> QED
    BY <2>2, <2>3, LeadsOn
<1> QED
  BY <1>1, ReferencePath

(* A context of a delivery: a payload the schema of its event accepts. *)
Fits(payload, schema) ==
  schema \in SchemaNode /\ Obj(payload) \in Value /\ Conforms(Obj(payload), schema)

LEMMA PayloadIs ==
  ASSUME NEW payload
  PROVE  Obj(payload).obj = payload /\ Is(Obj(payload), "obj") /\ Obj(payload) # Nil
BY DEF Obj, Is, Nil

(* The string of a template node. *)
TemplateString(s) ==
  \A i \in DOMAIN s : IsRef(s[i]) =>
    s[i].ref[1] \in {"payload", "item"} /\ s[i].ref[2] \in Path \cup {<<>>}

LEMMA DereferenceIsValue ==
  ASSUME NEW payload, Obj(payload) \in Value, NEW item \in Value, NEW ref,
         ref[1] \in {"payload", "item"}, ref[2] \in Path \cup {<<>>}
  PROVE  Dereference(ref, Context(payload, item)) \in Value
<1>1. Context(payload, item).payload = payload /\ Context(payload, item).item = item
  BY DEF Context
<1>2. CASE ref[2] = <<>>
  BY <1>1, <1>2 DEF Dereference, GetScopeValue
<1>3. CASE ref[2] \in Path
  <2>1. ref[2] # <<>>
    BY <1>3, ReferencePath
  <2>2. CASE ref[1] = "payload"
    <3>1. Dereference(ref, Context(payload, item)) = GetNestedField(payload, ref[2])
      BY <1>1, <2>1, <2>2 DEF Dereference, Lookup
    <3> QED
      BY <1>3, <3>1, PayloadIs, PathsLead DEF Leads
  <2>3. CASE ref[1] = "item" /\ Is(item, "obj")
    <3>1. Dereference(ref, Context(payload, item)) = GetNestedField(item.obj, ref[2])
      BY <1>1, <2>1, <2>3 DEF Dereference, Lookup
    <3> QED
      BY <1>3, <2>3, <3>1, PathsLead DEF Leads
  <2>4. CASE ref[1] = "item" /\ ~Is(item, "obj")
    <3>1. Dereference(ref, Context(payload, item)) = GetNestedField(<<>>, ref[2])
      BY <1>1, <2>1, <2>4 DEF Dereference, Lookup
    <3>2. \A k : Field(<<>>, k) = Nil
      BY DEF Field
    <3>3. GetNestedField(<<>>, ref[2]) = Nil
      <4>1. ~Is(Nil, "obj")
        BY DEF Is, Nil
      <4> QED
        BY <3>2, <4>1 DEF GetNestedField
    <3> QED
      BY <3>1, <3>3, ValueAssumption
  <2> QED
    BY <2>2, <2>3, <2>4
<1> QED
  BY <1>2, <1>3

(* A template string always resolves, and to a value of its static type. *)
LEMMA FieldResolves ==
  ASSUME NEW payload, NEW schema, Fits(payload, schema), NEW item \in Value, NEW s,
         TemplateString(s)
  PROVE  LET source == ResolveField(s, Context(payload, item)) IN
         /\ ~IsErr(source)
         /\ StaticType(s, schema) \in {"number", "integer", "boolean", "array"} =>
              source \in Value /\ HasType(source, StaticType(s, schema))
<1>1. PICK ctx : ctx = Context(payload, item)
  OBVIOUS
<1>2. CASE ~Pure(s)
  <2>1. ~IsErr(Str(Interpolate(s, ctx)))
    BY DEF IsErr, Str
  <2> QED
    BY <1>1, <1>2, <2>1 DEF ResolveField, StaticType
<1>3. CASE Pure(s)
  <2>1. PICK ref : ref = s[1].ref
    OBVIOUS
  <2>2. ref[1] \in {"payload", "item"} /\ ref[2] \in Path \cup {<<>>}
    <3>1. 1 \in DOMAIN s /\ IsRef(s[1])
      BY <1>3 DEF Pure
    <3> QED
      BY <2>1, <3>1 DEF TemplateString
  <2>3. PICK source : source = Dereference(ref, ctx)
    OBVIOUS
  <2>4. source \in Value /\ ~IsErr(source)
    <3>1. source \in Value
      BY <1>1, <2>2, <2>3, DereferenceIsValue DEF Fits
    <3> QED
      BY <3>1, KindsOfValues DEF IsErr, Is
  <2>5. ResolveField(s, Context(payload, item)) = source
    BY <1>1, <1>3, <2>1, <2>3 DEF ResolveField
  <2>6. ASSUME StaticType(s, schema) \in {"number", "integer", "boolean", "array"}
        PROVE  HasType(source, StaticType(s, schema))
    <3>1. PICK found : found = Assured(schema, ref[2])
      OBVIOUS
    <3>2. ref[1] = "payload" /\ found # None /\ StaticType(s, schema) = found.type
      BY <1>3, <2>1, <2>6, <3>1 DEF StaticType
    <3>3. Context(payload, item).payload = payload
      BY DEF Context
    <3>4. source # Nil /\ Conforms(source, found)
      <4>1. CASE ref[2] = <<>>
        <5>1. source = Obj(payload) /\ found = schema
          BY <1>1, <2>3, <3>1, <3>2, <3>3, <4>1 DEF Dereference, GetScopeValue, Assured
        <5> QED
          BY <5>1, PayloadIs DEF Fits
      <4>2. CASE ref[2] # <<>>
        <5>1. source = GetNestedField(payload, ref[2]) /\ ref[2] \in Path
          BY <1>1, <2>2, <2>3, <3>2, <3>3, <4>2 DEF Dereference, Lookup
        <5>2. Leads(Obj(payload), ref[2])
          BY <5>1, PayloadIs, PathsLead DEF Fits
        <5> QED
          BY <3>1, <3>2, <5>1, <5>2, PayloadIs DEF Leads, Fits
      <4> QED
        BY <4>1, <4>2
    <3> QED
      BY <3>2, <3>4 DEF Conforms
  <2> QED
    BY <2>4, <2>5, <2>6
<1> QED
  BY <1>2, <1>3

-----------------------------------------------------------------------------
(* Conversions: what $type and $format make of a value of a known type. *)

LEMMA TruncateIsWhole ==
  ASSUME NEW h \in Int
  PROVE  Truncate(h) \in Int /\ Whole(Truncate(h))
<1>1. CASE h >= 0
  <2>1. PICK n \in Int : n = h \div 2
    OBVIOUS
  <2>2. Truncate(h) = 2 * n
    BY <1>1, <2>1 DEF Truncate
  <2>3. 2 * n \in Int /\ (2 * n) % 2 = 0
    OBVIOUS
  <2> QED
    BY <2>2, <2>3 DEF Whole
<1>2. CASE ~(h >= 0)
  <2>1. PICK n \in Int : n = (-h) \div 2
    OBVIOUS
  <2>2. Truncate(h) = -2 * n
    BY <1>2, <2>1 DEF Truncate
  <2>3. -2 * n \in Int /\ (-2 * n) % 2 = 0
    OBVIOUS
  <2> QED
    BY <2>2, <2>3 DEF Whole
<1> QED
  BY <1>1, <1>2

LEMMA ConversionSucceeds ==
  ASSUME NEW v, NEW from, NEW to, Converts(from, to),
         from \in {"number", "integer", "boolean", "array"} => v \in Value /\ HasType(v, from)
  PROVE  ~IsErr(ConvertType(v, to))
<1>1. CASE to = "string"
  BY <1>1 DEF ConvertType, Str, IsErr
<1>2. CASE to = "boolean" /\ from \in {"number", "integer", "boolean"}
  <2>1. v \in Value /\ (Is(v, "num") \/ Is(v, "bool"))
    BY <1>2 DEF HasType
  <2>2. CASE Is(v, "bool")
    <3>1. ConvertType(v, to) = v
      BY <1>2, <2>2 DEF ConvertType
    <3> QED
      BY <2>1, <3>1, KindsOfValues DEF IsErr, Is
  <2>3. CASE ~Is(v, "bool")
    <3>1. ConvertType(v, to) = Bool(v.num # 0)
      BY <1>2, <2>1, <2>3 DEF ConvertType
    <3> QED
      BY <3>1 DEF IsErr, Bool
  <2> QED
    BY <2>2, <2>3
<1>3. CASE to = "integer" /\ from \in {"number", "integer"}
  <2>1. Is(v, "num")
    BY <1>3 DEF HasType
  <2> QED
    BY <1>3, <2>1 DEF ConvertType, Num, IsErr
<1>4. CASE to = "number" /\ from \in {"number", "integer"}
  <2>1. Is(v, "num") /\ v \in Value
    BY <1>4 DEF HasType
  <2>2. ConvertType(v, to) = v
    BY <1>4, <2>1 DEF ConvertType
  <2> QED
    BY <2>1, <2>2, KindsOfValues DEF IsErr, Is
<1> QED
  BY <1>1, <1>2, <1>3, <1>4 DEF Converts

(* A whole number can be formatted as a date. *)
LEMMA WholeFormats ==
  ASSUME NEW v, Is(v, "num"), ~Is(v, "nil"), ~Is(v, "str"), ~Is(v, "bool"), Whole(v.num)
  PROVE  ~IsErr(FormatValue(Tostring(v)))
<1>1. Tostring(v) = <<Image(v.num)>>
  BY DEF Tostring
<1>2. Len(<<Image(v.num)>>) = 1 /\ <<Image(v.num)>>[1] = Image(v.num)
  OBVIOUS
<1>3. "dec" \in DOMAIN Image(v.num) /\ Image(v.num).dec = v.num
  BY DEF Image
<1>4. ParsesInt(Tostring(v))
  BY <1>1, <1>2, <1>3 DEF ParsesInt, ParsesFloat
<1> QED
  BY <1>4 DEF FormatValue, Str, IsErr

LEMMA IntegerFormats ==
  ASSUME NEW v \in Value
  PROVE  /\ HasType(v, "integer") => ~IsErr(FormatValue(Tostring(v)))
         /\ Is(v, "num") => ~IsErr(FormatValue(Tostring(ConvertType(v, "integer"))))
<1>1. ASSUME HasType(v, "integer")
      PROVE  ~IsErr(FormatValue(Tostring(v)))
  <2>1. Is(v, "num") /\ Whole(v.num)
    BY <1>1 DEF HasType
  <2>2. ~Is(v, "str") /\ ~Is(v, "nil") /\ ~Is(v, "bool")
    BY <2>1, KindsOfValues DEF Is, Nil
  <2> QED
    BY <2>1, <2>2, WholeFormats
<1>2. ASSUME Is(v, "num")
      PROVE  ~IsErr(FormatValue(Tostring(ConvertType(v, "integer"))))
  <2>1. ConvertType(v, "integer") = Num(Truncate(v.num)) /\ v.num \in Int
    BY <1>2, KindsOfValues DEF ConvertType
  <2>2. PICK w : w = Num(Truncate(v.num))
    OBVIOUS
  <2>3. /\ Is(w, "num") /\ w.num = Truncate(v.num)
        /\ ~Is(w, "nil") /\ ~Is(w, "str") /\ ~Is(w, "bool")
    BY <2>2 DEF Num, Is
  <2> QED
    BY <2>1, <2>2, <2>3, TruncateIsWhole, WholeFormats
<1> QED
  BY <1>1, <1>2

-----------------------------------------------------------------------------
(* Templates, from the inside out. *)

(* A template that fits the schema resolves, whatever the element of $each. *)
Resolves(node) ==
  \A payload, schema : \A item \in Value :
    Fits(payload, schema) /\ WellTyped(node, schema) =>
      ~IsErr(ResolveNode(node, Context(payload, item)))

(* The nodes below, through the call of the code. *)
LEMMA ChildResolves ==
  ASSUME NEW node \in Template, Resolves(node), NEW payload, NEW schema,
         Fits(payload, schema), WellTypedChild(node, schema), NEW item \in Value
  PROVE  ~IsErr(ResolveChild(node, Context(payload, item)))
<1>1. WellTyped(node, schema)
  BY WellTypedRecursion DEF Fits
<1>2. ResolveChild(node, Context(payload, item)) = ResolveNode(node, Context(payload, item))
  BY PayloadIs, MappingRecursion DEF Fits
<1> QED
  BY <1>1, <1>2 DEF Resolves

LEMMA PartsSucceed ==
  ASSUME NEW f, NEW v, ~IsErr(v), \A i \in DOMAIN f : ~IsErr(f[i])
  PROVE  ~IsErr(AllOrErr(f, v))
BY DEF AllOrErr

LEMMA DirectiveResolves ==
  ASSUME NEW d, \A k \in DOMAIN d : d[k] \in Template /\ Resolves(d[k]),
         SourceKey \in DOMAIN d,
         NEW payload, NEW schema, Fits(payload, schema), WellTypedDirective(d, schema),
         NEW item \in Value
  PROVE  ~IsErr(ResolveSourceDirective(d, Context(payload, item)))
<1>1. PICK ctx : ctx = Context(payload, item)
  OBVIOUS
<1>2. PICK s : s = d[SourceKey].str
  OBVIOUS
<1>3. "str" \in DOMAIN d[SourceKey] /\ TemplateString(s)
  <2>1. "str" \in DOMAIN d[SourceKey] /\ d[SourceKey] \in Template
    BY DEF WellTypedDirective
  <2> QED
    BY <1>2, <2>1, TemplateAssumption DEF TemplateString
<1>4. PICK source : source = ResolveField(s, ctx)
  OBVIOUS
<1>5. PICK from : from = StaticType(s, schema)
  OBVIOUS
<1>6. /\ ~IsErr(source)
      /\ from \in {"number", "integer", "boolean", "array"} =>
           source \in Value /\ HasType(source, from)
  BY <1>1, <1>3, <1>4, <1>5, FieldResolves
<1>7. CASE EachKey \in DOMAIN d
  <2>1. from = "array" /\ WellTypedChild(d[EachKey], schema)
    BY <1>2, <1>5, <1>7 DEF WellTypedDirective
  <2>2. Is(source, "arr") /\ \A i \in DOMAIN source.arr : source.arr[i] \in Value
    <3>1. Is(source, "arr") /\ source \in Value
      BY <1>6, <2>1 DEF HasType
    <3> QED
      BY <3>1, KindsOfValues
  <2> DEFINE items == [i \in DOMAIN source.arr |->
                         ResolveChild(d[EachKey], Context(payload, source.arr[i]))]
  <2>3. \A i \in DOMAIN items : ~IsErr(items[i])
    BY <1>7, <2>1, <2>2, ChildResolves
  <2>4. ctx.payload = payload
    BY <1>1 DEF Context
  <2>5. ResolveSourceDirective(d, ctx) = AllOrErr(items, Arr(items))
    BY <1>2, <1>3, <1>4, <1>7, <2>2, <2>4 DEF ResolveSourceDirective, ResolveEach
  <2> HIDE DEF items
  <2>6. ~IsErr(Arr(items))
    BY DEF Arr, IsErr
  <2> QED
    BY <1>1, <2>3, <2>5, <2>6, PartsSucceed
<1>8. CASE EachKey \notin DOMAIN d
  <2>1. ResolveSourceDirective(d, ctx) = ResolveSingle(d, source)
    BY <1>2, <1>3, <1>4, <1>8 DEF ResolveSourceDirective
  <2>2. PICK typed : typed = IF TypeKey \in DOMAIN d THEN ConvertType(source, Name(d[TypeKey]))
                             ELSE source
    OBVIOUS
  <2>3. TypeKey \in DOMAIN d => Converts(from, Name(d[TypeKey]))
    BY <1>2, <1>5, <1>8 DEF WellTypedDirective
  <2>4. ~IsErr(typed)
    BY <1>6, <2>2, <2>3, ConversionSucceeds
  <2>5. CASE FormatKey \notin DOMAIN d
    BY <1>1, <2>1, <2>2, <2>4, <2>5 DEF ResolveSingle
  <2>6. CASE FormatKey \in DOMAIN d
    <3>1. /\ "str" \in DOMAIN d[FormatKey]
          /\ TypeKey \in DOMAIN d => Name(d[TypeKey]) = "integer"
          /\ TypeKey \notin DOMAIN d => from = "integer"
      BY <1>2, <1>5, <1>8, <2>6 DEF WellTypedDirective
    <3>2. ~IsErr(FormatValue(Tostring(typed)))
      <4>1. CASE TypeKey \in DOMAIN d
        <5>1. from \in {"number", "integer"}
          BY <2>3, <3>1, <4>1 DEF Converts
        <5>2. source \in Value /\ Is(source, "num")
          BY <1>6, <5>1 DEF HasType
        <5> QED
          BY <2>2, <3>1, <4>1, <5>2, IntegerFormats
      <4>2. CASE TypeKey \notin DOMAIN d
        BY <1>6, <2>2, <3>1, <4>2, IntegerFormats
      <4> QED
        BY <4>1, <4>2
    <3>3. ResolveSingle(d, source) = FormatValue(Tostring(typed))
      BY <2>2, <2>4, <2>6, <3>1 DEF ResolveSingle
    <3> QED
      BY <1>1, <2>1, <3>2, <3>3
  <2> QED
    BY <2>5, <2>6
<1> QED
  BY <1>7, <1>8

LEMMA NodeResolves ==
  ASSUME NEW node \in Template,
         \A part \in Template : Depth(part) < Depth(node) => Resolves(part)
  PROVE  Resolves(node)
<1> SUFFICES ASSUME NEW payload, NEW schema, NEW item \in Value, Fits(payload, schema),
                    WellTyped(node, schema)
             PROVE  ~IsErr(ResolveNode(node, Context(payload, item)))
  BY DEF Resolves
<1>1. PICK ctx : ctx = Context(payload, item)
  OBVIOUS
<1>2. CASE DOMAIN node = {"str"}
  <2>1. TemplateString(node.str)
    BY <1>2, TemplateAssumption DEF TemplateString
  <2>2. ResolveNode(node, Context(payload, item)) = ResolveField(node.str, Context(payload, item))
    BY <1>2 DEF ResolveNode
  <2> QED
    BY <2>1, <2>2, FieldResolves
<1>3. CASE DOMAIN node = {"map"}
  <2>1. \A k \in DOMAIN node.map : node.map[k] \in Template /\ Resolves(node.map[k])
    BY <1>3, TemplateAssumption
  <2>2. CASE SourceKey \in DOMAIN node.map
    <3>1. WellTypedDirective(node.map, schema)
      BY <1>3, <2>2 DEF WellTyped
    <3>2. ResolveNode(node, ctx) = ResolveSourceDirective(node.map, ctx)
      BY <1>3, <2>2 DEF ResolveNode
    <3> QED
      BY <1>1, <2>1, <2>2, <3>1, <3>2, DirectiveResolves
  <2>3. CASE SourceKey \notin DOMAIN node.map
    <3> DEFINE resolved == [k \in DOMAIN node.map |-> ResolveChild(node.map[k], ctx)]
               renamed == [k \in {TrimPrefix(k) : k \in DOMAIN node.map} |->
                             resolved[CHOOSE j \in DOMAIN node.map : TrimPrefix(j) = k]]
    <3>1. \A k \in DOMAIN node.map : WellTypedChild(node.map[k], schema)
      BY <1>3, <2>3 DEF WellTyped
    <3>2. \A k \in DOMAIN resolved : ~IsErr(resolved[k])
      BY <1>1, <2>1, <3>1, ChildResolves
    <3>3. ResolveNode(node, ctx) = AllOrErr(resolved, Obj(renamed))
      BY <1>3, <2>3 DEF ResolveNode, ResolveMapping
    <3> HIDE DEF resolved, renamed
    <3>4. ~IsErr(Obj(renamed))
      BY DEF Obj, IsErr
    <3> QED
      BY <1>1, <3>2, <3>3, <3>4, PartsSucceed
  <2> QED
    BY <2>2, <2>3
<1>4. CASE DOMAIN node = {"list"}
  <2>1. \A i \in DOMAIN node.list : node.list[i] \in Template /\ Resolves(node.list[i])
    BY <1>4, TemplateAssumption
  <2> DEFINE items == [i \in DOMAIN node.list |-> ResolveChild(node.list[i], ctx)]
  <2>2. \A i \in DOMAIN node.list : WellTypedChild(node.list[i], schema)
    BY <1>4 DEF WellTyped
  <2>3. \A i \in DOMAIN items : ~IsErr(items[i])
    BY <1>1, <2>1, <2>2, ChildResolves
  <2>4. ResolveNode(node, ctx) = AllOrErr(items, Arr(items))
    BY <1>4 DEF ResolveNode
  <2> HIDE DEF items
  <2>5. ~IsErr(Arr(items))
    BY DEF Arr, IsErr
  <2> QED
    BY <1>1, <2>3, <2>4, <2>5, PartsSucceed
<1>5. CASE DOMAIN node = {"const"}
  <2>1. ResolveNode(node, ctx) = node.const /\ node.const \in Value
    BY <1>5, TemplateAssumption DEF ResolveNode
  <2> QED
    BY <1>1, <2>1, KindsOfValues DEF IsErr, Is
<1> QED
  BY <1>2, <1>3, <1>4, <1>5, TemplateAssumption

(***************************************************************************)
(* resolveNode on templates of any depth: if the directives fit the schema *)
(* and the payload conforms, nothing fails.                                *)
(***************************************************************************)
THEOREM FittingTemplateResolves ==
  \A node \in Template, schema \in SchemaNode, item \in Value : \A payload :
    /\ Obj(payload) \in Value /\ Conforms(Obj(payload), schema)
    /\ WellTyped(node, schema)
    => ~IsErr(ResolveNode(node, Context(payload, item)))
<1> DEFINE T == {n \in Nat : \E node \in Template : Depth(node) = n /\ ~Resolves(node)}
<1>1. T = {}
  <2> SUFFICES ASSUME T # {} PROVE FALSE
    OBVIOUS
  <2>1. PICK n \in T : \A j \in T : n <= j
    <3>1. T \in SUBSET Nat
      OBVIOUS
    <3> HIDE DEF T
    <3> QED
      BY <3>1, LeastNumber
  <2>2. PICK node \in Template : Depth(node) = n /\ ~Resolves(node)
    BY <2>1
  <2>3. ASSUME NEW part \in Template, Depth(part) < Depth(node)
        PROVE  Resolves(part)
    <3>1. Depth(part) \in Nat /\ n \in Nat
      BY TemplateAssumption
    <3>2. Depth(part) \notin T
      BY <2>1, <2>2, <2>3, <3>1
    <3> QED
      BY <3>1, <3>2
  <2> QED
    BY <2>2, <2>3, NodeResolves
<1>2. \A node \in Template : Resolves(node)
  BY <1>1, TemplateAssumption
<1> QED
  BY <1>2 DEF Resolves, Fits

(***************************************************************************)
(* For every configuration, a contract whose directives fit the schema of  *)
(* its event never sends an accepted payload around the retry queue for a  *)
(* body that cannot be built.                                              *)
(***************************************************************************)
THEOREM FittingContractBuilds == Spec => []WellTypedBuilds
<1>1. DeliveryInv => WellTypedBuilds
  <2> SUFFICES ASSUME DeliveryInv, NEW h \in Handlers, NEW v \in Delivered(h),
                      "retry" \in DOMAIN handler[h].outcome[v]
               PROVE  LET r == handler[h].request
                          spec == GetDeliverySpec(v, r.event).value
                      IN \/ ~WellTyped(spec.body.template, SchemaOf(r.event).node)
                         \/ spec.body.type \notin {"", "none", "raw", "mapping"}
                         \/ ~Acceptable(spec.request, Tostring(ResolveField(spec.request.path,
                                                                 Context(r.payload, Nil))))
    BY DEF WellTypedBuilds, SchemaOf
  <2>1. PICK x : x = handler[h]
    OBVIOUS
  <2>2. HandlerOk(x) /\ v \in DOMAIN x.outcome
    BY <2>1 DEF DeliveryInv, HandlerInv, Delivered
  <2>3. PICK r : r = x.request
    OBVIOUS
  <2>4. /\ loadPc = "serving" /\ IsLoaded(GetEventSchema(r.event)) /\ Accepts(r)
        /\ x.outcome[v] = Deliver(v, r) /\ r \in Requests
    BY <2>2, <2>3 DEF HandlerOk
  <2>5. PICK spec : spec = GetDeliverySpec(v, r.event).value
    OBVIOUS
  <2>6. PICK vendor : vendor = GetVendorConfig(v).value
    OBVIOUS
  <2>7. /\ IsLoaded(GetVendorConfig(v)) /\ IsLoaded(GetDeliverySpec(v, r.event))
        /\ IsErr(BuildRequest(vendor, spec, r.payload))
    BY <2>1, <2>4, <2>5, <2>6, OutcomeIs
  <2>8. PICK schema : schema = SchemaOf(r.event).node
    OBVIOUS
  <2>9. schema \in SchemaNode /\ Obj(r.payload) \in Value /\ spec.body.template \in Template
    BY <2>4, <2>5, <2>7, <2>8, SchemaIsOnDisk, ContractIsOnDisk, ContentAssumption
  <2>10. Conforms(Obj(r.payload), schema)
    BY <2>4, <2>8, <2>9, ValidatorIsExact DEF Accepts
  <2>11. PICK ctx : ctx = Context(r.payload, Nil)
    OBVIOUS
  <2>12. WellTyped(spec.body.template, schema) => ~IsErr(ResolveNode(spec.body.template, ctx))
    BY <2>9, <2>10, <2>11, FittingTemplateResolves, ValueAssumption
  <2>13. spec.body.type \in {"", "none", "raw", "mapping"} /\ WellTyped(spec.body.template, schema)
           => ~IsErr(BuildBody(spec.body, ctx))
    <3>1. ~IsErr(Nil) /\ \A y : ~IsErr([raw |-> y])
      BY DEF IsErr, Nil
    <3> QED
      BY <2>12, <3>1 DEF BuildBody
  <2>14. PICK path : path = Tostring(ResolveField(spec.request.path, ctx))
    OBVIOUS
  <2>15. IsErr(BuildBody(spec.body, ctx)) \/ ~Acceptable(spec.request, path)
    BY <2>7, <2>11, <2>14 DEF BuildRequest, IsErr
  <2> QED
    BY <2>1, <2>3, <2>5, <2>8, <2>11, <2>13, <2>14, <2>15
<1> QED
  BY <1>1, DeliveryInvariance, PTL
=============================================================================
