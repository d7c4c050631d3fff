-------------------------- MODULE ConfiguredDelivery --------------------------
(***************************************************************************)
(* The configuration at work: the loader fills its maps, then handlers     *)
(* validate payloads against the schemas and what they accept is turned    *)
(* into one request per routed vendor.                                     *)
(*                                                                         *)
(* The maps do not change once loaded and each delivery works on its own   *)
(* payload, so the only state that handlers share is the validator's cache *)
(* of parsed schemas; the queues and the database between acceptance and   *)
(* delivery are the subject of NotificationService.                        *)
(***************************************************************************)
EXTENDS ConfigLoader, SchemaValidator, MappingEngine

CONSTANTS
  Handlers,   \* goroutines that serve POST /api/v1/notifications
  Requests    \* what is submitted: records [event, payload]

VARIABLES
  cache,      \* schemaValidator.cache: pointer of the schema -> parsed node
  handler     \* per handler: its step, its request and what came of it

deliveryVars == <<cache, handler>>
vars == <<loaderVars, deliveryVars>>

(***************************************************************************)
(* extractPayloadRefs: the first segments of the @{payload:..} of a        *)
(* template, which the loader takes as its ExtractPayloadRefs.             *)
(***************************************************************************)
PayloadRefs(template) ==
  LET Pieces == UNION {{s[i] : i \in DOMAIN s} : s \in Strings(template)}
  IN {Head(p.ref[2]) : p \in {p \in Pieces : /\ IsRef(p) /\ p.ref[1] = "payload"
                                             /\ p.ref[2] # <<>>}}

(* What is submitted and what is on disk is made of the values and nodes above. *)
ASSUME ContentAssumption ==
  /\ \A r \in Requests : Obj(r.payload) \in Value
  /\ \A d \in Directories : \A f \in d.files : f.read =>
       /\ f.kind = "schema" /\ f.content.schema # None => f.content.schema.node \in SchemaNode
       /\ f.kind = "contract" => f.content.body.template \in Template
  /\ \A node \in Template : ExtractPayloadRefs(node) = PayloadRefs(node)

(* refusal: why the request was turned down; outcome: per vendor, what was done. *)
Idle == [pc |-> "idle", request |-> None, node |-> None,
         refusal |-> "", outcome |-> <<>>]

Init == NewLoader /\ cache = <<>> /\ handler = [h \in Handlers |-> Idle]

Goes(h, pc) == handler[h].pc = pc
Refuse(h, why) ==
  handler' = [handler EXCEPT ![h] = [@ EXCEPT !.pc = "answered", !.refusal = why]]

-----------------------------------------------------------------------------
(* validateMap: look up, parse outside the lock, store, validate. *)

(* Faulty variant of CacheKey: one key for all schemas. *)
CacheKeyShared(event) == "schema"
(* The pointer of the schema's map: one per event of the loader. *)
CacheKey(event) == event

ValidateSchema(h) ==
  /\ loadPc = "serving" /\ Goes(h, "idle")
  /\ \E r \in Requests :
       LET key == CacheKey(r.event)
           Step(pc, node) == [Idle EXCEPT !.pc = pc, !.request = r, !.node = node]
       IN handler' = [handler EXCEPT ![h] =
            IF ~IsLoaded(GetEventSchema(r.event))
            THEN [Step("answered", None) EXCEPT !.refusal = "event not found"]
            ELSE IF key \in DOMAIN cache THEN Step("validate", cache[key])
            ELSE Step("parse", None)]
  /\ UNCHANGED <<cache, loaderVars>>

ParseSchema(h) ==
  /\ Goes(h, "parse")
  /\ LET schema == GetEventSchema(handler[h].request.event).value IN
     IF schema.parses
     THEN handler' = [handler EXCEPT ![h] = [@ EXCEPT !.pc = "store", !.node = schema.node]]
     ELSE Refuse(h, "invalid")
  /\ UNCHANGED <<cache, loaderVars>>

StoreSchema(h) ==
  /\ Goes(h, "store")
  /\ cache' = Put(cache, CacheKey(handler[h].request.event), handler[h].node)
  /\ handler' = [handler EXCEPT ![h].pc = "validate"]
  /\ UNCHANGED loaderVars

ValidatePayload(h) ==
  /\ Goes(h, "validate")
  /\ LET errs == ValidateNode(handler[h].node, Obj(handler[h].request.payload))
     IN IF errs = {} THEN handler' = [handler EXCEPT ![h].pc = "accepted"]
                     ELSE Refuse(h, "invalid")
  /\ UNCHANGED <<cache, loaderVars>>

-----------------------------------------------------------------------------
(***************************************************************************)
(* ProcessMessage up to the call of the vendor: a task without its         *)
(* configuration is dead-lettered with the cause of the lookup; a request  *)
(* that cannot be built is retried under the contract's or the vendor's    *)
(* policy.                                                                 *)
(***************************************************************************)
Deliver(v, r) ==
  LET vendor == GetVendorConfig(v)
      spec   == GetDeliverySpec(v, r.event)
      policy == IF spec.value.retry # None THEN spec.value.retry ELSE vendor.value.retry
      built  == BuildRequest(vendor.value, spec.value, r.payload)
  IN IF ~IsLoaded(vendor) THEN [dead |-> vendor.error]
     ELSE IF ~IsLoaded(spec) THEN [dead |-> spec.error]
     ELSE IF IsErr(built) THEN [retry |-> policy]
     ELSE [send |-> built]

DeliverAll(h) ==
  /\ Goes(h, "accepted")
  /\ LET r == handler[h].request
         rules == GetRoutingRules(r.event)
     IN IF IsLoaded(rules)
        THEN handler' = [handler EXCEPT ![h] =
               [@ EXCEPT !.pc = "answered", !.outcome = [v \in rules.value |-> Deliver(v, r)]]]
        ELSE Refuse(h, "no routes")
  /\ UNCHANGED <<cache, loaderVars>>

(* The handler is free for another request. *)
Done(h) ==
  /\ Goes(h, "answered")
  /\ handler' = [handler EXCEPT ![h] = Idle]
  /\ UNCHANGED <<cache, loaderVars>>

Next ==
  \/ LoaderNext /\ UNCHANGED deliveryVars
  \/ \E h \in Handlers :
       ValidateSchema(h) \/ ParseSchema(h) \/ StoreSchema(h) \/ ValidatePayload(h)
         \/ DeliverAll(h) \/ Done(h)

Spec == Init /\ [][Next]_vars

-----------------------------------------------------------------------------
(***************************************************************************)
(* What a schema means to this program: a reference for ValidateNode that  *)
(* says nothing of errors, paths or the order of checks.  It is a dialect, *)
(* not JSON Schema Draft-07, which the design names: null passes every     *)
(* type, a required field must not be null, enum holds for strings only,   *)
(* limits for integers only (not for "number"), and the lengths of strings *)
(* are not limited.                                                        *)
(***************************************************************************)
HasType(v, type) ==
  CASE type = "object"  -> Is(v, "obj")
    [] type = "array"   -> Is(v, "arr")
    [] type = "string"  -> Is(v, "str")
    [] type = "number"  -> Is(v, "num")
    [] type = "integer" -> Is(v, "num") /\ Whole(v.num)
    [] type = "boolean" -> Is(v, "bool")
    [] OTHER            -> TRUE

CONSTANT ConformsChild(_, _)   \* Conforms itself

Conforms(v, schema) ==
  v # Nil =>
    /\ HasType(v, schema.type)
    /\ schema.type = "object" =>
         /\ \A k \in schema.required : k \in DOMAIN v.obj /\ v.obj[k] # Nil
         /\ schema.properties # None =>
              \A k \in DOMAIN v.obj \cap DOMAIN schema.properties :
                ConformsChild(v.obj[k], schema.properties[k])
    /\ schema.type = "array" /\ schema.items # None =>
         \A i \in DOMAIN v.arr : ConformsChild(v.arr[i], schema.items)
    /\ schema.type = "string" /\ schema.enum # {} => v \in schema.enum
    /\ schema.type = "integer" =>
         /\ schema.min # None => v.num >= schema.min
         /\ schema.max # None => v.num <= schema.max

ASSUME ConformsRecursion ==
  \A v \in Value, schema \in SchemaNode : ConformsChild(v, schema) = Conforms(v, schema)

(***************************************************************************)
(* Whoever filled the cache, a payload is accepted exactly if it conforms, *)
(* in the dialect above, to the schema of its own event (validateMap,      *)
(* whose lookup and store are two critical sections).                      *)
(***************************************************************************)
VerdictMatchesSchema ==
  \A h \in Handlers :
    LET r == handler[h].request
        schema == GetEventSchema(r.event).value
        conforms == schema.parses /\ Conforms(Obj(r.payload), schema.node)
    IN /\ handler[h].pc = "accepted" => conforms
       /\ handler[h].refusal = "invalid" => ~conforms

-----------------------------------------------------------------------------
(* The vendors a handler's request has gone to, or tried to. *)
Delivered(h) == DOMAIN handler[h].outcome

(* The schema a path leads to when every field on the way is required, else None. *)
CONSTANT AssuredRest(_, _)   \* Assured itself

Assured(schema, path) ==
  IF path = <<>> THEN schema
  ELSE IF /\ schema.type = "object" /\ schema.properties # None
          /\ Head(path) \in schema.required \cap DOMAIN schema.properties
  THEN AssuredRest(schema.properties[Head(path)], Tail(path))
  ELSE None

ASSUME AssuredRecursion ==
  \A schema \in SchemaNode, path \in Path \cup {<<>>} :
    AssuredRest(schema, path) = Assured(schema, path)

(* The schema type of a template string; "unknown" when it may also be null. *)
StaticType(s, schema) ==
  IF ~Pure(s) THEN "string"
  ELSE IF s[1].ref[1] # "payload" \/ Assured(schema, s[1].ref[2]) = None THEN "unknown"
  ELSE Assured(schema, s[1].ref[2]).type

(* Every value of the one type can be converted to the other. *)
Converts(from, to) ==
  \/ to = "string"
  \/ to = "boolean" /\ from \in {"number", "integer", "boolean"}
  \/ to \in {"integer", "number"} /\ from \in {"number", "integer"}

CONSTANT WellTypedChild(_, _)   \* WellTyped itself

WellTypedDirective(d, schema) ==
  LET from == StaticType(d[SourceKey].str, schema)
      to == IF TypeKey \in DOMAIN d THEN Name(d[TypeKey]) ELSE from
  IN /\ "str" \in DOMAIN d[SourceKey]
     /\ IF EachKey \in DOMAIN d
        THEN from = "array" /\ WellTypedChild(d[EachKey], schema)
        ELSE /\ TypeKey \in DOMAIN d => Converts(from, to)
             /\ FormatKey \in DOMAIN d => to = "integer" /\ "str" \in DOMAIN d[FormatKey]

(* A template whose directives fit the schema of the event. *)
WellTyped(node, schema) ==
  CASE "map" \in DOMAIN node ->
         IF SourceKey \in DOMAIN node.map THEN WellTypedDirective(node.map, schema)
         ELSE \A k \in DOMAIN node.map : WellTypedChild(node.map[k], schema)
    [] "list" \in DOMAIN node ->
         \A i \in DOMAIN node.list : WellTypedChild(node.list[i], schema)
    [] OTHER -> TRUE

ASSUME WellTypedRecursion ==
  \A node \in Template, schema \in SchemaNode :
    WellTypedChild(node, schema) = WellTyped(node, schema)

(***************************************************************************)
(* If the directives of a contract fit the schema, no accepted payload     *)
(* makes BuildRequest fail and sends the task around the retry queue.      *)
(* Fields that a payload may omit, and elements of arrays (a schema lets   *)
(* null pass), fit no conversion but the one to string.                    *)
(***************************************************************************)
WellTypedBuilds ==
  \A h \in Handlers : \A v \in Delivered(h) :
    LET r == handler[h].request
        spec == GetDeliverySpec(v, r.event).value
    IN "retry" \in DOMAIN handler[h].outcome[v] =>
         \/ ~WellTyped(spec.body.template, GetEventSchema(r.event).value.node)
         \/ spec.body.type \notin {"", "none", "raw", "mapping"}
         \/ ~Acceptable(spec.request, Tostring(ResolveField(spec.request.path,
                                                            Context(r.payload, Nil))))

(***************************************************************************)
(* A field of the payload that a body refers to is absent or null only if  *)
(* the schema lets it be: the check of contracts against schemas, the      *)
(* required check and the lookup agree on what a field is.                 *)
(***************************************************************************)
NilOnlyFromOptional ==
  \A h \in Handlers : \A v \in Delivered(h) :
    LET r == handler[h].request
        schema == GetEventSchema(r.event).value.node
        template == GetDeliverySpec(v, r.event).value.body.template
    IN "send" \in DOMAIN handler[h].outcome[v] /\ schema.type = "object"
         /\ schema.properties # None =>
           \A k \in PayloadRefs(template) :
             Field(r.payload, k) = Nil => k \in DOMAIN schema.properties \ schema.required
=============================================================================
