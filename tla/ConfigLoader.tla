----------------------------- MODULE ConfigLoader -----------------------------
(***************************************************************************)
(* internal/config/loader.go: the configuration directory, read file by    *)
(* file when the process starts, and the lookups on what was read.         *)
(*                                                                         *)
(* A file is a record [kind, path, read, content]; `read` says that it can *)
(* be read and parsed as YAML.  Business units, events and vendors are     *)
(* numbers, so that the order of os.ReadDir is the order of the paths:     *)
(*   route     <<biz, name>>           [event, vendors]                    *)
(*   schema    <<biz, name>>           [event, schema]                     *)
(*   vendor    <<vendor>>              [retry, auth, config]               *)
(*   contract  <<vendor, biz, name>>   [event, retry, request, body]       *)
(* An absent event_type, schema or retry_policy is None; a retry policy is *)
(* [delays, attempts], where `delays` says that both durations parse.      *)
(* Every directory under vendors/ has a file of kind vendor: one that      *)
(* cannot be read when there is no vendor.yaml.  `unlisted` holds the      *)
(* directories that os.ReadDir cannot list.                                *)
(***************************************************************************)
EXTENDS JsonValue

CONSTANTS
  Directories,
  ExtractPayloadRefs(_)   \* extractPayloadRefs: the fields a template refers to

VARIABLES
  directory,          \* the configuration path of this process
  loadPc,             \* "stat", "walk", "check", "serving" or "fatal"
  todo,               \* files the walk has not come to
  routingRules, eventSchemas, vendorConfigs, deliveryContracts

loaderMaps == <<routingRules, eventSchemas, vendorConfigs, deliveryContracts>>
loaderVars == <<directory, loadPc, todo, loaderMaps>>

(* LoadedValue: a value, or the error that stands in its place. *)
Loaded(v) == [value |-> v]
Failed(cause) == [error |-> cause]
IsLoaded(lv) == "value" \in DOMAIN lv
ErrNotConfigured == Failed("notConfigured")

Put(map, key, lv) ==
  [k \in DOMAIN map \cup {key} |-> IF k = key THEN lv ELSE map[k]]
Find(map, key) == IF key \in DOMAIN map THEN map[key] ELSE ErrNotConfigured

NewLoader ==
  /\ directory \in Directories
  /\ loadPc = "stat" /\ todo = {}
  /\ routingRules = <<>> /\ eventSchemas = <<>>
  /\ vendorConfigs = <<>> /\ deliveryContracts = <<>>

-----------------------------------------------------------------------------
(* walkYAML: routes, schemas, vendors and contracts, each in path order. *)
Turn == [route |-> 1, schema |-> 2, vendor |-> 3, contract |-> 4]

Before(f, g) ==
  \/ Turn[f.kind] < Turn[g.kind]
  \/ /\ f.kind = g.kind
     /\ \E i \in DOMAIN f.path : /\ f.path[i] < g.path[i]
                                 /\ \A j \in 1..(i - 1) : f.path[j] = g.path[j]

Current == CHOOSE f \in todo : \A g \in todo \ {f} : Before(f, g)
At(kind) == loadPc = "walk" /\ todo # {} /\ Current.kind = kind

FileName(f) == f.path[Len(f.path)]

(***************************************************************************)
(* walkYAMLAt returns without a word where os.ReadDir fails: the walk      *)
(* comes to the files whose directories, from events/ or vendors/ down,    *)
(* can all be listed.                                                      *)
(***************************************************************************)
ListedFor(f) ==
  CASE f.kind = "route"    -> {<<"events", <<>>>>, <<"routes", <<f.path[1]>>>>}
    [] f.kind = "schema"   -> {<<"events", <<>>>>, <<"schemas", <<f.path[1]>>>>}
    [] f.kind = "vendor"   -> {<<"vendors", <<>>>>}
    [] f.kind = "contract" -> {<<"vendors", <<>>>>, <<"vendors", <<f.path[1]>>>>,
                               <<"vendors", <<f.path[1], f.path[2]>>>>}

Listed(d) == {f \in d.files : ListedFor(f) \cap d.unlisted = {}}

(***************************************************************************)
(* Directories a file system can hold: one file under a path, as deep as   *)
(* its kind says, and beside every contract the vendor file of its vendor. *)
(***************************************************************************)
ASSUME DirectoriesAssumption ==
  \A d \in Directories :
    /\ IsFiniteSet(d.files)
    /\ \A f \in d.files :
         /\ f.kind \in DOMAIN Turn
         /\ f.path \in Seq(Int)
         /\ Len(f.path) = CASE f.kind = "vendor" -> 1 [] f.kind = "contract" -> 3 [] OTHER -> 2
         /\ f.read \in BOOLEAN
         /\ f.kind = "contract" =>
              /\ f.read => {"event", "body"} \subseteq DOMAIN f.content
              /\ \E g \in d.files : g.kind = "vendor" /\ FileName(g) = f.path[1]
    /\ \A f, g \in d.files : f.kind = g.kind /\ f.path = g.path => f = g

-----------------------------------------------------------------------------
(* Load and loadDir.  A path that is a plain file is skipped. *)
Stat ==
  /\ loadPc = "stat"
  /\ LET fatal == \/ directory.stat = "absent"
                  \/ directory.stat = "dir" /\ ~directory.events /\ ~directory.vendors
     IN /\ loadPc' = IF fatal THEN "fatal" ELSE "walk"
        /\ todo' = IF fatal \/ directory.stat = "file" THEN {} ELSE Listed(directory)
  /\ UNCHANGED <<directory, loaderMaps>>

(* Faulty variant of RecordError: the failure is only logged. *)
RecordErrorLogOnly(map, key, cause) == map
(* Faulty variant of Advance: the walk stops at a file that cannot be used. *)
AdvanceUntilError ==
  /\ todo' = IF Current.read THEN todo \ {Current} ELSE {}
  /\ UNCHANGED <<directory, loadPc>>

RecordError(map, key, cause) == Put(map, key, Failed(cause))

Advance == todo' = todo \ {Current} /\ UNCHANGED <<directory, loadPc>>

LoadRoute ==
  /\ At("route")
  /\ LET f == Current IN
     routingRules' =
       IF ~f.read THEN RecordError(routingRules, FileName(f), "unreadable")
       ELSE IF f.content.event = None
       THEN RecordError(routingRules, FileName(f), "missingEventType")
       ELSE Put(routingRules, f.content.event, Loaded(f.content.vendors))
  /\ Advance
  /\ UNCHANGED <<eventSchemas, vendorConfigs, deliveryContracts>>

LoadSchema ==
  /\ At("schema")
  /\ LET f == Current IN
     eventSchemas' =
       IF ~f.read THEN RecordError(eventSchemas, FileName(f), "unreadable")
       ELSE IF f.content.event = None \/ f.content.schema = None
       THEN RecordError(eventSchemas, FileName(f), "missingSchema")
       ELSE Put(eventSchemas, f.content.event, Loaded(f.content.schema))
  /\ Advance
  /\ UNCHANGED <<routingRules, vendorConfigs, deliveryContracts>>

LoadVendor ==
  /\ At("vendor")
  /\ LET f == Current IN
     vendorConfigs' =
       IF ~f.read THEN RecordError(vendorConfigs, FileName(f), "unreadable")
       ELSE IF ~f.content.retry.delays
       THEN RecordError(vendorConfigs, FileName(f), "badDelay")
       ELSE Put(vendorConfigs, FileName(f), Loaded(f.content))
  /\ Advance
  /\ UNCHANGED <<routingRules, eventSchemas, deliveryContracts>>

EventOf(f) == IF f.content.event = None THEN FileName(f) ELSE f.content.event

(***************************************************************************)
(* A contract is kept under <<vendor, event>>.  A bad retry_policy is      *)
(* recorded under the vendor and the name of the file with its extension,  *)
(* which no lookup asks for.                                               *)
(***************************************************************************)
(* Faulty variant of LoadContract: kept under the name of the file. *)
LoadContractByName ==
  /\ At("contract")
  /\ LET f == Current IN
     deliveryContracts' =
       IF ~f.read
       THEN RecordError(deliveryContracts, <<f.path[1], FileName(f)>>, "unreadable")
       ELSE IF f.content.retry # None /\ ~f.content.retry.delays
       THEN RecordError(deliveryContracts, <<f.path[1], FileName(f), "yaml">>, "badDelay")
       ELSE Put(deliveryContracts, <<f.path[1], FileName(f)>>,
                Loaded([f.content EXCEPT !.event = EventOf(f)]))
  /\ Advance
  /\ UNCHANGED <<routingRules, eventSchemas, vendorConfigs>>

LoadContract ==
  /\ At("contract")
  /\ LET f == Current IN
     deliveryContracts' =
       IF ~f.read
       THEN RecordError(deliveryContracts, <<f.path[1], FileName(f)>>, "unreadable")
       ELSE IF f.content.retry # None /\ ~f.content.retry.delays
       THEN RecordError(deliveryContracts, <<f.path[1], FileName(f), "yaml">>, "badDelay")
       ELSE Put(deliveryContracts, <<f.path[1], EventOf(f)>>,
                Loaded([f.content EXCEPT !.event = EventOf(f)]))
  /\ Advance
  /\ UNCHANGED <<routingRules, eventSchemas, vendorConfigs>>

EndOfWalk ==
  /\ loadPc = "walk" /\ todo = {}
  /\ loadPc' = "check"
  /\ UNCHANGED <<directory, todo, loaderMaps>>

-----------------------------------------------------------------------------
(* validateCrossConfig. *)
(* There is a configuration under that name, though it may have failed to load. *)
KnownVendor(v) == v \in DOMAIN vendorConfigs

(* The fields declared for an event, where the schema says so. *)
Undeclared(spec) ==
  LET lv == Find(eventSchemas, spec.event) IN
  IF ~IsLoaded(lv) \/ lv.value.node.properties = None THEN {}
  ELSE ExtractPayloadRefs(spec.body.template) \ DOMAIN lv.value.node.properties

CheckedRules(lv) ==
  IF IsLoaded(lv) /\ \E v \in lv.value : ~KnownVendor(v)
  THEN Failed("unknownVendor") ELSE lv

(* Faulty variant of CheckedContract: the fields are not compared. *)
CheckedContractNot(lv) == lv

CheckedContract(lv) ==
  IF IsLoaded(lv) /\ Undeclared(lv.value) # {}
  THEN Failed("undeclaredField") ELSE lv

ValidateCrossConfig ==
  /\ loadPc = "check"
  /\ loadPc' = "serving"
  /\ routingRules' = [e \in DOMAIN routingRules |-> CheckedRules(routingRules[e])]
  /\ deliveryContracts' = [k \in DOMAIN deliveryContracts |->
                             CheckedContract(deliveryContracts[k])]
  /\ UNCHANGED <<directory, todo, eventSchemas, vendorConfigs>>

-----------------------------------------------------------------------------
(* port.ConfigProvider. *)
GetVendorConfig(v) == Find(vendorConfigs, v)
GetRoutingRules(e) == Find(routingRules, e)
GetEventSchema(e) == Find(eventSchemas, e)

GetDeliverySpec(v, e) ==
  LET vendor   == GetVendorConfig(v)
      contract == Find(deliveryContracts, <<v, e>>)
  IN IF ~IsLoaded(vendor) THEN vendor
     ELSE IF ~IsLoaded(contract) THEN contract
     ELSE IF contract.value.retry # None THEN contract
     ELSE Loaded([contract.value EXCEPT !.retry = vendor.value.retry])

(* main exits when Load fails; the next process may find another directory. *)
NextProcess ==
  /\ loadPc = "fatal"
  /\ loadPc' = "stat" /\ directory' \in Directories
  /\ UNCHANGED <<todo, loaderMaps>>

LoaderNext ==
  \/ Stat \/ EndOfWalk \/ ValidateCrossConfig \/ NextProcess
  \/ LoadRoute \/ LoadSchema \/ LoadVendor \/ LoadContract

(* The loader by itself. *)
LoaderSpec == NewLoader /\ [][LoaderNext]_loaderVars

-----------------------------------------------------------------------------
(* What the files of the directory say, taken one by one. *)
Sound(f) ==
  /\ f.read
  /\ CASE f.kind = "route"    -> f.content.event # None
       [] f.kind = "schema"   -> f.content.event # None /\ f.content.schema # None
       [] f.kind = "vendor"   -> f.content.retry.delays
       [] f.kind = "contract" -> f.content.retry = None \/ f.content.retry.delays

(* The key under which a usable file is to be found. *)
KeyOf(f) ==
  CASE f.kind = "vendor"   -> FileName(f)
    [] f.kind = "contract" -> <<f.path[1], EventOf(f)>>
    [] OTHER               -> f.content.event

(* The key of its failure: only the name of the file is sure to be known. *)
NameOf(f) == IF f.kind = "contract" THEN <<f.path[1], FileName(f)>> ELSE FileName(f)

Claims(f) == {NameOf(f)} \cup (IF Sound(f) THEN {KeyOf(f)} ELSE {})

(* What a usable file says, and the map that holds the files of its kind. *)
ValueOf(f) ==
  CASE f.kind = "route"  -> f.content.vendors
    [] f.kind = "schema" -> f.content.schema
    [] f.kind = "vendor" -> f.content
    [] OTHER             -> [f.content EXCEPT !.event = EventOf(f)]

MapOf(kind) ==
  CASE kind = "route"  -> routingRules
    [] kind = "schema" -> eventSchemas
    [] kind = "vendor" -> vendorConfigs
    [] OTHER           -> deliveryContracts

(* No other file of its kind has to do with the same key. *)
Alone(f) ==
  \A g \in Listed(directory) \ {f} : g.kind = f.kind => Claims(f) \cap Claims(g) = {}

Entry(kind, key) ==
  CASE kind = "route"    -> GetRoutingRules(key)
    [] kind = "schema"   -> GetEventSchema(key)
    [] kind = "vendor"   -> GetVendorConfig(key)
    [] kind = "contract" -> GetDeliverySpec(key[1], key[2])

(* A usable file that contradicts another file. *)
Contradicts(f) ==
  \/ /\ f.kind = "route"
     /\ \E v \in f.content.vendors :
          ~\E g \in Listed(directory) : g.kind = "vendor" /\ FileName(g) = v
  \/ /\ f.kind = "contract"
     /\ \E g \in Listed(directory) :
          \/ g.kind = "vendor" /\ FileName(g) = f.path[1] /\ ~Sound(g)
          \/ /\ g.kind = "schema" /\ Sound(g) /\ g.content.event = EventOf(f)
             /\ g.content.schema.node.properties # None
             /\ ~(ExtractPayloadRefs(f.content.body.template)
                    \subseteq DOMAIN g.content.schema.node.properties)

(***************************************************************************)
(* A file that cannot be used takes nothing else down: every usable file   *)
(* that no other file disputes is served, unless it contradicts another    *)
(* (recordError: "the loader continues with partial availability").        *)
(***************************************************************************)
FailureIsContained ==
  loadPc = "serving" /\ directory.stat = "dir" =>
    \A f \in Listed(directory) :
      Sound(f) /\ Alone(f) /\ ~Contradicts(f) => IsLoaded(Entry(f.kind, KeyOf(f)))

(* Why a file cannot be used. *)
Cause(f) ==
  CASE ~f.read -> "unreadable"
    [] f.read /\ f.kind = "route" -> "missingEventType"
    [] f.read /\ f.kind = "schema" -> "missingSchema"
    [] OTHER -> "badDelay"

(* The vendor's file, if it cannot be used: GetDeliverySpec meets it first. *)
UnsoundVendors(f) ==
  {g \in Listed(directory) :
     g.kind = "vendor" /\ f.kind = "contract" /\ FileName(g) = f.path[1] /\ ~Sound(g)}

(* LoadContract's bad retry_policy, recorded under a key that no lookup uses. *)
Misfiled(f) == f.kind = "contract" /\ f.read /\ ~Sound(f)

(***************************************************************************)
(* The lookup of the name of a file that the walk came to and that cannot  *)
(* be used answers with the very cause of its failure (for a contract of a *)
(* vendor that cannot be used either, with the vendor's).  The design asks *)
(* this of every file.  The code does not do it for a contract with a bad  *)
(* retry_policy, whose name answers "not configured" as if there were no   *)
(* file, nor for the files of a directory that cannot be listed.           *)
(***************************************************************************)
FailureIsReported ==
  loadPc = "serving" /\ directory.stat = "dir" =>
    \A f \in Listed(directory) :
      ~Sound(f) /\ Alone(f) =>
        LET answer == Entry(f.kind, NameOf(f)) IN
        IF UnsoundVendors(f) # {} THEN \E g \in UnsoundVendors(f) : answer = Failed(Cause(g))
        ELSE IF Misfiled(f) THEN answer = ErrNotConfigured
        ELSE answer = Failed(Cause(f))

(***************************************************************************)
(* Whatever the order in which disputed files are read, what is served     *)
(* under a key is what one usable file says about that very key ("the      *)
(* Loader reflects exactly what is on disk").                              *)
(***************************************************************************)
ServedIsOnDisk ==
  loadPc = "serving" =>
    \A kind \in DOMAIN Turn : \A key \in DOMAIN MapOf(kind) :
      IsLoaded(MapOf(kind)[key]) =>
        \E f \in Listed(directory) : /\ f.kind = kind /\ Sound(f) /\ KeyOf(f) = key
                                   /\ MapOf(kind)[key].value = ValueOf(f)
=============================================================================
