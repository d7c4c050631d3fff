----------------------------- MODULE LoaderProofs -----------------------------
(***************************************************************************)
(* The loader, for every directory: what is served is on disk, a file that *)
(* cannot be used takes no other file down, and it leaves its cause where  *)
(* the lookup finds it.                                                    *)
(***************************************************************************)
EXTENDS ConfigLoader, FiniteSetTheorems, WellFoundedInduction, TLAPS

Kinds == {"route", "schema", "vendor", "contract"}

(* What the walk records for a file, and where. *)
Record(f) == IF Sound(f) THEN Loaded(ValueOf(f)) ELSE Failed(Cause(f))
Place(f) ==
  IF Sound(f) THEN KeyOf(f)
  ELSE IF f.kind = "contract" /\ f.read THEN <<f.path[1], FileName(f), "yaml">>
  ELSE NameOf(f)

(* Nothing is recorded before the walk. *)
UnreadInv ==
  loadPc \in {"stat", "fatal"} => todo = {} /\ \A kind \in Kinds : DOMAIN MapOf(kind) = {}

(* Every entry is the record of a file the walk has come to. *)
RecordedInv ==
  loadPc # "serving" =>
    \A kind \in Kinds : \A key \in DOMAIN MapOf(kind) :
      \E f \in Listed(directory) \ todo :
        f.kind = kind /\ key = Place(f) /\ MapOf(kind)[key] = Record(f)

(* Every file the walk has come to has an entry, its own or a rival's. *)
PlacedInv ==
  loadPc \in {"walk", "check"} /\ directory.stat = "dir" =>
    \A f \in Listed(directory) \ todo : Place(f) \in DOMAIN MapOf(f.kind)

WalkInv ==
  /\ directory \in Directories
  /\ loadPc \in {"stat", "walk", "check", "serving", "fatal"}
  /\ todo \subseteq Listed(directory)
  /\ loadPc \in {"check", "serving"} => todo = {}

LoaderInv ==
  /\ WalkInv /\ UnreadInv /\ RecordedInv /\ PlacedInv
  /\ ServedIsOnDisk /\ FailureIsContained /\ FailureIsReported

-----------------------------------------------------------------------------
(* A value, or the error in its place. *)
LEMMA LoadedOrFailed ==
  /\ \A v : IsLoaded(Loaded(v)) /\ Loaded(v).value = v
  /\ \A c : ~IsLoaded(Failed(c)) /\ (c # "notConfigured" => Failed(c) # ErrNotConfigured)
  /\ ~IsLoaded(ErrNotConfigured)
<1>1. \A v : IsLoaded(Loaded(v)) /\ Loaded(v).value = v
  BY DEF IsLoaded, Loaded
<1>2. \A c : ~IsLoaded(Failed(c)) /\ Failed(c).error = c
  BY DEF IsLoaded, Failed
<1> QED
  BY <1>1, <1>2 DEF ErrNotConfigured

-----------------------------------------------------------------------------
(* The order of the walk. *)

(* A set of numbers has a least element. *)
LEMMA LeastNumber ==
  ASSUME NEW T \in SUBSET Nat, T # {}
  PROVE  \E x \in T : \A y \in T : x <= y
<1>1. \E x \in T : \A y \in T : ~(<<y, x>> \in OpToRel(<, Nat))
  BY NatLessThanWellFounded, WFMin
<1>2. \A x \in Nat, y \in Nat : y < x => <<y, x>> \in OpToRel(<, Nat)
  BY DEF OpToRel
<1>3. PICK x \in T : \A y \in T : ~(y < x)
  BY <1>1, <1>2
<1> QED
  BY <1>3

LEMMA TurnIs ==
  /\ DOMAIN Turn = Kinds
  /\ \A k \in Kinds : Turn[k] \in Int
  /\ \A k, l \in Kinds : Turn[k] = Turn[l] => k = l
BY DEF Turn, Kinds

(* Files of one directory, and the paths of files of one kind. *)
LEMMA FileIs ==
  ASSUME NEW d \in Directories, NEW f \in d.files
  PROVE  f.kind \in Kinds /\ f.read \in BOOLEAN /\ f.path \in Seq(Int)
BY DirectoriesAssumption, TurnIs

LEMMA PathIs ==
  ASSUME NEW d \in Directories, NEW f \in d.files
  PROVE  /\ DOMAIN f.path = 1..Len(f.path) /\ Len(f.path) \in Nat
         /\ \A i \in DOMAIN f.path : f.path[i] \in Int
<1>1. PICK p \in Seq(Int) : p = f.path
  BY FileIs
<1>2. DOMAIN p = 1..Len(p) /\ Len(p) \in Nat /\ \A i \in 1..Len(p) : p[i] \in Int
  OBVIOUS
<1> QED
  BY <1>1, <1>2

LEMMA SameDepth ==
  ASSUME NEW d \in Directories, NEW f \in d.files, NEW g \in d.files, f.kind = g.kind
  PROVE  DOMAIN f.path = DOMAIN g.path
<1>1. /\ Len(f.path) = CASE f.kind = "vendor" -> 1 [] f.kind = "contract" -> 3 [] OTHER -> 2
      /\ Len(g.path) = CASE g.kind = "vendor" -> 1 [] g.kind = "contract" -> 3 [] OTHER -> 2
  BY DirectoriesAssumption
<1>2. Len(f.path) = Len(g.path)
  BY <1>1
<1> QED
  BY <1>2, PathIs

LEMMA BeforeIsStrict ==
  ASSUME NEW d \in Directories, NEW f \in d.files
  PROVE  ~Before(f, f)
<1>1. ~(Turn[f.kind] < Turn[f.kind])
  BY FileIs, TurnIs
<1>2. \A i \in DOMAIN f.path : ~(f.path[i] < f.path[i])
  BY PathIs
<1> QED
  BY <1>1, <1>2 DEF Before

LEMMA BeforeIsTransitive ==
  ASSUME NEW d \in Directories, NEW f \in d.files, NEW g \in d.files, NEW h \in d.files,
         Before(f, g), Before(g, h)
  PROVE  Before(f, h)
<1>1. Turn[f.kind] \in Int /\ Turn[g.kind] \in Int /\ Turn[h.kind] \in Int
  BY FileIs, TurnIs
<1>2. CASE Turn[f.kind] < Turn[h.kind]
  BY <1>2 DEF Before
<1>3. CASE f.kind = g.kind /\ g.kind = h.kind
  <2>1. PICK i \in DOMAIN f.path : /\ f.path[i] < g.path[i]
                                   /\ \A l \in 1..(i - 1) : f.path[l] = g.path[l]
    BY <1>1, <1>3 DEF Before
  <2>2. PICK j \in DOMAIN g.path : /\ g.path[j] < h.path[j]
                                   /\ \A l \in 1..(j - 1) : g.path[l] = h.path[l]
    BY <1>1, <1>3 DEF Before
  <2>3. DOMAIN f.path = DOMAIN g.path /\ DOMAIN h.path = DOMAIN g.path
    BY <1>3, SameDepth
  <2>4. PICK n \in Nat : DOMAIN g.path = 1..n
    BY PathIs
  <2>5. \A l \in 1..n : f.path[l] \in Int /\ g.path[l] \in Int /\ h.path[l] \in Int
    BY <2>3, <2>4, PathIs
  <2>6. i \in 1..n /\ j \in 1..n
    BY <2>3, <2>4
  <2>7. CASE i <= j
    <3>1. i < j => i \in 1..(j - 1)
      BY <2>6
    <3>2. f.path[i] < h.path[i]
      <4>1. CASE i = j
        BY <2>1, <2>2, <2>5, <2>6, <4>1
      <4>2. CASE i < j
        BY <2>1, <2>2, <2>5, <2>6, <3>1, <4>2
      <4> QED
        BY <2>6, <2>7, <4>1, <4>2
    <3>3. \A l \in 1..(i - 1) : l \in 1..(j - 1)
      BY <2>6, <2>7
    <3>4. \A l \in 1..(i - 1) : f.path[l] = h.path[l]
      BY <2>1, <2>2, <3>3
    <3> QED
      BY <1>3, <2>1, <3>2, <3>4 DEF Before
  <2>8. CASE j < i
    <3>1. j \in 1..(i - 1)
      BY <2>6, <2>8
    <3>2. f.path[j] < h.path[j]
      BY <2>1, <2>2, <3>1
    <3>3. \A l \in 1..(j - 1) : l \in 1..(i - 1)
      BY <2>6, <2>8
    <3>4. \A l \in 1..(j - 1) : f.path[l] = h.path[l]
      BY <2>1, <2>2, <3>3
    <3> QED
      BY <1>3, <2>2, <2>3, <3>2, <3>4 DEF Before
  <2> QED
    BY <2>6, <2>7, <2>8
<1>4. (Turn[f.kind] < Turn[g.kind] \/ f.kind = g.kind) /\ (Turn[g.kind] < Turn[h.kind] \/ g.kind = h.kind)
  BY DEF Before
<1> QED
  BY <1>1, <1>2, <1>3, <1>4

LEMMA BeforeIsTotal ==
  ASSUME NEW d \in Directories, NEW f \in d.files, NEW g \in d.files, f # g
  PROVE  Before(f, g) \/ Before(g, f)
<1>1. Turn[f.kind] \in Int /\ Turn[g.kind] \in Int
  BY FileIs, TurnIs
<1>2. CASE f.kind # g.kind
  <2>1. Turn[f.kind] # Turn[g.kind]
    BY <1>2, FileIs, TurnIs
  <2>2. Turn[f.kind] < Turn[g.kind] \/ Turn[g.kind] < Turn[f.kind]
    BY <1>1, <2>1
  <2> QED
    BY <2>2 DEF Before
<1>3. CASE f.kind = g.kind
  <2>1. f.path # g.path
    BY <1>3, DirectoriesAssumption
  <2>2. DOMAIN f.path = DOMAIN g.path
    BY <1>3, SameDepth
  <2>3. PICK n \in Nat : DOMAIN f.path = 1..n
    BY PathIs
  <2>4. \A l \in 1..n : f.path[l] \in Int /\ g.path[l] \in Int
    BY <2>2, <2>3, PathIs
  <2> DEFINE T == {l \in 1..n : f.path[l] # g.path[l]}
  <2>5. T # {}
    <3>1. PICK p \in Seq(Int) : p = f.path
      BY FileIs
    <3>2. PICK q \in Seq(Int) : q = g.path
      BY FileIs
    <3>3. p # q /\ DOMAIN p = DOMAIN q
      BY <2>1, <2>2, <3>1, <3>2
    <3>4. \E l \in DOMAIN p : p[l] # q[l]
      BY <3>3
    <3> QED
      BY <2>3, <3>1, <3>2, <3>4
  <2>6. T \in SUBSET Nat
    OBVIOUS
  <2>7. PICK i \in T : \A l \in T : i <= l
    BY <2>5, <2>6, LeastNumber
  <2>8. \A l \in 1..(i - 1) : f.path[l] = g.path[l]
    <3>1. \A l \in 1..(i - 1) : l \in 1..n /\ ~(i <= l)
      BY <2>7
    <3> QED
      BY <2>7, <3>1
  <2>9. f.path[i] < g.path[i] \/ g.path[i] < f.path[i]
    BY <2>4, <2>7
  <2> QED
    BY <1>3, <2>2, <2>3, <2>7, <2>8, <2>9 DEF Before
<1> QED
  BY <1>2, <1>3

(* The walk always has a next file. *)
LEMMA FirstOf ==
  ASSUME NEW d \in Directories, NEW S \in SUBSET d.files, S # {}
  PROVE  \E f \in S : \A g \in S \ {f} : Before(f, g)
<1> DEFINE Lower(f) == {g \in S : Before(g, f)}
           T == {Cardinality(Lower(f)) : f \in S}
<1>1. IsFiniteSet(d.files)
  BY DirectoriesAssumption
<1>2. IsFiniteSet(S)
  BY <1>1, FS_Subset
<1>3. ASSUME NEW f \in S
      PROVE  IsFiniteSet(Lower(f)) /\ Cardinality(Lower(f)) \in Nat
  <2>1. Lower(f) \in SUBSET S
    OBVIOUS
  <2>2. IsFiniteSet(Lower(f))
    BY <1>2, <2>1, FS_Subset
  <2> QED
    BY <2>2, FS_CardinalityType
<1>4. T \in SUBSET Nat /\ T # {}
  BY <1>3
<1>5. PICK t \in T : \A u \in T : t <= u
  BY <1>4, LeastNumber
<1>6. PICK f \in S : t = Cardinality(Lower(f))
  OBVIOUS
<1>7. ASSUME NEW g \in S, Before(g, f)
      PROVE  FALSE
  <2>1. Lower(g) \in SUBSET Lower(f)
    BY <1>7, BeforeIsTransitive
  <2>2. g \in Lower(f) /\ g \notin Lower(g)
    BY <1>7, BeforeIsStrict
  <2>3. Cardinality(Lower(g)) <= Cardinality(Lower(f))
    BY <1>3, <2>1, FS_Subset
  <2>4. Cardinality(Lower(f)) # Cardinality(Lower(g))
    BY <1>3, <2>1, <2>2, FS_Subset
  <2>5. t <= Cardinality(Lower(g))
    BY <1>5
  <2> QED
    BY <1>3, <1>6, <2>3, <2>4, <2>5
<1>8. \A g \in S \ {f} : Before(f, g)
  BY <1>7, BeforeIsTotal
<1> QED
  BY <1>8

LEMMA ListedIs ==
  ASSUME NEW d \in Directories
  PROVE  /\ Listed(d) \subseteq d.files
         /\ \A f \in Listed(d) : f.kind = "contract" =>
              \E g \in Listed(d) : g.kind = "vendor" /\ FileName(g) = f.path[1]
<1>1. Listed(d) \subseteq d.files
  BY DEF Listed
<1>2. ASSUME NEW f \in Listed(d), f.kind = "contract"
      PROVE  \E g \in Listed(d) : g.kind = "vendor" /\ FileName(g) = f.path[1]
  <2>1. PICK g \in d.files : g.kind = "vendor" /\ FileName(g) = f.path[1]
    BY <1>1, <1>2, DirectoriesAssumption
  <2>2. ListedFor(g) = {<<"vendors", <<>>>>} /\ <<"vendors", <<>>>> \in ListedFor(f)
    BY <1>2, <2>1 DEF ListedFor
  <2>3. g \in Listed(d)
    BY <2>2 DEF Listed
  <2> QED
    BY <2>1, <2>3
<1> QED
  BY <1>1, <1>2

LEMMA CurrentIsNext ==
  ASSUME WalkInv, todo # {}
  PROVE  Current \in todo /\ Current \in Listed(directory)
<1>1. \E f \in todo : \A g \in todo \ {f} : Before(f, g)
  <2>1. directory \in Directories /\ todo \in SUBSET directory.files
    BY ListedIs DEF WalkInv
  <2> QED
    BY <2>1, FirstOf
<1>2. Current \in todo
  BY <1>1 DEF Current
<1> QED
  BY <1>2 DEF WalkInv

-----------------------------------------------------------------------------
(* What each kind of file leaves in its map. *)
LEMMA SoundIs ==
  ASSUME NEW f
  PROVE  /\ f.kind = "route" => (Sound(f) <=> f.read /\ f.content.event # None)
         /\ f.kind = "schema" =>
              (Sound(f) <=> f.read /\ f.content.event # None /\ f.content.schema # None)
         /\ f.kind = "vendor" => (Sound(f) <=> f.read /\ f.content.retry.delays)
         /\ f.kind = "contract" =>
              (Sound(f) <=> f.read /\ (f.content.retry = None \/ f.content.retry.delays))
         /\ Sound(f) => f.read
BY DEF Sound

LEMMA CauseIs ==
  ASSUME NEW f
  PROVE  Cause(f) # "notConfigured"
BY DEF Cause

(* The walk comes to file f. *)
Comes(f) ==
  /\ loadPc = "walk" /\ f \in todo /\ f \in Listed(directory) /\ f.kind \in Kinds
  /\ todo' = todo \ {f} /\ UNCHANGED <<directory, loadPc>>
  /\ MapOf(f.kind)' = Put(MapOf(f.kind), Place(f), Record(f))
  /\ \A kind \in Kinds \ {f.kind} : MapOf(kind)' = MapOf(kind)

LEMMA LoadRouteComes ==
  ASSUME WalkInv, LoadRoute
  PROVE  \E f \in todo : Comes(f)
<1>1. PICK f \in todo : f = Current
  BY CurrentIsNext DEF LoadRoute, At
<1>2. loadPc = "walk" /\ f \in Listed(directory) /\ f.kind = "route"
  BY <1>1 DEF WalkInv, LoadRoute, At
<1>3. todo' = todo \ {f} /\ UNCHANGED <<directory, loadPc, eventSchemas, vendorConfigs, deliveryContracts>>
  BY <1>1 DEF LoadRoute, Advance
<1>4. routingRules' = IF ~f.read THEN Put(routingRules, FileName(f), Failed("unreadable"))
                      ELSE IF f.content.event = None
                      THEN Put(routingRules, FileName(f), Failed("missingEventType"))
                      ELSE Put(routingRules, f.content.event, Loaded(f.content.vendors))
  BY <1>1 DEF LoadRoute, RecordError
<1>5. Sound(f) <=> f.read /\ f.content.event # None
  BY <1>2, SoundIs
<1>6. Sound(f) => Place(f) = f.content.event /\ Record(f) = Loaded(f.content.vendors)
  BY <1>2 DEF Place, Record, KeyOf, ValueOf
<1>7. ~Sound(f) => Place(f) = FileName(f) /\ Record(f) = Failed(Cause(f))
  BY <1>2 DEF Place, Record, NameOf
<1>8. (~f.read => Cause(f) = "unreadable") /\ (f.read => Cause(f) = "missingEventType")
  BY <1>2 DEF Cause
<1>9. routingRules' = Put(routingRules, Place(f), Record(f))
  BY <1>4, <1>5, <1>6, <1>7, <1>8
<1>10. MapOf(f.kind)' = Put(MapOf(f.kind), Place(f), Record(f))
  BY <1>2, <1>9 DEF MapOf
<1>11. \A kind \in Kinds \ {f.kind} : MapOf(kind)' = MapOf(kind)
  BY <1>2, <1>3 DEF MapOf, Kinds
<1> QED
  BY <1>2, <1>3, <1>10, <1>11 DEF Comes, Kinds

LEMMA LoadSchemaComes ==
  ASSUME WalkInv, LoadSchema
  PROVE  \E f \in todo : Comes(f)
<1>1. PICK f \in todo : f = Current
  BY CurrentIsNext DEF LoadSchema, At
<1>2. loadPc = "walk" /\ f \in Listed(directory) /\ f.kind = "schema"
  BY <1>1 DEF WalkInv, LoadSchema, At
<1>3. todo' = todo \ {f} /\ UNCHANGED <<directory, loadPc, routingRules, vendorConfigs, deliveryContracts>>
  BY <1>1 DEF LoadSchema, Advance
<1>4. eventSchemas' = IF ~f.read THEN Put(eventSchemas, FileName(f), Failed("unreadable"))
                      ELSE IF f.content.event = None \/ f.content.schema = None
                      THEN Put(eventSchemas, FileName(f), Failed("missingSchema"))
                      ELSE Put(eventSchemas, f.content.event, Loaded(f.content.schema))
  BY <1>1 DEF LoadSchema, RecordError
<1>5. Sound(f) <=> f.read /\ f.content.event # None /\ f.content.schema # None
  BY <1>2, SoundIs
<1>6. Sound(f) => Place(f) = f.content.event /\ Record(f) = Loaded(f.content.schema)
  BY <1>2 DEF Place, Record, KeyOf, ValueOf
<1>7. ~Sound(f) => Place(f) = FileName(f) /\ Record(f) = Failed(Cause(f))
  BY <1>2 DEF Place, Record, NameOf
<1>8. (~f.read => Cause(f) = "unreadable") /\ (f.read => Cause(f) = "missingSchema")
  BY <1>2 DEF Cause
<1>9. eventSchemas' = Put(eventSchemas, Place(f), Record(f))
  BY <1>4, <1>5, <1>6, <1>7, <1>8
<1>10. MapOf(f.kind)' = Put(MapOf(f.kind), Place(f), Record(f))
  BY <1>2, <1>9 DEF MapOf
<1>11. \A kind \in Kinds \ {f.kind} : MapOf(kind)' = MapOf(kind)
  BY <1>2, <1>3 DEF MapOf, Kinds
<1> QED
  BY <1>2, <1>3, <1>10, <1>11 DEF Comes, Kinds

LEMMA LoadVendorComes ==
  ASSUME WalkInv, LoadVendor
  PROVE  \E f \in todo : Comes(f)
<1>1. PICK f \in todo : f = Current
  BY CurrentIsNext DEF LoadVendor, At
<1>2. loadPc = "walk" /\ f \in Listed(directory) /\ f.kind = "vendor"
  BY <1>1 DEF WalkInv, LoadVendor, At
<1>3. todo' = todo \ {f} /\ UNCHANGED <<directory, loadPc, routingRules, eventSchemas, deliveryContracts>>
  BY <1>1 DEF LoadVendor, Advance
<1>4. vendorConfigs' = IF ~f.read THEN Put(vendorConfigs, FileName(f), Failed("unreadable"))
                       ELSE IF ~f.content.retry.delays
                       THEN Put(vendorConfigs, FileName(f), Failed("badDelay"))
                       ELSE Put(vendorConfigs, FileName(f), Loaded(f.content))
  BY <1>1 DEF LoadVendor, RecordError
<1>5. Sound(f) <=> f.read /\ f.content.retry.delays
  BY <1>2, SoundIs
<1>6. Sound(f) => Place(f) = FileName(f) /\ Record(f) = Loaded(f.content)
  BY <1>2 DEF Place, Record, KeyOf, ValueOf
<1>7. ~Sound(f) => Place(f) = FileName(f) /\ Record(f) = Failed(Cause(f))
  BY <1>2 DEF Place, Record, NameOf
<1>8. (~f.read => Cause(f) = "unreadable") /\ (f.read => Cause(f) = "badDelay")
  BY <1>2 DEF Cause
<1>9. vendorConfigs' = Put(vendorConfigs, Place(f), Record(f))
  BY <1>4, <1>5, <1>6, <1>7, <1>8
<1>10. MapOf(f.kind)' = Put(MapOf(f.kind), Place(f), Record(f))
  BY <1>2, <1>9 DEF MapOf
<1>11. \A kind \in Kinds \ {f.kind} : MapOf(kind)' = MapOf(kind)
  BY <1>2, <1>3 DEF MapOf, Kinds
<1> QED
  BY <1>2, <1>3, <1>10, <1>11 DEF Comes, Kinds

LEMMA LoadContractComes ==
  ASSUME WalkInv, LoadContract
  PROVE  \E f \in todo : Comes(f)
<1>1. PICK f \in todo : f = Current
  BY CurrentIsNext DEF LoadContract, At
<1>2. loadPc = "walk" /\ f \in Listed(directory) /\ f.kind = "contract"
  BY <1>1 DEF WalkInv, LoadContract, At
<1>3. todo' = todo \ {f} /\ UNCHANGED <<directory, loadPc, routingRules, eventSchemas, vendorConfigs>>
  BY <1>1 DEF LoadContract, Advance
<1>4. deliveryContracts' =
        IF ~f.read THEN Put(deliveryContracts, <<f.path[1], FileName(f)>>, Failed("unreadable"))
        ELSE IF f.content.retry # None /\ ~f.content.retry.delays
        THEN Put(deliveryContracts, <<f.path[1], FileName(f), "yaml">>, Failed("badDelay"))
        ELSE Put(deliveryContracts, <<f.path[1], EventOf(f)>>,
                 Loaded([f.content EXCEPT !.event = EventOf(f)]))
  BY <1>1 DEF LoadContract, RecordError
<1>5. Sound(f) <=> f.read /\ (f.content.retry = None \/ f.content.retry.delays)
  BY <1>2, SoundIs
<1>6. Sound(f) => /\ Place(f) = <<f.path[1], EventOf(f)>>
                  /\ Record(f) = Loaded([f.content EXCEPT !.event = EventOf(f)])
  BY <1>2 DEF Place, Record, KeyOf, ValueOf
<1>7. ~Sound(f) => Record(f) = Failed(Cause(f))
  BY DEF Record
<1>8. ~Sound(f) /\ f.read => Place(f) = <<f.path[1], FileName(f), "yaml">>
  BY <1>2 DEF Place
<1>9. ~Sound(f) /\ ~f.read => Place(f) = <<f.path[1], FileName(f)>>
  BY <1>2 DEF Place, NameOf
<1>10. (~f.read => Cause(f) = "unreadable") /\ (f.read => Cause(f) = "badDelay")
  BY <1>2 DEF Cause
<1>11. deliveryContracts' = Put(deliveryContracts, Place(f), Record(f))
  BY <1>4, <1>5, <1>6, <1>7, <1>8, <1>9, <1>10
<1>12. MapOf(f.kind)' = Put(MapOf(f.kind), Place(f), Record(f))
  BY <1>2, <1>11 DEF MapOf
<1>13. \A kind \in Kinds \ {f.kind} : MapOf(kind)' = MapOf(kind)
  BY <1>2, <1>3 DEF MapOf, Kinds
<1> QED
  BY <1>2, <1>3, <1>12, <1>13 DEF Comes, Kinds

(* A file of the walk keeps what the walk knows. *)
LEMMA ComesKeeps ==
  ASSUME LoaderInv, NEW f \in todo, Comes(f)
  PROVE  LoaderInv'
<1>1. /\ loadPc = "walk" /\ f \in Listed(directory) /\ f.kind \in Kinds
      /\ todo' = todo \ {f} /\ directory' = directory /\ loadPc' = "walk"
  BY DEF Comes
<1>2. PICK map : map = MapOf(f.kind)
  OBVIOUS
<1>3. PICK new : new = MapOf(f.kind)'
  OBVIOUS
<1>4. new = Put(map, Place(f), Record(f))
  BY <1>2, <1>3 DEF Comes
<1>5. \A kind \in Kinds \ {f.kind} : MapOf(kind)' = MapOf(kind)
  BY DEF Comes
<1>6. /\ DOMAIN new = DOMAIN map \cup {Place(f)} /\ new[Place(f)] = Record(f)
      /\ \A k \in DOMAIN map \ {Place(f)} : new[k] = map[k]
  BY <1>4 DEF Put
<1>7. WalkInv'
  BY <1>1 DEF LoaderInv, WalkInv
<1>8. \A kind \in Kinds : \A key \in DOMAIN MapOf(kind) :
        \E g \in Listed(directory) \ todo :
          g.kind = kind /\ key = Place(g) /\ MapOf(kind)[key] = Record(g)
  BY <1>1 DEF LoaderInv, RecordedInv
<1>9. f \in Listed(directory) \ todo' /\ Listed(directory) \ todo \subseteq Listed(directory) \ todo'
  BY <1>1
<1>10. RecordedInv'
  <2> SUFFICES ASSUME NEW kind \in Kinds, NEW key \in DOMAIN MapOf(kind)'
               PROVE  \E g \in Listed(directory) \ todo' :
                        g.kind = kind /\ key = Place(g) /\ MapOf(kind)'[key] = Record(g)
    BY <1>1 DEF RecordedInv
  <2>1. CASE kind = f.kind /\ key = Place(f)
    <3>1. MapOf(kind)'[key] = Record(f)
      BY <1>3, <1>6, <2>1
    <3> QED
      BY <1>9, <2>1, <3>1
  <2>2. CASE kind = f.kind /\ key # Place(f)
    <3>1. key \in DOMAIN map /\ MapOf(kind)'[key] = map[key]
      BY <1>3, <1>6, <2>2
    <3>2. PICK g \in Listed(directory) \ todo : g.kind = kind /\ key = Place(g) /\ map[key] = Record(g)
      BY <1>2, <1>8, <2>2, <3>1
    <3> QED
      BY <1>9, <3>1, <3>2
  <2>3. CASE kind # f.kind
    <3>1. MapOf(kind)' = MapOf(kind)
      BY <1>5, <2>3
    <3>2. PICK g \in Listed(directory) \ todo :
            g.kind = kind /\ key = Place(g) /\ MapOf(kind)[key] = Record(g)
      BY <1>8, <3>1
    <3> QED
      BY <1>9, <3>1, <3>2
  <2> QED
    BY <2>1, <2>2, <2>3
<1>11. PlacedInv'
  <2> SUFFICES ASSUME directory.stat = "dir", NEW g \in Listed(directory) \ todo'
               PROVE  Place(g) \in DOMAIN MapOf(g.kind)'
    BY <1>1 DEF PlacedInv
  <2>1. CASE g = f
    BY <1>3, <1>6, <2>1
  <2>2. CASE g # f
    <3>1. Place(g) \in DOMAIN MapOf(g.kind)
      BY <1>1, <2>2 DEF LoaderInv, PlacedInv
    <3>2. g.kind \in Kinds
      BY FileIs, ListedIs DEF LoaderInv, WalkInv
    <3>3. CASE g.kind = f.kind
      BY <1>2, <1>3, <1>6, <3>1, <3>3
    <3>4. CASE g.kind # f.kind
      BY <1>5, <3>1, <3>2, <3>4
    <3> QED
      BY <3>3, <3>4
  <2> QED
    BY <2>1, <2>2
<1>12. UnreadInv' /\ ServedIsOnDisk' /\ FailureIsContained' /\ FailureIsReported'
  BY <1>1 DEF UnreadInv, ServedIsOnDisk, FailureIsContained, FailureIsReported
<1> QED
  BY <1>7, <1>10, <1>11, <1>12 DEF LoaderInv

-----------------------------------------------------------------------------
(* The other steps before the lookups are served. *)
LEMMA StatKeeps ==
  ASSUME LoaderInv, Stat
  PROVE  LoaderInv'
<1>1. /\ loadPc = "stat" /\ loadPc' \in {"fatal", "walk"} /\ directory' = directory
      /\ UNCHANGED <<routingRules, eventSchemas, vendorConfigs, deliveryContracts>>
  BY DEF Stat, loaderMaps
<1>2. \A kind \in Kinds : MapOf(kind)' = MapOf(kind) /\ DOMAIN MapOf(kind) = {}
  BY <1>1 DEF MapOf, LoaderInv, UnreadInv
<1>3. loadPc' = "fatal" => todo' = {}
  BY DEF Stat
<1>4. todo' \in {{}, Listed(directory)}
  BY DEF Stat
<1>5. directory.stat = "dir" /\ loadPc' = "walk" => todo' = Listed(directory)
  BY DEF Stat
<1>6. WalkInv'
  BY <1>1, <1>4 DEF LoaderInv, WalkInv
<1>7. UnreadInv' /\ RecordedInv'
  BY <1>1, <1>2, <1>3 DEF UnreadInv, RecordedInv
<1>8. PlacedInv'
  BY <1>1, <1>5 DEF PlacedInv
<1>9. ServedIsOnDisk' /\ FailureIsContained' /\ FailureIsReported'
  BY <1>1 DEF ServedIsOnDisk, FailureIsContained, FailureIsReported
<1> QED
  BY <1>6, <1>7, <1>8, <1>9 DEF LoaderInv

LEMMA EndOfWalkKeeps ==
  ASSUME LoaderInv, EndOfWalk
  PROVE  LoaderInv'
<1>1. /\ loadPc = "walk" /\ todo = {} /\ loadPc' = "check" /\ directory' = directory /\ todo' = todo
      /\ UNCHANGED <<routingRules, eventSchemas, vendorConfigs, deliveryContracts>>
  BY DEF EndOfWalk, loaderMaps
<1>2. \A kind : MapOf(kind)' = MapOf(kind)
  BY <1>1 DEF MapOf
<1>3. WalkInv'
  BY <1>1 DEF LoaderInv, WalkInv
<1>4. RecordedInv'
  BY <1>1, <1>2 DEF LoaderInv, RecordedInv
<1>5. PlacedInv'
  BY <1>1, <1>2 DEF LoaderInv, PlacedInv
<1>6. UnreadInv' /\ ServedIsOnDisk' /\ FailureIsContained' /\ FailureIsReported'
  BY <1>1 DEF UnreadInv, ServedIsOnDisk, FailureIsContained, FailureIsReported
<1> QED
  BY <1>3, <1>4, <1>5, <1>6 DEF LoaderInv

LEMMA NextProcessKeeps ==
  ASSUME LoaderInv, NextProcess
  PROVE  LoaderInv'
<1>1. /\ loadPc = "fatal" /\ loadPc' = "stat" /\ directory' \in Directories /\ todo' = todo
      /\ UNCHANGED <<routingRules, eventSchemas, vendorConfigs, deliveryContracts>>
  BY DEF NextProcess, loaderMaps
<1>2. \A kind \in Kinds : MapOf(kind)' = MapOf(kind) /\ DOMAIN MapOf(kind) = {}
  BY <1>1 DEF MapOf, LoaderInv, UnreadInv
<1>3. todo = {}
  BY <1>1 DEF LoaderInv, UnreadInv
<1>4. WalkInv'
  BY <1>1, <1>3 DEF WalkInv
<1>5. UnreadInv' /\ RecordedInv'
  BY <1>1, <1>2, <1>3 DEF UnreadInv, RecordedInv
<1>6. PlacedInv' /\ ServedIsOnDisk' /\ FailureIsContained' /\ FailureIsReported'
  BY <1>1 DEF PlacedInv, ServedIsOnDisk, FailureIsContained, FailureIsReported
<1> QED
  BY <1>4, <1>5, <1>6 DEF LoaderInv

-----------------------------------------------------------------------------
(* Where files are found once the walk has ended. *)
AtCheck == WalkInv /\ RecordedInv /\ PlacedInv /\ loadPc = "check"

(* A file is recorded under a key it claims, or where no lookup looks. *)
LEMMA PlaceIs ==
  ASSUME NEW f, f.kind \in Kinds
  PROVE  \/ Place(f) \in Claims(f)
         \/ /\ f.kind = "contract" /\ f.read /\ ~Sound(f)
            /\ Place(f) = <<f.path[1], FileName(f), "yaml">>
BY DEF Place, Claims

LEMMA ContractKeys ==
  ASSUME NEW f, f.kind = "contract"
  PROVE  /\ NameOf(f) = <<f.path[1], FileName(f)>>
         /\ \A key \in Claims(f) : \E e : key = <<f.path[1], e>>
<1>1. NameOf(f) = <<f.path[1], FileName(f)>> /\ KeyOf(f) = <<f.path[1], EventOf(f)>>
  BY DEF NameOf, KeyOf
<1>2. \A key \in Claims(f) : key = NameOf(f) \/ key = KeyOf(f)
  BY DEF Claims
<1> QED
  BY <1>1, <1>2

LEMMA PairIsNoTriple ==
  ASSUME NEW a, NEW b, NEW x, NEW y, NEW z
  PROVE  <<a, b>> # <<x, y, z>>
OBVIOUS

(* No other file takes the place of an undisputed one. *)
LEMMA OwnPlace ==
  ASSUME NEW f \in Listed(directory), NEW g \in Listed(directory), g # f,
         f.kind = g.kind, f.kind \in Kinds, Alone(f)
  PROVE  /\ Place(f) # Place(g)
         /\ NameOf(f) # Place(g)
<1>1. Claims(f) \cap Claims(g) = {}
  BY DEF Alone
<1>2. NameOf(f) \in Claims(f) /\ NameOf(g) \in Claims(g)
  BY DEF Claims
<1>3. CASE Place(g) \in Claims(g)
  <2>1. NameOf(f) # Place(g)
    BY <1>1, <1>2, <1>3
  <2>2. CASE Place(f) \in Claims(f)
    BY <1>1, <1>3, <2>1, <2>2
  <2>3. CASE f.kind = "contract" /\ Place(f) = <<f.path[1], FileName(f), "yaml">>
    <3>1. PICK e : Place(g) = <<g.path[1], e>>
      BY <1>3, <2>3, ContractKeys
    <3> QED
      BY <2>1, <2>3, <3>1, PairIsNoTriple
  <2> QED
    BY <2>2, <2>3, PlaceIs
<1>4. CASE g.kind = "contract" /\ Place(g) = <<g.path[1], FileName(g), "yaml">>
  <2>1. NameOf(f) = <<f.path[1], FileName(f)>> /\ NameOf(g) = <<g.path[1], FileName(g)>>
    BY <1>4, ContractKeys
  <2>2. NameOf(f) # Place(g)
    BY <1>4, <2>1, PairIsNoTriple
  <2>3. CASE Place(f) \in Claims(f)
    <3>1. PICK e : Place(f) = <<f.path[1], e>>
      BY <1>4, <2>3, ContractKeys
    <3> QED
      BY <1>4, <2>2, <3>1, PairIsNoTriple
  <2>4. CASE Place(f) = <<f.path[1], FileName(f), "yaml">>
    <3>1. NameOf(f) # NameOf(g)
      BY <1>1, <1>2
    <3>2. f.path[1] # g.path[1] \/ FileName(f) # FileName(g)
      BY <2>1, <3>1
    <3>3. Place(f) # Place(g)
      BY <1>4, <2>4, <3>2
    <3> QED
      BY <2>2, <3>3
  <2> QED
    BY <2>3, <2>4, PlaceIs
<1> QED
  BY <1>3, <1>4, PlaceIs

(* Its entry is its own. *)
LEMMA OwnRecord ==
  ASSUME AtCheck, directory.stat = "dir", NEW f \in Listed(directory), Alone(f)
  PROVE  Place(f) \in DOMAIN MapOf(f.kind) /\ MapOf(f.kind)[Place(f)] = Record(f)
<1>1. directory \in Directories /\ todo = {} /\ loadPc = "check"
  BY DEF AtCheck, WalkInv
<1>2. f.kind \in Kinds
  BY <1>1, FileIs, ListedIs
<1>3. Place(f) \in DOMAIN MapOf(f.kind)
  BY <1>1 DEF AtCheck, PlacedInv
<1>4. PICK g \in Listed(directory) :
        g.kind = f.kind /\ Place(f) = Place(g) /\ MapOf(f.kind)[Place(f)] = Record(g)
  BY <1>1, <1>2, <1>3 DEF AtCheck, RecordedInv
<1>5. g = f
  BY <1>2, <1>4, OwnPlace
<1> QED
  BY <1>3, <1>4, <1>5

(* A vendor has one file, so that its entry is never disputed. *)
LEMMA VendorRecord ==
  ASSUME AtCheck, directory.stat = "dir", NEW g \in Listed(directory), g.kind = "vendor"
  PROVE  FileName(g) \in DOMAIN vendorConfigs /\ vendorConfigs[FileName(g)] = Record(g)
<1>1. directory \in Directories /\ todo = {} /\ loadPc = "check"
  BY DEF AtCheck, WalkInv
<1>2. ASSUME NEW h \in Listed(directory), h.kind = "vendor"
      PROVE  Place(h) = FileName(h) /\ FileName(h) = h.path[1] /\ Len(h.path) = 1
  <2>1. Place(h) = FileName(h)
    BY <1>2 DEF Place, KeyOf, NameOf
  <2>2. Len(h.path) = 1
    BY <1>1, <1>2, ListedIs, DirectoriesAssumption
  <2> QED
    BY <2>1, <2>2 DEF FileName
<1>3. MapOf("vendor") = vendorConfigs
  BY DEF MapOf
<1>4. FileName(g) \in DOMAIN vendorConfigs
  BY <1>1, <1>2, <1>3 DEF AtCheck, PlacedInv
<1>5. PICK h \in Listed(directory) :
        h.kind = "vendor" /\ FileName(g) = Place(h) /\ vendorConfigs[FileName(g)] = Record(h)
  BY <1>1, <1>3, <1>4 DEF AtCheck, RecordedInv, Kinds
<1>6. h = g
  <2>1. PICK p \in Seq(Int) : p = g.path
    BY <1>1, FileIs, ListedIs
  <2>2. PICK q \in Seq(Int) : q = h.path
    BY <1>1, FileIs, ListedIs
  <2>3. Len(p) = 1 /\ Len(q) = 1 /\ p[1] = q[1]
    BY <1>2, <1>5, <2>1, <2>2
  <2>4. p = q
    BY <2>3
  <2>5. g \in directory.files /\ h \in directory.files
    BY <1>1, ListedIs
  <2>6. \A e, f \in directory.files : e.kind = f.kind /\ e.path = f.path => e = f
    BY <1>1, DirectoriesAssumption
  <2>7. h.kind = g.kind /\ h.path = g.path
    BY <1>5, <2>1, <2>2, <2>4
  <2> QED
    BY <2>5, <2>6, <2>7
<1> QED
  BY <1>4, <1>5, <1>6

-----------------------------------------------------------------------------
(* The loaded entries of a map are what usable files of a kind say. *)
OnDisk(kind, map, files) ==
  \A key \in DOMAIN map : IsLoaded(map[key]) =>
    \E f \in files : /\ f.kind = kind /\ Sound(f) /\ KeyOf(f) = key
                     /\ map[key].value = ValueOf(f)

LEMMA LoadedIsOnDisk ==
  ASSUME AtCheck, NEW kind \in Kinds, NEW map, DOMAIN map = DOMAIN MapOf(kind),
         \A key \in DOMAIN map : map[key] = MapOf(kind)[key] \/ ~IsLoaded(map[key])
  PROVE  OnDisk(kind, map, Listed(directory))
<1> SUFFICES ASSUME NEW key \in DOMAIN map, IsLoaded(map[key])
             PROVE  \E f \in Listed(directory) : /\ f.kind = kind /\ Sound(f) /\ KeyOf(f) = key
                                               /\ map[key].value = ValueOf(f)
  BY DEF OnDisk
<1>1. map[key] = MapOf(kind)[key]
  OBVIOUS
<1>2. PICK f \in Listed(directory) : f.kind = kind /\ key = Place(f) /\ MapOf(kind)[key] = Record(f)
  BY DEF AtCheck, RecordedInv
<1>3. Sound(f)
  BY <1>1, <1>2, LoadedOrFailed DEF Record
<1>4. key = KeyOf(f) /\ map[key].value = ValueOf(f)
  BY <1>1, <1>2, <1>3, LoadedOrFailed DEF Record, Place
<1> QED
  BY <1>2, <1>3, <1>4

(* validateCrossConfig only turns values into errors. *)
LEMMA ChecksOnlyFail ==
  ASSUME NEW lv
  PROVE  /\ CheckedRules(lv) = lv \/ ~IsLoaded(CheckedRules(lv))
         /\ CheckedContract(lv) = lv \/ ~IsLoaded(CheckedContract(lv))
         /\ ~IsLoaded(lv) => CheckedRules(lv) = lv /\ CheckedContract(lv) = lv
BY LoadedOrFailed DEF CheckedRules, CheckedContract

LEMMA CrossConfigServes ==
  ASSUME AtCheck, ValidateCrossConfig
  PROVE  ServedIsOnDisk'
<1>1. /\ directory' = directory /\ UNCHANGED <<eventSchemas, vendorConfigs>>
      /\ routingRules' = [e \in DOMAIN routingRules |-> CheckedRules(routingRules[e])]
      /\ deliveryContracts' = [k \in DOMAIN deliveryContracts |->
                                 CheckedContract(deliveryContracts[k])]
  BY DEF ValidateCrossConfig
<1>2. /\ MapOf("route") = routingRules /\ MapOf("schema") = eventSchemas
      /\ MapOf("vendor") = vendorConfigs /\ MapOf("contract") = deliveryContracts
  BY DEF MapOf
<1>3. OnDisk("route", routingRules', Listed(directory))
  <2>1. DOMAIN routingRules' = DOMAIN routingRules
    BY <1>1
  <2>2. \A key \in DOMAIN routingRules : routingRules'[key] = CheckedRules(routingRules[key])
    BY <1>1
  <2>3. \A key \in DOMAIN routingRules' :
          routingRules'[key] = routingRules[key] \/ ~IsLoaded(routingRules'[key])
    BY <2>1, <2>2, ChecksOnlyFail
  <2>4. PICK map : map = routingRules'
    OBVIOUS
  <2>5. OnDisk("route", map, Listed(directory))
    BY <1>2, <2>1, <2>3, <2>4, LoadedIsOnDisk DEF Kinds
  <2> QED
    BY <2>4, <2>5
<1>4. OnDisk("contract", deliveryContracts', Listed(directory))
  <2>1. DOMAIN deliveryContracts' = DOMAIN deliveryContracts
    BY <1>1
  <2>2. \A key \in DOMAIN deliveryContracts :
          deliveryContracts'[key] = CheckedContract(deliveryContracts[key])
    BY <1>1
  <2>3. \A key \in DOMAIN deliveryContracts' :
          deliveryContracts'[key] = deliveryContracts[key] \/ ~IsLoaded(deliveryContracts'[key])
    BY <2>1, <2>2, ChecksOnlyFail
  <2>4. PICK map : map = deliveryContracts'
    OBVIOUS
  <2>5. OnDisk("contract", map, Listed(directory))
    BY <1>2, <2>1, <2>3, <2>4, LoadedIsOnDisk DEF Kinds
  <2> QED
    BY <2>4, <2>5
<1>5. OnDisk("schema", eventSchemas, Listed(directory)) /\ OnDisk("vendor", vendorConfigs, Listed(directory))
  BY <1>2, LoadedIsOnDisk DEF Kinds
<1>6. ASSUME NEW kind \in Kinds
      PROVE  OnDisk(kind, MapOf(kind)', Listed(directory))
  BY <1>1, <1>3, <1>4, <1>5 DEF Kinds, MapOf
<1> QED
  BY <1>1, <1>6, TurnIs DEF ServedIsOnDisk, OnDisk

(* A contract that contradicts no schema names declared fields only. *)
LEMMA NothingUndeclared ==
  ASSUME AtCheck, NEW f \in Listed(directory), f.kind = "contract", Sound(f), ~Contradicts(f)
  PROVE  Undeclared(ValueOf(f)) = {}
<1>1. {"event", "body"} \subseteq DOMAIN f.content
  <2>1. f.read /\ directory \in Directories
    BY SoundIs DEF AtCheck, WalkInv
  <2> QED
    BY <2>1, ListedIs, DirectoriesAssumption
<1>2. PICK spec : spec = ValueOf(f)
  OBVIOUS
<1>3. spec = [f.content EXCEPT !.event = EventOf(f)]
  BY <1>2 DEF ValueOf
<1>4. spec.event = EventOf(f) /\ spec.body = f.content.body
  BY <1>1, <1>3
<1>5. PICK lv : lv = Find(eventSchemas, EventOf(f))
  OBVIOUS
<1>6. Undeclared(spec) = IF ~IsLoaded(lv) \/ lv.value.node.properties = None THEN {}
                         ELSE ExtractPayloadRefs(f.content.body.template)
                                \ DOMAIN lv.value.node.properties
  BY <1>4, <1>5 DEF Undeclared
<1>7. CASE IsLoaded(lv) /\ lv.value.node.properties # None
  <2>1. EventOf(f) \in DOMAIN eventSchemas /\ lv = eventSchemas[EventOf(f)]
    BY <1>5, <1>7, LoadedOrFailed DEF Find
  <2>2. OnDisk("schema", eventSchemas, Listed(directory))
    BY LoadedIsOnDisk DEF Kinds, MapOf
  <2>3. PICK g \in Listed(directory) : /\ g.kind = "schema" /\ Sound(g) /\ KeyOf(g) = EventOf(f)
                                     /\ lv.value = ValueOf(g)
    BY <1>7, <2>1, <2>2 DEF OnDisk
  <2>4. g.content.event = EventOf(f) /\ lv.value = g.content.schema
    BY <2>3 DEF KeyOf, ValueOf
  <2>5. ExtractPayloadRefs(f.content.body.template) \subseteq DOMAIN lv.value.node.properties
    BY <1>7, <2>3, <2>4 DEF Contradicts
  <2> QED
    BY <1>2, <1>6, <2>5
<1>8. CASE ~IsLoaded(lv) \/ lv.value.node.properties = None
  BY <1>2, <1>6, <1>8
<1> QED
  BY <1>7, <1>8

LEMMA CrossConfigContains ==
  ASSUME AtCheck, ValidateCrossConfig
  PROVE  FailureIsContained'
<1>1. /\ directory' = directory /\ UNCHANGED <<eventSchemas, vendorConfigs>>
      /\ routingRules' = [e \in DOMAIN routingRules |-> CheckedRules(routingRules[e])]
      /\ deliveryContracts' = [k \in DOMAIN deliveryContracts |->
                                 CheckedContract(deliveryContracts[k])]
  BY DEF ValidateCrossConfig
<1> SUFFICES ASSUME directory.stat = "dir", NEW f \in Listed(directory),
                    Sound(f), Alone(f), ~Contradicts(f)
             PROVE  IsLoaded(Entry(f.kind, KeyOf(f)))'
  BY <1>1 DEF FailureIsContained, Alone, Contradicts
<1>2. directory \in Directories
  BY DEF AtCheck, WalkInv
<1>3. PICK key : key = KeyOf(f)
  OBVIOUS
<1>4. key \in DOMAIN MapOf(f.kind) /\ MapOf(f.kind)[key] = Loaded(ValueOf(f))
  BY <1>3, OwnRecord DEF Place, Record
<1>5. CASE f.kind = "route"
  <2>1. key \in DOMAIN routingRules /\ routingRules[key] = Loaded(f.content.vendors)
    BY <1>4, <1>5 DEF MapOf, ValueOf
  <2>2. \A v \in f.content.vendors : KnownVendor(v)
    BY <1>5, VendorRecord DEF Contradicts, KnownVendor
  <2>3. CheckedRules(routingRules[key]) = Loaded(f.content.vendors)
    BY <2>1, <2>2, LoadedOrFailed DEF CheckedRules
  <2>4. key \in DOMAIN routingRules' /\ routingRules'[key] = Loaded(f.content.vendors)
    BY <1>1, <2>1, <2>3
  <2>5. Entry(f.kind, KeyOf(f))' = Find(routingRules', key)
    BY <1>3, <1>5 DEF Entry, GetRoutingRules
  <2> QED
    BY <2>4, <2>5, LoadedOrFailed DEF Find
<1>6. CASE f.kind = "schema"
  <2>1. key \in DOMAIN eventSchemas /\ IsLoaded(eventSchemas[key])
    BY <1>4, <1>6, LoadedOrFailed DEF MapOf
  <2>2. Entry(f.kind, KeyOf(f))' = Find(eventSchemas', key)
    BY <1>3, <1>6 DEF Entry, GetEventSchema
  <2> QED
    BY <1>1, <2>1, <2>2 DEF Find
<1>7. CASE f.kind = "vendor"
  <2>1. key \in DOMAIN vendorConfigs /\ IsLoaded(vendorConfigs[key])
    BY <1>4, <1>7, LoadedOrFailed DEF MapOf
  <2>2. Entry(f.kind, KeyOf(f))' = Find(vendorConfigs', key)
    BY <1>3, <1>7 DEF Entry, GetVendorConfig
  <2> QED
    BY <1>1, <2>1, <2>2 DEF Find
<1>8. CASE f.kind = "contract"
  <2>1. PICK v : v = f.path[1]
    OBVIOUS
  <2>2. PICK e : e = EventOf(f)
    OBVIOUS
  <2>3. key = <<v, e>> /\ key[1] = v /\ key[2] = e
    BY <1>3, <1>8, <2>1, <2>2 DEF KeyOf
  <2>4. Entry(f.kind, KeyOf(f))' = GetDeliverySpec(v, e)'
    BY <1>3, <1>8, <2>3 DEF Entry
  <2>5. IsLoaded(Find(vendorConfigs, v))
    <3>1. PICK g \in Listed(directory) : g.kind = "vendor" /\ FileName(g) = v
      BY <1>2, <1>8, <2>1, ListedIs
    <3>2. Sound(g)
      BY <1>8, <2>1, <3>1 DEF Contradicts
    <3>3. v \in DOMAIN vendorConfigs /\ vendorConfigs[v] = Loaded(ValueOf(g))
      BY <3>1, <3>2, VendorRecord DEF Record
    <3> QED
      BY <3>3, LoadedOrFailed DEF Find
  <2>6. IsLoaded(Find(deliveryContracts, <<v, e>>)')
    <3>1. key \in DOMAIN deliveryContracts /\ deliveryContracts[key] = Loaded(ValueOf(f))
      BY <1>4, <1>8 DEF MapOf
    <3>2. CheckedContract(deliveryContracts[key]) = Loaded(ValueOf(f))
      BY <1>8, <3>1, NothingUndeclared, LoadedOrFailed DEF CheckedContract
    <3>3. key \in DOMAIN deliveryContracts' /\ deliveryContracts'[key] = Loaded(ValueOf(f))
      BY <1>1, <3>1, <3>2
    <3> QED
      BY <2>3, <3>3, LoadedOrFailed DEF Find
  <2>7. IsLoaded(Find(vendorConfigs, v)')
    BY <1>1, <2>5 DEF Find
  <2>8. IsLoaded(GetDeliverySpec(v, e)')
    BY <2>6, <2>7, LoadedOrFailed DEF GetDeliverySpec, GetVendorConfig
  <2> QED
    BY <2>4, <2>8
<1> QED
  BY <1>2, <1>5, <1>6, <1>7, <1>8, FileIs, ListedIs DEF Kinds

LEMMA CrossConfigReports ==
  ASSUME AtCheck, ValidateCrossConfig
  PROVE  FailureIsReported'
<1>1. /\ directory' = directory /\ UNCHANGED <<eventSchemas, vendorConfigs>>
      /\ routingRules' = [e \in DOMAIN routingRules |-> CheckedRules(routingRules[e])]
      /\ deliveryContracts' = [k \in DOMAIN deliveryContracts |->
                                 CheckedContract(deliveryContracts[k])]
  BY DEF ValidateCrossConfig
<1> SUFFICES ASSUME directory.stat = "dir", NEW f \in Listed(directory), ~Sound(f), Alone(f)
             PROVE  IF UnsoundVendors(f) # {}
                    THEN \E g \in UnsoundVendors(f) : Entry(f.kind, NameOf(f))' = Failed(Cause(g))
                    ELSE IF Misfiled(f) THEN Entry(f.kind, NameOf(f))' = ErrNotConfigured
                    ELSE Entry(f.kind, NameOf(f))' = Failed(Cause(f))
  <2>1. \A f \in Listed(directory) : Alone(f)' <=> Alone(f)
    BY <1>1 DEF Alone
  <2>2. \A f \in Listed(directory) : UnsoundVendors(f)' = UnsoundVendors(f)
    BY <1>1 DEF UnsoundVendors
  <2> QED
    BY <1>1, <2>1, <2>2 DEF FailureIsReported
<1>2. directory \in Directories
  BY DEF AtCheck, WalkInv
<1>3. f.kind \in Kinds
  BY <1>2, FileIs, ListedIs
<1>4. PICK name : name = NameOf(f)
  OBVIOUS
<1>5. \A g : ~IsLoaded(Failed(Cause(g))) /\ Failed(Cause(g)) # ErrNotConfigured
  BY CauseIs, LoadedOrFailed
<1>6. Place(f) \in DOMAIN MapOf(f.kind) /\ MapOf(f.kind)[Place(f)] = Failed(Cause(f))
  BY OwnRecord DEF Record
<1>7. f.kind # "contract" \/ ~f.read => Place(f) = name
  BY <1>4 DEF Place
<1>8. CASE f.kind = "route"
  <2>1. name \in DOMAIN routingRules /\ routingRules[name] = Failed(Cause(f))
    BY <1>6, <1>7, <1>8 DEF MapOf
  <2>2. name \in DOMAIN routingRules' /\ routingRules'[name] = Failed(Cause(f))
    BY <1>1, <1>5, <2>1, ChecksOnlyFail
  <2>3. Entry(f.kind, NameOf(f))' = Find(routingRules', name)
    BY <1>4, <1>8 DEF Entry, GetRoutingRules
  <2>4. Entry(f.kind, NameOf(f))' = Failed(Cause(f))
    BY <2>2, <2>3 DEF Find
  <2> QED
    BY <1>8, <2>4 DEF UnsoundVendors, Misfiled
<1>9. CASE f.kind = "schema"
  <2>1. name \in DOMAIN eventSchemas /\ eventSchemas[name] = Failed(Cause(f))
    BY <1>6, <1>7, <1>9 DEF MapOf
  <2>2. Entry(f.kind, NameOf(f))' = Find(eventSchemas', name)
    BY <1>4, <1>9 DEF Entry, GetEventSchema
  <2>3. Entry(f.kind, NameOf(f))' = Failed(Cause(f))
    BY <1>1, <2>1, <2>2 DEF Find
  <2> QED
    BY <1>9, <2>3 DEF UnsoundVendors, Misfiled
<1>10. CASE f.kind = "vendor"
  <2>1. name \in DOMAIN vendorConfigs /\ vendorConfigs[name] = Failed(Cause(f))
    BY <1>6, <1>7, <1>10 DEF MapOf
  <2>2. Entry(f.kind, NameOf(f))' = Find(vendorConfigs', name)
    BY <1>4, <1>10 DEF Entry, GetVendorConfig
  <2>3. Entry(f.kind, NameOf(f))' = Failed(Cause(f))
    BY <1>1, <2>1, <2>2 DEF Find
  <2> QED
    BY <1>10, <2>3 DEF UnsoundVendors, Misfiled
<1>11. CASE f.kind = "contract"
  <2>1. PICK v : v = f.path[1]
    OBVIOUS
  <2>2. PICK n : n = FileName(f)
    OBVIOUS
  <2>3. name = <<v, n>> /\ name[1] = v /\ name[2] = n
    BY <1>4, <1>11, <2>1, <2>2 DEF NameOf
  <2>4. Entry(f.kind, NameOf(f))' = GetDeliverySpec(v, n)'
    BY <1>4, <1>11, <2>3 DEF Entry
  <2>5. PICK g \in Listed(directory) : g.kind = "vendor" /\ FileName(g) = v
    BY <1>2, <1>11, <2>1, ListedIs
  <2>6. v \in DOMAIN vendorConfigs /\ vendorConfigs[v] = Record(g)
    BY <2>5, VendorRecord
  <2>7. PICK vendor : vendor = Find(vendorConfigs, v)'
    OBVIOUS
  <2>8. vendor = Record(g)
    BY <1>1, <2>6, <2>7 DEF Find
  <2>9. PICK contract : contract = Find(deliveryContracts, <<v, n>>)'
    OBVIOUS
  <2>10. contract = IF f.read THEN ErrNotConfigured ELSE Failed(Cause(f))
    <3>1. CASE ~f.read
      <4>1. name \in DOMAIN deliveryContracts /\ deliveryContracts[name] = Failed(Cause(f))
        BY <1>6, <1>7, <1>11, <3>1 DEF MapOf
      <4>2. name \in DOMAIN deliveryContracts' /\ deliveryContracts'[name] = Failed(Cause(f))
        BY <1>1, <1>5, <4>1, ChecksOnlyFail
      <4>3. contract = Failed(Cause(f))
        BY <2>3, <2>9, <4>2 DEF Find
      <4> QED
        BY <3>1, <4>3
    <3>2. CASE f.read
      <4>1. name \notin DOMAIN deliveryContracts
        <5> SUFFICES ASSUME name \in DOMAIN deliveryContracts
                     PROVE  FALSE
          OBVIOUS
        <5>1. PICK h \in Listed(directory) : h.kind = "contract" /\ name = Place(h)
          BY DEF AtCheck, RecordedInv, Kinds, MapOf
        <5>2. Place(f) = <<f.path[1], FileName(f), "yaml">>
          BY <1>11, <3>2 DEF Place
        <5>3. h # f
          BY <2>3, <5>1, <5>2, PairIsNoTriple
        <5> QED
          BY <1>3, <1>4, <1>11, <5>1, <5>3, OwnPlace
      <4>2. name \notin DOMAIN deliveryContracts'
        BY <1>1, <4>1
      <4>3. contract = ErrNotConfigured
        BY <2>3, <2>9, <4>2 DEF Find
      <4> QED
        BY <3>2, <4>3
    <3> QED
      BY <3>1, <3>2
  <2>11. g \in UnsoundVendors(f) <=> ~Sound(g)
    BY <1>11, <2>1, <2>5 DEF UnsoundVendors
  <2>12. Misfiled(f) <=> f.read
    BY <1>11 DEF Misfiled
  <2>13. ASSUME NEW h \in UnsoundVendors(f)
         PROVE  ~Sound(g)
    <3>1. h \in Listed(directory) /\ h.kind = "vendor" /\ FileName(h) = v /\ ~Sound(h)
      BY <2>1 DEF UnsoundVendors
    <3>2. Record(h) = Record(g)
      BY <2>5, <2>6, <3>1, VendorRecord
    <3> QED
      BY <3>1, <3>2, LoadedOrFailed DEF Record
  <2>14. CASE ~Sound(g)
    <3>1. vendor = Failed(Cause(g)) /\ ~IsLoaded(vendor)
      BY <2>8, <2>14, LoadedOrFailed DEF Record
    <3>2. GetDeliverySpec(v, n)' = vendor
      BY <2>7, <3>1 DEF GetDeliverySpec, GetVendorConfig
    <3> QED
      BY <2>4, <2>11, <2>14, <3>1, <3>2
  <2>15. CASE Sound(g)
    <3>1. IsLoaded(vendor) /\ ~IsLoaded(contract)
      BY <2>8, <2>10, <2>15, LoadedOrFailed DEF Record
    <3>2. GetDeliverySpec(v, n)' = contract
      BY <2>7, <2>9, <3>1 DEF GetDeliverySpec, GetVendorConfig
    <3>3. UnsoundVendors(f) = {}
      BY <2>13, <2>15
    <3> QED
      BY <2>4, <2>10, <2>12, <3>2, <3>3
  <2> QED
    BY <2>14, <2>15
<1> QED
  BY <1>3, <1>8, <1>9, <1>10, <1>11 DEF Kinds

LEMMA ValidateCrossConfigKeeps ==
  ASSUME LoaderInv, ValidateCrossConfig
  PROVE  LoaderInv'
<1>1. AtCheck
  BY DEF LoaderInv, AtCheck, ValidateCrossConfig
<1>2. loadPc' = "serving" /\ directory' = directory /\ todo' = todo /\ loadPc = "check"
  BY DEF ValidateCrossConfig
<1>3. WalkInv' /\ UnreadInv' /\ RecordedInv' /\ PlacedInv'
  BY <1>2 DEF LoaderInv, WalkInv, UnreadInv, RecordedInv, PlacedInv
<1> QED
  BY <1>1, <1>3, CrossConfigServes, CrossConfigContains, CrossConfigReports DEF LoaderInv

-----------------------------------------------------------------------------
LEMMA NewLoaderInv ==
  ASSUME NewLoader
  PROVE  LoaderInv
<1>1. \A kind \in Kinds : DOMAIN MapOf(kind) = {}
  BY DEF NewLoader, MapOf
<1>2. WalkInv /\ UnreadInv /\ RecordedInv /\ PlacedInv
  BY <1>1 DEF NewLoader, WalkInv, UnreadInv, RecordedInv, PlacedInv
<1>3. ServedIsOnDisk /\ FailureIsContained /\ FailureIsReported
  BY DEF NewLoader, ServedIsOnDisk, FailureIsContained, FailureIsReported
<1> QED
  BY <1>2, <1>3 DEF LoaderInv

LEMMA LoaderStutters ==
  ASSUME LoaderInv, UNCHANGED loaderVars
  PROVE  LoaderInv'
<1>1. UNCHANGED <<directory, loadPc, todo, routingRules, eventSchemas, vendorConfigs, deliveryContracts>>
  BY DEF loaderVars, loaderMaps
<1>2. \A kind : MapOf(kind)' = MapOf(kind)
  BY <1>1 DEF MapOf
<1>3. WalkInv' /\ UnreadInv' /\ RecordedInv' /\ PlacedInv'
  BY <1>1, <1>2 DEF LoaderInv, WalkInv, UnreadInv, RecordedInv, PlacedInv
<1>4. ServedIsOnDisk'
  BY <1>1, <1>2 DEF LoaderInv, ServedIsOnDisk
<1>5. \A kind, key : Entry(kind, key)' = Entry(kind, key)
  BY <1>1 DEF Entry, GetRoutingRules, GetEventSchema, GetVendorConfig, GetDeliverySpec, Find
<1>6. FailureIsContained'
  BY <1>1, <1>5 DEF LoaderInv, FailureIsContained, Alone, Contradicts
<1>7. FailureIsReported'
  BY <1>1, <1>5 DEF LoaderInv, FailureIsReported, Alone, UnsoundVendors
<1> QED
  BY <1>3, <1>4, <1>6, <1>7 DEF LoaderInv

LEMMA LoaderStepKeeps ==
  ASSUME LoaderInv, LoaderNext
  PROVE  LoaderInv'
<1>1. WalkInv
  BY DEF LoaderInv
<1>2. CASE LoadRoute \/ LoadSchema \/ LoadVendor \/ LoadContract
  <2>1. \E f \in todo : Comes(f)
    BY <1>1, <1>2, LoadRouteComes, LoadSchemaComes, LoadVendorComes, LoadContractComes
  <2> QED
    BY <2>1, ComesKeeps
<1>3. CASE Stat
  BY <1>3, StatKeeps
<1>4. CASE EndOfWalk
  BY <1>4, EndOfWalkKeeps
<1>5. CASE ValidateCrossConfig
  BY <1>5, ValidateCrossConfigKeeps
<1>6. CASE NextProcess
  BY <1>6, NextProcessKeeps
<1> QED
  BY <1>2, <1>3, <1>4, <1>5, <1>6 DEF LoaderNext

LEMMA LoaderInvariance == LoaderSpec => []LoaderInv
<1>1. NewLoader => LoaderInv
  BY NewLoaderInv
<1>2. LoaderInv /\ [LoaderNext]_loaderVars => LoaderInv'
  BY LoaderStepKeeps, LoaderStutters
<1> QED
  BY <1>1, <1>2, PTL DEF LoaderSpec

-----------------------------------------------------------------------------
(***************************************************************************)
(* For every directory and whatever extractPayloadRefs finds in templates: *)
(* an entry that a lookup serves is what one usable file says of that key. *)
(***************************************************************************)
THEOREM ServesWhatIsOnDisk == LoaderSpec => []ServedIsOnDisk
<1>1. LoaderInv => ServedIsOnDisk
  BY DEF LoaderInv
<1> QED
  BY <1>1, LoaderInvariance, PTL

(***************************************************************************)
(* recordError: a file that cannot be used, or two that contradict each    *)
(* other, leave every undisputed usable file served.                       *)
(***************************************************************************)
THEOREM PartialAvailability == LoaderSpec => []FailureIsContained
<1>1. LoaderInv => FailureIsContained
  BY DEF LoaderInv
<1> QED
  BY <1>1, LoaderInvariance, PTL

(***************************************************************************)
(* For every directory: the lookup of the name of a file that the walk     *)
(* came to and that cannot be used answers with the file's own cause, with *)
(* its vendor's when the vendor cannot be used either, and with "not       *)
(* configured" for a contract with a bad retry_policy.                     *)
(***************************************************************************)
THEOREM CausesAreFound == LoaderSpec => []FailureIsReported
<1>1. LoaderInv => FailureIsReported
  BY DEF LoaderInv
<1> QED
  BY <1>1, LoaderInvariance, PTL
=============================================================================
