-------------------------- MODULE GeoRecord_proofs --------------------------
(***************************************************************************)
(* What a walk keeps of a record and what the merge makes of it, for every *)
(* data section, pair of files and bound: the walk stays within MAX_FIELDS *)
(* and MAX_BYTES and keeps the leaves in source order up to the first that *)
(* does not fit; what it kept reaches the consumer; no field is pieced     *)
(* together from two databases; and a value reads back as it was written,  *)
(* or, being a double that is not finite, refuses the record.              *)
(***************************************************************************)
EXTENDS GeoRecord, Iteration_proofs, SequenceTheorems

(* A leaf is kept only while there is room for one more, which full        *)
(* remembers; the rest types what the step that keeps one reads.           *)
WalkInv ==
  /\ file \in [Slot -> CityFiles \cup AsnFiles]
  /\ slot \in Slot \cup {"done"}
  /\ stack \in Seq(Visitor)
  /\ kept \in Seq(KeptLeaf)
  /\ bytes \in Int
  /\ Len(kept) <= MaxFields
  /\ bytes <= MaxBytes
  /\ ~full => Len(kept) < MaxFields

(* A leaf as it is kept has a kind of the map's.                           *)
LEMMA ValueIsExtra == ASSUME NEW leaf \in Leaf PROVE Value(leaf) \in ExtraValue
  BY DEF Leaf, WireKind, Value, ExtraValue

(* What a leaf costs is a whole number of bytes.                           *)
LEMMA CostIsWhole ==
  ASSUME NEW path \in Seq(STRING), NEW value \in ExtraValue PROVE Cost(path, value) \in Int
  BY DEF Cost, ExtraValue

(* A map and an array have entries, and a node that is neither is a leaf.  *)
LEMMA NodeIsEither ==
  ASSUME NEW n \in Node
  PROVE /\ n \in Container => Data[n].entries \in Seq(Entry)
        /\ Data[n].kind \in WireKind => Data[n] \in Leaf
        /\ Data[n].kind \notin WireKind => n \in Container
<1>1. Data[n] \in Leaf \cup Map \cup Array
  BY GeoRecordAssumption
<1>2. ASSUME Data[n] \in Leaf PROVE Data[n].kind \in WireKind /\ n \notin Container
  BY <1>2 DEF Leaf, WireKind, Container
<1>3. ASSUME Data[n] \in Map \cup Array
      PROVE /\ Data[n].kind \in {"map", "array"} /\ Data[n].kind \notin WireKind
            /\ Data[n].entries \in Seq(Entry)
  BY <1>3 DEF Map, Array, WireKind
<1>4. QED
  BY <1>1, <1>2, <1>3 DEF Container

(* At least one leaf may be kept.                                          *)
LEMMA BoundsAreNumbers == MaxFields \in Nat /\ MaxFields > 0 /\ MaxBytes \in Nat
<1>1. MaxFields \in Nat \ {0} /\ MaxBytes \in Nat
  BY GeoRecordAssumption
<1>2. QED
  BY <1>1

(* A walk that has kept nothing is within both bounds.                     *)
LEMMA NothingIsWithin ==
  <<>> \in Seq(KeptLeaf) /\ <<>> \in Seq(Visitor) /\ Len(<<>>) < MaxFields /\ 0 <= MaxBytes
  BY BoundsAreNumbers

(* Nothing is held before the first walk.                                  *)
LEMMA InitWalk == Init => WalkInv
<1> SUFFICES ASSUME Init PROVE WalkInv
  OBVIOUS
<1>1. file \in [Slot -> CityFiles \cup AsnFiles] /\ slot \in Slot
  BY DEF Init, Slot
<1>2. stack = <<>> /\ kept = <<>> /\ bytes = 0 /\ full = FALSE
  BY DEF Init
<1>3. stack \in Seq(Visitor) /\ kept \in Seq(KeptLeaf) /\ Len(kept) < MaxFields
  BY <1>2, NothingIsWithin
<1>4. Len(kept) <= MaxFields /\ bytes \in Int /\ bytes <= MaxBytes
  BY <1>2, <1>3, BoundsAreNumbers
<1>5. QED
  BY <1>1, <1>2, <1>3, <1>4 DEF WalkInv

(* A database that answers has a record to walk.                           *)
LEMMA AnswersWithRecord ==
  ASSUME NEW s \in Slot, NEW at \in CityFiles \cup AsnFiles, ReadOf(s, at) # Refused
  PROVE at.root \in Container
<1>1. at \in File \cup {None}
  BY GeoRecordAssumption
<1>2. at # None /\ at.root # None
  BY DEF ReadOf, ReadIpInfo, ReadCity, ReadAsn
<1>3. QED
  BY <1>1, <1>2 DEF File

(* The innermost visitor, while one is under way.                          *)
LEMMA TopIsVisitor ==
  ASSUME stack \in Seq(Visitor), stack # <<>>
  PROVE Top \in Visitor /\ Below \in Seq(Visitor)
  BY DEF Top, Below

(* One entry more leaves what is held within both bounds.                  *)
LEMMA AskWalk == WalkInv /\ Ask => WalkInv'
<1> SUFFICES ASSUME WalkInv, Ask PROVE WalkInv'
  OBVIOUS
<1> DEFINE entry == Entries[Top.next]
<1> DEFINE path == Append(Top.path, entry.key)
<1>1. Top \in Visitor /\ Below \in Seq(Visitor)
  BY TopIsVisitor DEF Ask, WalkInv
<1>2. Top.node \in Node /\ Entries \in Seq(Entry)
  BY <1>1, NodeIsEither DEF Visitor, Container, Entries
<1>3. Top.next \in DOMAIN Entries
  BY <1>1, <1>2 DEF Ask, Visitor
<1>4. entry \in Entry
  BY <1>2, <1>3
<1>5. path \in Seq(STRING)
  BY <1>1, <1>4 DEF Visitor, Entry
<1>6. Asked(path) \in Seq(Visitor)
  <2>1. [Top EXCEPT !.next = @ + 1] \in Visitor
    BY <1>1 DEF Visitor
  <2>2. QED
    BY <1>1, <2>1 DEF Asked
<1>7. entry.node \in Node
  BY <1>4 DEF Entry
<1> HIDE DEF entry, path
<1>8. CASE Data[entry.node].kind \in WireKind
  <2>1. Keep(path, Value(Data[entry.node])) /\ stack' = Asked(path)
    BY <1>8 DEF Ask, entry, path
  <2>2. Value(Data[entry.node]) \in ExtraValue
    BY <1>7, <1>8, NodeIsEither, ValueIsExtra
  <2> DEFINE value == Value(Data[entry.node])
  <2>3. Cost(path, value) \in Int /\ <<path, value>> \in KeptLeaf
    BY <1>5, <2>2, CostIsWhole DEF KeptLeaf
  <2>4. UNCHANGED <<file, slot>> /\ ~full
    BY DEF Ask
  <2>5. CASE bytes + Cost(path, value) > MaxBytes
    BY <1>6, <2>1, <2>4, <2>5 DEF Keep, WalkInv
  <2>6. CASE ~(bytes + Cost(path, value) > MaxBytes)
    <3>1. /\ kept' = Append(kept, <<path, value>>)
          /\ bytes' = bytes + Cost(path, value)
          /\ full' = (Len(kept') >= MaxFields)
      BY <2>1, <2>6 DEF Keep
    <3>2. kept' \in Seq(KeptLeaf) /\ Len(kept') = Len(kept) + 1
      BY <2>3, <3>1 DEF WalkInv
    <3>3. Len(kept) \in Nat /\ MaxFields \in Nat /\ MaxBytes \in Nat
      BY BoundsAreNumbers DEF WalkInv
    <3>4. Len(kept') <= MaxFields /\ bytes' \in Int /\ bytes' <= MaxBytes
      BY <2>3, <2>4, <2>6, <3>1, <3>2, <3>3 DEF WalkInv
    <3>5. ~full' => Len(kept') < MaxFields
      <4>1. ~full' => ~(Len(kept') >= MaxFields)
        BY <3>1, Zenon
      <4>2. QED
        BY <3>2, <3>3, <4>1
    <3>6. QED
      BY <1>6, <2>1, <2>4, <3>2, <3>4, <3>5 DEF WalkInv
  <2>7. QED
    BY <2>5, <2>6
<1>9. CASE Data[entry.node].kind \notin WireKind
  <2>1. /\ stack' = Append(Asked(path), [node |-> entry.node, next |-> 1, path |-> path])
        /\ UNCHANGED <<kept, bytes, full, file, slot>>
    BY <1>9 DEF Ask, entry, path
  <2>2. [node |-> entry.node, next |-> 1, path |-> path] \in Visitor
    BY <1>5, <1>7, <1>9, NodeIsEither DEF Visitor
  <2>3. QED
    BY <1>6, <2>1, <2>2 DEF WalkInv
<1>10. QED
  BY <1>8, <1>9

(* Every step keeps what is held within the bounds.                        *)
LEMMA NextWalk == WalkInv /\ [Next]_vars => WalkInv'
<1> SUFFICES ASSUME WalkInv, [Next]_vars PROVE WalkInv'
  OBVIOUS
<1> USE DEF WalkInv
<1>1. CASE Silent
  BY <1>1 DEF Silent, NextSlot, Slot
<1>2. CASE Decode
  <2>1. slot \in Slot /\ file[slot] \in CityFiles \cup AsnFiles
    BY <1>2 DEF Decode
  <2>2. file[slot].root \in Container
    BY <1>2, <2>1, AnswersWithRecord DEF Decode
  <2>3. <<[node |-> file[slot].root, next |-> 1, path |-> <<>>]>> \in Seq(Visitor)
    BY <2>2 DEF Visitor
  <2>4. file' = file /\ slot' \in Slot \cup {"done"}
    BY <1>2, <2>1 DEF Decode, NextSlot, Slot
  <2>5. CASE collecting
    <3>1. kept' = <<>> /\ bytes' = 0 /\ full' = FALSE /\ stack' \in Seq(Visitor)
      BY <1>2, <2>3, <2>5 DEF Decode
    <3>2. kept' \in Seq(KeptLeaf) /\ Len(kept') < MaxFields
      BY <3>1, NothingIsWithin
    <3>3. Len(kept') <= MaxFields /\ bytes' <= MaxBytes
      BY <3>1, <3>2, BoundsAreNumbers
    <3>4. QED
      BY <2>4, <3>1, <3>2, <3>3
  <2>6. CASE ~collecting
    BY <1>2, <2>4, <2>6 DEF Decode
  <2>7. QED
    BY <2>5, <2>6
<1>3. CASE Ask
  BY <1>3, AskWalk
<1>4. CASE Leave
  BY <1>4, TopIsVisitor DEF Leave
<1>5. CASE Break \/ Filter
  <2>1. /\ kept' = <<>> /\ bytes' = 0
        /\ stack' = <<>> \/ stack' = stack
        /\ file' = file /\ slot' \in Slot \cup {"done"}
    BY <1>5 DEF Break, Filter, NextSlot, Slot
  <2>2. kept' \in Seq(KeptLeaf) /\ stack' \in Seq(Visitor) /\ Len(kept') < MaxFields
    BY <2>1, NothingIsWithin
  <2>3. Len(kept') <= MaxFields /\ bytes' <= MaxBytes
    BY <2>1, <2>2, BoundsAreNumbers
  <2>4. QED
    BY <2>1, <2>2, <2>3
<1>6. CASE UNCHANGED vars
  BY <1>6 DEF vars
<1>7. QED
  BY <1>1, <1>2, <1>3, <1>4, <1>5, <1>6 DEF Next

(* Whatever a record expands to (a data section may point at one map many  *)
(* times), a walk of extra::collect holds no more than MAX_FIELDS leaves   *)
(* and MAX_BYTES of them at any step.                                      *)
THEOREM WalkIsBounded == Spec => []KeptWithinBounds
<1>1. Spec => []WalkInv
  BY InitWalk, NextWalk, PTL DEF Spec
<1>2. WalkInv => KeptWithinBounds
  BY DEF WalkInv, KeptWithinBounds
<1>3. QED
  BY <1>1, <1>2, PTL

-----------------------------------------------------------------------------
(* Where the record's fields come from: what each slot's database wrote,   *)
(* the ASN slot's over the city's.                                         *)
Answer(s) == ReadOf(s, file[s])

CityFilled == IF "city" \in answered THEN Over(Answer("city"), EmptyRecord) ELSE EmptyRecord

Filled == IF "asn" \in answered THEN Over(Answer("asn"), CityFilled) ELSE CityFilled

(* A slot has been read when read is past it, and while its walk goes on.  *)
Reading ==
  /\ file \in [Slot -> CityFiles \cup AsnFiles]
  /\ slot \in Slot \cup {"done"}
  /\ answered \subseteq Slot
  /\ slot = "city" /\ step = "decode" => answered = {}
  /\ slot = "city" => answered \subseteq {"city"}
  /\ slot = "asn" /\ step = "decode" => answered \subseteq {"city"}
  /\ step # "decode" => slot \in answered
  /\ \A s \in answered : Answer(s) # Refused

SourceInv == Reading /\ record = Filled

(* Where both of two functions are defined the first one's value is taken. *)
LEMMA OverIs ==
  ASSUME NEW f, NEW g
  PROVE  /\ DOMAIN Over(f, g) = DOMAIN f \cup DOMAIN g
         /\ \A x \in DOMAIN f : Over(f, g)[x] = f[x]
         /\ \A x \in DOMAIN g \ DOMAIN f : Over(f, g)[x] = g[x]
  BY DEF Over

LEMMA OverAt ==
  ASSUME NEW f, NEW g, NEW x \in DOMAIN g
  PROVE  /\ x \in DOMAIN Over(f, g)
         /\ x \in DOMAIN f => Over(f, g)[x] = f[x]
         /\ x \notin DOMAIN f => Over(f, g)[x] = g[x]
<1>1. x \in DOMAIN f => Over(f, g)[x] = f[x]
  BY OverIs, Zenon
<1>2. x \notin DOMAIN f => Over(f, g)[x] = g[x]
  BY DEF Over
<1>3. x \in DOMAIN Over(f, g)
  BY OverIs, Zenon
<1>. QED
  BY <1>1, <1>2, <1>3

(* Nothing is written before the first decode.                             *)
LEMMA InitSource == Init => SourceInv
  BY DEF Init, SourceInv, Reading, Filled, CityFilled, Slot

(* A step that reads no database leaves what the databases wrote.          *)
LEMMA SameSource ==
  ASSUME UNCHANGED <<file, answered>>
  PROVE  Filled' = Filled /\ \A s \in Slot : Answer(s)' = Answer(s)
  BY DEF Filled, CityFilled, Answer

(* The typed fields of the slot that answers are written over the record.  *)
LEMMA DecodeSource == SourceInv /\ Decode => SourceInv'
<1>1. SUFFICES ASSUME SourceInv, Decode PROVE SourceInv'
  OBVIOUS
<1>2. /\ slot \in Slot /\ step = "decode" /\ file' = file
      /\ answered' = answered \cup {slot}
      /\ record' = Over(Answer(slot), record)
      /\ Answer(slot) # Refused
  BY <1>1 DEF Decode, SourceInv, Reading, Answer
<1>3. slot' = slot \/ (slot' = NextSlot /\ step' = step)
  BY <1>1 DEF Decode
<1>4. \A s \in Slot : Answer(s)' = Answer(s)
  BY <1>2 DEF Answer
<1>5. Reading'
  <2>1. answered' \subseteq Slot /\ slot' \in Slot \cup {"done"}
    BY <1>1, <1>2, <1>3 DEF SourceInv, Reading, NextSlot, Slot
  <2>2. \A s \in answered' : Answer(s)' # Refused
    BY <1>1, <1>2, <1>4 DEF SourceInv, Reading
  <2>3. CASE slot = "city"
    BY <1>1, <1>2, <1>3, <2>1, <2>2, <2>3 DEF Decode, SourceInv, Reading, NextSlot, Slot
  <2>4. CASE slot = "asn"
    BY <1>1, <1>2, <1>3, <2>1, <2>2, <2>4 DEF Decode, SourceInv, Reading, NextSlot, Slot
  <2>. QED
    BY <1>2, <2>3, <2>4 DEF Slot
<1>6. record' = Filled'
  <2>1. CASE slot = "city"
    <3>1. answered = {} /\ answered' = {"city"} /\ record = EmptyRecord
      BY <1>1, <1>2, <2>1 DEF SourceInv, Reading, Filled, CityFilled
    <3>2. Filled' = Over(Answer("city")', EmptyRecord)
      BY <3>1 DEF Filled, CityFilled, EmptyRecord
    <3>. QED
      BY <1>2, <1>4, <2>1, <3>1, <3>2 DEF Slot
  <2>2. CASE slot = "asn"
    <3>1. "asn" \notin answered /\ "asn" \in answered' /\ ("city" \in answered' <=> "city" \in answered)
      BY <1>1, <1>2, <2>2 DEF SourceInv, Reading
    <3>2. record = CityFilled
      BY <1>1, <3>1 DEF SourceInv, Filled
    <3>3. CityFilled' = CityFilled
      BY <1>4, <3>1, Zenon DEF CityFilled, Slot, EmptyRecord
    <3>4. Filled' = Over(Answer("asn")', CityFilled')
      BY <3>1 DEF Filled
    <3>5. Answer("asn")' = Answer("asn")
      BY <1>4 DEF Slot
    <3>. QED
      BY <1>2, <2>2, <3>2, <3>3, <3>4, <3>5
  <2>. QED
    BY <1>2, <2>1, <2>2 DEF Slot
<1>. QED
  BY <1>5, <1>6 DEF SourceInv

(* Each step keeps the record what the databases that answered wrote.      *)
LEMMA NextSource == SourceInv /\ [Next]_vars => SourceInv'
<1>1. SUFFICES ASSUME SourceInv, [Next]_vars PROVE SourceInv'
  OBVIOUS
<1>2. CASE Decode
  BY <1>1, <1>2, DecodeSource
<1>3. CASE ~Decode
  <2>1. UNCHANGED <<file, answered, record>>
    BY <1>1, <1>3 DEF Next, Silent, Ask, Leave, Break, Filter, vars
  <2>2. Filled' = Filled /\ \A s \in Slot : Answer(s)' = Answer(s)
    BY <2>1, SameSource
  <2>3. \/ slot' = slot /\ (step' = "decode" => step = "decode") /\ (step = "decode" => step' = "decode")
        \/ slot' = NextSlot /\ step' = "decode" /\ (slot = "done" => step # "decode")
    BY <1>1, <1>3 DEF Next, Silent, Ask, Leave, Break, Filter, vars
  <2>4. Reading'
    BY <1>1, <2>1, <2>2, <2>3 DEF SourceInv, Reading, NextSlot, Slot
  <2>. QED
    BY <1>1, <2>1, <2>2, <2>4 DEF SourceInv
<1>. QED
  BY <1>2, <1>3

(* The child of a record's place is a place of the same data section.      *)
LEMMA ChildIs ==
  ASSUME NEW n \in Node \cup {None, Refused}, NEW key
  PROVE  Child(n, key) \in Node \cup {None, Refused}
<1>1. CASE n = None \/ n = Refused \/ Data[n].kind # "map"
  BY <1>1 DEF Child
<1>2. CASE n # None /\ n # Refused /\ Data[n].kind = "map"
  <2>. DEFINE entries == Data[n].entries
              here == {i \in DOMAIN entries : entries[i].key = key}
  <2>1. n \in Node /\ entries \in Seq(Entry)
    BY <1>2, NodeIsEither DEF Container
  <2>2. Child(n, key) = IF here = {} THEN None ELSE entries[CHOOSE i \in here : TRUE].node
    BY <1>2 DEF Child
  <2>3. here # {} => (CHOOSE i \in here : TRUE) \in DOMAIN entries
    OBVIOUS
  <2>. HIDE DEF entries
  <2>4. ASSUME NEW i \in DOMAIN entries PROVE entries[i].node \in Node
    <3>1. entries[i] \in Entry
      BY <2>1
    <3>. QED
      BY <3>1 DEF Entry
  <2>. QED
    BY <2>2, <2>3, <2>4, Zenon
<1>. QED
  BY <1>1, <1>2

(* Each region of a record holds both of a region's fields.                *)
LEMMA RegionHasBoth ==
  ASSUME NEW n \in Node \cup {None, Refused}, Regions(n) # <<>>
  PROVE  DOMAIN Regions(n)[Len(Regions(n))] = {"region_name", "region_code"}
<1>. DEFINE list == Child(n, "subdivisions")
<1>1. list \in Node \cup {None, Refused}
  BY ChildIs
<1>2. DOMAIN RegionPath = {"region_name", "region_code"}
  BY DEF RegionPath
<1>3. list # None
  BY DEF Regions
<1>4. CASE list = Refused \/ Data[list].kind # "array"
  <2>1. Regions(n) = <<[f \in DOMAIN RegionPath |-> Refused]>>
    BY <1>3, <1>4 DEF Regions
  <2>2. Len(Regions(n)) = 1 /\ Regions(n)[1] = [f \in DOMAIN RegionPath |-> Refused]
    BY <2>1
  <2>. QED
    BY <1>2, <2>2
<1>5. CASE list # Refused /\ Data[list].kind = "array"
  <2>. DEFINE entries == Data[list].entries
              R == [i \in DOMAIN entries |-> Fields(entries[i].node, RegionPath, KindOf(RegionPath))]
  <2>1. Regions(n) = R
    BY <1>3, <1>5 DEF Regions
  <2>2. entries \in Seq(Entry)
    BY <1>1, <1>3, <1>5, NodeIsEither DEF Container
  <2>3. Len(R) = Len(entries) /\ Len(entries) \in Nat /\ Len(entries) # 0
    BY <2>1, <2>2
  <2>4. Len(R) \in DOMAIN entries
    BY <2>2, <2>3
  <2>5. R[Len(R)] = Fields(entries[Len(R)].node, RegionPath, KindOf(RegionPath))
    BY <2>4
  <2>. QED
    BY <1>2, <2>1, <2>5 DEF Fields
<1>. QED
  BY <1>4, <1>5

(* The fields each reader writes.                                          *)
IpInfoFields ==
  {"country_code", "country_name", "continent_code", "continent_name",
   "autonomous_system_number", "autonomous_system_organization", "as_domain", "network",
   "asn_network"}

AsnFields == {"autonomous_system_number", "autonomous_system_organization", "asn_network"}

FlatCityFields ==
  {"city_name", "continent_code", "continent_name", "country_code", "country_name",
   "postal_code", "timezone", "latitude", "longitude", "metro_code", "accuracy_radius",
   "network"}

RegionFields == {"region_name", "region_code"}

LEMMA IpInfoWrites ==
  ASSUME NEW at, ReadIpInfo(at) # Refused
  PROVE  DOMAIN ReadIpInfo(at) = IpInfoFields
<1>. DEFINE fields == Fields(at.root, IpInfoPath,
                             [KindOf(IpInfoPath) EXCEPT !["autonomous_system_number"] = "Str"])
            number == LET text == fields["autonomous_system_number"]
                      IN IF text = None THEN None ELSE AsnNumber[text]
            typed == [fields EXCEPT !["autonomous_system_number"] = number]
            nets == [network |-> at.network, asn_network |-> at.network]
<1>1. ReadIpInfo(at) = Over(typed, nets)
  BY DEF ReadIpInfo
<1>2. DOMAIN typed = DOMAIN IpInfoPath
  BY DEF Fields
<1>3. DOMAIN nets = {"network", "asn_network"}
  OBVIOUS
<1>4. DOMAIN IpInfoPath \cup {"network", "asn_network"} = IpInfoFields
  BY DEF IpInfoPath, IpInfoFields
<1>. HIDE DEF typed, nets
<1>5. DOMAIN Over(typed, nets) = DOMAIN typed \cup DOMAIN nets
  BY OverIs, Zenon
<1>. QED
  BY <1>1, <1>2, <1>3, <1>4, <1>5

LEMMA AsnWrites ==
  ASSUME NEW at, ReadAsn(at) # Refused
  PROVE  DOMAIN ReadAsn(at) = AsnFields
<1>. DEFINE fields == Fields(at.root, AsnPath, KindOf(AsnPath))
            nets == [asn_network |-> at.network]
<1>1. ReadAsn(at) = Over(fields, nets)
  BY DEF ReadAsn
<1>2. DOMAIN fields = DOMAIN AsnPath
  BY DEF Fields
<1>3. DOMAIN nets = {"asn_network"}
  OBVIOUS
<1>4. DOMAIN AsnPath \cup {"asn_network"} = AsnFields
  BY DEF AsnPath, AsnFields
<1>. HIDE DEF fields, nets
<1>5. DOMAIN Over(fields, nets) = DOMAIN fields \cup DOMAIN nets
  BY OverIs, Zenon
<1>. QED
  BY <1>1, <1>2, <1>3, <1>4, <1>5

(* The region's fields are the last subdivision's, and they are both there *)
(* or neither is.                                                          *)
LEMMA CityWrites ==
  ASSUME NEW at, at.root \in Node \cup {None}, ReadCity(at) # Refused
  PROVE  LET regions == Regions(at.root) IN
         /\ regions = <<>> => DOMAIN ReadCity(at) = FlatCityFields
         /\ regions # <<>> =>
              /\ DOMAIN ReadCity(at) = FlatCityFields \cup RegionFields
              /\ \A f \in RegionFields : ReadCity(at)[f] = regions[Len(regions)][f]
<1>. DEFINE fields == Fields(at.root, CityPath, KindOf(CityPath))
            regions == Regions(at.root)
            region == IF regions = <<>> THEN <<>> ELSE regions[Len(regions)]
            net == [network |-> at.network]
<1>1. ReadCity(at) = Over(region, Over(fields, net))
  BY DEF ReadCity
<1>2. DOMAIN fields = DOMAIN CityPath
  BY DEF Fields
<1>3. DOMAIN net = {"network"}
  OBVIOUS
<1>4. DOMAIN CityPath \cup {"network"} = FlatCityFields
  BY DEF CityPath, FlatCityFields
<1>5. DOMAIN Over(fields, net) = FlatCityFields
  <2>. HIDE DEF fields, net
  <2>1. DOMAIN Over(fields, net) = DOMAIN fields \cup DOMAIN net
    BY OverIs, Zenon
  <2>. QED
    BY <1>2, <1>3, <1>4, <2>1
<1>6. regions # <<>> => DOMAIN region = RegionFields /\ region = regions[Len(regions)]
  BY RegionHasBoth DEF RegionFields
<1>7. regions = <<>> => DOMAIN region = {}
  OBVIOUS
<1>. HIDE DEF fields, net, region
<1>8. DOMAIN ReadCity(at) = DOMAIN region \cup FlatCityFields
  BY <1>1, <1>5, OverIs
<1>9. \A f \in DOMAIN region : ReadCity(at)[f] = region[f]
  <2>. DEFINE rest == Over(fields, net)
  <2>. HIDE DEF rest
  <2>1. \A f \in DOMAIN region : Over(region, rest)[f] = region[f]
    BY OverIs, Zenon
  <2>. QED
    BY <1>1, <2>1, Zenon DEF rest
<1>. HIDE DEF regions
<1>10. regions # <<>> => \A f \in RegionFields : ReadCity(at)[f] = regions[Len(regions)][f]
  BY <1>6, <1>9
<1>11. regions = <<>> => DOMAIN ReadCity(at) = FlatCityFields
  BY <1>7, <1>8
<1>12. regions # <<>> => DOMAIN ReadCity(at) = FlatCityFields \cup RegionFields
  BY <1>6, <1>8
<1>. QED
  BY <1>10, <1>11, <1>12 DEF regions

(* An answer is one reader's.                                              *)
LEMMA AnswerIs ==
  ASSUME NEW s \in Slot, NEW at \in CityFiles \cup AsnFiles, ReadOf(s, at) # Refused
  PROVE  /\ at.root \in Node
         /\ \/ ReadOf(s, at) = ReadIpInfo(at) /\ ReadIpInfo(at) # Refused
            \/ s = "city" /\ ReadOf(s, at) = ReadCity(at) /\ ReadCity(at) # Refused
            \/ s = "asn" /\ ReadOf(s, at) = ReadAsn(at) /\ ReadAsn(at) # Refused
<1>1. at.root \in Node
  BY AnswersWithRecord DEF Container
<1>. QED
  BY <1>1 DEF ReadOf, Slot

CountryGroup == {"country_code", "country_name", "continent_code", "continent_name"}

SystemGroup == {"autonomous_system_number", "autonomous_system_organization", "asn_network"}

(* A database writes all the fields of a group or none; the ASN slot's     *)
(* writes no region.                                                       *)
LEMMA AnswerWrites ==
  ASSUME NEW s \in Slot, NEW at \in CityFiles \cup AsnFiles, ReadOf(s, at) # Refused
  PROVE  LET written == DOMAIN ReadOf(s, at) IN
         /\ CountryGroup \subseteq written \/ CountryGroup \cap written = {}
         /\ SystemGroup \subseteq written \/ SystemGroup \cap written = {}
         /\ RegionFields \cap written = {}
              \/ /\ s = "city"
                 /\ LET regions == Regions(at.root) IN
                      \A f \in RegionFields :
                        f \in written /\ ReadOf(s, at)[f] = regions[Len(regions)][f]
<1>. DEFINE written == DOMAIN ReadOf(s, at)
            regions == Regions(at.root)
<1>1. CASE ReadOf(s, at) = ReadIpInfo(at) /\ ReadIpInfo(at) # Refused
  <2>1. written = IpInfoFields
    BY <1>1, IpInfoWrites
  <2>2. /\ CountryGroup \subseteq IpInfoFields /\ SystemGroup \subseteq IpInfoFields
        /\ RegionFields \cap IpInfoFields = {}
    BY DEF CountryGroup, SystemGroup, RegionFields, IpInfoFields
  <2>. QED
    BY <2>1, <2>2
<1>2. CASE s = "asn" /\ ReadOf(s, at) = ReadAsn(at) /\ ReadAsn(at) # Refused
  <2>1. written = AsnFields
    BY <1>2, AsnWrites
  <2>2. /\ CountryGroup \cap AsnFields = {} /\ SystemGroup \subseteq AsnFields
        /\ RegionFields \cap AsnFields = {}
    BY DEF CountryGroup, SystemGroup, RegionFields, AsnFields
  <2>. QED
    BY <2>1, <2>2
<1>3. CASE s = "city" /\ ReadOf(s, at) = ReadCity(at) /\ ReadCity(at) # Refused
  <2>1. at.root \in Node
    BY AnswerIs
  <2>2. /\ CountryGroup \subseteq FlatCityFields /\ SystemGroup \cap FlatCityFields = {}
        /\ RegionFields \cap FlatCityFields = {}
        /\ SystemGroup \cap RegionFields = {}
    BY DEF CountryGroup, SystemGroup, RegionFields, FlatCityFields
  <2>. HIDE DEF written, regions
  <2>3. CASE regions = <<>>
    <3>1. written = FlatCityFields
      BY <1>3, <2>1, <2>3, CityWrites DEF written, regions
    <3>. QED
      BY <2>2, <3>1 DEF written
  <2>4. CASE regions # <<>>
    <3>1. /\ written = FlatCityFields \cup RegionFields
          /\ \A f \in RegionFields : ReadOf(s, at)[f] = regions[Len(regions)][f]
      BY <1>3, <2>1, <2>4, CityWrites DEF written, regions
    <3>2. \A f \in RegionFields :
             f \in written /\ ReadOf(s, at)[f] = regions[Len(regions)][f]
      BY <3>1
    <3>3. CountryGroup \subseteq written /\ SystemGroup \cap written = {}
      BY <2>2, <3>1
    <3>. QED
      BY <1>3, <3>2, <3>3 DEF written, regions
  <2>. QED
    BY <2>3, <2>4
<1>. QED
  BY <1>1, <1>2, <1>3, AnswerIs

(* What the record says of a field is what the last database that writes   *)
(* it said, and nothing when none does.                                    *)
LEMMA FilledIs ==
  ASSUME Reading, NEW f \in Field
  PROVE  /\ "asn" \in answered /\ f \in DOMAIN Answer("asn") => Filled[f] = Answer("asn")[f]
         /\ ~("asn" \in answered /\ f \in DOMAIN Answer("asn")) =>
              /\ "city" \in answered /\ f \in DOMAIN Answer("city") =>
                   Filled[f] = Answer("city")[f]
              /\ ~("city" \in answered /\ f \in DOMAIN Answer("city")) => Filled[f] = None
<1>1. EmptyRecord[f] = None /\ DOMAIN EmptyRecord = Field
  BY DEF EmptyRecord
<1>2. /\ f \in DOMAIN CityFilled
      /\ "city" \in answered /\ f \in DOMAIN Answer("city") => CityFilled[f] = Answer("city")[f]
      /\ ~("city" \in answered /\ f \in DOMAIN Answer("city")) => CityFilled[f] = None
  <2>1. CASE "city" \in answered
    <3>1. PICK a, e : a = Answer("city") /\ e = EmptyRecord
      OBVIOUS
    <3>2. f \in DOMAIN e /\ e[f] = None
      BY <1>1, <3>1
    <3>3. CityFilled = Over(a, e)
      BY <2>1, <3>1 DEF CityFilled
    <3>4. /\ f \in DOMAIN Over(a, e)
          /\ f \in DOMAIN a => Over(a, e)[f] = a[f]
          /\ f \notin DOMAIN a => Over(a, e)[f] = e[f]
      BY <3>2, OverAt
    <3>. QED
      BY <2>1, <3>1, <3>2, <3>3, <3>4
  <2>2. CASE "city" \notin answered
    BY <1>1, <2>2 DEF CityFilled
  <2>. QED
    BY <2>1, <2>2
<1>3. /\ "asn" \in answered /\ f \in DOMAIN Answer("asn") => Filled[f] = Answer("asn")[f]
      /\ ~("asn" \in answered /\ f \in DOMAIN Answer("asn")) => Filled[f] = CityFilled[f]
  <2>1. CASE "asn" \in answered
    <3>1. PICK a, e : a = Answer("asn") /\ e = CityFilled
      OBVIOUS
    <3>2. f \in DOMAIN e
      BY <1>2, <3>1
    <3>3. Filled = Over(a, e)
      BY <2>1, <3>1 DEF Filled
    <3>4. /\ f \in DOMAIN a => Over(a, e)[f] = a[f]
          /\ f \notin DOMAIN a => Over(a, e)[f] = e[f]
      BY <3>2, OverAt
    <3>. QED
      BY <2>1, <3>1, <3>3, <3>4
  <2>2. CASE "asn" \notin answered
    BY <2>2 DEF Filled
  <2>. QED
    BY <2>1, <2>2
<1>. QED
  BY <1>2, <1>3

(* The fields of a group written together are one database's.              *)
LEMMA GroupIsOnes ==
  ASSUME SourceInv, NEW group \in SUBSET Field,
         \A s \in answered : group \subseteq DOMAIN Answer(s) \/ group \cap DOMAIN Answer(s) = {}
  PROVE  \/ \A f \in group : record[f] = None
         \/ \E s \in answered : \A f \in group :
              f \in DOMAIN Answer(s) /\ record[f] = Answer(s)[f]
<1>1. Reading /\ record = Filled
  BY DEF SourceInv
<1>2. CASE "asn" \in answered /\ group \subseteq DOMAIN Answer("asn")
  BY <1>1, <1>2, FilledIs
<1>3. CASE "asn" \in answered => group \cap DOMAIN Answer("asn") = {}
  <2>1. CASE "city" \in answered /\ group \subseteq DOMAIN Answer("city")
    BY <1>1, <1>3, <2>1, FilledIs
  <2>2. CASE "city" \in answered => group \cap DOMAIN Answer("city") = {}
    BY <1>1, <1>3, <2>2, FilledIs
  <2>. QED
    BY <2>1, <2>2
<1>. QED
  BY <1>2, <1>3

(* A country's code and name, or a network's number and organisation, are  *)
(* never one source's beside the other's, and a region's fields are the    *)
(* last subdivision's: whatever the two files hold.                        *)
THEOREM FieldsOfOneSource == Spec => []OneSourceApiece
<1>1. Spec => []SourceInv
  BY InitSource, NextSource, PTL DEF Spec
<1>2. SourceInv => OneSourceApiece
  <2>1. SUFFICES ASSUME SourceInv, slot = "done" PROVE OneSourceApiece
    BY DEF OneSourceApiece
  <2>2. /\ Reading /\ record = Filled /\ answered \subseteq Slot
        /\ \A s \in answered : file[s] \in CityFiles \cup AsnFiles /\ Answer(s) # Refused
    BY <2>1 DEF SourceInv, Reading
  <2>3. \A s \in answered : ReadOf(s, file[s]) # Refused /\ Answer(s) = ReadOf(s, file[s])
    BY <2>2 DEF Answer
  <2>4. CountryGroup \subseteq Field /\ SystemGroup \subseteq Field /\ RegionFields \subseteq Field
    BY DEF CountryGroup, SystemGroup, RegionFields, Field, CityPath, AsnPath, RegionPath
  <2>5. ASSUME NEW group \in {CountryGroup, SystemGroup}
        PROVE  \/ \A f \in group : record[f] = None
               \/ \E s \in answered : \A f \in group :
                    f \in DOMAIN ReadOf(s, file[s]) /\ record[f] = ReadOf(s, file[s])[f]
    <3>1. \A s \in answered :
            group \subseteq DOMAIN Answer(s) \/ group \cap DOMAIN Answer(s) = {}
      BY <2>2, <2>3, <2>5, AnswerWrites
    <3>. QED
      BY <2>1, <2>3, <2>4, <3>1, GroupIsOnes
  <2>6. \/ record["region_name"] = None /\ record["region_code"] = None
        \/ LET regions == Regions(file["city"].root)
               last == regions[Len(regions)]
           IN \A f \in DOMAIN RegionPath : record[f] = last[f]
    <3>1. "asn" \in answered => RegionFields \cap DOMAIN Answer("asn") = {}
      BY <2>2, <2>3, AnswerWrites
    <3>2. DOMAIN RegionPath = RegionFields
      BY DEF RegionPath, RegionFields
    <3>3. CASE "city" \in answered /\ RegionFields \cap DOMAIN Answer("city") # {}
      <4>. DEFINE regions == Regions(file["city"].root)
      <4>1. \A f \in RegionFields :
              f \in DOMAIN Answer("city") /\ Answer("city")[f] = regions[Len(regions)][f]
        BY <2>2, <2>3, <3>3, AnswerWrites
      <4>. HIDE DEF regions
      <4>2. \A f \in RegionFields : record[f] = regions[Len(regions)][f]
        BY <2>2, <2>4, <3>1, <3>3, <4>1, FilledIs
      <4>. QED
        BY <3>2, <4>2 DEF regions
    <3>4. CASE "city" \in answered => RegionFields \cap DOMAIN Answer("city") = {}
      <4>1. \A f \in RegionFields : record[f] = None
        BY <2>2, <2>4, <3>1, <3>4, FilledIs
      <4>. QED
        BY <4>1 DEF RegionFields
    <3>. QED
      BY <3>3, <3>4
  <2>. QED
    BY <2>5, <2>6 DEF OneSourceApiece, CountryGroup, SystemGroup
<1>. QED
  BY <1>1, <1>2, PTL

-----------------------------------------------------------------------------
(* The elements at the places given, in order, are those and no others.    *)
ElementsOf(seq) == {seq[i] : i \in DOMAIN seq}

LEMMA AppendElement ==
  ASSUME NEW T, NEW seq \in Seq(T), NEW x \in T
  PROVE  /\ Append(seq, x) \in Seq(T)
         /\ ElementsOf(Append(seq, x)) = ElementsOf(seq) \cup {x}
<1>. DEFINE more == Append(seq, x)
<1>1. /\ more \in Seq(T) /\ DOMAIN more = DOMAIN seq \cup {Len(seq) + 1}
      /\ more[Len(seq) + 1] = x /\ \A i \in DOMAIN seq : more[i] = seq[i]
  OBVIOUS
<1>. HIDE DEF more
<1>2. ElementsOf(more) = ElementsOf(seq) \cup {x}
  BY <1>1 DEF ElementsOf
<1>. QED
  BY <1>1, <1>2 DEF more

LEMMA PickedIs ==
  ASSUME NEW T, NEW seq \in Seq(T), NEW places
  PROVE  /\ Picked(seq, places) \in Seq(T)
         /\ ElementsOf(Picked(seq, places)) = {seq[i] : i \in DOMAIN seq \cap places}
<1>. DEFINE n == Len(seq)
            next(i, t) == IF i \in places THEN Append(t, seq[i]) ELSE t
            picks(f) == f = [i \in 0 .. n |-> IF i = 0 THEN <<>>
                                              ELSE IF i \in places THEN Append(f[i - 1], seq[i])
                                                   ELSE f[i - 1]]
            upTo == CHOOSE f : picks(f)
            g == [i \in 1 .. n |-> [t \in Seq(T) |-> next(i, t)]]
<1>1. n \in Nat /\ \A i \in 1 .. n : seq[i] \in T
  OBVIOUS
<1>. HIDE DEF n
<1>2. g \in [1 .. n -> [Seq(T) -> Seq(T)]]
  BY <1>1
<1>3. PICK e : Passes(n, Seq(T), <<>>, g, e)
  <2>1. <<>> \in Seq(T)
    OBVIOUS
  <2>. HIDE DEF g
  <2>. QED
    BY <1>1, <1>2, <2>1, Iterates
<1>4. picks(e)
  <2>1. ASSUME NEW i \in 0 .. n
        PROVE  e[i] = IF i = 0 THEN <<>> ELSE next(i, e[i - 1])
    <3>1. CASE i = 0
      BY <1>3, <3>1 DEF Passes
    <3>2. CASE i # 0
      <4>1. i \in 1 .. n /\ i - 1 \in 0 .. n
        BY <1>1, <3>2
      <4>2. e[i] = g[i][e[i - 1]] /\ e[i - 1] \in Seq(T)
        BY <1>3, <4>1 DEF Passes
      <4>3. g[i][e[i - 1]] = next(i, e[i - 1])
        BY <4>1, <4>2
      <4>. QED
        BY <3>2, <4>2, <4>3
    <3>. QED
      BY <3>1, <3>2
  <2>2. e = [i \in 0 .. n |-> e[i]]
    BY <1>3 DEF Passes
  <2>. QED
    BY <2>1, <2>2
<1>5. picks(upTo)
  <2>. HIDE DEF picks
  <2>. QED
    BY <1>4, Zenon
<1>. HIDE DEF upTo
<1>6. /\ upTo[0] = <<>>
      /\ \A i \in 1 .. n : upTo[i] = next(i, upTo[i - 1])
  <2>1. \A i \in 0 .. n : upTo[i] = IF i = 0 THEN <<>> ELSE next(i, upTo[i - 1])
    BY <1>5
  <2>2. 0 \in 0 .. n /\ \A i \in 1 .. n : i \in 0 .. n /\ i # 0
    BY <1>1
  <2>. QED
    BY <2>1, <2>2
<1>. DEFINE Past(i) == {seq[k] : k \in (1 .. i) \cap places}
            Good == {i \in 0 .. n : upTo[i] \in Seq(T) /\ ElementsOf(upTo[i]) = Past(i)}
<1>7. 0 \in Good
  <2>1. Past(0) = {}
    OBVIOUS
  <2>2. <<>> \in Seq(T) /\ ElementsOf(<<>>) = {}
    BY DEF ElementsOf
  <2>. HIDE DEF Past
  <2>3. upTo[0] \in Seq(T) /\ ElementsOf(upTo[0]) = Past(0)
    BY <1>6, <2>1, <2>2, Zenon
  <2>. QED
    BY <1>1, <2>3
<1>8. ASSUME NEW i \in 1 .. n, i - 1 \in Good PROVE i \in Good
  <2>1. /\ upTo[i - 1] \in Seq(T) /\ ElementsOf(upTo[i - 1]) = Past(i - 1)
        /\ seq[i] \in T /\ upTo[i] = next(i, upTo[i - 1])
    BY <1>1, <1>6, <1>8
  <2>2. Past(i) = IF i \in places THEN Past(i - 1) \cup {seq[i]} ELSE Past(i - 1)
    <3>1. 1 .. i = (1 .. i - 1) \cup {i}
      BY <1>1
    <3>. QED
      BY <3>1
  <2>. HIDE DEF Past
  <2>3. CASE i \in places
    <3>1. /\ Append(upTo[i - 1], seq[i]) \in Seq(T)
          /\ ElementsOf(Append(upTo[i - 1], seq[i])) = ElementsOf(upTo[i - 1]) \cup {seq[i]}
      BY <2>1, AppendElement
    <3>2. upTo[i] \in Seq(T) /\ ElementsOf(upTo[i]) = Past(i)
      BY <2>1, <2>2, <2>3, <3>1, Zenon
    <3>. QED
      BY <1>1, <3>2
  <2>4. CASE i \notin places
    <3>1. upTo[i] \in Seq(T) /\ ElementsOf(upTo[i]) = Past(i)
      BY <2>1, <2>2, <2>4
    <3>. QED
      BY <1>1, <3>1
  <2>. QED
    BY <2>3, <2>4
<1>9. n \in Good
  <2>. HIDE DEF Good
  <2>1. \A i \in 0 .. n : i \in Good
    BY <1>1, <1>7, <1>8, UpTo
  <2>. QED
    BY <1>1, <2>1
<1>10. Picked(seq, places) = upTo[n]
  BY DEF Picked, upTo, picks, n
<1>11. DOMAIN seq = 1 .. n
  BY DEF n
<1>. QED
  BY <1>9, <1>10, <1>11

-----------------------------------------------------------------------------
(* A leaf as it is kept is read back alike, or refused when it is a double *)
(* that is not finite: the narrowest kind that holds a whole number is the *)
(* one a reader of JSON takes for it.                                      *)
ReadsBack(value) ==
  /\ NotFinite(value) => Reread(value) = Refused
  /\ ~NotFinite(value) => Reread(value) # Refused /\ Alike(value, Reread(value))

ReadableLeaf == {leaf \in KeptLeaf : ReadsBack(leaf[2])}

LEMMA ValueReadsBack ==
  ASSUME NEW n \in Node, Data[n].kind \in WireKind
  PROVE  ReadsBack(Value(Data[n]))
<1>. DEFINE leaf == Data[n]
            value == Value(leaf)
<1>1. leaf \in Leaf /\ value \in ExtraValue /\ value.says = leaf.says
  BY NodeIsEither, ValueIsExtra DEF Value
<1>2. Holds(leaf) /\ Double(leaf) /\ U64Max \in Nat /\ Refused \notin ExtraValue
  BY <1>1, GeoRecordAssumption DEF Container, WireKind, Leaf
<1>3. leaf.says \in Int
  BY <1>1 DEF Leaf
<1>. HIDE DEF leaf
<1>4. \/ value.kind \in {"Str", "Bool", "Bytes"}
      \/ value.kind = "Float" /\ leaf.kind = "F64"
      \/ value.kind = "UInt" /\ leaf.says \in 0 .. U64Max
      \/ value.kind = "Int" /\ leaf.says < 0
      \/ value.kind = "UInt128" /\ leaf.says > U64Max
  <2>1. CASE leaf.kind = "U64"
    BY <1>2, <2>1 DEF Value, Holds
  <2>2. CASE leaf.kind = "I64"
    BY <1>2, <1>3, <2>2 DEF Value, Holds
  <2>3. CASE leaf.kind = "U128"
    BY <1>2, <1>3, <2>3 DEF Value, Holds
  <2>4. CASE leaf.kind \in {"Str", "F64", "Bool", "Bytes"}
    BY <2>4 DEF Value
  <2>. QED
    BY <1>1, <2>1, <2>2, <2>3, <2>4 DEF Leaf, WireKind
<1>. HIDE DEF value
<1>5. ASSUME value.kind \in {"Str", "Bool", "Bytes"} PROVE ReadsBack(value)
  BY <1>1, <1>2, <1>5 DEF ReadsBack, Reread, NotFinite, Alike
<1>6. ASSUME value.kind = "Float", leaf.kind = "F64" PROVE ReadsBack(value)
  <2>. DEFINE double == JsonDouble[value.says]
  <2>1. double \in Int \cup {None}
    BY <1>1, <1>2, <1>6 DEF Double
  <2>2. Reread(value) = IF double = None THEN Refused ELSE [value EXCEPT !.says = double]
    BY <1>6 DEF Reread
  <2>3. NotFinite(value) <=> double = None
    BY <1>6 DEF NotFinite
  <2>. HIDE DEF double
  <2>4. double # None => /\ [value EXCEPT !.says = double] \in ExtraValue
                         /\ [value EXCEPT !.says = double].kind = "Float"
    BY <1>1, <1>6, <2>1 DEF ExtraValue
  <2>. QED
    BY <1>2, <1>6, <2>2, <2>3, <2>4 DEF ReadsBack, Alike
<1>7. ASSUME value.kind \in {"UInt", "Int", "UInt128"} PROVE ReadsBack(value)
  <2>. DEFINE kind == CASE value.says \in 0..U64Max -> "UInt"
                        [] value.says < 0 -> "Int"
                        [] value.says > U64Max -> "Float"
              back == [value EXCEPT !.kind = kind]
  <2>1. /\ value.kind = "UInt128" => kind = "Float"
        /\ value.kind # "UInt128" => kind = value.kind
    BY <1>1, <1>2, <1>3, <1>4, <1>7
  <2>2. Reread(value) = back /\ ~NotFinite(value)
    BY <1>7 DEF Reread, NotFinite
  <2>. HIDE DEF kind
  <2>3. back \in ExtraValue /\ back.kind = kind
    BY <1>1, <1>7, <2>1 DEF ExtraValue
  <2>4. value.kind # "UInt128" => back = value
    BY <1>1, <2>1 DEF ExtraValue
  <2>. HIDE DEF back
  <2>. QED
    BY <1>2, <1>7, <2>1, <2>2, <2>3, <2>4 DEF ReadsBack, Alike
<1>8. ReadsBack(value)
  BY <1>4, <1>5, <1>6, <1>7
<1>. QED
  BY <1>8 DEF value, leaf

(* What is kept, by a walk or for the consumer, reads back.                *)
ReadableInv == WalkInv /\ kept \in Seq(ReadableLeaf) /\ extra \in Seq(ReadableLeaf)

LEMMA InitReadable == Init => ReadableInv
  BY InitWalk DEF Init, ReadableInv

(* The entry a walk asks for next.                                         *)
LEMMA AskedEntry ==
  ASSUME stack \in Seq(Visitor), Ask
  PROVE  /\ Entries \in Seq(Entry) /\ Top.next \in DOMAIN Entries
         /\ Entries[Top.next] \in Entry
         /\ Append(Top.path, Entries[Top.next].key) \in Seq(STRING)
<1>1. Top \in Visitor /\ Below \in Seq(Visitor)
  BY TopIsVisitor DEF Ask
<1>2. Entries \in Seq(Entry)
  BY <1>1, NodeIsEither DEF Visitor, Container, Entries
<1>3. Top.next \in DOMAIN Entries
  BY <1>1, <1>2 DEF Ask, Visitor
<1>4. Entries[Top.next] \in Entry
  BY <1>2, <1>3
<1>. QED
  BY <1>1, <1>2, <1>3, <1>4 DEF Visitor, Entry

LEMMA NextReadable == ReadableInv /\ [Next]_vars => ReadableInv'
<1>1. SUFFICES ASSUME ReadableInv, [Next]_vars PROVE ReadableInv'
  OBVIOUS
<1>2. WalkInv'
  BY <1>1, NextWalk DEF ReadableInv
<1>3. <<>> \in Seq(ReadableLeaf)
  OBVIOUS
<1>4. CASE Ask
  <2>. DEFINE entry == Entries[Top.next]
              path == Append(Top.path, entry.key)
              value == Value(Data[entry.node])
  <2>1. entry \in Entry /\ path \in Seq(STRING)
    BY <1>1, <1>4, AskedEntry DEF ReadableInv, WalkInv
  <2>2. entry.node \in Node
    BY <2>1 DEF Entry
  <2>. HIDE DEF entry, path
  <2>3. CASE Data[entry.node].kind \in WireKind
    <3>1. Keep(path, value) /\ extra' = extra
      BY <1>4, <2>3 DEF Ask, entry, path
    <3>2. value \in ExtraValue /\ ReadsBack(value)
      BY <2>2, <2>3, NodeIsEither, ValueIsExtra, ValueReadsBack
    <3>. HIDE DEF value
    <3>3. <<path, value>> \in ReadableLeaf
      BY <2>1, <3>2 DEF ReadableLeaf, KeptLeaf
    <3>4. kept' \in Seq(ReadableLeaf)
      <4>1. kept' = kept \/ kept' = Append(kept, <<path, value>>)
        BY <3>1 DEF Keep
      <4>2. kept \in Seq(ReadableLeaf)
        BY <1>1 DEF ReadableInv
      <4>3. Append(kept, <<path, value>>) \in Seq(ReadableLeaf)
        BY <3>3, <4>2, AppendElement
      <4>. QED
        BY <4>1, <4>2, <4>3
    <3>. QED
      BY <1>1, <1>2, <3>1, <3>4 DEF ReadableInv
  <2>4. CASE Data[entry.node].kind \notin WireKind
    BY <1>1, <1>2, <1>4, <2>4 DEF Ask, entry, path, ReadableInv
  <2>. QED
    BY <2>3, <2>4
<1>5. CASE Filter
  <2>. DEFINE places == {i \in DOMAIN kept : ~Taken(kept[i][1], kept[i][2], record)}
  <2>1. extra' = extra \o Picked(kept, places) /\ kept' = <<>>
    BY <1>5 DEF Filter
  <2>. HIDE DEF places
  <2>2. Picked(kept, places) \in Seq(ReadableLeaf)
    BY <1>1, PickedIs DEF ReadableInv
  <2>. QED
    BY <1>1, <1>2, <1>3, <2>1, <2>2 DEF ReadableInv
<1>6. CASE ~Ask /\ ~Filter
  <2>1. extra' = extra /\ (kept' = <<>> \/ kept' = kept)
    BY <1>1, <1>6 DEF Next, Silent, Decode, Leave, Break, vars
  <2>. QED
    BY <1>1, <1>2, <1>3, <2>1 DEF ReadableInv
<1>. QED
  BY <1>4, <1>5, <1>6

(* A record read back from its own JSON carries the kinds it was written   *)
(* with, for every number a wire kind has but those wider than 64 bits,    *)
(* and is refused exactly for a double that is not finite: ExtraValue's    *)
(* two halves agree on the narrowest kind, and differ on a null.           *)
THEOREM ExtraReadsBack == Spec => []ReadsBackAsWritten
<1>1. Spec => []ReadableInv
  BY InitReadable, NextReadable, PTL DEF Spec
<1>2. ReadableInv => ReadsBackAsWritten
  <2>1. SUFFICES ASSUME ReadableInv PROVE ReadsBackAsWritten
    OBVIOUS
  <2>2. \A i \in DOMAIN extra : ReadsBack(extra[i][2])
    BY <2>1 DEF ReadableInv, ReadableLeaf
  <2>3. Rereads <=> ~\E i \in DOMAIN extra : NotFinite(extra[i][2])
    BY <2>2 DEF Rereads, ReadsBack
  <2>4. Rereads => \A i \in DOMAIN extra : Alike(extra[i][2], Reread(extra[i][2]))
    BY <2>2 DEF Rereads, ReadsBack
  <2>. QED
    BY <2>3, <2>4 DEF ReadsBackAsWritten, RereadField
<1>3. QED
  BY <1>1, <1>2, PTL

-----------------------------------------------------------------------------
(* What the typed decode finds: a place of the data section, then a number *)
(* or one that stands for a text, or no value, or a refusal.               *)
Place == Node \cup {None, Refused}

Said == Int \cup {None}

LEMMA AtIs ==
  ASSUME NEW n \in Place, NEW path, Len(path) \in Nat
  PROVE  At(n, path) \in Place
<1>. DEFINE len == Len(path)
            goes(f) == f = [i \in 0 .. len |-> IF i = 0 THEN n ELSE Child(f[i - 1], path[i])]
            to == CHOOSE f : goes(f)
            g == [i \in 1 .. len |-> [m \in Place |-> Child(m, path[i])]]
<1>1. len \in Nat /\ \A m \in Place : \A key : Child(m, key) \in Place
  BY ChildIs DEF Place
<1>. HIDE DEF len
<1>2. g \in [1 .. len -> [Place -> Place]]
  BY <1>1
<1>3. PICK e : Passes(len, Place, n, g, e)
  <2>. HIDE DEF g
  <2>. QED
    BY <1>1, <1>2, Iterates
<1>4. goes(e)
  <2>1. ASSUME NEW i \in 0 .. len
        PROVE  e[i] = IF i = 0 THEN n ELSE Child(e[i - 1], path[i])
    <3>1. CASE i = 0
      BY <1>3, <3>1 DEF Passes
    <3>2. CASE i # 0
      <4>1. i \in 1 .. len /\ i - 1 \in 0 .. len
        BY <1>1, <3>2
      <4>2. e[i] = g[i][e[i - 1]] /\ e[i - 1] \in Place
        BY <1>3, <4>1 DEF Passes
      <4>3. g[i][e[i - 1]] = Child(e[i - 1], path[i])
        BY <4>1, <4>2
      <4>. QED
        BY <3>2, <4>2, <4>3
    <3>. QED
      BY <3>1, <3>2
  <2>2. e = [i \in 0 .. len |-> e[i]]
    BY <1>3 DEF Passes
  <2>. QED
    BY <2>1, <2>2
<1>5. goes(to)
  <2>. HIDE DEF goes
  <2>. QED
    BY <1>4, Zenon
<1>. HIDE DEF to
<1>6. /\ to[0] = n
      /\ \A i \in 1 .. len : to[i] = Child(to[i - 1], path[i])
  <2>1. \A i \in 0 .. len : to[i] = IF i = 0 THEN n ELSE Child(to[i - 1], path[i])
    BY <1>5
  <2>2. 0 \in 0 .. len /\ \A i \in 1 .. len : i \in 0 .. len /\ i # 0
    BY <1>1
  <2>. QED
    BY <2>1, <2>2
<1>. DEFINE Good == {i \in 0 .. len : to[i] \in Place}
<1>7. 0 \in Good
  BY <1>1, <1>6
<1>8. \A i \in 1 .. len : i - 1 \in Good => i \in Good
  BY <1>1, <1>6
<1>9. \A i \in 0 .. len : i \in Good
  <2>. HIDE DEF Good
  <2>. QED
    BY <1>1, <1>7, <1>8, UpTo
<1>10. At(n, path) = to[len]
  BY DEF At, to, goes, len
<1>. QED
  BY <1>1, <1>9, <1>10

(* What a typed field asks for.                                            *)
TypedKind == {"Str", "F64", "U16", "U32"}

LEMMA TypedIs ==
  ASSUME NEW n \in Place, NEW kind \in TypedKind
  PROVE  /\ Typed(n, kind) \in Said \cup {Refused}
         /\ kind = "Str" /\ Typed(n, kind) \notin {None, Refused} =>
              AsnNumber[Typed(n, kind)] \in Said
<1>1. CASE n \in {None, Refused}
  BY <1>1 DEF Typed, Said
<1>2. CASE n \notin {None, Refused} /\ ~Decodes(Data[n], kind)
  BY <1>2 DEF Typed
<1>3. CASE n \notin {None, Refused} /\ Decodes(Data[n], kind)
  <2>1. n \in Node /\ Typed(n, kind) = Data[n].says
    BY <1>3 DEF Place, Typed
  <2>2. Data[n] \in Leaf
    BY <1>3, <2>1, NodeIsEither DEF Decodes, TypedKind, WireKind
  <2>3. kind = "Str" => AsnNumber[Data[n].says] \in Nat \cup {None}
    BY <1>3, <2>1, GeoRecordAssumption DEF Decodes
  <2>. QED
    BY <2>1, <2>2, <2>3 DEF Leaf, Said
<1>. QED
  BY <1>1, <1>2, <1>3

LEMMA FieldsAre ==
  ASSUME NEW n \in Place, NEW paths, NEW kindOf, NEW f \in DOMAIN paths,
         Len(paths[f]) \in Nat, kindOf[f] \in TypedKind,
         ~Refuses(Fields(n, paths, kindOf))
  PROVE  /\ Fields(n, paths, kindOf)[f] \in Said
         /\ kindOf[f] = "Str" /\ Fields(n, paths, kindOf)[f] # None =>
              AsnNumber[Fields(n, paths, kindOf)[f]] \in Said
<1>. DEFINE fields == Fields(n, paths, kindOf)
<1>1. DOMAIN fields = DOMAIN paths /\ fields[f] = Typed(At(n, paths[f]), kindOf[f])
  BY DEF Fields
<1>2. At(n, paths[f]) \in Place
  BY AtIs
<1>. HIDE DEF fields
<1>3. fields[f] # Refused
  BY <1>1 DEF Refuses, fields
<1>. QED
  BY <1>1, <1>2, <1>3, TypedIs DEF fields

(* The typed paths are paths, and what is read at them is a leaf.          *)
LEMMA PathsAre ==
  /\ \A f \in DOMAIN CityPath : Len(CityPath[f]) \in Nat /\ KindOf(CityPath)[f] \in TypedKind
  /\ \A f \in DOMAIN AsnPath : Len(AsnPath[f]) \in Nat /\ KindOf(AsnPath)[f] \in TypedKind
  /\ \A f \in DOMAIN RegionPath : Len(RegionPath[f]) \in Nat /\ KindOf(RegionPath)[f] \in TypedKind
  /\ \A f \in DOMAIN IpInfoPath : Len(IpInfoPath[f]) \in Nat /\ KindOf(IpInfoPath)[f] \in TypedKind
<1>1. \A f : Wants(f) \in TypedKind
  BY DEF Wants, TypedKind
<1>2. \A f \in DOMAIN CityPath : Len(CityPath[f]) \in Nat
  BY DEF CityPath
<1>3. \A f \in DOMAIN AsnPath : Len(AsnPath[f]) \in Nat
  BY DEF AsnPath
<1>4. \A f \in DOMAIN RegionPath : Len(RegionPath[f]) \in Nat
  BY DEF RegionPath
<1>5. \A f \in DOMAIN IpInfoPath : Len(IpInfoPath[f]) \in Nat
  BY DEF IpInfoPath
<1>. QED
  BY <1>1, <1>2, <1>3, <1>4, <1>5 DEF KindOf

(* What is written over a record: values of some of its fields.            *)
Says(said) == DOMAIN said \subseteq Field /\ \A f \in DOMAIN said : said[f] \in Said

LEMMA OverSays ==
  ASSUME NEW a, NEW b, Says(a), Says(b)
  PROVE  Says(Over(a, b))
<1>1. DOMAIN Over(a, b) = DOMAIN a \cup DOMAIN b
  BY OverIs, Zenon
<1>2. \A f \in DOMAIN a \cup DOMAIN b :
        Over(a, b)[f] = IF f \in DOMAIN a THEN a[f] ELSE b[f]
  BY DEF Over
<1>. QED
  BY <1>1, <1>2 DEF Says

LEMMA FieldsSay ==
  ASSUME NEW n \in Place, NEW paths, NEW kindOf, DOMAIN paths \subseteq Field,
         \A f \in DOMAIN paths : Len(paths[f]) \in Nat /\ kindOf[f] \in TypedKind,
         ~Refuses(Fields(n, paths, kindOf))
  PROVE  Says(Fields(n, paths, kindOf))
<1>1. DOMAIN Fields(n, paths, kindOf) = DOMAIN paths
  BY DEF Fields
<1>2. \A f \in DOMAIN paths : Fields(n, paths, kindOf)[f] \in Said
  BY FieldsAre
<1>. QED
  BY <1>1, <1>2 DEF Says

LEMMA PathsAreFields ==
  /\ DOMAIN CityPath \subseteq Field /\ DOMAIN AsnPath \subseteq Field
  /\ DOMAIN RegionPath \subseteq Field /\ DOMAIN IpInfoPath \subseteq Field
  /\ {"network", "asn_network"} \subseteq Field
  BY DEF Field

(* The last region says what a region's fields hold, when none is refused. *)
LEMMA RegionSays ==
  ASSUME NEW n \in Place, Regions(n) # <<>>,
         \A i \in DOMAIN Regions(n) : ~Refuses(Regions(n)[i])
  PROVE  Says(Regions(n)[Len(Regions(n))])
<1>. DEFINE list == Child(n, "subdivisions")
<1>1. list \in Place /\ list # None
  BY ChildIs DEF Regions, Place
<1>2. CASE list = Refused \/ Data[list].kind # "array"
  <2>. DEFINE refused == [f \in DOMAIN RegionPath |-> Refused]
  <2>1. Regions(n) = <<refused>>
    BY <1>1, <1>2 DEF Regions
  <2>2. 1 \in DOMAIN Regions(n) /\ Regions(n)[1] = refused
    BY <2>1
  <2>3. "region_name" \in DOMAIN refused /\ refused["region_name"] = Refused
    BY DEF RegionPath
  <2>4. Refuses(refused)
    BY <2>3 DEF Refuses
  <2>. QED
    BY <2>2, <2>4
<1>3. CASE list # Refused /\ Data[list].kind = "array"
  <2>. DEFINE entries == Data[list].entries
              R == [i \in DOMAIN entries |-> Fields(entries[i].node, RegionPath, KindOf(RegionPath))]
  <2>1. Regions(n) = R
    BY <1>1, <1>3 DEF Regions
  <2>2. entries \in Seq(Entry)
    BY <1>1, <1>3, NodeIsEither DEF Container, Place
  <2>3. Len(R) = Len(entries) /\ Len(entries) \in Nat /\ Len(entries) # 0
    BY <2>1, <2>2
  <2>4. Len(R) \in DOMAIN entries /\ DOMAIN R = DOMAIN entries
    BY <2>2, <2>3
  <2>5. entries[Len(R)] \in Entry
    BY <2>2, <2>4
  <2>. DEFINE m == entries[Len(R)].node
  <2>6. m \in Place /\ R[Len(R)] = Fields(m, RegionPath, KindOf(RegionPath))
    BY <2>4, <2>5 DEF Entry, Place
  <2>7. ~Refuses(R[Len(R)])
    BY <2>1, <2>4
  <2>. HIDE DEF m, R
  <2>8. Says(Fields(m, RegionPath, KindOf(RegionPath)))
    BY <2>6, <2>7, PathsAre, PathsAreFields, FieldsSay
  <2>. QED
    BY <2>1, <2>6, <2>8
<1>. QED
  BY <1>2, <1>3

(* A database that answers writes values, and no refusal, over the record. *)
LEMMA AnswerSays ==
  ASSUME NEW s \in Slot, NEW at \in CityFiles \cup AsnFiles, ReadOf(s, at) # Refused
  PROVE  Says(ReadOf(s, at))
<1>1. at.root \in Place /\ at.root \in Node
  BY AnswerIs DEF Place
<1>2. at.network \in Said
  <2>1. at \in File \cup {None} /\ at # None
    BY GeoRecordAssumption DEF ReadOf
  <2>. QED
    BY <2>1 DEF File, Said
<1>3. /\ Says([network |-> at.network]) /\ Says([asn_network |-> at.network])
      /\ Says([network |-> at.network, asn_network |-> at.network])
  BY <1>2, PathsAreFields DEF Says
<1>4. CASE ReadOf(s, at) = ReadIpInfo(at) /\ ReadIpInfo(at) # Refused
  <2>. DEFINE kinds == [KindOf(IpInfoPath) EXCEPT !["autonomous_system_number"] = "Str"]
              fields == Fields(at.root, IpInfoPath, kinds)
              text == fields["autonomous_system_number"]
              number == IF text = None THEN None ELSE AsnNumber[text]
              typed == [fields EXCEPT !["autonomous_system_number"] = number]
              nets == [network |-> at.network, asn_network |-> at.network]
  <2>1. ReadIpInfo(at) = Over(typed, nets) /\ ~Refuses(fields)
    BY <1>4 DEF ReadIpInfo
  <2>2. "autonomous_system_number" \in DOMAIN IpInfoPath
    BY DEF IpInfoPath
  <2>3. \A f \in DOMAIN IpInfoPath : kinds[f] \in TypedKind
    BY PathsAre DEF KindOf, TypedKind
  <2>4. kinds["autonomous_system_number"] = "Str"
    BY <2>2 DEF KindOf
  <2>5. DOMAIN fields = DOMAIN IpInfoPath
    BY DEF Fields
  <2>. HIDE DEF kinds
  <2>6. Says(fields)
    BY <1>1, <2>1, <2>3, PathsAre, PathsAreFields, FieldsSay
  <2>7. text # None => AsnNumber[text] \in Said
    BY <1>1, <2>1, <2>2, <2>3, <2>4, PathsAre, FieldsAre
  <2>. HIDE DEF fields
  <2>8. number \in Said
    BY <2>7 DEF Said
  <2>. HIDE DEF number
  <2>9. Says(typed)
    BY <2>6, <2>8 DEF Says
  <2>. HIDE DEF typed
  <2>. QED
    BY <1>3, <1>4, <2>1, <2>9, OverSays
<1>5. CASE ReadOf(s, at) = ReadCity(at) /\ ReadCity(at) # Refused
  <2>. DEFINE fields == Fields(at.root, CityPath, KindOf(CityPath))
              regions == Regions(at.root)
              region == IF regions = <<>> THEN <<>> ELSE regions[Len(regions)]
              net == [network |-> at.network]
  <2>1. /\ ReadCity(at) = Over(region, Over(fields, net)) /\ ~Refuses(fields)
        /\ \A i \in DOMAIN regions : ~Refuses(regions[i])
    BY <1>5 DEF ReadCity
  <2>2. Says(fields)
    BY <1>1, <2>1, PathsAre, PathsAreFields, FieldsSay
  <2>3. Says(region)
    <3>1. CASE regions = <<>>
      <4>1. region = <<>> /\ DOMAIN <<>> = {}
        BY <3>1
      <4>. HIDE DEF region
      <4>. QED
        BY <4>1 DEF Says
    <3>2. CASE regions # <<>>
      BY <1>1, <2>1, <3>2, RegionSays
    <3>. QED
      BY <3>1, <3>2
  <2>. HIDE DEF fields, region, net
  <2>4. Says(Over(fields, net))
    BY <1>3, <2>2, OverSays DEF net
  <2>. QED
    BY <1>5, <2>1, <2>3, <2>4, OverSays
<1>6. CASE ReadOf(s, at) = ReadAsn(at) /\ ReadAsn(at) # Refused
  <2>. DEFINE fields == Fields(at.root, AsnPath, KindOf(AsnPath))
              net == [asn_network |-> at.network]
  <2>1. ReadAsn(at) = Over(fields, net) /\ ~Refuses(fields)
    BY <1>6 DEF ReadAsn
  <2>2. Says(fields)
    BY <1>1, <2>1, PathsAre, PathsAreFields, FieldsSay
  <2>. HIDE DEF fields, net
  <2>. QED
    BY <1>3, <1>6, <2>1, <2>2, OverSays DEF net
<1>. QED
  BY <1>4, <1>5, <1>6, AnswerIs

(* Every variable has its type, the record's fields no refusal among them, *)
(* and the bytes held are never below nothing.                             *)
TypeInv == WalkInv /\ TypeOK

LEMMA InitTyped == Init => TypeInv
<1>1. SUFFICES ASSUME Init PROVE TypeInv
  OBVIOUS
<1>2. WalkInv
  BY <1>1, InitWalk
<1>3. record \in [Field -> Int \cup {None}]
  BY <1>1 DEF Init, EmptyRecord
<1>4. extra \in Seq(KeptLeaf) /\ kept \in Seq(KeptLeaf) /\ stack \in Seq(Visitor)
  BY <1>1 DEF Init
<1>. QED
  BY <1>1, <1>2, <1>3, <1>4 DEF Init, TypeInv, TypeOK, Slot

LEMMA NextTyped == TypeInv /\ [Next]_vars => TypeInv'
<1>1. SUFFICES ASSUME TypeInv, [Next]_vars PROVE TypeInv'
  OBVIOUS
<1>2. WalkInv' /\ WalkInv /\ TypeOK
  BY <1>1, NextWalk DEF TypeInv
<1>3. /\ file' \in [Slot -> CityFiles \cup AsnFiles]
      /\ slot' \in Slot \cup {"done"}
      /\ stack' \in Seq(Visitor) /\ kept' \in Seq(KeptLeaf)
  BY <1>2 DEF WalkInv
<1>4. collecting' = collecting /\ step' \in {"decode", "walk", "filter"}
  BY <1>1, <1>2
     DEF Next, Silent, Decode, Ask, Leave, Break, Filter, vars, TypeOK
<1>5. answered' \in SUBSET Slot
  BY <1>1, <1>2
     DEF Next, Silent, Decode, Ask, Leave, Break, Filter, vars, TypeOK
<1>6. record' \in [Field -> Int \cup {None}]
  <2>1. CASE Decode
    <3>1. slot \in Slot /\ file[slot] \in CityFiles \cup AsnFiles
      BY <1>2, <2>1 DEF Decode, WalkInv
    <3>. DEFINE answer == ReadOf(slot, file[slot])
    <3>2. answer # Refused /\ record' = Over(answer, record)
      BY <2>1 DEF Decode
    <3>3. Says(answer)
      BY <3>1, <3>2, AnswerSays
    <3>. HIDE DEF answer
    <3>4. record \in [Field -> Said]
      BY <1>2 DEF TypeOK, Said
    <3>5. Over(answer, record) \in [Field -> Said]
      <4>1. DOMAIN answer \cup DOMAIN record = Field
        BY <3>3, <3>4 DEF Says
      <4>2. \A f \in Field : (IF f \in DOMAIN answer THEN answer[f] ELSE record[f]) \in Said
        BY <3>3, <3>4 DEF Says
      <4>. QED
        BY <4>1, <4>2 DEF Over
    <3>. QED
      BY <3>2, <3>5 DEF Said
  <2>2. CASE ~Decode
    <3>1. record' = record
      BY <1>1, <2>2 DEF Next, Silent, Ask, Leave, Break, Filter, vars
    <3>. QED
      BY <1>2, <3>1 DEF TypeOK
  <2>. QED
    BY <2>1, <2>2
<1>7. extra' \in Seq(KeptLeaf)
  <2>1. CASE Filter
    <3>. DEFINE places == {i \in DOMAIN kept : ~Taken(kept[i][1], kept[i][2], record)}
    <3>1. extra' = extra \o Picked(kept, places)
      BY <2>1 DEF Filter
    <3>. HIDE DEF places
    <3>2. Picked(kept, places) \in Seq(KeptLeaf) /\ extra \in Seq(KeptLeaf)
      BY <1>2, PickedIs DEF TypeOK
    <3>. QED
      BY <3>1, <3>2
  <2>2. CASE ~Filter
    <3>1. extra' = extra
      BY <1>1, <2>2 DEF Next, Silent, Decode, Ask, Leave, Break, vars
    <3>. QED
      BY <1>2, <3>1 DEF TypeOK
  <2>. QED
    BY <2>1, <2>2
<1>8. bytes' \in Nat /\ full' \in BOOLEAN
  <2>1. CASE Ask
    <3>. DEFINE entry == Entries[Top.next]
                path == Append(Top.path, entry.key)
                value == Value(Data[entry.node])
    <3>1. stack \in Seq(Visitor)
      BY <1>2 DEF WalkInv
    <3>2. entry \in Entry /\ path \in Seq(STRING) /\ Len(path) > 0
      <4>1. Top.path \in Seq(STRING)
        BY <2>1, <3>1, TopIsVisitor DEF Ask, Visitor
      <4>. QED
        BY <2>1, <3>1, <4>1, AskedEntry
    <3>3. entry.node \in Node
      BY <3>2 DEF Entry
    <3>. HIDE DEF entry, path
    <3>4. CASE Data[entry.node].kind \in WireKind
      <4>1. Keep(path, value)
        BY <2>1, <3>4 DEF Ask, entry, path
      <4>2. value \in ExtraValue
        BY <3>3, <3>4, NodeIsEither, ValueIsExtra
      <4>. HIDE DEF value
      <4>3. Cost(path, value) \in Nat
        BY <3>2, <4>2 DEF Cost, ExtraValue
      <4>4. bytes' = bytes \/ bytes' = bytes + Cost(path, value)
        BY <4>1 DEF Keep
      <4>5. full' \in BOOLEAN
        <5>1. full' = TRUE \/ full' = (Len(kept') >= MaxFields)
          BY <4>1 DEF Keep
        <5>2. (Len(kept') >= MaxFields) \in BOOLEAN
          OBVIOUS
        <5>. QED
          BY <5>1, <5>2, Zenon
      <4>. QED
        BY <1>2, <4>3, <4>4, <4>5 DEF TypeOK
    <3>5. CASE Data[entry.node].kind \notin WireKind
      BY <1>2, <2>1, <3>5 DEF Ask, entry, path, TypeOK
    <3>. QED
      BY <3>4, <3>5
  <2>2. CASE ~Ask
    <3>1. bytes' \in {0, bytes}
      BY <1>1, <2>2 DEF Next, Silent, Decode, Leave, Break, Filter, vars
    <3>2. full' = full \/ full' = FALSE
      BY <1>1, <2>2 DEF Next, Silent, Decode, Leave, Break, Filter, vars
    <3>3. full' \in BOOLEAN
      BY <1>2, <3>2, Zenon DEF TypeOK
    <3>. QED
      BY <1>2, <3>1, <3>3 DEF TypeOK
  <2>. QED
    BY <2>1, <2>2
<1>9. ended' \in [Slot -> {"unread", "whole", "full", "broken"}]
  <2>1. ended' = ended
          \/ \E how \in {"whole", "full", "broken"} : ended' = [ended EXCEPT ![slot] = how]
    BY <1>1 DEF Next, Silent, Decode, Ask, Leave, Break, Filter, vars
  <2>. QED
    BY <1>2, <2>1 DEF TypeOK
<1>. QED
  BY <1>2, <1>3, <1>4, <1>5, <1>6, <1>7, <1>8, <1>9 DEF TypeInv, TypeOK

(* Whatever the two files hold, a record's typed fields are values and     *)
(* never what a refused decode left, and the rest has its type.            *)
THEOREM RecordTyped == Spec => []TypeOK
<1>1. Spec => []TypeInv
  BY InitTyped, NextTyped, PTL DEF Spec
<1>2. TypeInv => TypeOK
  BY DEF TypeInv
<1>3. QED
  BY <1>1, <1>2, PTL

-----------------------------------------------------------------------------
(* The leaves of a record, each under its path.                            *)
NamedLeaf == {leaf \in KeptLeaf : leaf[1] # <<>>}

LEMMA LeafIs ==
  /\ \A path \in Seq(STRING), value \in ExtraValue : <<path, value>> \in KeptLeaf
  /\ \A leaf \in KeptLeaf :
       leaf[1] \in Seq(STRING) /\ leaf[2] \in ExtraValue /\ leaf = <<leaf[1], leaf[2]>>
  BY DEF KeptLeaf

(* An empty path is the record's own, and paths join.                      *)
LEMMA UnderIs ==
  ASSUME NEW path \in Seq(STRING), NEW leaves \in Seq(KeptLeaf)
  PROVE  /\ Under(path, leaves) \in Seq(KeptLeaf)
         /\ Len(Under(path, leaves)) = Len(leaves)
         /\ \A j \in 1 .. Len(leaves) :
              /\ Under(path, leaves)[j] = <<path \o leaves[j][1], leaves[j][2]>>
              /\ leaves[j][1] \in Seq(STRING) /\ leaves[j][2] \in ExtraValue
         /\ path # <<>> => Under(path, leaves) \in Seq(NamedLeaf)
<1>. DEFINE n == Len(leaves)
            under == Under(path, leaves)
<1>1. n \in Nat /\ DOMAIN leaves = 1 .. n /\ \A j \in 1 .. n : leaves[j] \in KeptLeaf
  OBVIOUS
<1>2. under = [j \in 1 .. n |-> <<path \o leaves[j][1], leaves[j][2]>>]
  BY <1>1 DEF Under
<1>3. ASSUME NEW j \in 1 .. n
      PROVE  /\ leaves[j][1] \in Seq(STRING) /\ leaves[j][2] \in ExtraValue
             /\ under[j] = <<path \o leaves[j][1], leaves[j][2]>>
             /\ under[j] \in KeptLeaf
             /\ path # <<>> => under[j] \in NamedLeaf
  <2>1. leaves[j][1] \in Seq(STRING) /\ leaves[j][2] \in ExtraValue
    BY <1>1 DEF KeptLeaf
  <2>2. under[j] = <<path \o leaves[j][1], leaves[j][2]>>
    BY <1>2
  <2>3. path \o leaves[j][1] \in Seq(STRING)
    BY <2>1
  <2>4. path # <<>> => path \o leaves[j][1] # <<>>
    BY <2>1
  <2>. HIDE DEF under
  <2>5. under[j] \in KeptLeaf
    BY <2>1, <2>2, <2>3, LeafIs, Zenon
  <2>6. path # <<>> => under[j] \in NamedLeaf
    BY <2>2, <2>4, <2>5 DEF NamedLeaf
  <2>. QED
    BY <2>1, <2>2, <2>5, <2>6
<1>. HIDE DEF n, under
<1>4. under = [j \in 1 .. n |-> under[j]]
  BY <1>2
<1>5. under \in Seq(KeptLeaf) /\ Len(under) = n
  <2>1. \A j \in 1 .. n : under[j] \in KeptLeaf
    BY <1>3
  <2>. QED
    BY <1>1, <1>4, <2>1, SeqIs
<1>6. ASSUME path # <<>> PROVE under \in Seq(NamedLeaf)
  <2>1. \A j \in 1 .. n : under[j] \in NamedLeaf
    BY <1>3, <1>6
  <2>. QED
    BY <1>1, <1>4, <2>1, SeqIs
<1>. QED
  BY <1>3, <1>5, <1>6 DEF n, under

LEMMA UnderRoot ==
  ASSUME NEW leaves \in Seq(KeptLeaf)
  PROVE  Under(<<>>, leaves) = leaves
<1>1. <<>> \in Seq(STRING)
  OBVIOUS
<1>2. ASSUME NEW j \in 1 .. Len(leaves) PROVE Under(<<>>, leaves)[j] = leaves[j]
  <2>1. leaves[j] \in KeptLeaf
    OBVIOUS
  <2>2. leaves[j] = <<leaves[j][1], leaves[j][2]>> /\ leaves[j][1] \in Seq(STRING)
    BY <2>1, LeafIs, Zenon
  <2>3. <<>> \o leaves[j][1] = leaves[j][1]
    BY <2>2
  <2>4. Under(<<>>, leaves)[j] = << <<>> \o leaves[j][1], leaves[j][2]>>
    BY <1>1, UnderIs
  <2>. QED
    BY <2>2, <2>3, <2>4, Zenon
<1>3. Under(<<>>, leaves) \in Seq(KeptLeaf) /\ Len(Under(<<>>, leaves)) = Len(leaves)
  BY <1>1, UnderIs
<1>. QED
  BY <1>2, <1>3, SeqEqual

LEMMA UnderJoins ==
  ASSUME NEW path \in Seq(STRING), NEW a \in Seq(KeptLeaf), NEW b \in Seq(KeptLeaf)
  PROVE  Under(path, a \o b) = Under(path, a) \o Under(path, b)
<1>. DEFINE l == Under(path, a \o b)
            r == Under(path, a) \o Under(path, b)
<1>1. a \o b \in Seq(KeptLeaf) /\ Len(a \o b) = Len(a) + Len(b)
  OBVIOUS
<1>2. /\ l \in Seq(KeptLeaf) /\ Len(l) = Len(a) + Len(b)
      /\ Under(path, a) \in Seq(KeptLeaf) /\ Len(Under(path, a)) = Len(a)
      /\ Under(path, b) \in Seq(KeptLeaf) /\ Len(Under(path, b)) = Len(b)
  BY <1>1, UnderIs
<1>3. r \in Seq(KeptLeaf) /\ Len(r) = Len(a) + Len(b)
  BY <1>2
<1>4. ASSUME NEW j \in 1 .. Len(a) + Len(b) PROVE l[j] = r[j]
  <2>1. l[j] = <<path \o (a \o b)[j][1], (a \o b)[j][2]>>
    BY <1>1, UnderIs
  <2>2. CASE j <= Len(a)
    <3>1. j \in 1 .. Len(a) /\ (a \o b)[j] = a[j] /\ r[j] = Under(path, a)[j]
      BY <1>2, <2>2
    <3>2. Under(path, a)[j] = <<path \o a[j][1], a[j][2]>>
      BY <3>1, UnderIs
    <3>. QED
      BY <2>1, <3>1, <3>2
  <2>3. CASE ~(j <= Len(a))
    <3>. DEFINE k == j - Len(a)
    <3>1. k \in 1 .. Len(b) /\ (a \o b)[j] = b[k] /\ r[j] = Under(path, b)[k]
      BY <1>2, <2>3
    <3>2. Under(path, b)[k] = <<path \o b[k][1], b[k][2]>>
      BY <3>1, UnderIs
    <3>. QED
      BY <2>1, <3>1, <3>2
  <2>. QED
    BY <2>2, <2>3
<1>. QED
  BY <1>2, <1>3, <1>4, SeqEqual

LEMMA UnderUnder ==
  ASSUME NEW p \in Seq(STRING), NEW q \in Seq(STRING), NEW leaves \in Seq(KeptLeaf)
  PROVE  Under(p, Under(q, leaves)) = Under(p \o q, leaves)
<1>1. /\ p \o q \in Seq(STRING)
      /\ Under(q, leaves) \in Seq(KeptLeaf) /\ Len(Under(q, leaves)) = Len(leaves)
  BY UnderIs
<1>2. /\ Under(p, Under(q, leaves)) \in Seq(KeptLeaf)
      /\ Len(Under(p, Under(q, leaves))) = Len(leaves)
      /\ Under(p \o q, leaves) \in Seq(KeptLeaf)
      /\ Len(Under(p \o q, leaves)) = Len(leaves)
  BY <1>1, UnderIs
<1>3. ASSUME NEW j \in 1 .. Len(leaves)
      PROVE  Under(p, Under(q, leaves))[j] = Under(p \o q, leaves)[j]
  <2>. DEFINE own == leaves[j][1]
              value == leaves[j][2]
  <2>1. own \in Seq(STRING) /\ Under(q, leaves)[j] = <<q \o own, value>>
    BY UnderIs
  <2>2. Under(p \o q, leaves)[j] = <<(p \o q) \o own, value>>
    BY <1>1, UnderIs
  <2>3. Under(p, Under(q, leaves))[j]
          = <<p \o Under(q, leaves)[j][1], Under(q, leaves)[j][2]>>
    <3>. DEFINE inner == Under(q, leaves)
    <3>1. inner \in Seq(KeptLeaf) /\ j \in 1 .. Len(inner)
      BY <1>1
    <3>. HIDE DEF inner
    <3>2. Under(p, inner)[j] = <<p \o inner[j][1], inner[j][2]>>
      BY <3>1, UnderIs
    <3>. QED
      BY <3>2 DEF inner
  <2>. HIDE DEF own, value
  <2>4. Under(p, Under(q, leaves))[j] = <<p \o (q \o own), value>>
    BY <2>1, <2>3
  <2>5. (p \o q) \o own = p \o (q \o own)
    BY <2>1, ConcatAssociative, SMTT(30)
  <2>. QED
    BY <2>2, <2>4, <2>5
<1>. QED
  BY <1>2, <1>3, SeqEqual

(* The leaves of a container's last entries: one entry's, under its key,   *)
(* before those of the entries after it.                                   *)
LeavesAt == [Node -> Seq(KeptLeaf)]

Lasts(entries, leavesAt, f) ==
  LET n == Len(entries) IN
  /\ f \in [0 .. n -> Seq(NamedLeaf)] /\ f[0] = <<>>
  /\ \A i \in 1 .. n :
       f[i] = Under(<<entries[n + 1 - i].key>>, leavesAt[entries[n + 1 - i].node]) \o f[i - 1]

LEMMA NamedIsKept ==
  ASSUME NEW leaves \in Seq(NamedLeaf) PROVE leaves \in Seq(KeptLeaf)
  BY DEF NamedLeaf

LEMMA FromIs ==
  ASSUME NEW entries \in Seq(Entry), NEW leavesAt \in LeavesAt
  PROVE  \E f : /\ Lasts(entries, leavesAt, f)
                /\ \A k \in 1 .. Len(entries) + 1 :
                     FromEntry(entries, k, leavesAt) = f[Len(entries) + 1 - k]
<1>. DEFINE n == Len(entries)
            own(i) == Under(<<entries[n + 1 - i].key>>, leavesAt[entries[n + 1 - i].node])
            goes(f) == f = [i \in 0 .. n |->
                              IF i = 0 THEN <<>>
                              ELSE LET e == entries[n + 1 - i]
                                   IN Under(<<e.key>>, leavesAt[e.node]) \o f[i - 1]]
            last == CHOOSE f : goes(f)
            g == [i \in 1 .. n |-> [t \in Seq(NamedLeaf) |-> own(i) \o t]]
<1>1. ASSUME NEW i \in 1 .. Len(entries) PROVE own(i) \in Seq(NamedLeaf)
  <2>1. entries[n + 1 - i] \in Entry
    OBVIOUS
  <2>. DEFINE e == entries[n + 1 - i]
  <2>2. <<e.key>> \in Seq(STRING) /\ <<e.key>> # <<>>
    BY <2>1 DEF Entry
  <2>3. leavesAt[e.node] \in Seq(KeptLeaf)
    BY <2>1 DEF Entry, LeavesAt
  <2>. HIDE DEF e, n
  <2>4. Under(<<e.key>>, leavesAt[e.node]) \in Seq(NamedLeaf)
    BY <2>2, <2>3, UnderIs
  <2>. QED
    BY <2>4 DEF e
<1>2. n \in Nat /\ \A i \in 1 .. n : own(i) \in Seq(NamedLeaf)
  BY <1>1
<1>3. goes(last)
  <2>1. \E f : goes(f)
    <3>. HIDE DEF own, n
    <3>1. g \in [1 .. n -> [Seq(NamedLeaf) -> Seq(NamedLeaf)]]
      BY <1>2
    <3>2. PICK e : Passes(n, Seq(NamedLeaf), <<>>, g, e)
      <4>1. <<>> \in Seq(NamedLeaf)
        OBVIOUS
      <4>. HIDE DEF g
      <4>. QED
        BY <1>2, <3>1, <4>1, Iterates
    <3>3. ASSUME NEW i \in 0 .. n PROVE e[i] = IF i = 0 THEN <<>> ELSE own(i) \o e[i - 1]
      <4>1. CASE i = 0
        BY <3>2, <4>1 DEF Passes
      <4>2. CASE i # 0
        <5>1. i \in 1 .. n /\ i - 1 \in 0 .. n
          BY <1>2, <4>2
        <5>2. e[i] = g[i][e[i - 1]] /\ e[i - 1] \in Seq(NamedLeaf)
          BY <3>2, <5>1 DEF Passes
        <5>3. g[i][e[i - 1]] = own(i) \o e[i - 1]
          BY <5>1, <5>2
        <5>. QED
          BY <4>2, <5>2, <5>3
      <4>. QED
        BY <4>1, <4>2
    <3>4. e = [i \in 0 .. n |-> e[i]]
      BY <3>2 DEF Passes
    <3>5. e = [i \in 0 .. n |-> IF i = 0 THEN <<>> ELSE own(i) \o e[i - 1]]
      BY <3>3, <3>4
    <3>6. goes(e)
      BY <3>5 DEF own
    <3>. QED
      BY <3>6
  <2>. HIDE DEF goes
  <2>. QED
    BY <2>1, Zenon
<1>. HIDE DEF last
<1>4. /\ last[0] = <<>> /\ last = [i \in 0 .. n |-> last[i]]
      /\ \A i \in 1 .. n : last[i] = own(i) \o last[i - 1]
  <2>. HIDE DEF n
  <2>1. \A i \in 0 .. n : last[i] = IF i = 0 THEN <<>> ELSE own(i) \o last[i - 1]
    BY <1>3
  <2>2. 0 \in 0 .. n /\ \A i \in 1 .. n : i \in 0 .. n /\ i # 0
    BY <1>2
  <2>. QED
    BY <1>3, <2>1, <2>2
<1>. DEFINE Good == {i \in 0 .. n : last[i] \in Seq(NamedLeaf)}
<1>5. \A i \in 0 .. n : i \in Good
  <2>. HIDE DEF n, own
  <2>1. 0 \in Good
    <3>1. <<>> \in Seq(NamedLeaf)
      OBVIOUS
    <3>2. last[0] \in Seq(NamedLeaf)
      BY <1>4, <3>1, Zenon
    <3>. QED
      BY <1>2, <3>2
  <2>2. ASSUME NEW i \in 1 .. n, i - 1 \in Good PROVE i \in Good
    <3>1. own(i) \in Seq(NamedLeaf) /\ last[i - 1] \in Seq(NamedLeaf)
      BY <1>2, <2>2
    <3>2. own(i) \o last[i - 1] \in Seq(NamedLeaf)
      BY <3>1
    <3>3. last[i] \in Seq(NamedLeaf)
      BY <1>4, <3>2, Zenon
    <3>. QED
      BY <1>2, <3>3
  <2>. HIDE DEF Good
  <2>. QED
    BY <1>2, <2>1, <2>2, UpTo
<1>6. Lasts(entries, leavesAt, last)
  <2>1. last \in [0 .. n -> Seq(NamedLeaf)]
    <3>. HIDE DEF n, own, goes
    <3>. QED
      BY <1>4, <1>5
  <2>. QED
    BY <1>4, <2>1 DEF Lasts
<1>7. \A k : FromEntry(entries, k, leavesAt) = last[n + 1 - k]
  BY DEF FromEntry, last, goes, n
<1>. QED
  BY <1>6, <1>7

LEMMA FromStep ==
  ASSUME NEW entries \in Seq(Entry), NEW leavesAt \in LeavesAt
  PROVE  /\ FromEntry(entries, Len(entries) + 1, leavesAt) = <<>>
         /\ \A k \in 1 .. Len(entries) + 1 : FromEntry(entries, k, leavesAt) \in Seq(NamedLeaf)
         /\ \A k \in 1 .. Len(entries) :
              FromEntry(entries, k, leavesAt)
                = Under(<<entries[k].key>>, leavesAt[entries[k].node])
                    \o FromEntry(entries, k + 1, leavesAt)
<1>1. PICK f : /\ Lasts(entries, leavesAt, f)
               /\ \A k \in 1 .. Len(entries) + 1 :
                    FromEntry(entries, k, leavesAt) = f[Len(entries) + 1 - k]
  BY FromIs
<1>. DEFINE n == Len(entries)
<1>2. n \in Nat
  OBVIOUS
<1>. HIDE DEF n
<1>3. /\ f \in [0 .. n -> Seq(NamedLeaf)] /\ f[0] = <<>>
      /\ \A i \in 1 .. n :
           f[i] = Under(<<entries[n + 1 - i].key>>, leavesAt[entries[n + 1 - i].node]) \o f[i - 1]
      /\ \A k \in 1 .. n + 1 : FromEntry(entries, k, leavesAt) = f[n + 1 - k]
  BY <1>1 DEF Lasts, n
<1>4. FromEntry(entries, n + 1, leavesAt) = <<>>
  <2>1. n + 1 \in 1 .. n + 1 /\ n + 1 - (n + 1) = 0
    BY <1>2
  <2>. QED
    BY <1>3, <2>1
<1>5. \A k \in 1 .. n + 1 : FromEntry(entries, k, leavesAt) \in Seq(NamedLeaf)
  BY <1>2, <1>3
<1>6. ASSUME NEW k \in 1 .. n
      PROVE  FromEntry(entries, k, leavesAt)
               = Under(<<entries[k].key>>, leavesAt[entries[k].node])
                   \o FromEntry(entries, k + 1, leavesAt)
  <2>. DEFINE i == n + 1 - k
  <2>1. /\ i \in 1 .. n /\ n + 1 - i = k /\ i - 1 = n + 1 - (k + 1)
        /\ k \in 1 .. n + 1 /\ k + 1 \in 1 .. n + 1
    BY <1>2
  <2>2. FromEntry(entries, k, leavesAt) = f[i] /\ FromEntry(entries, k + 1, leavesAt) = f[i - 1]
    BY <1>3, <2>1
  <2>. HIDE DEF i
  <2>3. f[i] = Under(<<entries[n + 1 - i].key>>, leavesAt[entries[n + 1 - i].node]) \o f[i - 1]
    BY <1>3, <2>1, Zenon
  <2>. QED
    BY <2>1, <2>2, <2>3
<1>. QED
  BY <1>4, <1>5, <1>6 DEF n

(* They depend on the leaves of the entries' own places only.              *)
LEMMA FromAgrees ==
  ASSUME NEW entries \in Seq(Entry), NEW a \in LeavesAt, NEW b \in LeavesAt,
         \A i \in 1 .. Len(entries) : a[entries[i].node] = b[entries[i].node]
  PROVE  FromEntry(entries, 1, a) = FromEntry(entries, 1, b)
<1>. DEFINE n == Len(entries)
            Good == {i \in 0 .. n : FromEntry(entries, n + 1 - i, a) = FromEntry(entries, n + 1 - i, b)}
<1>1. n \in Nat
  OBVIOUS
<1>2. /\ FromEntry(entries, n + 1, a) = <<>> /\ FromEntry(entries, n + 1, b) = <<>>
      /\ \A k \in 1 .. n :
           /\ FromEntry(entries, k, a)
                = Under(<<entries[k].key>>, a[entries[k].node]) \o FromEntry(entries, k + 1, a)
           /\ FromEntry(entries, k, b)
                = Under(<<entries[k].key>>, b[entries[k].node]) \o FromEntry(entries, k + 1, b)
  BY FromStep
<1>. HIDE DEF n
<1>3. 0 \in Good
  <2>1. n + 1 - 0 = n + 1
    BY <1>1
  <2>. QED
    BY <1>1, <1>2, <2>1
<1>4. ASSUME NEW i \in 1 .. n, i - 1 \in Good PROVE i \in Good
  <2>. DEFINE k == n + 1 - i
  <2>1. k \in 1 .. n /\ n + 1 - (i - 1) = k + 1 /\ i \in 0 .. n
    BY <1>1
  <2>2. FromEntry(entries, k + 1, a) = FromEntry(entries, k + 1, b)
    BY <1>4, <2>1
  <2>3. a[entries[k].node] = b[entries[k].node]
    BY <2>1 DEF n
  <2>. HIDE DEF k
  <2>4. FromEntry(entries, k, a) = FromEntry(entries, k, b)
    BY <1>2, <2>1, <2>2, <2>3, Zenon
  <2>. QED
    BY <2>1, <2>4 DEF k
<1>5. n \in Good
  <2>. HIDE DEF Good
  <2>1. \A i \in 0 .. n : i \in Good
    BY <1>1, <1>3, <1>4, UpTo
  <2>. QED
    BY <1>1, <2>1
<1>6. n + 1 - n = 1
  BY <1>1
<1>. QED
  BY <1>5, <1>6

(* The leaves of each place, its records taken to a depth.                 *)
Sole(n) == << <<<<>>, Value(Data[n])>> >>

Below0(n) == IF n \notin Container THEN Sole(n) ELSE <<>>

Deeper(n, leavesAt) ==
  IF n \notin Container THEN Sole(n) ELSE FromEntry(Data[n].entries, 1, leavesAt)

LEMMA SoleIs ==
  ASSUME NEW n \in Node, n \notin Container
  PROVE  Sole(n) \in Seq(KeptLeaf)
<1>1. Data[n].kind \in WireKind /\ Data[n] \in Leaf
  BY NodeIsEither
<1>2. Value(Data[n]) \in ExtraValue /\ <<>> \in Seq(STRING)
  BY <1>1, ValueIsExtra
<1>3. <<<<>>, Value(Data[n])>> \in KeptLeaf
  BY <1>2, LeafIs, Zenon
<1>. QED
  BY <1>3 DEF Sole

LEMMA ContainerIs ==
  ASSUME NEW n \in Container
  PROVE  /\ n \in Node /\ Data[n].entries \in Seq(Entry) /\ Len(Data[n].entries) \in Nat
         /\ \A i \in 1 .. Len(Data[n].entries) : Data[n].entries[i].node \in Node
<1>1. n \in Node
  BY DEF Container
<1>. DEFINE entries == Data[n].entries
<1>2. entries \in Seq(Entry)
  BY <1>1, NodeIsEither
<1>. HIDE DEF entries
<1>3. ASSUME NEW i \in 1 .. Len(entries) PROVE entries[i].node \in Node
  <2>1. entries[i] \in Entry
    BY <1>2
  <2>. QED
    BY <2>1 DEF Entry
<1>4. Len(entries) \in Nat
  BY <1>2
<1>. QED
  BY <1>1, <1>2, <1>3, <1>4 DEF entries

LEMMA DeeperIs ==
  ASSUME NEW n \in Node, NEW leavesAt \in LeavesAt
  PROVE  Deeper(n, leavesAt) \in Seq(KeptLeaf) /\ Below0(n) \in Seq(KeptLeaf)
<1>1. CASE n \notin Container
  BY <1>1, SoleIs DEF Deeper, Below0
<1>2. CASE n \in Container
  <2>. DEFINE entries == Data[n].entries
  <2>1. entries \in Seq(Entry) /\ 1 \in 1 .. Len(entries) + 1
    BY <1>2, ContainerIs
  <2>. HIDE DEF entries
  <2>2. FromEntry(entries, 1, leavesAt) \in Seq(NamedLeaf)
    BY <2>1, FromStep
  <2>3. FromEntry(entries, 1, leavesAt) \in Seq(KeptLeaf) /\ <<>> \in Seq(KeptLeaf)
    BY <2>2, NamedIsKept
  <2>. QED
    BY <1>2, <2>3 DEF Deeper, Below0, entries
<1>. QED
  BY <1>1, <1>2

Levels(to) ==
  /\ to \in [0 .. Depth -> LeavesAt]
  /\ \A n \in Node : to[0][n] = Below0(n)
  /\ \A d \in 1 .. Depth : \A n \in Node : to[d][n] = Deeper(n, to[d - 1])

LEMMA LeavesTo ==
  \E to : Levels(to) /\ \A n \in Node : LeavesOf(n) = to[Depth][n]
<1>. DEFINE start == [n \in Node |-> Below0(n)]
            next(x) == [n \in Node |-> Deeper(n, x)]
            goes(f) == f = [d \in 0 .. Depth |->
                              [n \in Node |->
                                 IF n \notin Container THEN << <<<<>>, Value(Data[n])>> >>
                                 ELSE IF d = 0 THEN <<>> ELSE FromEntry(Data[n].entries, 1, f[d - 1])]]
            to == CHOOSE f : goes(f)
            g == [d \in 1 .. Depth |-> [x \in LeavesAt |-> next(x)]]
<1>1. Depth \in Nat
  BY HeightAssumption
<1>2. start \in LeavesAt
  <2>1. ASSUME NEW n \in Node PROVE Below0(n) \in Seq(KeptLeaf)
    <3>1. CASE n \notin Container
      BY <3>1, SoleIs DEF Below0
    <3>2. CASE n \in Container
      <4>1. <<>> \in Seq(KeptLeaf)
        OBVIOUS
      <4>. QED
        BY <3>2, <4>1 DEF Below0
    <3>. QED
      BY <3>1, <3>2
  <2>. QED
    BY <2>1 DEF LeavesAt
<1>3. \A x \in LeavesAt : next(x) \in LeavesAt
  <2>1. ASSUME NEW x \in LeavesAt PROVE next(x) \in LeavesAt
    <3>1. \A n \in Node : Deeper(n, x) \in Seq(KeptLeaf)
      BY DeeperIs
    <3>. QED
      BY <3>1 DEF LeavesAt
  <2>. QED
    BY <2>1
<1>4. \A f, d : [n \in Node |->
                   IF n \notin Container THEN << <<<<>>, Value(Data[n])>> >>
                   ELSE IF d = 0 THEN <<>> ELSE FromEntry(Data[n].entries, 1, f[d - 1])]
                  = IF d = 0 THEN start ELSE next(f[d - 1])
  <2>1. SUFFICES ASSUME NEW f, NEW d
                 PROVE  [n \in Node |->
                           IF n \notin Container THEN << <<<<>>, Value(Data[n])>> >>
                           ELSE IF d = 0 THEN <<>> ELSE FromEntry(Data[n].entries, 1, f[d - 1])]
                          = IF d = 0 THEN start ELSE next(f[d - 1])
    OBVIOUS
  <2>2. CASE d = 0
    BY <2>2 DEF Below0, Sole
  <2>3. CASE d # 0
    BY <2>3 DEF Deeper, Sole
  <2>. QED
    BY <2>2, <2>3
<1>. HIDE DEF start, next
<1>5. goes(to)
  <2>1. \E f : goes(f)
    <3>1. g \in [1 .. Depth -> [LeavesAt -> LeavesAt]]
      BY <1>3
    <3>2. PICK e : Passes(Depth, LeavesAt, start, g, e)
      <4>. HIDE DEF g
      <4>. QED
        BY <1>1, <1>2, <3>1, Iterates
    <3>3. ASSUME NEW d \in 0 .. Depth PROVE e[d] = IF d = 0 THEN start ELSE next(e[d - 1])
      <4>1. CASE d = 0
        BY <3>2, <4>1 DEF Passes
      <4>2. CASE d # 0
        <5>1. d \in 1 .. Depth /\ d - 1 \in 0 .. Depth
          BY <1>1, <4>2
        <5>2. e[d] = g[d][e[d - 1]] /\ e[d - 1] \in LeavesAt
          BY <3>2, <5>1 DEF Passes
        <5>3. g[d][e[d - 1]] = next(e[d - 1])
          BY <5>1, <5>2
        <5>. QED
          BY <4>2, <5>2, <5>3
      <4>. QED
        BY <4>1, <4>2
    <3>4. e = [d \in 0 .. Depth |-> e[d]]
      BY <3>2 DEF Passes
    <3>5. e = [d \in 0 .. Depth |-> IF d = 0 THEN start ELSE next(e[d - 1])]
      BY <3>3, <3>4
    <3>6. goes(e)
      BY <1>4, <3>5
    <3>. QED
      BY <3>6
  <2>. HIDE DEF goes
  <2>. QED
    BY <2>1, Zenon
<1>. HIDE DEF to
<1>6. /\ to = [d \in 0 .. Depth |-> to[d]] /\ to[0] = start
      /\ \A d \in 1 .. Depth : to[d] = next(to[d - 1])
  <2>1. to = [d \in 0 .. Depth |-> IF d = 0 THEN start ELSE next(to[d - 1])]
    BY <1>4, <1>5
  <2>2. \A d \in 0 .. Depth : to[d] = IF d = 0 THEN start ELSE next(to[d - 1])
    BY <2>1
  <2>3. 0 \in 0 .. Depth /\ \A d \in 1 .. Depth : d \in 0 .. Depth /\ d # 0
    BY <1>1
  <2>4. to = [d \in 0 .. Depth |-> to[d]]
    BY <2>1, <2>2
  <2>. QED
    BY <2>2, <2>3, <2>4
<1>. DEFINE Good == {d \in 0 .. Depth : to[d] \in LeavesAt}
<1>7. \A d \in 0 .. Depth : d \in Good
  <2>1. 0 \in Good
    BY <1>1, <1>2, <1>6
  <2>2. \A d \in 1 .. Depth : d - 1 \in Good => d \in Good
    BY <1>1, <1>3, <1>6
  <2>. HIDE DEF Good
  <2>. QED
    BY <1>1, <2>1, <2>2, UpTo
<1>8. Levels(to)
  <2>1. to \in [0 .. Depth -> LeavesAt]
    BY <1>6, <1>7
  <2>2. \A n \in Node : to[0][n] = Below0(n)
    BY <1>6 DEF start
  <2>3. \A d \in 1 .. Depth : \A n \in Node : to[d][n] = Deeper(n, to[d - 1])
    BY <1>6 DEF next
  <2>. QED
    BY <2>1, <2>2, <2>3 DEF Levels
<1>9. \A n : LeavesOf(n) = to[Depth][n]
  BY DEF LeavesOf, to, goes
<1>. QED
  BY <1>8, <1>9

(* A place that nests no deeper than d is read whole at d.                 *)
LEMMA LevelsSettle ==
  ASSUME NEW to, Levels(to), NEW d \in 0 .. Depth, d < Depth,
         NEW n \in Node, Height[n] <= d
  PROVE  to[d][n] = to[d + 1][n]
<1>. DEFINE Steady(k) == \A m \in Node : Height[m] <= k => to[k][m] = to[k + 1][m]
            Good == {k \in 0 .. Depth : k < Depth => Steady(k)}
<1>1. Depth \in Nat /\ Height \in [Node -> 0 .. Depth] /\ to \in [0 .. Depth -> LeavesAt]
  BY HeightAssumption DEF Levels
<1>2. ASSUME NEW k \in 0 .. Depth, k < Depth, NEW m \in Node, Height[m] <= k,
             k # 0 => Steady(k - 1)
      PROVE  to[k][m] = to[k + 1][m]
  <2>1. k + 1 \in 1 .. Depth /\ (k + 1) - 1 = k /\ to[k] \in LeavesAt
    BY <1>1, <1>2
  <2>2. to[k + 1][m] = Deeper(m, to[(k + 1) - 1])
    BY <2>1 DEF Levels
  <2>3. to[k + 1][m] = Deeper(m, to[k])
    BY <2>1, <2>2
  <2>4. CASE m \notin Container
    <3>1. k # 0 => to[k][m] = Deeper(m, to[k - 1])
      BY <1>1, <1>2 DEF Levels
    <3>2. k = 0 => to[k][m] = Below0(m)
      BY DEF Levels
    <3>. QED
      BY <2>3, <2>4, <3>1, <3>2 DEF Deeper, Below0
  <2>5. CASE m \in Container
    <3>. DEFINE entries == Data[m].entries
    <3>1. entries \in Seq(Entry) /\ Len(entries) \in Nat
          /\ \A i \in 1 .. Len(entries) : entries[i].node \in Node
      BY <2>5, ContainerIs
    <3>2. \A i \in 1 .. Len(entries) : Height[entries[i].node] < Height[m]
      BY <2>5, <3>1, HeightAssumption
    <3>. HIDE DEF entries
    <3>3. CASE k = 0
      <4>1. Len(entries) = 0
        BY <1>1, <1>2, <3>1, <3>2, <3>3
      <4>2. FromEntry(entries, Len(entries) + 1, to[k]) = <<>>
        BY <2>1, <3>1, FromStep
      <4>3. Len(entries) + 1 = 1
        BY <4>1
      <4>4. FromEntry(entries, 1, to[k]) = <<>>
        BY <4>2, <4>3
      <4>5. to[k][m] = Below0(m)
        BY <3>3 DEF Levels
      <4>. QED
        BY <2>3, <2>5, <4>4, <4>5 DEF Deeper, Below0, entries
    <3>4. CASE k # 0
      <4>1. k \in 1 .. Depth /\ k - 1 \in 0 .. Depth /\ to[k - 1] \in LeavesAt /\ (k - 1) + 1 = k
        BY <1>1, <3>4
      <4>2. to[k][m] = Deeper(m, to[k - 1])
        BY <4>1 DEF Levels
      <4>3. ASSUME NEW i \in 1 .. Len(entries)
            PROVE  to[k - 1][entries[i].node] = to[k][entries[i].node]
        <5>1. Height[entries[i].node] <= k - 1
          <6>1. Height[entries[i].node] \in Int /\ Height[m] \in Int
            BY <1>1, <3>1
          <6>. QED
            BY <1>2, <3>2, <6>1
        <5>2. to[k - 1][entries[i].node] = to[(k - 1) + 1][entries[i].node]
          BY <1>2, <3>1, <3>4, <5>1
        <5>. QED
          BY <4>1, <5>2
      <4>4. FromEntry(entries, 1, to[k - 1]) = FromEntry(entries, 1, to[k])
        BY <2>1, <3>1, <4>1, <4>3, FromAgrees
      <4>. QED
        BY <2>3, <2>5, <4>2, <4>4 DEF Deeper, entries
    <3>. QED
      BY <3>3, <3>4
  <2>. QED
    BY <2>4, <2>5
<1>3. 0 \in Good
  BY <1>1, <1>2
<1>4. ASSUME NEW k \in 1 .. Depth, k - 1 \in Good PROVE k \in Good
  <2>1. k - 1 < Depth /\ k \in 0 .. Depth
    BY <1>1
  <2>2. Steady(k - 1)
    BY <1>4, <2>1
  <2>3. k < Depth => Steady(k)
    BY <1>2, <2>1, <2>2
  <2>. QED
    BY <2>1, <2>3
<1>5. \A k \in 0 .. Depth : k \in Good
  <2>. HIDE DEF Good
  <2>. QED
    BY <1>1, <1>3, <1>4, UpTo
<1>6. Steady(d)
  BY <1>5
<1>. QED
  BY <1>6

(* Every place's leaves, a container's those of its entries.               *)
All == [n \in Node |-> LeavesOf(n)]

LEMMA AllIs == All \in LeavesAt
<1>1. PICK to : Levels(to) /\ \A n \in Node : LeavesOf(n) = to[Depth][n]
  BY LeavesTo
<1>2. to[Depth] \in LeavesAt
  BY <1>1, HeightAssumption DEF Levels
<1>. QED
  BY <1>1, <1>2 DEF All, LeavesAt

LEMMA LeavesUnfold ==
  ASSUME NEW n \in Node
  PROVE  LeavesOf(n) = Deeper(n, All)
<1>1. PICK to : Levels(to) /\ \A m \in Node : LeavesOf(m) = to[Depth][m]
  BY LeavesTo
<1>2. /\ Depth \in Nat /\ Height \in [Node -> 0 .. Depth] /\ to \in [0 .. Depth -> LeavesAt]
  BY <1>1, HeightAssumption DEF Levels
<1>3. All = to[Depth]
  <2>1. to[Depth] = [m \in Node |-> to[Depth][m]]
    BY <1>2 DEF LeavesAt
  <2>. QED
    BY <1>1, <2>1 DEF All
<1>4. CASE n \notin Container
  <2>1. Depth = 0 => to[Depth][n] = Below0(n)
    BY <1>1 DEF Levels
  <2>2. Depth # 0 => to[Depth][n] = Deeper(n, to[Depth - 1])
    BY <1>1, <1>2 DEF Levels
  <2>. QED
    BY <1>1, <1>4, <2>1, <2>2 DEF Deeper, Below0
<1>5. CASE n \in Container
  <2>. DEFINE entries == Data[n].entries
  <2>1. entries \in Seq(Entry) /\ Len(entries) \in Nat
        /\ \A i \in 1 .. Len(entries) : entries[i].node \in Node
    BY <1>5, ContainerIs
  <2>2. \A i \in 1 .. Len(entries) : Height[entries[i].node] < Height[n]
    BY <1>5, <2>1, HeightAssumption
  <2>. HIDE DEF entries
  <2>3. CASE Depth = 0
    <3>1. Len(entries) = 0
      BY <1>2, <2>1, <2>2, <2>3
    <3>2. FromEntry(entries, Len(entries) + 1, All) = <<>>
      BY <2>1, AllIs, FromStep
    <3>3. Len(entries) + 1 = 1
      BY <3>1
    <3>4. FromEntry(entries, 1, All) = <<>>
      BY <3>2, <3>3
    <3>5. to[Depth][n] = Below0(n)
      BY <1>1, <2>3 DEF Levels
    <3>. QED
      BY <1>1, <1>5, <3>4, <3>5 DEF Deeper, Below0, entries
  <2>4. CASE Depth # 0
    <3>1. Depth \in 1 .. Depth /\ Depth - 1 \in 0 .. Depth /\ Depth - 1 < Depth
          /\ to[Depth - 1] \in LeavesAt /\ to[Depth] \in LeavesAt /\ (Depth - 1) + 1 = Depth
      BY <1>2, <2>4
    <3>2. to[Depth][n] = Deeper(n, to[Depth - 1])
      BY <1>1, <3>1 DEF Levels
    <3>3. ASSUME NEW i \in 1 .. Len(entries)
          PROVE  to[Depth - 1][entries[i].node] = to[Depth][entries[i].node]
      <4>1. Height[entries[i].node] <= Depth - 1
        <5>1. Height[entries[i].node] \in 0 .. Depth /\ Height[n] \in 0 .. Depth
          BY <1>2, <2>1
        <5>. QED
          BY <1>2, <2>2, <5>1
      <4>2. to[Depth - 1][entries[i].node] = to[(Depth - 1) + 1][entries[i].node]
        BY <1>1, <2>1, <3>1, <4>1, LevelsSettle
      <4>. QED
        BY <3>1, <4>2
    <3>4. FromEntry(entries, 1, to[Depth - 1]) = FromEntry(entries, 1, to[Depth])
      BY <2>1, <3>1, <3>3, FromAgrees
    <3>. QED
      BY <1>1, <1>3, <1>5, <3>2, <3>4 DEF Deeper, entries
  <2>. QED
    BY <2>3, <2>4
<1>. QED
  BY <1>4, <1>5

-----------------------------------------------------------------------------
(* What the leaves up to each cost: always more for one leaf more.         *)
CostOf(leaf) == Cost(leaf[1], leaf[2])

LEMMA CostIsPositive ==
  ASSUME NEW leaf \in NamedLeaf
  PROVE  CostOf(leaf) \in Nat /\ CostOf(leaf) > 0
<1>1. leaf \in KeptLeaf /\ leaf[1] # <<>>
  BY DEF NamedLeaf
<1>2. leaf[1] \in Seq(STRING) /\ leaf[2] \in ExtraValue
  BY <1>1, LeafIs
<1>3. Len(leaf[1]) \in Nat /\ Len(leaf[1]) > 0
  BY <1>1, <1>2
<1>4. leaf[2].size \in Nat
  BY <1>2 DEF ExtraValue
<1>. QED
  BY <1>3, <1>4 DEF CostOf, Cost

Sums(leaves, c) ==
  LET n == Len(leaves) IN
  /\ c \in [0 .. n -> Nat] /\ c[0] = 0
  /\ \A i \in 1 .. n : c[i] = c[i - 1] + CostOf(leaves[i])

LEMMA CostUpToIs ==
  ASSUME NEW leaves \in Seq(NamedLeaf)
  PROVE  \E c : Sums(leaves, c) /\ \A k : CostUpTo(leaves, k) = c[k]
<1>. DEFINE n == Len(leaves)
            goes(f) == f = [i \in 0 .. n |-> IF i = 0 THEN 0
                                             ELSE f[i - 1] + Cost(leaves[i][1], leaves[i][2])]
            cost == CHOOSE f : goes(f)
            g == [i \in 1 .. n |-> [t \in Nat |-> t + CostOf(leaves[i])]]
<1>1. n \in Nat /\ \A i \in 1 .. n : CostOf(leaves[i]) \in Nat
  <2>1. \A i \in 1 .. n : leaves[i] \in NamedLeaf
    OBVIOUS
  <2>2. n \in Nat
    OBVIOUS
  <2>. HIDE DEF n
  <2>. QED
    BY <2>1, <2>2, CostIsPositive
<1>2. \A f, i : f[i - 1] + Cost(leaves[i][1], leaves[i][2]) = f[i - 1] + CostOf(leaves[i])
  BY DEF CostOf
<1>3. goes(cost)
  <2>1. \E f : goes(f)
    <3>. HIDE DEF n
    <3>1. g \in [1 .. n -> [Nat -> Nat]]
      BY <1>1
    <3>2. PICK e : Passes(n, Nat, 0, g, e)
      <4>. HIDE DEF g
      <4>. QED
        BY <1>1, <3>1, Iterates
    <3>3. ASSUME NEW i \in 0 .. n PROVE e[i] = IF i = 0 THEN 0 ELSE e[i - 1] + CostOf(leaves[i])
      <4>1. CASE i = 0
        BY <3>2, <4>1 DEF Passes
      <4>2. CASE i # 0
        <5>1. i \in 1 .. n /\ i - 1 \in 0 .. n
          BY <1>1, <4>2
        <5>2. e[i] = g[i][e[i - 1]] /\ e[i - 1] \in Nat
          BY <3>2, <5>1 DEF Passes
        <5>3. g[i][e[i - 1]] = e[i - 1] + CostOf(leaves[i])
          BY <5>1, <5>2
        <5>. QED
          BY <4>2, <5>2, <5>3
      <4>. QED
        BY <4>1, <4>2
    <3>4. e = [i \in 0 .. n |-> e[i]]
      BY <3>2 DEF Passes
    <3>5. e = [i \in 0 .. n |-> IF i = 0 THEN 0 ELSE e[i - 1] + CostOf(leaves[i])]
      BY <3>3, <3>4
    <3>6. goes(e)
      BY <3>5 DEF CostOf
    <3>. QED
      BY <3>6
  <2>. HIDE DEF goes
  <2>. QED
    BY <2>1, Zenon
<1>. HIDE DEF cost
<1>4. /\ cost[0] = 0 /\ cost = [i \in 0 .. n |-> cost[i]]
      /\ \A i \in 1 .. n : cost[i] = cost[i - 1] + CostOf(leaves[i])
  <2>. HIDE DEF n
  <2>1. \A i \in 0 .. n : cost[i] = IF i = 0 THEN 0 ELSE cost[i - 1] + CostOf(leaves[i])
    BY <1>3 DEF CostOf
  <2>2. 0 \in 0 .. n /\ \A i \in 1 .. n : i \in 0 .. n /\ i # 0
    BY <1>1
  <2>. QED
    BY <1>3, <2>1, <2>2
<1>. DEFINE Good == {i \in 0 .. n : cost[i] \in Nat}
<1>5. \A i \in 0 .. n : i \in Good
  <2>. HIDE DEF n
  <2>1. 0 \in Good
    BY <1>1, <1>4
  <2>2. ASSUME NEW i \in 1 .. n, i - 1 \in Good PROVE i \in Good
    <3>1. cost[i] = cost[i - 1] + CostOf(leaves[i]) /\ cost[i - 1] \in Nat /\ CostOf(leaves[i]) \in Nat
      BY <1>1, <1>4, <2>2
    <3>. QED
      BY <1>1, <3>1
  <2>. HIDE DEF Good
  <2>. QED
    BY <1>1, <2>1, <2>2, UpTo
<1>6. cost \in [0 .. n -> Nat]
  <2>. HIDE DEF n, goes
  <2>. QED
    BY <1>4, <1>5
<1>7. Sums(leaves, cost)
  BY <1>4, <1>6 DEF Sums
<1>8. \A k : CostUpTo(leaves, k) = cost[k]
  BY DEF CostUpTo, cost, goes, n
<1>. QED
  BY <1>7, <1>8

LEMMA CostUpToStep ==
  ASSUME NEW leaves \in Seq(NamedLeaf)
  PROVE  /\ CostUpTo(leaves, 0) = 0
         /\ \A i \in 0 .. Len(leaves) : CostUpTo(leaves, i) \in Nat
         /\ \A i \in 1 .. Len(leaves) :
              CostUpTo(leaves, i) = CostUpTo(leaves, i - 1) + CostOf(leaves[i])
<1>1. PICK c : Sums(leaves, c) /\ \A k : CostUpTo(leaves, k) = c[k]
  BY CostUpToIs
<1>. DEFINE n == Len(leaves)
<1>. HIDE DEF n
<1>2. /\ c \in [0 .. n -> Nat] /\ c[0] = 0
      /\ \A i \in 1 .. n : c[i] = c[i - 1] + CostOf(leaves[i])
      /\ \A k : CostUpTo(leaves, k) = c[k]
  BY <1>1 DEF Sums, n
<1>3. /\ CostUpTo(leaves, 0) = 0
      /\ \A i \in 0 .. n : CostUpTo(leaves, i) \in Nat
  BY <1>2
<1>4. \A i \in 1 .. n : CostUpTo(leaves, i) = CostUpTo(leaves, i - 1) + CostOf(leaves[i])
  BY <1>2
<1>. QED
  BY <1>3, <1>4 DEF n

LEMMA CostGrows ==
  ASSUME NEW leaves \in Seq(NamedLeaf), NEW k \in 0 .. Len(leaves), NEW j \in 0 .. Len(leaves), k <= j
  PROVE  CostUpTo(leaves, k) <= CostUpTo(leaves, j)
<1>. DEFINE n == Len(leaves)
            Good == {i \in 0 .. n : k <= i => CostUpTo(leaves, k) <= CostUpTo(leaves, i)}
<1>1. n \in Nat /\ k \in 0 .. n /\ j \in 0 .. n
  OBVIOUS
<1>2. /\ \A i \in 0 .. n : CostUpTo(leaves, i) \in Nat
      /\ \A i \in 1 .. n : CostUpTo(leaves, i) = CostUpTo(leaves, i - 1) + CostOf(leaves[i])
      /\ \A i \in 1 .. n : CostOf(leaves[i]) \in Nat
  <2>1. \A i \in 1 .. n : leaves[i] \in NamedLeaf
    OBVIOUS
  <2>. QED
    BY <2>1, CostUpToStep, CostIsPositive
<1>. HIDE DEF n
<1>3. 0 \in Good
  <2>1. k <= 0 => k = 0
    BY <1>1
  <2>. QED
    BY <1>1, <1>2, <2>1
<1>4. ASSUME NEW i \in 1 .. n, i - 1 \in Good PROVE i \in Good
  <2>1. /\ i \in 0 .. n /\ i - 1 \in 0 .. n
        /\ CostUpTo(leaves, i) \in Nat /\ CostUpTo(leaves, i - 1) \in Nat
        /\ CostUpTo(leaves, k) \in Nat /\ CostOf(leaves[i]) \in Nat
        /\ CostUpTo(leaves, i) = CostUpTo(leaves, i - 1) + CostOf(leaves[i])
    BY <1>1, <1>2
  <2>2. CASE k <= i - 1
    <3>1. CostUpTo(leaves, k) <= CostUpTo(leaves, i - 1)
      BY <1>4, <2>2
    <3>2. CostUpTo(leaves, k) <= CostUpTo(leaves, i)
      BY <2>1, <3>1
    <3>. QED
      BY <2>1, <3>2
  <2>3. CASE ~(k <= i - 1)
    <3>1. k <= i => k = i
      BY <1>1, <2>3
    <3>. QED
      BY <2>1, <3>1
  <2>. QED
    BY <2>2, <2>3
<1>5. \A i \in 0 .. n : i \in Good
  <2>. HIDE DEF Good
  <2>. QED
    BY <1>1, <1>3, <1>4, UpTo
<1>. QED
  BY <1>1, <1>5

(* The start that fits is the one that stops at a bound, or at the end.    *)
LEMMA FittingIs ==
  ASSUME NEW leaves \in Seq(NamedLeaf), NEW k \in 0 .. Len(leaves),
         k <= MaxFields, CostUpTo(leaves, k) <= MaxBytes,
         \/ k = Len(leaves) \/ k = MaxFields
         \/ k < Len(leaves) /\ CostUpTo(leaves, k + 1) > MaxBytes
  PROVE  Fitting(leaves) = SubSeq(leaves, 1, k)
<1>. DEFINE n == Len(leaves)
            fits == {i \in 0 .. n : i <= MaxFields /\ CostUpTo(leaves, i) <= MaxBytes}
            longest == CHOOSE i \in fits : \A j \in fits : j <= i
<1>1. n \in Nat /\ k \in 0 .. n /\ MaxFields \in Nat /\ MaxBytes \in Nat
  BY BoundsAreNumbers
<1>2. k \in fits
  BY <1>1
<1>3. ASSUME NEW j \in fits PROVE j <= k
  <2>1. SUFFICES ASSUME j > k PROVE FALSE
    BY <1>1
  <2>2. j \in 0 .. n /\ j <= MaxFields /\ CostUpTo(leaves, j) <= MaxBytes
    OBVIOUS
  <2>3. k # n /\ k # MaxFields
    BY <1>1, <2>1, <2>2
  <2>4. k + 1 \in 0 .. n /\ k + 1 <= j /\ CostUpTo(leaves, k + 1) > MaxBytes
    BY <1>1, <2>1, <2>2, <2>3
  <2>5. CostUpTo(leaves, k + 1) <= CostUpTo(leaves, j)
    BY <2>2, <2>4, CostGrows
  <2>6. CostUpTo(leaves, k + 1) \in Nat /\ CostUpTo(leaves, j) \in Nat
    BY <2>2, <2>4, CostUpToStep
  <2>. QED
    BY <1>1, <2>2, <2>4, <2>5, <2>6
<1>4. fits \subseteq Int
  OBVIOUS
<1>. HIDE DEF fits
<1>5. longest = k
  <2>1. longest \in fits /\ \A j \in fits : j <= longest
    BY <1>2, <1>3
  <2>2. k <= longest /\ longest <= k /\ longest \in Int /\ k \in Int
    BY <1>2, <1>3, <1>4, <2>1
  <2>. QED
    BY <2>2
<1>6. Fitting(leaves) = SubSeq(leaves, 1, longest)
  BY DEF Fitting, longest, fits
<1>. QED
  BY <1>5, <1>6

-----------------------------------------------------------------------------
(* What a walk has yet to come to: the entries a visitor has not taken,    *)
(* then those of the visitors below it.                                    *)
After(v) == Under(v.path, FromEntry(Data[v.node].entries, v.next, All))

Underway == {v \in Visitor : v.next <= Len(Data[v.node].entries) + 1}

Pendings(visitors, p) ==
  LET n == Len(visitors) IN
  /\ p \in [0 .. n -> Seq(NamedLeaf)] /\ p[0] = <<>>
  /\ \A j \in 1 .. n : p[j] = After(visitors[j]) \o p[j - 1]

Comes(visitors, leaves) == \E p : Pendings(visitors, p) /\ leaves = p[Len(visitors)]

Moved(v) == [v EXCEPT !.next = @ + 1]

LEMMA UnderwayIs ==
  ASSUME NEW v \in Underway
  PROVE  /\ v.node \in Container /\ v.path \in Seq(STRING)
         /\ Data[v.node].entries \in Seq(Entry) /\ Len(Data[v.node].entries) \in Nat
         /\ v.next \in 1 .. Len(Data[v.node].entries) + 1
         /\ v = [node |-> v.node, next |-> v.next, path |-> v.path]
<1>1. v \in Visitor /\ v.next <= Len(Data[v.node].entries) + 1
  BY DEF Underway
<1>2. v.node \in Container /\ v.path \in Seq(STRING) /\ v.next \in Nat \ {0}
      /\ v = [node |-> v.node, next |-> v.next, path |-> v.path]
  BY <1>1 DEF Visitor
<1>3. Data[v.node].entries \in Seq(Entry) /\ Len(Data[v.node].entries) \in Nat
  BY <1>2, ContainerIs
<1>. QED
  BY <1>1, <1>2, <1>3

LEMMA AfterIs ==
  ASSUME NEW v \in Underway
  PROVE  After(v) \in Seq(NamedLeaf)
<1>. DEFINE rest == FromEntry(Data[v.node].entries, v.next, All)
<1>1. rest \in Seq(NamedLeaf) /\ rest \in Seq(KeptLeaf) /\ v.path \in Seq(STRING)
  BY UnderwayIs, AllIs, FromStep, NamedIsKept
<1>2. After(v) = Under(v.path, rest)
  BY DEF After
<1>. HIDE DEF rest
<1>3. CASE v.path = <<>>
  BY <1>1, <1>2, <1>3, UnderRoot
<1>4. CASE v.path # <<>>
  BY <1>1, <1>2, <1>4, UnderIs
<1>. QED
  BY <1>3, <1>4

LEMMA AfterDone ==
  ASSUME NEW v \in Underway, v.next > Len(Data[v.node].entries)
  PROVE  After(v) = <<>>
<1>. DEFINE entries == Data[v.node].entries
<1>1. v.path \in Seq(STRING) /\ entries \in Seq(Entry) /\ v.next = Len(entries) + 1
  BY UnderwayIs
<1>. HIDE DEF entries
<1>2. FromEntry(entries, v.next, All) = <<>>
  BY <1>1, AllIs, FromStep
<1>3. <<>> \in Seq(KeptLeaf) /\ Len(<<>>) = 0
  OBVIOUS
<1>4. Under(v.path, <<>>) \in Seq(KeptLeaf) /\ Len(Under(v.path, <<>>)) = 0
  BY <1>1, <1>3, UnderIs
<1>5. Under(v.path, <<>>) = <<>>
  BY <1>4
<1>. QED
  BY <1>2, <1>5 DEF After, entries

(* The next entry's leaves come before what is after it.                   *)
LEMMA AfterStep ==
  ASSUME NEW v \in Underway, v.next <= Len(Data[v.node].entries)
  PROVE  LET e == Data[v.node].entries[v.next] IN
         /\ e \in Entry /\ e.node \in Node /\ Append(v.path, e.key) \in Seq(STRING)
         /\ Append(v.path, e.key) # <<>>
         /\ Moved(v) \in Underway
         /\ After(v) = Under(Append(v.path, e.key), LeavesOf(e.node)) \o After(Moved(v))
<1>. DEFINE entries == Data[v.node].entries
            e == entries[v.next]
            k == v.next
<1>1. /\ v.node \in Container /\ v.path \in Seq(STRING)
      /\ entries \in Seq(Entry) /\ Len(entries) \in Nat /\ k \in 1 .. Len(entries)
      /\ v = [node |-> v.node, next |-> v.next, path |-> v.path]
  BY UnderwayIs
<1>2. Moved(v).node = v.node /\ Moved(v).path = v.path /\ Moved(v).next = k + 1
      /\ Moved(v) \in Visitor
  BY <1>1 DEF Moved, Visitor, Underway
<1>3. Moved(v) \in Underway
  BY <1>1, <1>2 DEF Underway
<1>4. After(Moved(v)) = Under(v.path, FromEntry(entries, k + 1, All))
  BY <1>2 DEF After
<1>5. After(v) = Under(v.path, FromEntry(entries, k, All))
  BY DEF After
<1>. HIDE DEF entries, k
<1>6. e \in Entry /\ e.node \in Node /\ e.key \in STRING
  <2>1. entries[k] \in Entry
    BY <1>1
  <2>2. e \in Entry
    BY <2>1 DEF k
  <2>. HIDE DEF e
  <2>. QED
    BY <2>2 DEF Entry
<1>7. All[e.node] = LeavesOf(e.node) /\ LeavesOf(e.node) \in Seq(KeptLeaf)
  BY <1>6, AllIs DEF All, LeavesAt
<1>8. FromEntry(entries, k, All)
        = Under(<<entries[k].key>>, All[entries[k].node]) \o FromEntry(entries, k + 1, All)
  BY <1>1, AllIs, FromStep
<1>9. e = entries[k]
  BY DEF k
<1>. HIDE DEF e
<1>10. FromEntry(entries, k, All)
         = Under(<<e.key>>, LeavesOf(e.node)) \o FromEntry(entries, k + 1, All)
  BY <1>7, <1>8, <1>9
<1>11. <<e.key>> \in Seq(STRING) /\ v.path \o <<e.key>> = Append(v.path, e.key)
       /\ Append(v.path, e.key) \in Seq(STRING) /\ Append(v.path, e.key) # <<>>
  BY <1>1, <1>6
<1>12. Under(<<e.key>>, LeavesOf(e.node)) \in Seq(KeptLeaf)
  BY <1>7, <1>11, UnderIs
<1>13. FromEntry(entries, k + 1, All) \in Seq(KeptLeaf)
  <2>1. k + 1 \in 1 .. Len(entries) + 1
    BY <1>1
  <2>. QED
    BY <1>1, <2>1, AllIs, FromStep, NamedIsKept
<1>14. After(v) = Under(v.path, Under(<<e.key>>, LeavesOf(e.node))) \o After(Moved(v))
  BY <1>1, <1>4, <1>5, <1>10, <1>12, <1>13, UnderJoins
<1>15. Under(v.path, Under(<<e.key>>, LeavesOf(e.node))) = Under(Append(v.path, e.key), LeavesOf(e.node))
  <2>1. Under(v.path, Under(<<e.key>>, LeavesOf(e.node))) = Under(v.path \o <<e.key>>, LeavesOf(e.node))
    BY <1>1, <1>7, <1>11, UnderUnder, Zenon
  <2>. QED
    BY <1>11, <2>1
<1>. QED
  BY <1>3, <1>6, <1>11, <1>14, <1>15 DEF e, entries

(* A leaf is its one leaf, under the path it is found at.                  *)
LEMMA AfterLeaf ==
  ASSUME NEW path \in Seq(STRING), NEW n \in Node, n \notin Container
  PROVE  Under(path, LeavesOf(n)) = << <<path, Value(Data[n])>> >>
<1>1. LeavesOf(n) = Sole(n)
  BY LeavesUnfold DEF Deeper
<1>2. Under(path, Sole(n)) = [j \in {1} |-> <<path \o <<>>, Value(Data[n])>>]
  <2>1. DOMAIN Sole(n) = {1} /\ Sole(n)[1] = <<<<>>, Value(Data[n])>>
    BY DEF Sole
  <2>. QED
    BY <2>1 DEF Under
<1>3. path \o <<>> = path
  OBVIOUS
<1>4. DOMAIN << <<path, Value(Data[n])>> >> = {1}
      /\ << <<path, Value(Data[n])>> >>[1] = <<path, Value(Data[n])>>
  OBVIOUS
<1>5. << <<path, Value(Data[n])>> >> = [j \in {1} |-> <<path, Value(Data[n])>>]
  BY <1>4
<1>. QED
  BY <1>1, <1>2, <1>3, <1>5

LEMMA LeavesOfContainer ==
  ASSUME NEW n \in Container
  PROVE  /\ LeavesOf(n) = FromEntry(Data[n].entries, 1, All)
         /\ LeavesOf(n) \in Seq(NamedLeaf)
<1>1. n \in Node /\ Data[n].entries \in Seq(Entry) /\ 1 \in 1 .. Len(Data[n].entries) + 1
  BY ContainerIs
<1>2. LeavesOf(n) = FromEntry(Data[n].entries, 1, All)
  BY <1>1, LeavesUnfold DEF Deeper
<1>3. FromEntry(Data[n].entries, 1, All) \in Seq(NamedLeaf)
  BY <1>1, AllIs, FromStep
<1>. QED
  BY <1>2, <1>3

LEMMA EnteredIs ==
  ASSUME NEW n \in Container, NEW path \in Seq(STRING)
  PROVE  LET v == [node |-> n, next |-> 1, path |-> path] IN
         v \in Underway /\ After(v) = Under(path, LeavesOf(n))
<1>. DEFINE v == [node |-> n, next |-> 1, path |-> path]
<1>1. v \in Visitor /\ v.node = n /\ v.next = 1 /\ v.path = path
  BY DEF Visitor
<1>2. Len(Data[n].entries) \in Nat
  BY ContainerIs
<1>. HIDE DEF v
<1>3. v \in Underway
  BY <1>1, <1>2 DEF Underway
<1>4. After(v) = Under(path, LeavesOf(n))
  BY <1>1, LeavesOfContainer DEF After
<1>. QED
  BY <1>3, <1>4 DEF v

(* The leaves to come as visitors are entered and left.                    *)
LEMMA ComesType ==
  ASSUME NEW visitors, Len(visitors) \in Nat, NEW t, Comes(visitors, t)
  PROVE  t \in Seq(NamedLeaf) /\ (Len(visitors) = 0 => t = <<>>)
  BY DEF Comes, Pendings

LEMMA ComesNothing == Comes(<<>>, <<>>)
<1>. DEFINE p == [j \in {0} |-> <<>>]
<1>1. <<>> \in Seq(NamedLeaf) /\ Len(<<>>) = 0 /\ 0 .. 0 = {0}
  OBVIOUS
<1>2. p \in [0 .. 0 -> Seq(NamedLeaf)] /\ p[0] = <<>>
  BY <1>1
<1>. HIDE DEF p
<1>3. Pendings(<<>>, p)
  BY <1>1, <1>2 DEF Pendings
<1>. QED
  BY <1>1, <1>2, <1>3 DEF Comes

LEMMA ComesPushed ==
  ASSUME NEW visitors \in Seq(Underway), NEW t, Comes(visitors, t), NEW v \in Underway
  PROVE  Comes(Append(visitors, v), After(v) \o t)
<1>. DEFINE n == Len(visitors)
            more == Append(visitors, v)
<1>1. PICK p : Pendings(visitors, p) /\ t = p[n]
  BY DEF Comes
<1>2. n \in Nat /\ Len(more) = n + 1 /\ more[n + 1] = v
      /\ \A j \in 1 .. n : more[j] = visitors[j]
  OBVIOUS
<1>3. /\ p \in [0 .. n -> Seq(NamedLeaf)] /\ p[0] = <<>>
      /\ \A j \in 1 .. n : p[j] = After(visitors[j]) \o p[j - 1]
  BY <1>1 DEF Pendings
<1>. HIDE DEF n, more
<1>. DEFINE q == [j \in 0 .. n + 1 |-> IF j = n + 1 THEN After(v) \o t ELSE p[j]]
<1>4. After(v) \o t \in Seq(NamedLeaf)
  <2>1. After(v) \in Seq(NamedLeaf)
    BY AfterIs
  <2>2. t \in Seq(NamedLeaf)
    BY <1>1, <1>2, <1>3
  <2>. QED
    BY <2>1, <2>2
<1>5. q \in [0 .. n + 1 -> Seq(NamedLeaf)]
  <2>1. \A j \in 0 .. n + 1 : j # n + 1 => p[j] \in Seq(NamedLeaf)
    BY <1>2, <1>3
  <2>. QED
    BY <1>4, <2>1
<1>6. q[0] = <<>> /\ q[n + 1] = After(v) \o t /\ q[n] = t
  BY <1>1, <1>2, <1>3
<1>7. ASSUME NEW j \in 1 .. n + 1 PROVE q[j] = After(more[j]) \o q[j - 1]
  <2>1. CASE j = n + 1
    <3>1. (n + 1) - 1 = n
      BY <1>2
    <3>. HIDE DEF q
    <3>. QED
      BY <1>2, <1>6, <2>1, <3>1
  <2>2. CASE j # n + 1
    <3>1. j \in 1 .. n /\ j - 1 # n + 1 /\ j \in 0 .. n + 1 /\ j - 1 \in 0 .. n + 1
      BY <1>2, <2>2
    <3>2. q[j] = p[j] /\ q[j - 1] = p[j - 1]
      BY <2>2, <3>1
    <3>3. p[j] = After(visitors[j]) \o p[j - 1] /\ more[j] = visitors[j]
      BY <1>2, <1>3, <3>1
    <3>. HIDE DEF q
    <3>. QED
      BY <3>2, <3>3
  <2>. QED
    BY <2>1, <2>2
<1>. HIDE DEF q
<1>8. Pendings(more, q)
  BY <1>2, <1>5, <1>6, <1>7 DEF Pendings
<1>. QED
  BY <1>2, <1>6, <1>8 DEF Comes, more

LEMMA ComesPopped ==
  ASSUME NEW visitors \in Seq(Underway), visitors # <<>>, NEW t, Comes(visitors, t)
  PROVE  \E u : /\ Comes(SubSeq(visitors, 1, Len(visitors) - 1), u)
                /\ t = After(visitors[Len(visitors)]) \o u
<1>. DEFINE n == Len(visitors)
            less == SubSeq(visitors, 1, n - 1)
<1>1. PICK p : Pendings(visitors, p) /\ t = p[n]
  BY DEF Comes
<1>2. n \in Nat /\ n > 0 /\ Len(less) = n - 1 /\ \A j \in 1 .. n - 1 : less[j] = visitors[j]
  OBVIOUS
<1>3. /\ p \in [0 .. n -> Seq(NamedLeaf)] /\ p[0] = <<>>
      /\ \A j \in 1 .. n : p[j] = After(visitors[j]) \o p[j - 1]
  BY <1>1 DEF Pendings
<1>. HIDE DEF n, less
<1>. DEFINE q == [j \in 0 .. n - 1 |-> p[j]]
<1>4. q \in [0 .. n - 1 -> Seq(NamedLeaf)] /\ q[0] = <<>> /\ q[n - 1] = p[n - 1]
  BY <1>2, <1>3
<1>5. ASSUME NEW j \in 1 .. n - 1 PROVE q[j] = After(less[j]) \o q[j - 1]
  <2>1. j \in 1 .. n /\ j \in 0 .. n - 1 /\ j - 1 \in 0 .. n - 1
    BY <1>2
  <2>2. q[j] = p[j] /\ q[j - 1] = p[j - 1]
    BY <2>1
  <2>3. p[j] = After(visitors[j]) \o p[j - 1] /\ less[j] = visitors[j]
    BY <1>2, <1>3, <2>1
  <2>. HIDE DEF q
  <2>. QED
    BY <2>2, <2>3
<1>. HIDE DEF q
<1>6. Pendings(less, q)
  BY <1>2, <1>4, <1>5 DEF Pendings
<1>7. t = After(visitors[n]) \o q[n - 1]
  <2>1. n \in 1 .. n
    BY <1>2
  <2>. QED
    BY <1>1, <1>3, <1>4, <2>1
<1>8. Comes(less, q[n - 1])
  BY <1>2, <1>6 DEF Comes
<1>. QED
  BY <1>7, <1>8 DEF less, n

-----------------------------------------------------------------------------
(* While a walk goes on, what it has kept and what it has yet to come to   *)
(* are the record's leaves; once it is full it has kept those that fit.    *)
RootLeaves == LeavesOf(file[slot].root)

OnTheWay ==
  /\ stack \in Seq(Underway)
  /\ full => kept = Fitting(RootLeaves)
  /\ ~full => \E t : /\ Comes(stack, t) /\ kept \o t = RootLeaves
                     /\ bytes = CostUpTo(RootLeaves, Len(kept))

Arrived == kept = Fitting(RootLeaves) /\ (ended[slot] = "whole" => kept = RootLeaves)

StartInv ==
  /\ TypeInv
  /\ step # "decode" => slot \in Slot /\ file[slot].root \in Container
  /\ step = "walk" => OnTheWay
  /\ step = "filter" => Arrived

(* The start that a whole begins with.                                     *)
LEMMA StartOf ==
  ASSUME NEW T, NEW a \in Seq(T), NEW t \in Seq(T)
  PROVE  /\ Len(a) \in 0 .. Len(a \o t) /\ SubSeq(a \o t, 1, Len(a)) = a
         /\ Len(t) > 0 => Len(a) < Len(a \o t) /\ (a \o t)[Len(a) + 1] = t[1]
<1>1. /\ a \o t \in Seq(T) /\ Len(a \o t) = Len(a) + Len(t) /\ Len(a) \in Nat /\ Len(t) \in Nat
      /\ \A i \in 1 .. Len(a) : (a \o t)[i] = a[i] /\ (a \o t)[i] \in T
  OBVIOUS
<1>2. Len(t) > 0 => Len(a) < Len(a \o t) /\ (a \o t)[Len(a) + 1] = t[1]
  OBVIOUS
<1>3. SubSeq(a \o t, 1, Len(a)) = a
  <2>. DEFINE whole == a \o t
              n == Len(a)
  <2>1. n \in Nat /\ \A i \in 1 .. n : whole[i] = a[i] /\ whole[i] \in T
    BY <1>1
  <2>. HIDE DEF whole
  <2>2. /\ SubSeq(whole, 1, n) \in Seq(T)
        /\ Len(SubSeq(whole, 1, n)) = n
        /\ \A i \in 1 .. n : SubSeq(whole, 1, n)[i] = whole[i]
    <3>. HIDE DEF n
    <3>1. 1 \in Int /\ n \in Int /\ \A i \in 1 .. n : whole[i] \in T
      BY <2>1
    <3>2. /\ SubSeq(whole, 1, n) \in Seq(T)
          /\ Len(SubSeq(whole, 1, n)) = IF 1 <= n THEN n - 1 + 1 ELSE 0
          /\ \A i \in 1 .. n - 1 + 1 : SubSeq(whole, 1, n)[i] = whole[1 + i - 1]
      BY <3>1, SubSeqProperties
    <3>3. n - 1 + 1 = n /\ (~(1 <= n) => n = 0) /\ \A i \in 1 .. n : 1 + i - 1 = i
      BY <2>1
    <3>. QED
      BY <3>2, <3>3
  <2>. QED
    BY <2>1, <2>2, SeqEqual DEF whole
<1>. QED
  BY <1>1, <1>2, <1>3

LEMMA AskArrives ==
  ASSUME StartInv, Ask, TypeInv'
  PROVE  OnTheWay'
<1>. DEFINE entry == Entries[Top.next]
            path == Append(Top.path, entry.key)
            value == Value(Data[entry.node])
            L == RootLeaves
<1>1. /\ step = "walk" /\ stack # <<>> /\ ~full /\ Top.next <= Len(Entries)
      /\ UNCHANGED <<file, slot>>
  BY DEF Ask
<1>2. /\ stack \in Seq(Underway) /\ file[slot].root \in Container
      /\ kept \in Seq(KeptLeaf) /\ bytes \in Nat /\ bytes <= MaxBytes /\ Len(kept) < MaxFields
  BY <1>1 DEF StartInv, OnTheWay, TypeInv, WalkInv, TypeOK
<1>3. PICK t : /\ Comes(stack, t) /\ kept \o t = L /\ bytes = CostUpTo(L, Len(kept))
  BY <1>1 DEF StartInv, OnTheWay
<1>4. L' = L
  BY <1>1 DEF RootLeaves
<1>5. L \in Seq(NamedLeaf)
  BY <1>2, LeavesOfContainer DEF RootLeaves
<1>6. Top \in Underway /\ Below \in Seq(Underway) /\ Top = stack[Len(stack)]
  BY <1>1, <1>2 DEF Top, Below
<1>7. PICK u : Comes(Below, u) /\ t = After(Top) \o u
  BY <1>1, <1>2, <1>3, <1>6, ComesPopped DEF Below
<1>8. u \in Seq(NamedLeaf) /\ t \in Seq(NamedLeaf)
  <2>1. Len(Below) \in Nat /\ Len(stack) \in Nat
    BY <1>2, <1>6
  <2>. QED
    BY <1>3, <1>7, <2>1, ComesType
<1>9. /\ entry \in Entry /\ entry.node \in Node /\ path \in Seq(STRING) /\ path # <<>>
      /\ Moved(Top) \in Underway
      /\ After(Top) = Under(path, LeavesOf(entry.node)) \o After(Moved(Top))
  BY <1>1, <1>6, AfterStep DEF Entries
<1>10. Asked(path) = Append(Below, Moved(Top))
  BY DEF Asked, Moved
<1>. DEFINE moved == After(Moved(Top)) \o u
<1>11. /\ Comes(Asked(path), moved) /\ Asked(path) \in Seq(Underway)
       /\ After(Moved(Top)) \in Seq(NamedLeaf) /\ moved \in Seq(NamedLeaf)
  <2>. HIDE DEF path
  <2>1. Comes(Asked(path), moved)
    BY <1>6, <1>7, <1>9, <1>10, ComesPushed
  <2>2. Asked(path) \in Seq(Underway)
    BY <1>6, <1>9, <1>10
  <2>3. After(Moved(Top)) \in Seq(NamedLeaf)
    BY <1>9, AfterIs
  <2>. QED
    BY <1>8, <2>1, <2>2, <2>3
<1>. HIDE DEF entry, path, L
<1>12. CASE Data[entry.node].kind \in WireKind
  <2>1. Keep(path, value) /\ stack' = Asked(path)
    BY <1>12 DEF Ask, entry, path
  <2>2. entry.node \notin Container
    BY <1>12 DEF Container, WireKind
  <2>. DEFINE leaf == <<path, value>>
  <2>3. leaf \in KeptLeaf
    <3>1. value \in ExtraValue
      BY <1>9, <1>12, NodeIsEither, ValueIsExtra
    <3>. QED
      BY <1>9, <3>1, LeafIs
  <2>4. After(Top) = <<leaf>> \o After(Moved(Top))
    BY <1>9, <2>2, AfterLeaf
  <2>5. t = <<leaf>> \o moved
    <3>1. <<leaf>> \in Seq(KeptLeaf) /\ After(Moved(Top)) \in Seq(KeptLeaf) /\ u \in Seq(KeptLeaf)
      BY <1>8, <1>11, <2>3, NamedIsKept
    <3>2. (<<leaf>> \o After(Moved(Top))) \o u = <<leaf>> \o (After(Moved(Top)) \o u)
      <4>. HIDE DEF leaf
      <4>. QED
        BY <3>1, ConcatAssociative
    <3>. QED
      BY <1>7, <2>4, <3>2
  <2>. HIDE DEF leaf, moved, value
  <2>6. moved \in Seq(KeptLeaf) /\ t \in Seq(KeptLeaf)
    BY <1>8, <1>11, NamedIsKept
  <2>7. /\ Append(kept, leaf) \o moved = L
        /\ Len(Append(kept, leaf)) = Len(kept) + 1 /\ Append(kept, leaf) \in Seq(KeptLeaf)
    <3>1. Append(kept, leaf) = kept \o <<leaf>> /\ <<leaf>> \in Seq(KeptLeaf)
      BY <1>2, <2>3
    <3>2. (kept \o <<leaf>>) \o moved = kept \o (<<leaf>> \o moved)
      BY <1>2, <2>6, <3>1, ConcatAssociative
    <3>3. Len(Append(kept, leaf)) = Len(kept) + 1 /\ Append(kept, leaf) \in Seq(KeptLeaf)
      BY <1>2, <2>3
    <3>. QED
      BY <1>3, <2>5, <3>1, <3>2, <3>3
  <2>8. /\ Len(kept) \in 0 .. Len(L) /\ SubSeq(L, 1, Len(kept)) = kept
        /\ Len(kept) < Len(L) /\ L[Len(kept) + 1] = leaf
    <3>1. Len(t) > 0 /\ t[1] = leaf
      BY <2>3, <2>5, <2>6
    <3>. QED
      BY <1>2, <1>3, <2>6, <3>1, StartOf
  <2>9. /\ Len(kept) + 1 \in 0 .. Len(L)
        /\ SubSeq(L, 1, Len(kept) + 1) = Append(kept, leaf)
    BY <2>6, <2>7, StartOf
  <2>10. CostUpTo(L, Len(kept) + 1) = bytes + Cost(path, value)
    <3>1. Len(kept) + 1 \in 1 .. Len(L) /\ (Len(kept) + 1) - 1 = Len(kept)
      BY <2>8, <2>9
    <3>2. CostUpTo(L, Len(kept) + 1)
            = CostUpTo(L, (Len(kept) + 1) - 1) + CostOf(L[Len(kept) + 1])
      BY <1>5, <3>1, CostUpToStep
    <3>3. CostOf(leaf) = Cost(path, value)
      BY DEF CostOf, leaf
    <3>. QED
      BY <1>3, <2>8, <3>1, <3>2, <3>3
  <2>11. Len(kept) \in Nat /\ MaxFields \in Nat /\ MaxBytes \in Nat
    BY <1>2, BoundsAreNumbers
  <2>12. CASE bytes + Cost(path, value) > MaxBytes
    <3>1. full' /\ kept' = kept
      BY <2>1, <2>12 DEF Keep
    <3>2. Fitting(L) = SubSeq(L, 1, Len(kept))
      BY <1>2, <1>3, <1>5, <2>8, <2>10, <2>11, <2>12, FittingIs
    <3>. QED
      BY <1>4, <1>11, <2>1, <2>8, <3>1, <3>2 DEF OnTheWay, L
  <2>13. CASE ~(bytes + Cost(path, value) > MaxBytes)
    <3>1. /\ kept' = Append(kept, leaf)
          /\ bytes' = bytes + Cost(path, value)
          /\ full' = (Len(kept') >= MaxFields)
      BY <2>1, <2>13 DEF Keep, leaf
    <3>2. bytes' = CostUpTo(L, Len(kept')) /\ Len(kept') = Len(kept) + 1
      BY <2>7, <2>10, <3>1
    <3>3. CASE full'
      <4>1. Len(kept') >= MaxFields
        BY <3>1, <3>3, Zenon
      <4>2. Len(kept) + 1 = MaxFields
        BY <1>2, <2>11, <3>2, <4>1
      <4>3. CostUpTo(L, Len(kept) + 1) <= MaxBytes
        <5>1. bytes' \in Nat
          BY DEF TypeInv, TypeOK
        <5>. QED
          BY <2>10, <2>11, <2>13, <3>1, <5>1
      <4>4. Len(kept) + 1 <= MaxFields
        BY <2>11, <4>2
      <4>5. Fitting(L) = SubSeq(L, 1, Len(kept) + 1)
        BY <1>5, <2>9, <4>2, <4>3, <4>4, FittingIs
      <4>. QED
        BY <1>4, <1>11, <2>1, <2>9, <3>1, <3>3, <4>5 DEF OnTheWay, L
    <3>4. CASE ~full'
      <4>1. kept' \o moved = L'
        BY <1>4, <2>7, <3>1
      <4>2. Comes(stack', moved) /\ stack' \in Seq(Underway)
        BY <1>11, <2>1 DEF moved
      <4>3. bytes' = CostUpTo(L', Len(kept'))
        BY <1>4, <3>2
      <4>. QED
        BY <3>4, <4>1, <4>2, <4>3 DEF OnTheWay, L
    <3>. QED
      BY <3>3, <3>4
  <2>. QED
    BY <2>12, <2>13
<1>13. CASE Data[entry.node].kind \notin WireKind
  <2>. DEFINE v == [node |-> entry.node, next |-> 1, path |-> path]
  <2>1. stack' = Append(Asked(path), v) /\ UNCHANGED <<kept, bytes, full>>
    BY <1>13 DEF Ask, entry, path
  <2>2. entry.node \in Container
    BY <1>9, <1>13, NodeIsEither
  <2>3. v \in Underway /\ After(v) = Under(path, LeavesOf(entry.node))
    BY <1>9, <2>2, EnteredIs
  <2>. HIDE DEF v
  <2>4. After(v) \in Seq(NamedLeaf) /\ After(Top) = After(v) \o After(Moved(Top))
    BY <1>9, <2>3, AfterIs
  <2>5. t = After(v) \o moved
    BY <1>7, <1>8, <1>11, <2>4, ConcatAssociative
  <2>. HIDE DEF moved
  <2>6. Comes(stack', t) /\ stack' \in Seq(Underway)
    BY <1>11, <2>1, <2>3, <2>5, ComesPushed
  <2>7. kept' \o t = L' /\ bytes' = CostUpTo(L', Len(kept')) /\ ~full'
    BY <1>1, <1>3, <1>4, <2>1
  <2>. QED
    BY <2>6, <2>7 DEF OnTheWay, L
<1>. QED
  BY <1>12, <1>13

LEMMA BelowIsShorter ==
  ASSUME NEW T, NEW s \in Seq(T), s # <<>>
  PROVE  Len(SubSeq(s, 1, Len(s) - 1)) = Len(s) - 1
<1>1. Len(s) \in Nat /\ Len(s) # 0
  BY EmptySeq, LenProperties
<1>2. \A i \in 1 .. Len(s) - 1 : s[i] \in T
  BY <1>1, ElementOfSeq
<1>. DEFINE n == Len(s) - 1
            below == Len(SubSeq(s, 1, n))
<1>3. n \in Nat /\ below = IF 1 <= n THEN n - 1 + 1 ELSE 0
  BY <1>1, <1>2, SubSeqProperties
<1>4. below = n
  <2>. HIDE DEF n, below
  <2>. QED
    BY <1>3
<1>. QED
  BY <1>4

LEMMA LeaveArrives ==
  ASSUME StartInv, Leave
  PROVE  (step' = "walk" => OnTheWay') /\ (step' = "filter" => Arrived')
<1>. DEFINE L == RootLeaves
<1>1. /\ step = "walk" /\ stack # <<>> /\ stack' = Below
      /\ full \/ Top.next > Len(Entries)
      /\ step' = IF Len(stack) = 1 THEN "filter" ELSE "walk"
      /\ UNCHANGED <<file, slot, kept, bytes, full>>
  BY DEF Leave
<1>2. /\ stack \in Seq(Underway) /\ file[slot].root \in Container /\ slot \in Slot
      /\ kept \in Seq(KeptLeaf) /\ bytes <= MaxBytes /\ Len(kept) <= MaxFields
      /\ ended \in [Slot -> {"unread", "whole", "full", "broken"}]
  BY <1>1 DEF StartInv, OnTheWay, TypeInv, WalkInv, TypeOK
<1>3. L' = L
  BY <1>1 DEF RootLeaves
<1>4. L \in Seq(NamedLeaf)
  BY <1>2, LeavesOfContainer DEF RootLeaves
<1>5. /\ Top \in Underway /\ Below \in Seq(Underway) /\ Top = stack[Len(stack)]
      /\ Len(stack) \in Nat /\ Len(Below) = Len(stack) - 1
  <2>1. Top \in Underway /\ Below \in Seq(Underway) /\ Top = stack[Len(stack)]
    BY <1>1, <1>2 DEF Top, Below
  <2>2. Len(stack) \in Nat /\ Len(stack) > 0
    BY <1>1, <1>2
  <2>3. Len(Below) = Len(stack) - 1
    BY <1>1, <1>2, BelowIsShorter DEF Below
  <2>. QED
    BY <2>1, <2>2, <2>3
<1>. HIDE DEF L
<1>6. CASE full
  <2>1. kept = Fitting(L)
    BY <1>1, <1>6 DEF StartInv, OnTheWay, L
  <2>2. step' = "walk" => OnTheWay'
    BY <1>1, <1>3, <1>5, <1>6, <2>1 DEF OnTheWay, L
  <2>3. step' = "filter" => Arrived'
    <3>1. step' = "filter" => ended'[slot] = "full"
      BY <1>1, <1>2, <1>6 DEF Leave
    <3>. QED
      BY <1>1, <1>3, <2>1, <3>1 DEF Arrived, L
  <2>. QED
    BY <2>2, <2>3
<1>7. CASE ~full
  <2>1. PICK t : /\ Comes(stack, t) /\ kept \o t = L /\ bytes = CostUpTo(L, Len(kept))
    BY <1>1, <1>7 DEF StartInv, OnTheWay, L
  <2>2. PICK u : Comes(Below, u) /\ t = After(Top) \o u
    BY <1>1, <1>2, <1>5, <2>1, ComesPopped DEF Below
  <2>3. After(Top) = <<>>
    BY <1>1, <1>5, <1>7, AfterDone DEF Entries
  <2>4. u \in Seq(NamedLeaf) /\ (Len(Below) = 0 => u = <<>>)
    <3>1. Len(Below) \in Nat
      BY <1>5
    <3>. QED
      BY <2>2, <3>1, ComesType
  <2>5. t = u
    BY <2>2, <2>3, <2>4, ConcatEmptySeq
  <2>6. step' = "walk" => OnTheWay'
    BY <1>1, <1>3, <1>5, <1>7, <2>1, <2>2, <2>5 DEF OnTheWay, L
  <2>7. step' = "filter" => Arrived'
    <3>1. SUFFICES ASSUME step' = "filter" PROVE Arrived'
      OBVIOUS
    <3>2. t = <<>>
      BY <1>1, <1>5, <2>4, <2>5, <3>1
    <3>3. kept = L
      BY <1>2, <2>1, <3>2, ConcatEmptySeq
    <3>4. Len(L) \in 0 .. Len(L) /\ SubSeq(L, 1, Len(L)) = L
      BY <1>4, SubSeqFull
    <3>5. Fitting(L) = SubSeq(L, 1, Len(L))
      BY <1>2, <1>4, <2>1, <3>3, <3>4, FittingIs
    <3>. QED
      BY <1>1, <1>3, <3>3, <3>4, <3>5 DEF Arrived, L
  <2>. QED
    BY <2>6, <2>7
<1>. QED
  BY <1>6, <1>7

LEMMA DecodeSetsOut ==
  ASSUME StartInv, Decode, collecting
  PROVE  slot' \in Slot /\ file'[slot'].root \in Container /\ OnTheWay'
<1>. DEFINE root == file[slot].root
            v == [node |-> root, next |-> 1, path |-> <<>>]
<1>1. slot \in Slot /\ file[slot] \in CityFiles \cup AsnFiles
  BY DEF Decode, StartInv, TypeInv, WalkInv
<1>2. root \in Container
  BY <1>1, AnswersWithRecord DEF Decode
<1>3. /\ file' = file /\ slot' = slot /\ stack' = <<v>>
      /\ kept' = <<>> /\ bytes' = 0 /\ full' = FALSE
  BY DEF Decode
<1>4. <<>> \in Seq(STRING)
  OBVIOUS
<1>5. v \in Underway /\ After(v) = Under(<<>>, LeavesOf(root))
  BY <1>2, <1>4, EnteredIs
<1>6. LeavesOf(root) \in Seq(NamedLeaf) /\ LeavesOf(root) \in Seq(KeptLeaf)
  BY <1>2, LeavesOfContainer, NamedIsKept
<1>7. After(v) = LeavesOf(root)
  BY <1>5, <1>6, UnderRoot
<1>. HIDE DEF v
<1>8. <<>> \in Seq(Underway) /\ Append(<<>>, v) = <<v>> /\ <<v>> \in Seq(Underway)
  BY <1>5
<1>9. Comes(<<v>>, LeavesOf(root) \o <<>>)
  BY <1>5, <1>7, <1>8, ComesNothing, ComesPushed
<1>10. LeavesOf(root) \o <<>> = LeavesOf(root) /\ <<>> \o LeavesOf(root) = LeavesOf(root)
  BY <1>6, ConcatEmptySeq
<1>11. CostUpTo(LeavesOf(root), 0) = 0 /\ Len(<<>>) = 0
  BY <1>6, CostUpToStep
<1>12. RootLeaves' = LeavesOf(root)
  BY <1>3 DEF RootLeaves
<1>. HIDE DEF root
<1>13. Comes(stack', RootLeaves')
  BY <1>3, <1>9, <1>10, <1>12
<1>14. kept' \o RootLeaves' = RootLeaves' /\ bytes' = CostUpTo(RootLeaves', Len(kept'))
  BY <1>3, <1>10, <1>11, <1>12
<1>15. OnTheWay'
  BY <1>3, <1>8, <1>13, <1>14 DEF OnTheWay
<1>. QED
  BY <1>1, <1>2, <1>3, <1>15 DEF root

LEMMA InitStart == Init => StartInv
  BY InitTyped DEF Init, StartInv

LEMMA NextStart == StartInv /\ [Next]_vars => StartInv'
<1>1. SUFFICES ASSUME StartInv, [Next]_vars PROVE StartInv'
  OBVIOUS
<1>2. TypeInv'
  BY <1>1, NextTyped DEF StartInv
<1>3. CASE Silent \/ Break \/ Filter
  BY <1>2, <1>3 DEF Silent, Break, Filter, StartInv
<1>4. CASE Decode
  <2>1. CASE collecting
    <3>1. step' = "walk"
      BY <1>4, <2>1 DEF Decode
    <3>. QED
      BY <1>1, <1>2, <1>4, <2>1, <3>1, DecodeSetsOut DEF StartInv
  <2>2. CASE ~collecting
    <3>1. step' = "decode"
      BY <1>4, <2>2 DEF Decode
    <3>. QED
      BY <1>2, <3>1 DEF StartInv
  <2>. QED
    BY <2>1, <2>2
<1>5. CASE Ask
  <2>1. step' = "walk" /\ step = "walk" /\ file' = file /\ slot' = slot
    BY <1>5 DEF Ask
  <2>2. OnTheWay'
    BY <1>1, <1>2, <1>5, AskArrives
  <2>. QED
    BY <1>1, <1>2, <2>1, <2>2 DEF StartInv
<1>6. CASE Leave
  <2>1. step = "walk" /\ file' = file /\ slot' = slot
    BY <1>6 DEF Leave
  <2>2. (step' = "walk" => OnTheWay') /\ (step' = "filter" => Arrived')
    BY <1>1, <1>6, LeaveArrives
  <2>. QED
    BY <1>1, <1>2, <2>1, <2>2 DEF StartInv
<1>7. CASE UNCHANGED vars
  <2>1. /\ UNCHANGED <<file, slot, step, stack, kept, bytes, full, ended>>
        /\ RootLeaves' = RootLeaves
    BY <1>7 DEF vars, RootLeaves
  <2>2. (OnTheWay => OnTheWay') /\ (Arrived => Arrived')
    BY <2>1 DEF OnTheWay, Arrived
  <2>. QED
    BY <1>1, <1>2, <2>1, <2>2 DEF StartInv
<1>. QED
  BY <1>1, <1>3, <1>4, <1>5, <1>6, <1>7 DEF Next

(* A walk of extra::collect keeps the leaves of the record in source       *)
(* order, each under its whole path, and stops at the first that does not  *)
(* fit: for every data section that nests to a depth, and every bound.     *)
THEOREM WalkKeepsWhatFits == Spec => []WalkKeepsTheStart
<1>1. Spec => []StartInv
  BY InitStart, NextStart, PTL DEF Spec
<1>2. StartInv => WalkKeepsTheStart
  BY DEF StartInv, Arrived, RootLeaves, WalkKeepsTheStart
<1>3. QED
  BY <1>1, <1>2, PTL

-----------------------------------------------------------------------------
(* What becomes of a leaf that was kept: a typed field took it, or it is   *)
(* among the extra fields.  It stays so but for what the ASN slot's        *)
(* database writes over.                                                   *)
Settled(s, leaf) ==
  \/ leaf \in ElementsOf(extra)
  \/ Taken(leaf[1], leaf[2], record)
  \/ s = "city" /\ FieldOf(leaf[1]) \in Overwritten

DeliveredInv ==
  /\ StartInv /\ SourceInv
  /\ slot = "city" => ended["asn"] = "unread"
  /\ slot \in Slot /\ step # "filter" => ended[slot] = "unread"
  /\ \A s \in Slot : ended[s] = "whole" /\ slot # s =>
       \A leaf \in LeavesIn(s) : Settled(s, leaf)

LEMMA ElementsJoin ==
  ASSUME NEW T, NEW a \in Seq(T), NEW b \in Seq(T)
  PROVE  /\ ElementsOf(a) \subseteq ElementsOf(a \o b)
         /\ ElementsOf(b) \subseteq ElementsOf(a \o b)
<1>1. /\ DOMAIN (a \o b) = 1 .. Len(a) + Len(b) /\ Len(a) \in Nat /\ Len(b) \in Nat
      /\ DOMAIN a = 1 .. Len(a) /\ DOMAIN b = 1 .. Len(b)
      /\ \A i \in 1 .. Len(a) : (a \o b)[i] = a[i]
      /\ \A i \in 1 .. Len(b) : (a \o b)[Len(a) + i] = b[i]
  OBVIOUS
<1>2. ASSUME NEW i \in DOMAIN a PROVE a[i] \in ElementsOf(a \o b)
  <2>1. i \in DOMAIN (a \o b) /\ (a \o b)[i] = a[i]
    BY <1>1
  <2>. QED
    BY <2>1 DEF ElementsOf
<1>3. ASSUME NEW i \in DOMAIN b PROVE b[i] \in ElementsOf(a \o b)
  <2>1. Len(a) + i \in DOMAIN (a \o b) /\ (a \o b)[Len(a) + i] = b[i]
    BY <1>1
  <2>. QED
    BY <2>1 DEF ElementsOf
<1>. QED
  BY <1>2, <1>3 DEF ElementsOf

(* The field a path is read into is one of the record's.                   *)
LEMMA FieldOfIs ==
  ASSUME NEW path, FieldOf(path) # None
  PROVE  FieldOf(path) \in Field
<1>. DEFINE reads(paths) == {f \in DOMAIN paths : paths[f] = path}
            flat == reads(CityPath) \cup reads(AsnPath) \cup reads(IpInfoPath)
            region == {f \in DOMAIN RegionPath :
                         /\ Len(path) > 2 /\ path[1] = "subdivisions"
                         /\ \E i \in DOMAIN Digits : path[2] = Digits[i]
                         /\ RegionPath[f] = SubSeq(path, 3, Len(path))}
            both == flat \cup region
<1>1. both \subseteq Field
  BY PathsAreFields
<1>2. FieldOf(path) = IF both = {} THEN None ELSE CHOOSE f \in both : TRUE
  BY DEF FieldOf
<1>. HIDE DEF both
<1>. QED
  BY <1>1, <1>2

(* Whether a field took a leaf depends on that field only.                 *)
LEMMA TakenByField ==
  ASSUME NEW path, NEW value, NEW rec, NEW other,
         rec[FieldOf(path)] = other[FieldOf(path)]
  PROVE  Taken(path, value, rec) = Taken(path, value, other)
  BY DEF Taken

(* A leaf no field took is added, and none is taken away.                  *)
LEMMA FilterKeeps ==
  ASSUME TypeInv, Filter
  PROVE  /\ ElementsOf(extra) \subseteq ElementsOf(extra')
         /\ \A leaf \in ElementsOf(kept) :
              leaf \in ElementsOf(extra') \/ Taken(leaf[1], leaf[2], record)
<1>. DEFINE places == {i \in DOMAIN kept : ~Taken(kept[i][1], kept[i][2], record)}
            added == Picked(kept, places)
<1>1. extra' = extra \o added
  BY DEF Filter
<1>2. kept \in Seq(KeptLeaf) /\ extra \in Seq(KeptLeaf)
  BY DEF TypeInv, TypeOK
<1>3. ASSUME NEW leaf \in ElementsOf(kept), ~Taken(leaf[1], leaf[2], record)
      PROVE  leaf \in {kept[i] : i \in DOMAIN kept \cap places}
  BY <1>3 DEF ElementsOf
<1>. HIDE DEF places
<1>4. added \in Seq(KeptLeaf) /\ ElementsOf(added) = {kept[i] : i \in DOMAIN kept \cap places}
  BY <1>2, PickedIs
<1>. HIDE DEF added
<1>5. ElementsOf(extra) \subseteq ElementsOf(extra') /\ ElementsOf(added) \subseteq ElementsOf(extra')
  BY <1>1, <1>2, <1>4, ElementsJoin
<1>. QED
  BY <1>3, <1>4, <1>5

LEMMA InitDelivered == Init => DeliveredInv
<1>1. SUFFICES ASSUME Init PROVE DeliveredInv
  OBVIOUS
<1>2. \A s \in Slot : ended[s] = "unread"
  BY <1>1 DEF Init
<1>. QED
  BY <1>1, <1>2, InitStart, InitSource DEF DeliveredInv, Slot

(* A step that leaves the record and the extra fields, and ends at most    *)
(* the walk of the slot it is at, and that not whole when it leaves it.    *)
LEMMA QuietDelivered ==
  ASSUME DeliveredInv, StartInv', SourceInv',
         UNCHANGED <<file, answered, record, extra>>,
         \/ slot' = slot /\ (step' # "filter" => step # "filter" /\ ended' = ended)
         \/ slot' = NextSlot /\ slot \in Slot /\ step' = "decode"
              /\ ((ended' = ended /\ ended[slot] = "unread")
                    \/ ended' = [ended EXCEPT ![slot] = "broken"]),
         \E how : ended' = ended \/ ended' = [ended EXCEPT ![slot] = how]
  PROVE  DeliveredInv'
<1>1. /\ slot \in Slot \cup {"done"} /\ slot' \in Slot \cup {"done"}
      /\ ended \in [Slot -> {"unread", "whole", "full", "broken"}]
  BY DEF DeliveredInv, StartInv, TypeInv, TypeOK
<1>2. \A s \in Slot : LeavesIn(s)' = LeavesIn(s) /\ \A leaf : Settled(s, leaf)' = Settled(s, leaf)
  BY DEF LeavesIn, Settled, Overwritten
<1>3. \A s \in Slot : s # slot => ended'[s] = ended[s]
  BY <1>1
<1>4. slot' = "city" => ended'["asn"] = "unread"
  BY <1>1, <1>3 DEF DeliveredInv, Slot, NextSlot
<1>5. slot' \in Slot /\ step' # "filter" => ended'[slot'] = "unread"
  <2>1. CASE slot' = slot
    BY <2>1, <1>1 DEF DeliveredInv, NextSlot, Slot
  <2>2. CASE slot' # slot
    BY <2>2, <1>1, <1>3 DEF DeliveredInv, NextSlot, Slot
  <2>. QED
    BY <2>1, <2>2
<1>6. ASSUME NEW s \in Slot, ended'[s] = "whole", slot' # s
      PROVE  \A leaf \in LeavesIn(s)' : Settled(s, leaf)'
  <2>1. ended[s] = "whole" /\ slot # s
    <3>1. CASE slot' = slot
      BY <1>3, <1>6, <3>1
    <3>2. CASE slot' # slot
      BY <1>1, <1>3, <1>6, <3>2
    <3>. QED
      BY <3>1, <3>2
  <2>. QED
    BY <1>2, <2>1 DEF DeliveredInv
<1>. QED
  BY <1>4, <1>5, <1>6 DEF DeliveredInv

LEMMA OverKeeps ==
  ASSUME NEW a, NEW g, NEW f \in DOMAIN g, f \notin DOMAIN a
  PROVE  Over(a, g)[f] = g[f]
  BY DEF Over

LEMMA DecodeDelivered == DeliveredInv /\ Decode /\ StartInv' /\ SourceInv' => DeliveredInv'
<1>1. SUFFICES ASSUME DeliveredInv, Decode, StartInv', SourceInv' PROVE DeliveredInv'
  OBVIOUS
<1>2. /\ slot \in Slot /\ step = "decode" /\ UNCHANGED <<file, extra, ended>>
      /\ answered' = answered \cup {slot}
      /\ record' = Over(Answer(slot), record)
      /\ (slot' = slot /\ step' = "walk") \/ (slot' = NextSlot /\ step' = "decode")
  BY <1>1 DEF Decode, DeliveredInv, SourceInv, Reading, Answer
<1>3. /\ slot = "city" => ended["asn"] = "unread"
      /\ ended[slot] = "unread"
      /\ \A s \in Slot : ended[s] = "whole" /\ slot # s =>
           \A leaf \in LeavesIn(s) : Settled(s, leaf)
  BY <1>1, <1>2 DEF DeliveredInv
<1>4. slot' = "city" => ended'["asn"] = "unread"
  BY <1>2, <1>3 DEF NextSlot, Slot
<1>5. slot' \in Slot /\ step' # "filter" => ended'[slot'] = "unread"
  BY <1>2, <1>3 DEF NextSlot, Slot
<1>6. ASSUME NEW s \in Slot, ended'[s] = "whole", slot' # s
      PROVE  \A leaf \in LeavesIn(s)' : Settled(s, leaf)'
  <2>1. s = "city" /\ slot = "asn" /\ ended[s] = "whole"
    BY <1>2, <1>3, <1>6 DEF Slot
  <2>2. "asn" \notin answered /\ "asn" \in answered'
    BY <1>1, <1>2, <2>1 DEF DeliveredInv, SourceInv, Reading
  <2>3. Overwritten = {} /\ Overwritten' = DOMAIN Answer("asn") /\ LeavesIn(s)' = LeavesIn(s)
    BY <1>2, <2>2 DEF Overwritten, LeavesIn, Answer
  <2>4. SUFFICES ASSUME NEW leaf \in LeavesIn(s) PROVE Settled(s, leaf)'
    BY <2>3
  <2>5. Settled(s, leaf)
    BY <1>3, <2>1
  <2>6. CASE leaf \in ElementsOf(extra)
    BY <1>2, <2>6 DEF Settled, ElementsOf
  <2>7. CASE Taken(leaf[1], leaf[2], record)
    <3>0. PICK f : f = FieldOf(leaf[1])
      OBVIOUS
    <3>1. f \in Field
      BY <2>7, <3>0, FieldOfIs DEF Taken
    <3>2. CASE f \in DOMAIN Answer("asn")
      BY <2>1, <2>3, <3>0, <3>2 DEF Settled
    <3>3. CASE f \notin DOMAIN Answer("asn")
      <4>1. f \in DOMAIN record
        BY <1>1, <3>1 DEF DeliveredInv, StartInv, TypeInv, TypeOK
      <4>2. record'[f] = record[f]
        <5>1. PICK a : a = Answer("asn")
          OBVIOUS
        <5>2. f \in DOMAIN record /\ f \notin DOMAIN a
          BY <3>3, <4>1, <5>1
        <5>3. Over(a, record)[f] = record[f]
          BY <5>2, OverKeeps
        <5>4. record' = Over(a, record)
          BY <1>2, <2>1, <5>1
        <5>. QED
          BY <5>3, <5>4
      <4>3. Taken(leaf[1], leaf[2], record')
        BY <2>7, <3>0, <4>2, TakenByField
      <4>. QED
        BY <4>3 DEF Settled
    <3>. QED
      BY <3>2, <3>3
  <2>. QED
    BY <2>3, <2>5, <2>6, <2>7 DEF Settled
<1>. QED
  BY <1>1, <1>4, <1>5, <1>6 DEF DeliveredInv

LEMMA FilterDelivered == DeliveredInv /\ Filter /\ StartInv' /\ SourceInv' => DeliveredInv'
<1>1. SUFFICES ASSUME DeliveredInv, Filter, StartInv', SourceInv' PROVE DeliveredInv'
  OBVIOUS
<1>2. /\ step = "filter" /\ step' = "decode" /\ slot' = NextSlot
      /\ UNCHANGED <<file, answered, record, ended>>
  BY <1>1 DEF Filter
<1>3. /\ slot \in Slot /\ Arrived
      /\ slot = "city" => ended["asn"] = "unread"
      /\ \A s \in Slot : ended[s] = "whole" /\ slot # s =>
           \A leaf \in LeavesIn(s) : Settled(s, leaf)
  BY <1>1, <1>2 DEF DeliveredInv, StartInv
<1>4. slot' \in {"asn", "done"} /\ slot' # slot /\ (slot' = "asn" => slot = "city")
  BY <1>2, <1>3 DEF NextSlot, Slot
<1>5. /\ ElementsOf(extra) \subseteq ElementsOf(extra')
      /\ \A leaf \in ElementsOf(kept) :
           leaf \in ElementsOf(extra') \/ Taken(leaf[1], leaf[2], record)
  BY <1>1, FilterKeeps DEF DeliveredInv, StartInv
<1>6. ASSUME NEW s \in Slot, ended'[s] = "whole", slot' # s, NEW leaf \in LeavesIn(s)'
      PROVE  Settled(s, leaf)'
  <2>1. ended[s] = "whole" /\ leaf \in LeavesIn(s) /\ Overwritten' = Overwritten
        /\ ElementsOf(extra)' = ElementsOf(extra')
    BY <1>2, <1>6 DEF LeavesIn, Overwritten, ElementsOf
  <2>2. CASE s = slot
    <3>1. kept = LeavesOf(file[s].root)
      BY <1>3, <2>1, <2>2 DEF Arrived, RootLeaves
    <3>2. leaf \in ElementsOf(kept)
      BY <2>1, <3>1 DEF LeavesIn, ElementsOf
    <3>. QED
      BY <1>2, <1>5, <2>1, <3>2 DEF Settled
  <2>3. CASE s # slot
    <3>1. Settled(s, leaf)
      BY <1>3, <2>1, <2>3
    <3>. QED
      BY <1>2, <1>5, <2>1, <3>1 DEF Settled
  <2>. QED
    BY <2>2, <2>3
<1>7. slot' = "city" => ended'["asn"] = "unread"
  BY <1>4
<1>8. slot' \in Slot /\ step' # "filter" => ended'[slot'] = "unread"
  BY <1>2, <1>3, <1>4 DEF Slot
<1>. QED
  BY <1>1, <1>6, <1>7, <1>8 DEF DeliveredInv

LEMMA NextDelivered == DeliveredInv /\ [Next]_vars => DeliveredInv'
<1>1. SUFFICES ASSUME DeliveredInv, [Next]_vars PROVE DeliveredInv'
  OBVIOUS
<1>2. StartInv' /\ SourceInv'
  BY <1>1, NextStart, NextSource DEF DeliveredInv
<1>3. CASE Decode
  BY <1>1, <1>2, <1>3, DecodeDelivered
<1>4. CASE Filter
  BY <1>1, <1>2, <1>4, FilterDelivered
<1>5. CASE Silent
  <2>1. slot \in Slot /\ step = "decode"
    BY <1>1, <1>5 DEF Silent, DeliveredInv, StartInv, TypeInv, TypeOK
  <2>2. ended[slot] = "unread"
    BY <1>1, <2>1 DEF DeliveredInv
  <2>3. UNCHANGED <<file, answered, record, extra, step, ended>> /\ slot' = NextSlot
    BY <1>5 DEF Silent
  <2>4. UNCHANGED <<file, answered, record, extra>> /\ step' = "decode" /\ ended' = ended
    BY <2>1, <2>3
  <2>5. \E how : ended' = ended \/ ended' = [ended EXCEPT ![slot] = how]
    BY <2>4
  <2>6. \/ slot' = slot /\ (step' # "filter" => step # "filter" /\ ended' = ended)
        \/ slot' = NextSlot /\ slot \in Slot /\ step' = "decode"
             /\ ((ended' = ended /\ ended[slot] = "unread")
                   \/ ended' = [ended EXCEPT ![slot] = "broken"])
    BY <2>1, <2>2, <2>3, <2>4
  <2>7. UNCHANGED <<file, answered, record, extra>>
    BY <2>4
  <2>. QED
    BY <1>1, <1>2, <2>5, <2>6, <2>7, QuietDelivered
<1>6. CASE Ask \/ UNCHANGED vars
  <2>1. UNCHANGED <<file, answered, record, extra, slot, step, ended>>
    BY <1>6 DEF Ask, vars
  <2>. QED
    BY <1>1, <1>2, <2>1, QuietDelivered
<1>7. CASE Leave
  <2>1. /\ UNCHANGED <<file, answered, record, extra, slot>> /\ step = "walk"
        /\ step' # "filter" => ended' = ended
        /\ \E how : ended' = ended \/ ended' = [ended EXCEPT ![slot] = how]
    BY <1>7 DEF Leave
  <2>2. step # "filter"
    BY <2>1
  <2>. QED
    BY <1>1, <1>2, <2>1, <2>2, QuietDelivered
<1>8. CASE Break
  <2>1. slot \in Slot
    BY <1>1, <1>8 DEF Break, DeliveredInv, StartInv
  <2>2. /\ UNCHANGED <<file, answered, record, extra>>
        /\ slot' = NextSlot /\ step' = "decode" /\ ended' = [ended EXCEPT ![slot] = "broken"]
    BY <1>8 DEF Break
  <2>. QED
    BY <1>1, <1>2, <2>1, <2>2, QuietDelivered
<1>. QED
  BY <1>1, <1>3, <1>4, <1>5, <1>6, <1>7, <1>8 DEF Next

(* FieldOrder names every field of the record, and no other.               *)
LEMMA FieldOrderIs == FieldOrder \in Seq(Field) /\ Field \subseteq ElementsOf(FieldOrder)
<1>1. FieldOrder \in Seq(Field)
  BY DEF FieldOrder, Field, CityPath, AsnPath, IpInfoPath, RegionPath
<1>2. DOMAIN FieldOrder = 1 .. 18
  BY DEF FieldOrder
<1>3. Field =
        {FieldOrder[1], FieldOrder[2], FieldOrder[3], FieldOrder[4], FieldOrder[5],
         FieldOrder[6], FieldOrder[7], FieldOrder[8], FieldOrder[9], FieldOrder[10],
         FieldOrder[11], FieldOrder[12], FieldOrder[13], FieldOrder[14], FieldOrder[15],
         FieldOrder[16], FieldOrder[17], FieldOrder[18]}
  BY DEF FieldOrder, Field, CityPath, AsnPath, IpInfoPath, RegionPath
<1>. QED
  BY <1>1, <1>2, <1>3 DEF ElementsOf

(* The map a consumer is handed holds every field there is a value for,    *)
(* and every extra leaf under its path.                                    *)
LEMMA SchemaMapHolds ==
  ASSUME TypeInv
  PROVE  /\ \A f \in Field : record[f] # None =>
              \E k \in DOMAIN SchemaMap : SchemaMap[k][1] = <<f>>
         /\ \A leaf \in ElementsOf(extra) :
              \E k \in DOMAIN SchemaMap : SchemaMap[k] = <<leaf[1], leaf[2].says>>
<1>. DEFINE places == {i \in DOMAIN FieldOrder : record[FieldOrder[i]] # None}
            resolved == Picked(FieldOrder, places)
            typed == [i \in DOMAIN resolved |-> <<<<resolved[i]>>, record[resolved[i]]>>]
            rest == [i \in DOMAIN extra |-> <<extra[i][1], extra[i][2].says>>]
<1>1. SchemaMap = typed \o rest
  BY DEF SchemaMap
<1>2. \A f \in Field : record[f] # None =>
        f \in {FieldOrder[i] : i \in DOMAIN FieldOrder \cap places}
  BY FieldOrderIs DEF ElementsOf
<1>3. extra \in Seq(KeptLeaf)
  BY DEF TypeInv, TypeOK
<1>4. DOMAIN rest = 1 .. Len(extra) /\ Len(extra) \in Nat
      /\ \A i \in DOMAIN extra : rest[i] = <<extra[i][1], extra[i][2].says>>
  BY <1>3
<1>. HIDE DEF places
<1>5. /\ resolved \in Seq(Field)
      /\ ElementsOf(resolved) = {FieldOrder[i] : i \in DOMAIN FieldOrder \cap places}
  BY FieldOrderIs, PickedIs
<1>. HIDE DEF resolved
<1>6. DOMAIN typed = 1 .. Len(resolved) /\ Len(resolved) \in Nat
      /\ \A i \in DOMAIN resolved : typed[i] = <<<<resolved[i]>>, record[resolved[i]]>>
  BY <1>5
<1>7. typed = [i \in 1 .. Len(resolved) |-> typed[i]] /\ rest = [i \in 1 .. Len(extra) |-> rest[i]]
  BY <1>4, <1>6
<1>. HIDE DEF typed, rest
<1>8. /\ \A i \in 1 .. Len(resolved) : \E k \in DOMAIN (typed \o rest) : (typed \o rest)[k] = typed[i]
      /\ \A i \in 1 .. Len(extra) : \E k \in DOMAIN (typed \o rest) : (typed \o rest)[k] = rest[i]
  <2>1. PICK m \in Nat, n \in Nat : m = Len(resolved) /\ n = Len(extra)
    BY <1>4, <1>6
  <2>2. PICK a, b : a = typed /\ b = rest
    OBVIOUS
  <2>3. PICK T : T = {a[i] : i \in 1 .. m} \cup {b[i] : i \in 1 .. n}
    OBVIOUS
  <2>4. a \in Seq(T) /\ Len(a) = m
    <3>1. a = [i \in 1 .. m |-> a[i]]
      BY <1>7, <2>1, <2>2
    <3>2. \A i \in 1 .. m : a[i] \in T
      BY <2>3
    <3>. QED
      BY <3>1, <3>2, SeqIs
  <2>5. b \in Seq(T) /\ Len(b) = n
    <3>1. b = [i \in 1 .. n |-> b[i]]
      BY <1>7, <2>1, <2>2
    <3>2. \A i \in 1 .. n : b[i] \in T
      BY <2>3
    <3>. QED
      BY <3>1, <3>2, SeqIs
  <2>6. /\ ElementsOf(a) \subseteq ElementsOf(a \o b)
        /\ ElementsOf(b) \subseteq ElementsOf(a \o b)
    BY <2>4, <2>5, ElementsJoin
  <2>7. DOMAIN a = 1 .. m /\ DOMAIN b = 1 .. n
    BY <2>4, <2>5
  <2>8. /\ \A i \in 1 .. m : \E k \in DOMAIN (a \o b) : (a \o b)[k] = a[i]
        /\ \A i \in 1 .. n : \E k \in DOMAIN (a \o b) : (a \o b)[k] = b[i]
    BY <2>6, <2>7 DEF ElementsOf
  <2>. QED
    BY <2>1, <2>2, <2>8
<1>9. ASSUME NEW f \in Field, record[f] # None
      PROVE  \E k \in DOMAIN SchemaMap : SchemaMap[k][1] = <<f>>
  <2>1. PICK i \in 1 .. Len(resolved) : resolved[i] = f
    BY <1>2, <1>5, <1>9 DEF ElementsOf
  <2>2. typed[i] = <<<<f>>, record[f]>>
    BY <1>5, <1>6, <2>1
  <2>3. PICK k \in DOMAIN (typed \o rest) : (typed \o rest)[k] = typed[i]
    BY <1>8, <2>1
  <2>4. (typed \o rest)[k][1] = <<f>>
    BY <2>2, <2>3
  <2>. QED
    BY <1>1, <2>3, <2>4
<1>10. ASSUME NEW leaf \in ElementsOf(extra)
       PROVE  \E k \in DOMAIN SchemaMap : SchemaMap[k] = <<leaf[1], leaf[2].says>>
  <2>1. PICK i \in 1 .. Len(extra) : extra[i] = leaf
    BY <1>3 DEF ElementsOf
  <2>2. rest[i] = <<leaf[1], leaf[2].says>>
    BY <1>3, <1>4, <2>1
  <2>3. PICK k \in DOMAIN (typed \o rest) : (typed \o rest)[k] = rest[i]
    BY <1>8, <2>1
  <2>. QED
    BY <1>1, <2>2, <2>3
<1>. QED
  BY <1>9, <1>10

LEMMA DeliveredReaches == DeliveredInv => EveryLeafDelivered
<1>1. SUFFICES ASSUME DeliveredInv, slot = "done", NEW s \in answered, ended[s] = "whole",
                      NEW leaf \in LeavesIn(s)
               PROVE  Delivered(leaf) \/ (s = "city" /\ FieldOf(leaf[1]) \in Overwritten)
  BY DEF EveryLeafDelivered
<1>2. TypeInv /\ s \in Slot /\ slot # s
  BY <1>1 DEF DeliveredInv, StartInv, TypeInv, TypeOK, Slot
<1>3. Settled(s, leaf)
  BY <1>1, <1>2 DEF DeliveredInv
<1>4. CASE leaf \in ElementsOf(extra)
  <2>1. \E k \in DOMAIN SchemaMap : SchemaMap[k] = <<leaf[1], leaf[2].says>>
    BY <1>2, <1>4, SchemaMapHolds
  <2>. QED
    BY <2>1 DEF Delivered
<1>5. CASE Taken(leaf[1], leaf[2], record)
  <2>1. FieldOf(leaf[1]) # None /\ record[FieldOf(leaf[1])] # None
    BY <1>5 DEF Taken
  <2>2. FieldOf(leaf[1]) \in Field
    BY <2>1, FieldOfIs
  <2>3. \E k \in DOMAIN SchemaMap : SchemaMap[k][1] = <<FieldOf(leaf[1])>>
    BY <1>2, <2>1, <2>2, SchemaMapHolds
  <2>. QED
    BY <1>5, <2>3 DEF Delivered
<1>. QED
  BY <1>3, <1>4, <1>5 DEF Settled

(* What a database that answered says, and the bounds did not cut, is in   *)
(* the map a consumer of to_schema_map is handed, as a typed field or      *)
(* under its path, but for what the ASN slot's database writes over.       *)
THEOREM EveryLeafReaches == Spec => []EveryLeafDelivered
<1>1. Spec => []DeliveredInv
  BY InitDelivered, NextDelivered, PTL DEF Spec
<1>2. QED
  BY <1>1, DeliveredReaches, PTL

=============================================================================
