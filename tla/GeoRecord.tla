----------------------------- MODULE GeoRecord -----------------------------
(***************************************************************************)
(* How one address's record is filled from the city and the ASN database:  *)
(* read and the three readers under it, and the second, schemaless decode  *)
(* that keeps what no typed field took (extra::collect).                   *)
(*                                                                         *)
(* A record in a file is a graph of nodes: maps, arrays and leaves.  The   *)
(* typed decode reads some of its paths in one step; the walk then asks    *)
(* for its entries one at a time, until they end or a bound is reached.    *)
(*                                                                         *)
(* A path is the sequence of its keys, a key a name without a dot; a name, *)
(* and a dot, counts one byte.                                             *)
(***************************************************************************)
EXTENDS Integers, SequencesExt

CONSTANTS
  Node,       \* the places of the files' data sections
  Data,       \* what is at each: a map, an array, or a leaf
  AsnNumber,  \* asn_number: the number a text such as AS15169 holds, or None
  U16Max,     \* the largest number of 16 bits, of 32 and of 64
  U32Max,
  U64Max,
  JsonDouble, \* the double a reader of JSON takes for the text of one: see Double
  MaxFields,  \* MAX_FIELDS
  MaxBytes,   \* MAX_BYTES
  CityFiles,  \* what the city slot may hold, and the ASN slot: see File
  AsnFiles,
  Depth,      \* how deep a record nests at most
  Height,     \* how deep what is at each place nests
  Digits,     \* the names of array indices, in order
  None, Refused

(* A leaf carries its wire kind, what it says (a number, or one that stands *)
(* for a text or the like), and its bytes on the heap.                     *)
WireKind == {"Str", "F64", "U64", "I64", "U128", "Bool", "Bytes"}
Leaf == [kind : WireKind, says : Int, size : Nat]
Entry == [key : STRING, node : Node]
Map == [kind : {"map"}, entries : Seq(Entry)]
Array == [kind : {"array"}, entries : Seq(Entry)]

(* What a leaf is kept as.                                                 *)
ExtraValue == [kind : {"Str", "Float", "UInt", "Int", "UInt128", "Bool", "Bytes"},
               says : Int, size : Nat]

(* The whole numbers a wire kind has.                                      *)
Holds(leaf) ==
  CASE leaf.kind = "U64" -> leaf.says \in 0..U64Max
    [] leaf.kind = "I64" -> leaf.says <= U64Max
    [] leaf.kind = "U128" -> leaf.says >= 0
    [] OTHER -> TRUE

(* A double's text is read as that double or one beside it.  One that is   *)
(* not finite has no text: it is written as null, and says what no whole   *)
(* number does.                                                            *)
Double(leaf) ==
  CASE leaf.kind = "F64" -> JsonDouble[leaf.says] \in Int \cup {None}
    [] leaf.kind \in {"U64", "I64"} -> JsonDouble[leaf.says] \in Int
    [] OTHER -> TRUE

Container == {n \in Node : Data[n].kind \in {"map", "array"}}

(* An open database, by what it answers the address with: no node when it  *)
(* omits or refuses it.                                                    *)
File == [ipinfo : BOOLEAN, root : Container \cup {None}, network : Int]

ASSUME GeoRecordAssumption ==
  /\ Data \in [Node -> Leaf \cup Map \cup Array]
  /\ \A n \in Node \ Container : Holds(Data[n]) /\ Double(Data[n])
  /\ \A n \in Node : Data[n].kind = "Str" => AsnNumber[Data[n].says] \in Nat \cup {None}
  /\ U16Max \in Nat /\ U32Max \in Nat /\ U64Max \in Nat
  /\ U16Max <= U32Max /\ U32Max <= U64Max
  /\ {None, Refused} \cap (Node \cup Int) = {} /\ None # Refused
  /\ Refused \notin ExtraValue
  /\ \A n \in Node : Data[n].kind = "array" =>
       \A i \in DOMAIN Data[n].entries : Data[n].entries[i].key = Digits[i]
  /\ MaxFields \in Nat \ {0} /\ MaxBytes \in Nat
  /\ CityFiles \subseteq File \cup {None}
  /\ AsnFiles \subseteq File \cup {None}

(* A record that holds itself, or nests deeper than the reader follows,    *)
(* has no leaves to speak of: its walk breaks, or stops at a bound.        *)
ASSUME HeightAssumption ==
  /\ Depth \in Nat /\ Height \in [Node -> 0..Depth]
  /\ \A n \in Container : \A i \in DOMAIN Data[n].entries :
       Height[Data[n].entries[i].node] < Height[n]

Slot == {"city", "asn"}

VARIABLES
  file,       \* Readers: what each slot holds
  collecting, \* CacheConfig::collect_extra_fields
  slot,       \* the database read reads, "done" when it returns
  step,       \* "decode", then "walk" and "filter" when extra fields are collected
  answered,   \* the slots that answered: read's found
  record,     \* the typed fields
  extra,      \* GeoIpRecord::extra
  stack,      \* the visitors under way: a container, its next entry, its own path
  kept,       \* Kept: the leaves, their bytes, and whether a bound is reached
  bytes,
  full,
  ended       \* history: how each slot's walk ended

vars == <<file, collecting, slot, step, answered, record, extra, stack, kept,
          bytes, full, ended>>

(* What the first writes, over what the second did.                        *)
Over(first, second) ==
  [f \in DOMAIN first \cup DOMAIN second |-> IF f \in DOMAIN first THEN first[f] ELSE second[f]]

(* The elements of a sequence at the places given, in order.               *)
Picked(seq, places) ==
  LET upTo[i \in 0..Len(seq)] ==
        IF i = 0 THEN <<>>
        ELSE IF i \in places THEN Append(upTo[i - 1], seq[i]) ELSE upTo[i - 1]
  IN upTo[Len(seq)]

-----------------------------------------------------------------------------
(* The typed fields: where each is in a file of either schema.             *)

CityPath ==
  [city_name       |-> <<"city", "names", "en">>,
   continent_code  |-> <<"continent", "code">>,
   continent_name  |-> <<"continent", "names", "en">>,
   country_code    |-> <<"country", "iso_code">>,
   country_name    |-> <<"country", "names", "en">>,
   postal_code     |-> <<"postal", "code">>,
   timezone        |-> <<"location", "time_zone">>,
   latitude        |-> <<"location", "latitude">>,
   longitude       |-> <<"location", "longitude">>,
   metro_code      |-> <<"location", "metro_code">>,
   accuracy_radius |-> <<"location", "accuracy_radius">>]

AsnPath ==
  [autonomous_system_number       |-> <<"autonomous_system_number">>,
   autonomous_system_organization |-> <<"autonomous_system_organization">>]

IpInfoPath ==
  [country_code                   |-> <<"country_code">>,
   country_name                   |-> <<"country">>,
   continent_code                 |-> <<"continent_code">>,
   continent_name                 |-> <<"continent">>,
   autonomous_system_number       |-> <<"asn">>,
   autonomous_system_organization |-> <<"as_name">>,
   as_domain                      |-> <<"as_domain">>]

RegionPath == [region_name |-> <<"names", "en">>, region_code |-> <<"iso_code">>]

Field ==
  DOMAIN CityPath \cup DOMAIN AsnPath \cup DOMAIN IpInfoPath \cup DOMAIN RegionPath
    \cup {"network", "asn_network"}

Wants(field) ==
  CASE field \in {"latitude", "longitude"} -> "F64"
    [] field \in {"metro_code", "accuracy_radius"} -> "U16"
    [] field = "autonomous_system_number" -> "U32"
    [] OTHER -> "Str"

EmptyRecord == [f \in Field |-> None]

-----------------------------------------------------------------------------
(* The typed decode, which is the reader's and serde's: an absent key is   *)
(* no value, and a value of another shape refuses the record.              *)

Child(n, key) ==
  IF n = None THEN None
  ELSE IF n = Refused \/ Data[n].kind # "map" THEN Refused
  ELSE LET entries == Data[n].entries
           here == {i \in DOMAIN entries : entries[i].key = key}
       IN IF here = {} THEN None ELSE entries[CHOOSE i \in here : TRUE].node

At(n, path) ==
  LET to[i \in 0..Len(path)] == IF i = 0 THEN n ELSE Child(to[i - 1], path[i])
  IN to[Len(path)]

(* A double takes a whole number of up to 64 bits, a whole number one of   *)
(* either sign's kind that is within its width.                            *)
Decodes(leaf, kind) ==
  CASE kind = "Str" -> leaf.kind = "Str"
    [] kind = "F64" -> leaf.kind \in {"F64", "U64", "I64"}
    [] kind = "U16" -> leaf.kind \in {"U64", "I64"} /\ leaf.says \in 0..U16Max
    [] kind = "U32" -> leaf.kind \in {"U64", "I64"} /\ leaf.says \in 0..U32Max

Typed(n, kind) ==
  IF n \in {None, Refused} THEN n
  ELSE IF Decodes(Data[n], kind) THEN Data[n].says ELSE Refused

Fields(n, paths, kindOf) == [f \in DOMAIN paths |-> Typed(At(n, paths[f]), kindOf[f])]

KindOf(paths) == [f \in DOMAIN paths |-> Wants(f)]

(* Every entry of the list is decoded, and the last is the region.         *)
Regions(n) ==
  LET list == Child(n, "subdivisions") IN
  IF list = None THEN <<>>
  ELSE IF list = Refused \/ Data[list].kind # "array"
    THEN <<[f \in DOMAIN RegionPath |-> Refused]>>
  ELSE [i \in DOMAIN Data[list].entries |->
          Fields(Data[list].entries[i].node, RegionPath, KindOf(RegionPath))]

Refuses(fields) == \E f \in DOMAIN fields : fields[f] = Refused

-----------------------------------------------------------------------------
(* read_ipinfo, read_city and read_asn: what each writes over the record,  *)
(* and Refused when the database does not answer.                          *)

ReadIpInfo(at) ==
  LET fields == Fields(at.root, IpInfoPath,
                       [KindOf(IpInfoPath) EXCEPT !["autonomous_system_number"] = "Str"])
      text == fields["autonomous_system_number"]
  IN IF at.root = None \/ Refuses(fields) THEN Refused
     ELSE Over([fields EXCEPT !["autonomous_system_number"] =
                                 IF text = None THEN None ELSE AsnNumber[text]],
               [network |-> at.network, asn_network |-> at.network])

(* As a reader would that took the first subdivision for the region.       *)
ReadCityOfFirst(at) ==
  LET fields == Fields(at.root, CityPath, KindOf(CityPath))
      regions == Regions(at.root)
  IN IF at.root = None \/ Refuses(fields) \/ \E i \in DOMAIN regions : Refuses(regions[i])
       THEN Refused
       ELSE Over(IF regions = <<>> THEN <<>> ELSE regions[1],
                 Over(fields, [network |-> at.network]))

ReadCity(at) ==
  LET fields == Fields(at.root, CityPath, KindOf(CityPath))
      regions == Regions(at.root)
  IN IF at.root = None \/ Refuses(fields) \/ \E i \in DOMAIN regions : Refuses(regions[i])
       THEN Refused
       ELSE Over(IF regions = <<>> THEN <<>> ELSE regions[Len(regions)],
                 Over(fields, [network |-> at.network]))

(* As a reader would that wrote what it could of a refused record.         *)
ReadAsnPartial(at) ==
  IF at.root = None THEN Refused
  ELSE Over(Fields(at.root, AsnPath, KindOf(AsnPath)), [asn_network |-> at.network])

ReadAsn(at) ==
  LET fields == Fields(at.root, AsnPath, KindOf(AsnPath))
  IN IF at.root = None \/ Refuses(fields) THEN Refused
     ELSE Over(fields, [asn_network |-> at.network])

ReadOf(s, at) ==
  IF at = None THEN Refused
  ELSE IF at.ipinfo THEN ReadIpInfo(at) ELSE IF s = "city" THEN ReadCity(at) ELSE ReadAsn(at)

-----------------------------------------------------------------------------
(* A leaf as it is kept: a whole number as the narrowest kind that holds   *)
(* it, so that it reads the same whatever its width on the wire.           *)

(* As a build would that kept the wire's own kinds.                        *)
ValueAsWritten(leaf) ==
  [kind |-> CASE leaf.kind = "U64" -> "UInt" [] leaf.kind = "I64" -> "Int"
              [] leaf.kind = "U128" -> "UInt128" [] leaf.kind = "F64" -> "Float"
              [] OTHER -> leaf.kind,
   says |-> leaf.says, size |-> leaf.size]

Value(leaf) ==
  [kind |-> CASE leaf.kind = "U64" -> "UInt"
              [] leaf.kind = "I64" -> IF leaf.says >= 0 THEN "UInt" ELSE "Int"
              [] leaf.kind = "U128" -> IF leaf.says <= U64Max THEN "UInt" ELSE "UInt128"
              [] leaf.kind = "F64" -> "Float"
              [] OTHER -> leaf.kind,
   says |-> leaf.says, size |-> leaf.size]

Cost(path, value) ==
  2 * Len(path) - 1 + (IF value.kind \in {"Str", "Bytes"} THEN value.size ELSE 0)

(* The field a path is read into, None when no typed field reads it.       *)
FieldOf(path) ==
  LET reads(paths) == {f \in DOMAIN paths : paths[f] = path}
      flat == reads(CityPath) \cup reads(AsnPath) \cup reads(IpInfoPath)
      region == {f \in DOMAIN RegionPath :
                   /\ Len(path) > 2 /\ path[1] = "subdivisions"
                   /\ \E i \in DOMAIN Digits : path[2] = Digits[i]
                   /\ RegionPath[f] = SubSeq(path, 3, Len(path))}
  IN IF flat \cup region = {} THEN None ELSE CHOOSE f \in flat \cup region : TRUE

(* As a filter would that went by the path alone.                          *)
TakenByPath(path, value, rec) == FieldOf(path) # None

(* typed: whether the record holds this very value in the path's field.    *)
Taken(path, value, rec) ==
  LET f == FieldOf(path) IN
  /\ f # None
  /\ rec[f] # None
  /\ IF path = <<"asn">>
       THEN value.kind = "Str" /\ AsnNumber[value.says] = rec[f]
       ELSE /\ value.says = rec[f]
            /\ value.kind = CASE Wants(f) = "F64" -> "Float"
                              [] Wants(f) \in {"U16", "U32"} -> "UInt"
                              [] OTHER -> "Str"

-----------------------------------------------------------------------------
Init ==
  /\ file \in [Slot -> CityFiles \cup AsnFiles]
  /\ file["city"] \in CityFiles /\ file["asn"] \in AsnFiles
  /\ collecting \in BOOLEAN
  /\ slot = "city" /\ step = "decode"
  /\ answered = {}
  /\ record = EmptyRecord
  /\ extra = <<>>
  /\ stack = <<>> /\ kept = <<>> /\ bytes = 0 /\ full = FALSE
  /\ ended = [s \in Slot |-> "unread"]

NextSlot == IF slot = "city" THEN "asn" ELSE "done"

(* The slot is empty, or its database does not answer.                     *)
Silent ==
  /\ slot # "done" /\ step = "decode"
  /\ ReadOf(slot, file[slot]) = Refused
  /\ slot' = NextSlot
  /\ UNCHANGED <<file, collecting, step, answered, record, extra, stack, kept, bytes, full,
                  ended>>

(* The typed fields are written, and the walk is at the record's root.     *)
Decode ==
  /\ slot # "done" /\ step = "decode"
  /\ ReadOf(slot, file[slot]) # Refused
  /\ answered' = answered \cup {slot}
  /\ record' = Over(ReadOf(slot, file[slot]), record)
  /\ IF collecting
       THEN /\ step' = "walk"
            /\ stack' = <<[node |-> file[slot].root, next |-> 1, path |-> <<>>]>>
            /\ kept' = <<>> /\ bytes' = 0 /\ full' = FALSE
            /\ UNCHANGED slot
       ELSE slot' = NextSlot /\ UNCHANGED <<step, stack, kept, bytes, full>>
  /\ UNCHANGED <<file, collecting, extra, ended>>

Top == stack[Len(stack)]
Below == SubSeq(stack, 1, Len(stack) - 1)
Entries == Data[Top.node].entries

(* As a push would that counted a leaf after it was kept.                  *)
KeepThenCount(path, value) ==
  /\ kept' = Append(kept, <<path, value>>)
  /\ bytes' = bytes + Cost(path, value)
  /\ full' = (bytes' > MaxBytes \/ Len(kept') >= MaxFields)

(* Kept::push.                                                             *)
Keep(path, value) ==
  IF bytes + Cost(path, value) > MaxBytes
    THEN full' = TRUE /\ UNCHANGED <<kept, bytes>>
    ELSE /\ kept' = Append(kept, <<path, value>>)
         /\ bytes' = bytes + Cost(path, value)
         /\ full' = (Len(kept') >= MaxFields)

(* The innermost container's next entry is taken: its visitor keeps its    *)
(* own path, whatever the entry is called.                                 *)
AskedUntruncated(path) == Append(Below, [Top EXCEPT !.next = @ + 1, !.path = path])

Asked(path) == Append(Below, [Top EXCEPT !.next = @ + 1])

(* One entry of the innermost container is asked for: a leaf is kept, a    *)
(* container is visited before the next entry.                             *)
Ask ==
  /\ step = "walk" /\ stack # <<>> /\ ~full
  /\ Top.next <= Len(Entries)
  /\ LET entry == Entries[Top.next]
         path == Append(Top.path, entry.key)
     IN IF Data[entry.node].kind \in WireKind
          THEN Keep(path, Value(Data[entry.node])) /\ stack' = Asked(path)
          ELSE /\ stack' = Append(Asked(path), [node |-> entry.node, next |-> 1, path |-> path])
               /\ UNCHANGED <<kept, bytes, full>>
  /\ UNCHANGED <<file, collecting, slot, step, answered, record, extra, ended>>

(* The innermost container is left: no entry is, or a bound is reached.    *)
Leave ==
  /\ step = "walk" /\ stack # <<>>
  /\ full \/ Top.next > Len(Entries)
  /\ stack' = Below
  /\ step' = IF Len(stack) = 1 THEN "filter" ELSE "walk"
  /\ ended' = IF Len(stack) = 1
                THEN [ended EXCEPT ![slot] = IF full THEN "full" ELSE "whole"]
                ELSE ended
  /\ UNCHANGED <<file, collecting, slot, answered, record, extra, kept, bytes, full>>

(* The walk's decode fails: nothing of it is kept, the typed fields are.   *)
Break ==
  /\ step = "walk" /\ ~full
  /\ step' = "decode" /\ slot' = NextSlot
  /\ stack' = <<>> /\ kept' = <<>> /\ bytes' = 0
  /\ ended' = [ended EXCEPT ![slot] = "broken"]
  /\ UNCHANGED <<file, collecting, answered, record, extra, full>>

(* The leaves no typed field took are added to the record's.               *)
Filter ==
  /\ step = "filter"
  /\ extra' = extra \o Picked(kept, {i \in DOMAIN kept : ~Taken(kept[i][1], kept[i][2], record)})
  /\ step' = "decode" /\ slot' = NextSlot
  /\ kept' = <<>> /\ bytes' = 0 /\ full' = FALSE
  /\ UNCHANGED <<file, collecting, answered, record, stack, ended>>

Next == Silent \/ Decode \/ Ask \/ Leave \/ Break \/ Filter

Spec == Init /\ [][Next]_vars

-----------------------------------------------------------------------------
(* What a consumer is handed: to_schema_map, and a record read again from  *)
(* the JSON it was written as.                                             *)

FieldOrder ==
  <<"city_name", "continent_code", "continent_name", "country_code", "country_name",
    "region_name", "region_code", "postal_code", "timezone", "latitude", "longitude",
    "metro_code", "accuracy_radius", "autonomous_system_number",
    "autonomous_system_organization", "network", "asn_network", "as_domain">>

(* Without is_private, which is always there and FALSE here.               *)
SchemaMap ==
  LET resolved == Picked(FieldOrder, {i \in DOMAIN FieldOrder : record[FieldOrder[i]] # None}) IN
  [i \in DOMAIN resolved |-> <<<<resolved[i]>>, record[resolved[i]]>>]
    \o [i \in DOMAIN extra |-> <<extra[i][1], extra[i][2].says>>]

(* JSON tells a text, a flag, an array, a null and a number apart, and a   *)
(* number with a point from one without; one without reads as the first of *)
(* u64, i64 and double that holds it.  A null is no value, and refused.    *)
Reread(value) ==
  CASE value.kind \in {"Str", "Bool", "Bytes"} -> value
    [] value.kind = "Float" ->
         IF JsonDouble[value.says] = None THEN Refused
         ELSE [value EXCEPT !.says = JsonDouble[value.says]]
    [] OTHER ->
         [value EXCEPT !.kind = CASE value.says \in 0..U64Max -> "UInt"
                                  [] value.says < 0 -> "Int"
                                  [] value.says > U64Max -> "Float"]

(* A value that is refused refuses the whole record.                       *)
Rereads == \A i \in DOMAIN extra : Reread(extra[i][2]) # Refused

(* A typed field that is null is one the record does not have.             *)
RereadField(f) ==
  IF record[f] # None /\ Wants(f) = "F64" THEN JsonDouble[record[f]] ELSE record[f]

-----------------------------------------------------------------------------
(* Properties.                                                             *)

(* The leaves of a record by a definition of its own, in source order:     *)
(* those of each entry under its key, then those of the entries after it.  *)
Under(path, leaves) == [j \in DOMAIN leaves |-> <<path \o leaves[j][1], leaves[j][2]>>]

FromEntry(entries, k, leavesAt) ==
  LET last[i \in 0..Len(entries)] ==
        IF i = 0 THEN <<>>
        ELSE LET e == entries[Len(entries) + 1 - i]
             IN Under(<<e.key>>, leavesAt[e.node]) \o last[i - 1]
  IN last[Len(entries) + 1 - k]

LeavesOf(root) ==
  LET to[d \in 0..Depth] ==
        [n \in Node |->
           IF n \notin Container THEN << <<<<>>, Value(Data[n])>> >>
           ELSE IF d = 0 THEN <<>> ELSE FromEntry(Data[n].entries, 1, to[d - 1])]
  IN to[Depth][root]

CostUpTo(leaves, k) ==
  LET cost[i \in 0..Len(leaves)] ==
        IF i = 0 THEN 0 ELSE cost[i - 1] + Cost(leaves[i][1], leaves[i][2])
  IN cost[k]

(* The longest start of them that is within both bounds.                   *)
Fitting(leaves) ==
  LET fits == {i \in 0..Len(leaves) : i <= MaxFields /\ CostUpTo(leaves, i) <= MaxBytes}
  IN SubSeq(leaves, 1, CHOOSE i \in fits : \A j \in fits : j <= i)

KeptLeaf == Seq(STRING) \X ExtraValue
Visitor == [node : Container, next : Nat \ {0}, path : Seq(STRING)]

TypeOK ==
  /\ file \in [Slot -> CityFiles \cup AsnFiles]
  /\ collecting \in BOOLEAN
  /\ slot \in Slot \cup {"done"} /\ step \in {"decode", "walk", "filter"}
  /\ answered \in SUBSET Slot
  /\ record \in [Field -> Int \cup {None}]
  /\ extra \in Seq(KeptLeaf) /\ kept \in Seq(KeptLeaf)
  /\ stack \in Seq(Visitor)
  /\ bytes \in Nat /\ full \in BOOLEAN
  /\ ended \in [Slot -> {"unread", "whole", "full", "broken"}]

(* Whatever a record expands to, what one walk holds is within both        *)
(* bounds, at every step of it and not only when it ends.                  *)
KeptWithinBounds == Len(kept) <= MaxFields /\ bytes <= MaxBytes

(* A walk keeps the leaves of the record in source order, each under its   *)
(* whole path whatever was entered and left before it, and stops at the    *)
(* first that does not fit.                                                *)
WalkKeepsTheStart == step = "filter" => kept = Fitting(LeavesOf(file[slot].root))

Delivered(leaf) ==
  \E i \in DOMAIN SchemaMap :
    \/ SchemaMap[i] = <<leaf[1], leaf[2].says>>
    \/ SchemaMap[i][1] = <<FieldOf(leaf[1])>> /\ Taken(leaf[1], leaf[2], record)

(* The fields the ASN slot's database may write over the city's.           *)
Overwritten ==
  IF "asn" \in answered THEN DOMAIN ReadOf("asn", file["asn"]) ELSE {}

LeavesIn(s) ==
  LET leaves == LeavesOf(file[s].root) IN {leaves[i] : i \in DOMAIN leaves}

(* What a database that answered says, and the bounds did not cut, is in   *)
(* the map a consumer is handed, as a typed field or under its path: a     *)
(* superseded subdivision too, and a value the typed field could not hold. *)
(* What the city slot's database says of a field the ASN slot's writes as  *)
(* well is excepted.                                                       *)
EveryLeafDelivered ==
  slot = "done" /\ collecting =>
    \A s \in answered : ended[s] = "whole" =>
      \A leaf \in LeavesIn(s) :
        Delivered(leaf) \/ (s = "city" /\ FieldOf(leaf[1]) \in Overwritten)

(* "By default none of it is discarded": what one database says of a field *)
(* gives way at most to what the other says of the same field.             *)
NothingDiscarded ==
  slot = "done" /\ collecting =>
    \A s \in answered : ended[s] = "whole" =>
      \A leaf \in LeavesIn(s) :
        \/ Delivered(leaf)
        \/ FieldOf(leaf[1]) # None /\ record[FieldOf(leaf[1])] # None

(* The fields that describe one thing come from one database, and a        *)
(* region's from one subdivision: a country's code is never one source's   *)
(* beside another's name.                                                  *)
OneSourceApiece ==
  slot = "done" =>
    /\ \A group \in {{"country_code", "country_name", "continent_code", "continent_name"},
                      {"autonomous_system_number", "autonomous_system_organization",
                       "asn_network"}} :
         \/ \A f \in group : record[f] = None
         \/ \E s \in answered : \A f \in group :
              f \in DOMAIN ReadOf(s, file[s]) /\ record[f] = ReadOf(s, file[s])[f]
    /\ \/ record["region_name"] = None /\ record["region_code"] = None
       \/ LET regions == Regions(file["city"].root)
              last == regions[Len(regions)]
          IN \A f \in DOMAIN RegionPath : record[f] = last[f]

(* What comes back of a value: the value itself, but for a double's last   *)
(* digit and for a number wider than 64 bits, which becomes a double.      *)
Alike(value, back) ==
  CASE value.kind = "Float" -> back.kind = "Float"
    [] value.kind = "UInt128" -> back.kind = "Float"
    [] OTHER -> back = value

NotFinite(value) == value.kind = "Float" /\ JsonDouble[value.says] = None

(* A record written as JSON is read again, each extra value of the kind it *)
(* had, when none of them is a double that is not finite, and is refused   *)
(* when one is.  A coordinate that is not finite is lost and refuses       *)
(* nothing; every other typed field comes back.                            *)
ReadsBackAsWritten ==
  /\ Rereads <=> ~\E i \in DOMAIN extra : NotFinite(extra[i][2])
  /\ Rereads => \A i \in DOMAIN extra : Alike(extra[i][2], Reread(extra[i][2]))
  /\ \A f \in Field :
       record[f] # None =>
         IF Wants(f) = "F64" THEN RereadField(f) # None <=> JsonDouble[record[f]] # None
         ELSE RereadField(f) = record[f]
=============================================================================
