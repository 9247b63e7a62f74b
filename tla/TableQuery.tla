----------------------------- MODULE TableQuery -----------------------------
(***************************************************************************)
(* A table's index and the queries it narrows: Table::build, the lookups   *)
(* by one key, and Table::find with its walk.                              *)
(*                                                                         *)
(* The rows are filed one at a time, in file order, under the text of the  *)
(* key column or the address or range it parses to; a find takes the rows  *)
(* an equality on the key column reaches, or all of them, and tests each.  *)
(*                                                                         *)
(* A cell's text is a value with three readings: what it parses to, what   *)
(* it folds to, and its date.  Columns are positions, 1 to Width.          *)
(***************************************************************************)
EXTENDS Integers, Sequences, FiniteSets

CONSTANTS
  Width,        \* how many columns
  Header,       \* the column names, by position; a name may be there twice
  Conventional, \* ADDRESS_COLUMNS and PREFIX_COLUMNS, in any case: the likely names
  Sample,       \* ADDRESS_SAMPLE: rows looked at to find the key column
  Text,         \* the texts of cells and of conditions
  Absent,       \* a cell the source did not supply, a wildcard not given
  Key,          \* addresses and ranges; an address is the range of itself
  Parsed,       \* by kind, what a text parses to, Absent when it does not
  Masked,       \* a range without its host bits, which is how a trie tells them apart
  HostBits,     \* how many bits of a range are free: the fewer, the narrower
  Within,       \* the addresses of a range
  Fold,         \* a text in lower case
  Date,         \* a text's date, Absent when it has none
  Tables,       \* the tables read, each a sequence of rows
  Indexes,      \* the indexes stated: see IndexKind
  Queries       \* the queries asked

IndexKind == {"text", "address", "prefix"}
ParsedKind == {"address", "prefix"}
Column == 1..Width
Cell == Text \cup {Absent}
Row == [Column -> Cell]

(* One rule of a query; one that does not compare text leaves "value"      *)
(* unread, one without a bound leaves that unread.                         *)
Condition ==
  [test : {"equals", "betweenDates", "fromDate", "toDate"},
   column : STRING, value : Text, from : Int, to : Int]

ASSUME TableAssumption ==
  /\ Width \in Nat \ {0} /\ Header \in [Column -> STRING]
  /\ Sample \in Nat
  /\ Absent \notin Text /\ Absent \notin Key
  /\ Conventional \in [ParsedKind -> SUBSET STRING]
  /\ Parsed \in [ParsedKind -> [Text -> Key \cup {Absent}]]
  /\ Masked \in [Key -> Key] /\ HostBits \in [Key -> Nat] /\ Within \in [Key -> SUBSET Key]
  /\ \A k \in Key : Within[Masked[k]] = Within[k] /\ HostBits[Masked[k]] = HostBits[k]
  /\ \A j, k \in Key :
       HostBits[j] = HostBits[k] /\ Within[j] \cap Within[k] # {} => Masked[j] = Masked[k]
  /\ Fold \in [Text -> Text]
  /\ \A t \in Text : Date[t] \in Int \/ Date[t] = Absent
  /\ Tables \subseteq Seq(Row) \ {<<>>}
  /\ \A index \in Indexes : index.kind \in IndexKind
  /\ \A query \in Queries :
       /\ query.conditions \in Seq(Condition)
       /\ query.exact \in BOOLEAN
       /\ query.wildcard \in Cell

VARIABLES
  rows,      \* Table::rows
  index,     \* the index the source states: its kind, and for text its column's name
  key,       \* Table::key_column, 0 until it is known
  stage,     \* where build is; "ready" once there is a table, "asked" once it was
             \* asked something
  at,        \* the row build files next
  filed,     \* Keys: the rows under each key, in file order
  unindexed, \* Keys: the rows whose key cell is there and does not parse
  query,     \* Matches::query
  walk,      \* Matches::walk: the lists still to be walked
  found      \* history: the rows the walk has handed back

vars == <<rows, index, key, stage, at, filed, unindexed, query, walk, found>>

-----------------------------------------------------------------------------
(* What is read from a cell.                                               *)

(* As a build would that lowered its keys.                                 *)
KeyFolded(text) == IF index.kind = "text" THEN Fold[text] ELSE Parsed[index.kind][text]

KeyOf(text) == IF index.kind = "text" THEN text ELSE Parsed[index.kind][text]

(* The entry a key is filed under: a trie compares ranges by their network *)
(* address, the two hash maps compare keys as they are.                    *)
Entry(k) == IF index.kind = "prefix" THEN Masked[k] ELSE k

FirstOf(S) == IF S = {} THEN 0 ELSE CHOOSE c \in S : \A d \in S : c <= d

(* 0 stands for a name the table has not got.                              *)
PositionOf(name) == FirstOf({c \in Column : Header[c] = name})

(* keyed_column's "holds": a sampled cell is there, and those there parse.  *)
Holds(c) ==
  LET sampled == {i \in 1..Len(rows) : i <= Sample /\ rows[i][c] # Absent} IN
  /\ sampled # {}
  /\ \A i \in sampled : Parsed[index.kind][rows[i][c]] # Absent

KeyedColumn ==
  LET conventional == FirstOf({c \in Column : Header[c] \in Conventional[index.kind]}) IN
  IF conventional # 0 /\ Holds(conventional)
    THEN conventional
    ELSE FirstOf({c \in Column : Holds(c)})

KeyColumn == IF index.kind = "text" THEN PositionOf(index.column) ELSE KeyedColumn

-----------------------------------------------------------------------------
(* build: find the key column, then file the rows.                         *)

NoWalk == <<<<>>, <<>>, <<>>>>
NoQuery == [conditions |-> <<>>, exact |-> TRUE, wildcard |-> Absent]

Init ==
  /\ rows \in Tables
  /\ index \in Indexes
  /\ key = 0
  /\ stage = "locate"
  /\ at = 1
  /\ filed = [k \in Text \cup Key |-> <<>>]
  /\ unindexed = <<>>
  /\ query = NoQuery
  /\ walk = NoWalk
  /\ found = <<>>

Locate ==
  /\ stage = "locate"
  /\ key' = KeyColumn
  /\ stage' = IF KeyColumn = 0 THEN "refused" ELSE "file"
  /\ UNCHANGED <<rows, index, at, filed, unindexed, query, walk, found>>

File ==
  /\ stage = "file"
  /\ LET text == rows[at][key] IN
     \/ /\ text = Absent
        /\ UNCHANGED <<filed, unindexed>>
     \/ /\ text # Absent /\ KeyOf(text) = Absent
        /\ unindexed' = Append(unindexed, at)
        /\ UNCHANGED filed
     \/ /\ text # Absent /\ KeyOf(text) # Absent
        /\ filed' = [filed EXCEPT ![Entry(KeyOf(text))] = Append(@, at)]
        /\ UNCHANGED unindexed
  /\ at' = at + 1
  /\ stage' = IF at = Len(rows) THEN "ready" ELSE "file"
  /\ UNCHANGED <<rows, index, key, query, walk, found>>

(* Budget::charge: the columns or the index outgrow the ceiling, anywhere   *)
(* in the build.                                                           *)
OverCeiling ==
  /\ stage \in {"locate", "file"}
  /\ stage' = "refused"
  /\ UNCHANGED <<rows, index, key, at, filed, unindexed, query, walk, found>>

-----------------------------------------------------------------------------
(* positions_of and positions_at: the lookups by one key.                  *)

PositionsOf(text) == IF index.kind = "text" THEN filed[text] ELSE <<>>

(* get_lpm: the narrowest range filed that holds the address.              *)
Around(address) == {k \in Key : filed[k] # <<>> /\ address \in Within[k]}
(* As a trie would that answered with the widest range.                    *)
WidestAround(address) ==
  CHOOSE k \in Around(address) : \A j \in Around(address) : HostBits[k] >= HostBits[j]

Narrowest(address) ==
  CHOOSE k \in Around(address) : \A j \in Around(address) : HostBits[k] <= HostBits[j]

PositionsAt(address) ==
  IF index.kind = "address" THEN filed[address]
  ELSE IF index.kind = "prefix" /\ Around(address) # {} THEN filed[Narrowest(address)]
  ELSE <<>>

-----------------------------------------------------------------------------
(* find: resolve the columns, narrow to lists of rows, walk them.          *)

PlanOf(q) == [i \in DOMAIN q.conditions |-> PositionOf(q.conditions[i].column)]

(* The equalities on the key column; the first narrows the walk.           *)
Narrowing(q) ==
  {i \in DOMAIN q.conditions :
     q.conditions[i].test = "equals" /\ PositionOf(q.conditions[i].column) = key}

Under(k) == IF k = Absent THEN <<>> ELSE filed[Entry(k)]

(* As a walk would that trusted the index to hold every row.               *)
ListsOfIndex(value, wildcard) ==
  LET k == KeyOf(value)
      w == IF wildcard = Absent THEN Absent ELSE KeyOf(wildcard)
  IN <<Under(k), IF w = k THEN <<>> ELSE Under(w), <<>>>>

(* The value's rows, the wildcard's unless that is the same key again, and *)
(* the rows the index could not file.                                      *)
ListsFor(value, wildcard) ==
  LET k == KeyOf(value)
      w == IF wildcard = Absent THEN Absent ELSE KeyOf(wildcard)
  IN <<Under(k), IF w = k THEN <<>> ELSE Under(w), unindexed>>

(* As a walk would that counted rows from nought.                          *)
EveryRowFromZero == <<[i \in 1..Len(rows) |-> i - 1], <<>>, <<>>>>

EveryRow == <<[i \in 1..Len(rows) |-> i], <<>>, <<>>>>

WalkOf(q) ==
  IF \E i \in DOMAIN q.conditions : PlanOf(q)[i] = 0
    THEN NoWalk
    ELSE IF q.exact /\ Narrowing(q) # {}
           THEN ListsFor(q.conditions[FirstOf(Narrowing(q))].value, q.wildcard)
           ELSE EveryRow

Equal(held, value, exact) == IF exact THEN held = value ELSE Fold[held] = Fold[value]

(* One condition of q, of the text in its column.                          *)
Meets(text, condition, q) ==
  /\ text # Absent
  /\ \/ /\ condition.test = "equals"
        /\ \/ Equal(text, condition.value, q.exact)
           \/ q.wildcard # Absent /\ Equal(text, q.wildcard, q.exact)
     \/ /\ condition.test # "equals"
        /\ Date[text] # Absent
        /\ condition.test # "toDate" => condition.from <= Date[text]
        /\ condition.test # "fromDate" => Date[text] <= condition.to

Satisfies(row, q) ==
  \A i \in DOMAIN q.conditions : Meets(row[PlanOf(q)[i]], q.conditions[i], q)

Find(q) ==
  /\ stage \in {"ready", "asked"}
  /\ stage' = "asked"
  /\ query' = q
  /\ walk' = WalkOf(q)
  /\ found' = <<>>
  /\ UNCHANGED <<rows, index, key, at, filed, unindexed>>

(* The positions at the head of a list.                                    *)
Heads == {Head(walk[l]) : l \in {m \in 1..3 : walk[m] # <<>>}}

(* Walk::pop: the lowest head, taken from every list it heads.              *)
Past(position) ==
  [l \in 1..3 |-> IF walk[l] # <<>> /\ Head(walk[l]) = position THEN Tail(walk[l]) ELSE walk[l]]

(* One turn of Matches::next: a row is taken and tested.                   *)
Test ==
  /\ Heads # {}
  /\ LET position == FirstOf(Heads) IN
     /\ walk' = Past(position)
     /\ found' = IF Satisfies(rows[position], query) THEN Append(found, position) ELSE found
  /\ UNCHANGED <<rows, index, key, stage, at, filed, unindexed, query>>

(* As a hint would that forgot the wildcard's rows and those not filed.    *)
RemainingOfValue == Len(walk[1])

(* Matches::size_hint's upper bound.                                       *)
Remaining == Len(walk[1]) + Len(walk[2]) + Len(walk[3])

Next == Locate \/ File \/ OverCeiling \/ (\E q \in Queries : Find(q)) \/ Test

Spec == Init /\ [][Next]_vars

-----------------------------------------------------------------------------
(* Properties.                                                             *)

Position == 1..Len(rows)

TypeOK ==
  /\ rows \in Tables /\ index \in Indexes
  /\ key \in 0..Width
  /\ stage \in {"locate", "file", "refused", "ready", "asked"}
  /\ at \in 1..(Len(rows) + 1)
  /\ filed \in [Text \cup Key -> Seq(Position)]
  /\ unindexed \in Seq(Position)
  /\ query \in Queries \cup {NoQuery}
  /\ walk \in [1..3 -> Seq(Position)]
  /\ found \in Seq(Position)

Listed(s) == {s[i] : i \in 1..Len(s)}
Ascending(s) == \A i, j \in 1..Len(s) : i < j => s[i] < s[j]

(* The rows a reader of the whole table would pick: every condition holds  *)
(* of the cell in the first column of its name.                            *)
MatchingOf(q) ==
  {i \in Position : \A j \in DOMAIN q.conditions :
     LET condition == q.conditions[j] IN
     \E c \in Column :
       /\ Header[c] = condition.column
       /\ \A d \in 1..(c - 1) : Header[d] # condition.column
       /\ Meets(rows[i][c], condition, q)}

Matching == MatchingOf(query)

(* What a find hands back is what testing every row in file order would:   *)
(* matching rows alone, each once, in order, none left out when it ends,   *)
(* whatever the index, the wildcard and the cells that do not parse.       *)
AnswersTheScan ==
  stage = "asked" =>
    /\ Ascending(found)
    /\ Listed(found) \subseteq Matching
    /\ \A i \in Matching \ Listed(found) :
         Heads # {} /\ \A j \in Listed(found) : j < i

(* size_hint's upper bound is one: no more rows are yet to come.           *)
HintHolds ==
  stage = "asked" => Cardinality(Matching \ Listed(found)) <= Remaining

(* Row i's key is a range that holds the address.                          *)
Reaches(i, address) ==
  /\ rows[i][key] # Absent /\ KeyOf(rows[i][key]) # Absent
  /\ address \in Within[KeyOf(rows[i][key])]

(* A key leads to every row that carries it, in file order, and to no      *)
(* other: a key that is there twice keeps both its rows.  In a table of    *)
(* ranges an address leads to the rows of the narrowest range around it,   *)
(* however those rows spell it.                                            *)
KeysLeadToRows ==
  stage \in {"ready", "asked"} =>
    /\ \A k \in Text \cup Key : Ascending(filed[k])
    /\ index.kind = "text" =>
         \A text \in Text :
           Listed(PositionsOf(text)) = {i \in Position : rows[i][key] = text}
    /\ index.kind = "address" =>
         \A address \in Key :
           Listed(PositionsAt(address)) =
             {i \in Position : rows[i][key] # Absent /\ KeyOf(rows[i][key]) = address}
    /\ index.kind = "prefix" =>
         \A address \in Key :
           Listed(PositionsAt(address)) =
             {i \in Position :
                /\ Reaches(i, address)
                /\ \A j \in Position : Reaches(j, address) =>
                     HostBits[KeyOf(rows[i][key])] <= HostBits[KeyOf(rows[j][key])]}
=============================================================================
