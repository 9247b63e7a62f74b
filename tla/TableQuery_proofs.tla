------------------------- MODULE TableQuery_proofs -------------------------
(***************************************************************************)
(* Proofs about TableQuery for any columns, texts, tables and queries.     *)
(***************************************************************************)
EXTENDS TableQuery, FiniteSetTheorems, SequenceTheorems, WellFoundedInduction, TLAPS

-----------------------------------------------------------------------------
(* Lists of row positions.                                                 *)

(* The least of a set of positions is one of them.                         *)
LEMMA Least ==
  ASSUME NEW S \in SUBSET Nat, S # {}
  PROVE  FirstOf(S) \in S /\ \A d \in S : FirstOf(S) <= d
<1>1. PICK c \in S : \A d \in S : ~(<<d, c>> \in OpToRel(<, Nat))
  <2>1. IsWellFoundedOn(OpToRel(<, Nat), Nat)
    BY NatLessThanWellFounded
  <2>. QED
    BY <2>1, WFMin, Zenon
<1>2. \A d \in S : c <= d
  <2>1. SUFFICES ASSUME NEW d \in S, ~(c <= d) PROVE FALSE
    OBVIOUS
  <2>2. d \in Nat /\ c \in Nat /\ d < c
    BY <2>1
  <2>3. <<d, c>> \in OpToRel(<, Nat)
    BY <2>2 DEF OpToRel
  <2>. QED
    BY <1>1, <2>3
<1>. QED
  BY <1>1, <1>2 DEF FirstOf

(* Appending a position that is higher than all of a list's.               *)
LEMMA AppendHigher ==
  ASSUME NEW s \in Seq(Nat), NEW x \in Nat
  PROVE  /\ Listed(Append(s, x)) = Listed(s) \cup {x}
         /\ Ascending(s) /\ (\A d \in Listed(s) : d < x) => Ascending(Append(s, x))
<1>1. /\ Len(Append(s, x)) = Len(s) + 1
      /\ \A i \in 1..Len(s) : Append(s, x)[i] = s[i]
      /\ Append(s, x)[Len(s) + 1] = x
      /\ Len(s) \in Nat
  OBVIOUS
<1>2. Listed(Append(s, x)) = Listed(s) \cup {x}
  <2>1. Listed(Append(s, x)) \subseteq Listed(s) \cup {x}
    BY <1>1 DEF Listed
  <2>2. Listed(s) \subseteq Listed(Append(s, x))
    BY <1>1 DEF Listed
  <2>3. x \in Listed(Append(s, x))
    BY <1>1 DEF Listed
  <2>. QED
    BY <2>1, <2>2, <2>3
<1>3. ASSUME Ascending(s), \A d \in Listed(s) : d < x
      PROVE  Ascending(Append(s, x))
  <2>1. \A i \in 1..Len(s) : s[i] < x
    BY <1>3 DEF Listed
  <2>. QED
    BY <1>1, <1>3, <2>1 DEF Ascending
<1>. QED
  BY <1>2, <1>3

(* The head of an ascending list is its least, and the tail the others.    *)
LEMMA HeadAndTail ==
  ASSUME NEW s \in Seq(Nat), s # <<>>, Ascending(s)
  PROVE  /\ Head(s) \in Listed(s) /\ \A d \in Listed(s) : Head(s) <= d
         /\ Listed(Tail(s)) = Listed(s) \ {Head(s)}
         /\ Ascending(Tail(s))
<1>1. /\ Len(s) \in Nat /\ Len(s) >= 1 /\ Head(s) = s[1]
      /\ Len(Tail(s)) = Len(s) - 1
      /\ \A i \in 1..(Len(s) - 1) : Tail(s)[i] = s[i + 1]
      /\ \A i \in 1..Len(s) : s[i] \in Nat
  OBVIOUS
<1>2. Head(s) \in Listed(s) /\ \A d \in Listed(s) : Head(s) <= d
  BY <1>1 DEF Listed, Ascending
<1>3. Listed(Tail(s)) = Listed(s) \ {Head(s)}
  <2>1. ASSUME NEW d \in Listed(Tail(s)) PROVE d \in Listed(s) \ {Head(s)}
    BY <1>1 DEF Listed, Ascending
  <2>2. ASSUME NEW d \in Listed(s) \ {Head(s)} PROVE d \in Listed(Tail(s))
    <3>1. PICK i \in 1..Len(s) : d = s[i]
      BY DEF Listed
    <3>2. i - 1 \in 1..(Len(s) - 1) /\ Tail(s)[i - 1] = s[i]
      BY <1>1, <2>2, <3>1
    <3>. QED
      BY <1>1, <3>1, <3>2 DEF Listed
  <2>. QED
    BY <2>1, <2>2
<1>4. Ascending(Tail(s))
  BY <1>1 DEF Ascending
<1>. QED
  BY <1>2, <1>3, <1>4

LEMMA ListedNat == ASSUME NEW s \in Seq(Nat) PROVE Listed(s) \subseteq Nat
BY DEF Listed

(* A list is as long as it has positions, or longer.                       *)
LEMMA ListedBound ==
  ASSUME NEW s \in Seq(Nat)
  PROVE  IsFiniteSet(Listed(s)) /\ Cardinality(Listed(s)) <= Len(s)
<1>1. Len(s) \in Nat
  OBVIOUS
<1>2. IsFiniteSet(1..Len(s)) /\ Cardinality(1..Len(s)) = Len(s)
  <2>1. 1 \in Int /\ Len(s) \in Int
    BY <1>1
  <2>2. /\ IsFiniteSet(1..Len(s))
        /\ Cardinality(1..Len(s)) = IF 1 > Len(s) THEN 0 ELSE Len(s) - 1 + 1
    BY <2>1, FS_Interval, Zenon
  <2>. QED
    BY <1>1, <2>2
<1>3. [i \in 1..Len(s) |-> s[i]] \in Surjection(1..Len(s), Listed(s))
  BY DEF Surjection, Listed
<1>. QED
  BY <1>1, <1>2, <1>3, FS_Surjection

LEMMA UnionBound ==
  ASSUME NEW S, NEW T, IsFiniteSet(S), IsFiniteSet(T)
  PROVE  /\ IsFiniteSet(S \cup T) /\ Cardinality(S \cup T) \in Nat
         /\ Cardinality(S \cup T) <= Cardinality(S) + Cardinality(T)
<1>1. IsFiniteSet(S \cup T) /\ IsFiniteSet(S \cap T)
  BY FS_Union, FS_Intersection
<1>2. Cardinality(S \cup T) = Cardinality(S) + Cardinality(T) - Cardinality(S \cap T)
  BY FS_Union
<1>3. /\ Cardinality(S) \in Nat /\ Cardinality(T) \in Nat
      /\ Cardinality(S \cup T) \in Nat /\ Cardinality(S \cap T) \in Nat
  BY <1>1, FS_CardinalityType
<1>. QED
  BY <1>1, <1>2, <1>3

-----------------------------------------------------------------------------
(* The inductive invariant.                                                *)

Settled == {"file", "ready", "asked"}

(* The rows filed so far under an entry, and those that could not be.      *)
Keyed(i) == rows[i][key] # Absent
FiledRows(k) ==
  {i \in 1..(at - 1) : Keyed(i) /\ KeyOf(rows[i][key]) # Absent /\ Entry(KeyOf(rows[i][key])) = k}
UnfiledRows == {i \in 1..(at - 1) : Keyed(i) /\ KeyOf(rows[i][key]) = Absent}

(* A list of the index holds the rows of its key, in order, and no other.  *)
IndexInv ==
  /\ stage = "locate" =>
       at = 1 /\ unindexed = <<>> /\ \A k \in Text \cup Key : filed[k] = <<>>
  /\ stage \in Settled =>
       /\ key \in Column
       /\ \A k \in Text \cup Key : Ascending(filed[k]) /\ Listed(filed[k]) = FiledRows(k)
       /\ Ascending(unindexed) /\ Listed(unindexed) = UnfiledRows
  /\ stage = "file" => at \in Position
  /\ stage \in {"ready", "asked"} => at = Len(rows) + 1

Resolved(q) == \A i \in DOMAIN q.conditions : PositionOf(q.conditions[i].column) \in Column

(* A matching row that was not handed back is still to be walked, behind   *)
(* all that were.                                                          *)
WalkInv ==
  /\ stage # "asked" => walk = NoWalk
  /\ stage = "asked" =>
       /\ walk # NoWalk => Resolved(query)
       /\ \A l \in 1..3 : Ascending(walk[l])
       /\ Ascending(found) /\ Listed(found) \subseteq Matching
       /\ \A i \in Matching \ Listed(found) : \E l \in 1..3 : i \in Listed(walk[l])
       /\ \A i \in Listed(found), l \in 1..3 : \A j \in Listed(walk[l]) : i < j

IInv == TypeOK /\ IndexInv /\ WalkInv

-----------------------------------------------------------------------------
(* What the types say of rows, queries and keys.                           *)

LEMMA RowTypes ==
  ASSUME TypeOK
  PROVE  /\ Len(rows) \in Nat /\ Len(rows) >= 1
         /\ \A i \in Position, c \in Column : rows[i][c] \in Cell
         /\ index.kind \in IndexKind
<1>1. rows \in Seq(Row) /\ rows # <<>>
  BY TableAssumption DEF TypeOK
<1>2. Len(rows) \in Nat /\ Len(rows) >= 1 /\ \A i \in Position : rows[i] \in Row
  BY <1>1 DEF Position
<1>. QED
  BY <1>2, TableAssumption DEF TypeOK, Row

LEMMA QueryTypes ==
  ASSUME NEW q \in Queries \cup {NoQuery}
  PROVE  /\ q.wildcard \in Cell /\ q.exact \in BOOLEAN
         /\ DOMAIN q.conditions \subseteq Nat
         /\ \A i \in DOMAIN q.conditions : q.conditions[i].value \in Text
<1>1. CASE q \in Queries
  <2>1. q.conditions \in Seq(Condition)
    BY <1>1, TableAssumption
  <2>2. \A i \in DOMAIN q.conditions : i \in Nat /\ q.conditions[i] \in Condition
    BY <2>1
  <2>. QED
    BY <1>1, <2>2, TableAssumption DEF Condition
<1>2. CASE q = NoQuery
  BY <1>2, TableAssumption DEF NoQuery, Cell
<1>. QED
  BY <1>1, <1>2

LEMMA KeyTypes ==
  ASSUME TypeOK, NEW text \in Text
  PROVE  /\ KeyOf(text) \in Text \cup Key \cup {Absent}
         /\ KeyOf(text) # Absent => Entry(KeyOf(text)) \in Text \cup Key
<1>1. CASE index.kind = "text"
  BY <1>1 DEF KeyOf, Entry
<1>2. CASE index.kind # "text"
  <2>1. KeyOf(text) = Parsed[index.kind][text] /\ Parsed[index.kind][text] \in Key \cup {Absent}
    BY <1>2, TableAssumption DEF KeyOf, TypeOK, IndexKind, ParsedKind
  <2>2. \A k \in Key : Entry(k) \in Key
    BY TableAssumption DEF Entry
  <2>. QED
    BY <2>1, <2>2
<1>. QED
  BY <1>1, <1>2

(* position_of names the first column of that name, or none.               *)
LEMMA Named ==
  ASSUME NEW name
  PROVE  \/ /\ PositionOf(name) \in Column
            /\ Header[PositionOf(name)] = name
            /\ \A d \in 1..(PositionOf(name) - 1) : Header[d] # name
         \/ PositionOf(name) = 0 /\ \A c \in Column : Header[c] # name
<1> DEFINE S == {c \in Column : Header[c] = name}
<1>1. S \in SUBSET Nat /\ Width \in Nat
  BY TableAssumption DEF Column
<1>2. CASE S = {}
  BY <1>2 DEF PositionOf, FirstOf
<1>3. CASE S # {}
  <2>1. FirstOf(S) \in S /\ \A d \in S : FirstOf(S) <= d
    BY <1>1, <1>3, Least
  <2>2. \A d \in 1..(FirstOf(S) - 1) : d \notin S /\ d \in Column
    BY <1>1, <2>1 DEF Column
  <2>. QED
    BY <2>1, <2>2 DEF PositionOf
<1>. QED
  BY <1>2, <1>3

(* Where every column was found, the row test of the code is the one of    *)
(* the reference; where one was not, no row matches.                       *)
LEMMA MatchingRows ==
  ASSUME NEW q
  PROVE  /\ Resolved(q) => MatchingOf(q) = {i \in Position : Satisfies(rows[i], q)}
         /\ ~Resolved(q) => MatchingOf(q) = {}
<1> DEFINE First(c, name) == Header[c] = name /\ \A d \in 1..(c - 1) : Header[d] # name
<1>1. \A name : \A c \in Column : First(c, name) <=> c = PositionOf(name)
  <2>1. SUFFICES ASSUME NEW name, NEW c \in Column
                 PROVE  First(c, name) <=> c = PositionOf(name)
    OBVIOUS
  <2>2. Column \subseteq Nat /\ \A n \in Column : n >= 1
    BY DEF Column
  <2>3. CASE PositionOf(name) \in Column
    <3>1. First(PositionOf(name), name)
      BY <2>2, <2>3, Named
    <3>2. ASSUME First(c, name) PROVE c = PositionOf(name)
      <4>. DEFINE p == PositionOf(name)
      <4>1. c \in Nat /\ p \in Nat /\ c >= 1 /\ p >= 1
        BY <2>2, <2>3
      <4>2. ~(c \in 1..(p - 1)) /\ ~(p \in 1..(c - 1))
        BY <3>1, <3>2
      <4>. QED
        BY <4>1, <4>2
    <3>. QED
      BY <3>1, <3>2
  <2>4. CASE PositionOf(name) \notin Column
    BY <2>4, Named
  <2>. QED
    BY <2>3, <2>4
<1>2. ASSUME Resolved(q), NEW i \in Position
      PROVE  i \in MatchingOf(q) <=> Satisfies(rows[i], q)
  <2>1. ASSUME NEW j \in DOMAIN q.conditions
        PROVE  (\E c \in Column : /\ First(c, q.conditions[j].column)
                                  /\ Meets(rows[i][c], q.conditions[j], q))
               <=> Meets(rows[i][PlanOf(q)[j]], q.conditions[j], q)
    <3>. DEFINE name == q.conditions[j].column
    <3>1. PositionOf(name) \in Column
      BY <1>2, <2>1 DEF Resolved
    <3>2. PlanOf(q)[j] = PositionOf(name)
      BY <2>1 DEF PlanOf
    <3>3. \A c \in Column : First(c, name) <=> c = PositionOf(name)
      BY <1>1
    <3>. HIDE DEF First
    <3>. QED
      BY <3>1, <3>2, <3>3, Zenon
  <2>. QED
    BY <2>1, Zenon DEF MatchingOf, Satisfies
<1>3. ASSUME ~Resolved(q) PROVE MatchingOf(q) = {}
  <2>1. PICK j \in DOMAIN q.conditions : PositionOf(q.conditions[j].column) \notin Column
    BY <1>3 DEF Resolved
  <2>2. \A c \in Column : Header[c] # q.conditions[j].column
    BY <2>1, Named
  <2>. QED
    BY <2>2 DEF MatchingOf
<1>. QED
  <2>1. MatchingOf(q) \subseteq Position
    BY DEF MatchingOf
  <2>. QED
    BY <1>2, <1>3, <2>1

-----------------------------------------------------------------------------
(* The build keeps the invariant.                                          *)

LEMMA EmptyList == /\ \A S : <<>> \in Seq(S)
                   /\ Listed(<<>>) = {} /\ Ascending(<<>>)
BY DEF Listed, Ascending

(* The three lists of a walk.                                              *)
LEMMA Three ==
  ASSUME NEW S, NEW a \in S, NEW b \in S, NEW c \in S
  PROVE  /\ <<a, b, c>> \in [1..3 -> S]
         /\ <<a, b, c>>[1] = a /\ <<a, b, c>>[2] = b /\ <<a, b, c>>[3] = c
         /\ 1..3 = {1, 2, 3}
OBVIOUS

LEMMA EmptyWalk ==
  /\ NoWalk \in [1..3 -> Seq(Position)]
  /\ \A l \in 1..3 : NoWalk[l] = <<>>
<1>. DEFINE e == <<>>
<1>1. e \in Seq(Position)
  BY EmptyList
<1>2. NoWalk = <<e, e, e>>
  BY DEF NoWalk
<1>. HIDE DEF e
<1>3. NoWalk \in [1..3 -> Seq(Position)] /\ \A l \in 1..3 : NoWalk[l] = e
  BY <1>1, <1>2, Three
<1>. QED
  BY <1>3 DEF e

LEMMA InitInv == Init => IInv
<1>. SUFFICES ASSUME Init PROVE IInv
  OBVIOUS
<1>1. TypeOK
  <2>1. rows \in Seq(Row) /\ rows # <<>>
    BY TableAssumption DEF Init
  <2>2. Len(rows) \in Nat /\ 1 \in 1..(Len(rows) + 1) /\ 0 \in 0..Width
    BY <2>1, TableAssumption
  <2>3. filed \in [Text \cup Key -> Seq(Position)]
    BY EmptyList DEF Init
  <2>. QED
    BY <2>2, <2>3, EmptyList, EmptyWalk DEF Init, TypeOK
<1>2. IndexInv
  BY DEF Init, IndexInv, Settled
<1>3. WalkInv
  BY DEF Init, WalkInv
<1>. QED
  BY <1>1, <1>2, <1>3 DEF IInv

(* The key column is a column, when there is one.                          *)
LEMMA KeyColumnType == KeyColumn \in Column \cup {0}
<1>1. ASSUME NEW S \in SUBSET Column PROVE FirstOf(S) \in Column \cup {0}
  <2>1. S \in SUBSET Nat
    BY TableAssumption DEF Column
  <2>2. CASE S = {}
    BY <2>2 DEF FirstOf
  <2>3. CASE S # {}
    BY <2>1, <2>3, Least
  <2>. QED
    BY <2>2, <2>3
<1>2. KeyedColumn \in Column \cup {0}
  <2>1. {c \in Column : Header[c] \in Conventional[index.kind]} \in SUBSET Column
    OBVIOUS
  <2>2. {c \in Column : Holds(c)} \in SUBSET Column
    OBVIOUS
  <2>3. /\ FirstOf({c \in Column : Header[c] \in Conventional[index.kind]}) \in Column \cup {0}
        /\ FirstOf({c \in Column : Holds(c)}) \in Column \cup {0}
    BY <1>1, <2>1, <2>2
  <2>. QED
    BY <2>3 DEF KeyedColumn
<1>3. PositionOf(index.column) \in Column \cup {0}
  BY <1>1 DEF PositionOf
<1>. QED
  BY <1>2, <1>3 DEF KeyColumn

LEMMA LocateInv == IInv /\ Locate => IInv'
<1>. SUFFICES ASSUME IInv, Locate PROVE IInv'
  OBVIOUS
<1>. USE DEF IInv
<1>1. key' \in Column \cup {0} /\ (key' = 0 => stage' = "refused")
  BY KeyColumnType DEF Locate
<1>2. TypeOK'
  <2>1. key' \in 0..Width
    BY <1>1, TableAssumption DEF Column
  <2>2. stage' \in {"refused", "file"}
    BY DEF Locate
  <2>. QED
    BY <2>1, <2>2 DEF TypeOK, Locate, Position
<1>3. IndexInv'
  <2>1. at' = 1 /\ unindexed' = <<>> /\ \A k \in Text \cup Key : filed'[k] = <<>>
    BY DEF Locate, IndexInv
  <2>2. stage' = "file" => key' \in Column
    BY <1>1
  <2>3. stage' \in {"refused", "file"}
    BY DEF Locate
  <2>4. UnfiledRows' = {} /\ \A k \in Text \cup Key : FiledRows(k)' = {}
    BY <2>1 DEF UnfiledRows, FiledRows
  <2>5. (at \in Position)'
    BY <2>1, RowTypes DEF Locate, Position
  <2>. QED
    BY <2>1, <2>2, <2>3, <2>4, <2>5, EmptyList DEF IndexInv, Settled
<1>4. WalkInv'
  BY DEF WalkInv, Locate
<1>. QED
  BY <1>2, <1>3, <1>4

(* Filing a row puts it last on one list: of its key, or of those without. *)
LEMMA FileInv == IInv /\ File => IInv'
<1>. SUFFICES ASSUME IInv, File PROVE IInv'
  OBVIOUS
<1>. USE DEF IInv
<1>. DEFINE text == rows[at][key]
<1>1. /\ at \in Position /\ key \in Column /\ Len(rows) \in Nat
      /\ at \in Nat /\ at >= 1 /\ at <= Len(rows)
      /\ text \in Text \cup {Absent}
  BY RowTypes DEF File, IndexInv, Settled, Position, Cell
<1>2. /\ rows' = rows /\ key' = key /\ index' = index /\ at' = at + 1
      /\ Position' = Position
      /\ stage' = IF at = Len(rows) THEN "ready" ELSE "file"
      /\ \A t : KeyOf(t)' = KeyOf(t) /\ Entry(t)' = Entry(t)
  BY DEF File, Position, KeyOf, Entry
<1>3. 1..(at' - 1) = (1..(at - 1)) \cup {at}
  BY <1>1, <1>2
<1>4. /\ \A k \in Text \cup Key :
           FiledRows(k)' = FiledRows(k) \cup
             {i \in {at} : text # Absent /\ KeyOf(text) # Absent /\ Entry(KeyOf(text)) = k}
      /\ UnfiledRows' = UnfiledRows \cup {i \in {at} : text # Absent /\ KeyOf(text) = Absent}
  BY <1>2, <1>3 DEF FiledRows, UnfiledRows, Keyed
<1>5. /\ filed \in [Text \cup Key -> Seq(Position)] /\ unindexed \in Seq(Position)
      /\ \A k \in Text \cup Key : Ascending(filed[k]) /\ Listed(filed[k]) = FiledRows(k)
      /\ Ascending(unindexed) /\ Listed(unindexed) = UnfiledRows
  BY DEF TypeOK, IndexInv, Settled, File
<1>6. /\ \A k \in Text \cup Key : \A d \in Listed(filed[k]) : d < at
      /\ \A d \in Listed(unindexed) : d < at
  <2>1. \A d \in 1..(at - 1) : d < at
    BY <1>1
  <2>2. UnfiledRows \subseteq 1..(at - 1) /\ \A k : FiledRows(k) \subseteq 1..(at - 1)
    BY DEF FiledRows, UnfiledRows
  <2>. QED
    BY <1>5, <2>1, <2>2
<1>7. \A s \in Seq(Position) : s \in Seq(Nat) /\ Append(s, at) \in Seq(Position)
  <2>1. Position \subseteq Nat
    BY DEF Position
  <2>. QED
    BY <1>1, <2>1, SeqMonotonic, AppendProperties
<1>8. /\ filed' \in [Text \cup Key -> Seq(Position)] /\ unindexed' \in Seq(Position)
      /\ \A k \in Text \cup Key : Ascending(filed'[k]) /\ Listed(filed'[k]) = FiledRows(k)'
      /\ Ascending(unindexed') /\ Listed(unindexed') = UnfiledRows'
  <2>1. CASE text = Absent
    BY <1>4, <1>5, <2>1 DEF File
  <2>2. CASE text # Absent /\ KeyOf(text) = Absent
    <3>1. filed' = filed /\ unindexed' = Append(unindexed, at)
      BY <2>2 DEF File
    <3>2. Ascending(unindexed') /\ Listed(unindexed') = Listed(unindexed) \cup {at}
      BY <1>1, <1>5, <1>6, <1>7, <3>1, AppendHigher
    <3>. QED
      BY <1>4, <1>5, <1>7, <2>2, <3>1, <3>2
  <2>3. CASE text # Absent /\ KeyOf(text) # Absent
    <3>. DEFINE e == Entry(KeyOf(text))
    <3>1. e \in Text \cup Key
      BY <1>1, <2>3, KeyTypes
    <3>2. /\ unindexed' = unindexed
          /\ filed' = [filed EXCEPT ![e] = Append(filed[e], at)]
      BY <2>3 DEF File
    <3>3. /\ Ascending(Append(filed[e], at))
          /\ Listed(Append(filed[e], at)) = Listed(filed[e]) \cup {at}
      BY <1>1, <1>5, <1>6, <1>7, <3>1, AppendHigher
    <3>4. ASSUME NEW k \in Text \cup Key
          PROVE  /\ filed'[k] \in Seq(Position)
                 /\ Ascending(filed'[k]) /\ Listed(filed'[k]) = FiledRows(k)'
      <4>1. CASE k = e
        <5>1. filed'[k] = Append(filed[e], at)
          BY <1>5, <3>1, <3>2, <4>1
        <5>2. FiledRows(k)' = FiledRows(k) \cup {at}
          BY <1>4, <2>3, <4>1
        <5>. QED
          BY <1>5, <1>7, <3>1, <3>3, <4>1, <5>1, <5>2
      <4>2. CASE k # e
        BY <1>4, <1>5, <2>3, <3>1, <3>2, <4>2
      <4>. QED
        BY <4>1, <4>2
    <3>5. filed' \in [Text \cup Key -> Seq(Position)]
      BY <1>5, <3>1, <3>2, <3>4
    <3>6. UnfiledRows' = UnfiledRows
      BY <1>4, <2>3
    <3>. QED
      BY <1>5, <3>2, <3>4, <3>5, <3>6
  <2>. QED
    BY <2>1, <2>2, <2>3
<1>9. TypeOK'
  <2>1. at' \in 1..(Len(rows) + 1)
    BY <1>1, <1>2
  <2>2. rows' \in Tables /\ index' \in Indexes /\ key' \in 0..Width
    BY <1>2 DEF TypeOK
  <2>3. stage' \in {"locate", "file", "refused", "ready", "asked"}
    BY <1>2
  <2>4. /\ query' \in Queries \cup {NoQuery}
        /\ walk' \in [1..3 -> Seq(Position)] /\ found' \in Seq(Position)
    BY DEF File, TypeOK
  <2>. QED
    BY <1>2, <1>8, <2>1, <2>2, <2>3, <2>4 DEF TypeOK
<1>10. IndexInv'
  <2>1. stage' \in {"ready", "file"}
    BY <1>2
  <2>2. stage' = "file" => at' \in Position
    BY <1>1, <1>2 DEF Position
  <2>3. stage' = "ready" => at' = Len(rows') + 1
    BY <1>1, <1>2
  <2>. QED
    BY <1>1, <1>2, <1>8, <2>1, <2>2, <2>3 DEF IndexInv
<1>11. WalkInv'
  BY <1>2 DEF WalkInv, File
<1>. QED
  BY <1>9, <1>10, <1>11

LEMMA OverCeilingInv == IInv /\ OverCeiling => IInv'
BY DEF IInv, TypeOK, IndexInv, WalkInv, OverCeiling, Settled, Position

-----------------------------------------------------------------------------
(* A find starts from lists that hold every matching row.                  *)

LEMMA EveryRowListed ==
  ASSUME TypeOK
  PROVE  /\ EveryRow \in [1..3 -> Seq(Position)]
         /\ \A l \in 1..3 : Ascending(EveryRow[l])
         /\ Listed(EveryRow[1]) = Position
<1>. DEFINE s == [i \in 1..Len(rows) |-> i]
<1>. DEFINE e == <<>>
<1>1. Len(rows) \in Nat
  BY RowTypes
<1>2. s \in Seq(Position) /\ Len(s) = Len(rows) /\ e \in Seq(Position)
  BY <1>1, IsASeq, EmptyList DEF Position
<1>3. Ascending(s) /\ Listed(s) = Position /\ Ascending(e)
  BY <1>1, <1>2, EmptyList DEF Ascending, Listed, Position
<1>4. EveryRow = <<s, e, e>>
  BY DEF EveryRow
<1>. HIDE DEF s, e
<1>. QED
  BY <1>2, <1>3, <1>4, Three

LEMMA ListsInOrder ==
  ASSUME TypeOK, IndexInv, stage \in Settled, NEW value \in Text, NEW wildcard \in Cell
  PROVE  /\ ListsFor(value, wildcard) \in [1..3 -> Seq(Position)]
         /\ \A l \in 1..3 : Ascending(ListsFor(value, wildcard)[l])
         /\ ListsFor(value, wildcard)[1] = Under(KeyOf(value))
         /\ wildcard # Absent /\ KeyOf(wildcard) # KeyOf(value) =>
              ListsFor(value, wildcard)[2] = Under(KeyOf(wildcard))
         /\ ListsFor(value, wildcard)[3] = unindexed
<1>. DEFINE k == KeyOf(value)
            w == IF wildcard = Absent THEN Absent ELSE KeyOf(wildcard)
            second == IF w = k THEN <<>> ELSE Under(w)
<1>1. ASSUME NEW key_, key_ = Absent \/ Entry(key_) \in Text \cup Key
      PROVE  Under(key_) \in Seq(Position) /\ Ascending(Under(key_))
  BY <1>1, EmptyList DEF Under, TypeOK, IndexInv
<1>2. Under(k) \in Seq(Position) /\ Ascending(Under(k))
  <2>1. k = Absent \/ Entry(k) \in Text \cup Key
    BY KeyTypes
  <2>. QED
    BY <1>1, <2>1
<1>3. second \in Seq(Position) /\ Ascending(second)
  <2>1. w = Absent \/ Entry(w) \in Text \cup Key
    BY KeyTypes DEF Cell
  <2>2. Under(w) \in Seq(Position) /\ Ascending(Under(w))
    BY <1>1, <2>1
  <2>. QED
    BY <2>2, EmptyList
<1>4. unindexed \in Seq(Position) /\ Ascending(unindexed)
  BY DEF TypeOK, IndexInv
<1>5. ListsFor(value, wildcard) = <<Under(k), second, unindexed>>
  BY DEF ListsFor
<1>6. wildcard # Absent /\ KeyOf(wildcard) # KeyOf(value) => second = Under(KeyOf(wildcard))
  OBVIOUS
<1>. HIDE DEF k, w, second
<1>7. /\ ListsFor(value, wildcard) \in [1..3 -> Seq(Position)]
      /\ ListsFor(value, wildcard)[1] = Under(k)
      /\ ListsFor(value, wildcard)[2] = second
      /\ ListsFor(value, wildcard)[3] = unindexed
      /\ 1..3 = {1, 2, 3}
  BY <1>2, <1>3, <1>4, <1>5, Three
<1>8. \A l \in 1..3 : Ascending(ListsFor(value, wildcard)[l])
  BY <1>2, <1>3, <1>4, <1>7
<1>. QED
  BY <1>6, <1>7, <1>8 DEF k

(* A row whose key cell is the value's or the wildcard's text is listed,   *)
(* whether or not that text parses to a key.                               *)
LEMMA ListsCover ==
  ASSUME TypeOK, IndexInv, stage \in {"ready", "asked"},
         NEW value \in Text, NEW wildcard \in Cell, NEW i \in Position,
         \/ rows[i][key] = value
         \/ wildcard # Absent /\ rows[i][key] = wildcard
  PROVE  \E l \in 1..3 : i \in Listed(ListsFor(value, wildcard)[l])
<1>. DEFINE lists == ListsFor(value, wildcard)
            text == rows[i][key]
<1>1. stage \in Settled /\ key \in Column /\ text \in Text
  BY TableAssumption DEF Settled, IndexInv, Cell
<1>2. /\ lists[1] = Under(KeyOf(value)) /\ lists[3] = unindexed
      /\ wildcard # Absent /\ KeyOf(wildcard) # KeyOf(value) => lists[2] = Under(KeyOf(wildcard))
  BY <1>1, ListsInOrder
<1>3. i \in 1..(at - 1)
  BY RowTypes DEF IndexInv, Position
<1>4. CASE KeyOf(text) = Absent
  <2>1. i \in UnfiledRows
    BY <1>1, <1>3, <1>4, TableAssumption DEF UnfiledRows, Keyed
  <2>2. i \in Listed(lists[3])
    BY <1>1, <1>2, <2>1 DEF IndexInv
  <2>. QED
    BY <2>2
<1>5. CASE KeyOf(text) # Absent
  <2>1. i \in Listed(Under(KeyOf(text)))
    <3>1. i \in FiledRows(Entry(KeyOf(text)))
      BY <1>1, <1>3, <1>5, TableAssumption DEF FiledRows, Keyed
    <3>2. Entry(KeyOf(text)) \in Text \cup Key
      BY <1>1, <1>5, KeyTypes
    <3>. QED
      BY <1>1, <1>5, <3>1, <3>2 DEF Under, IndexInv
  <2>2. CASE KeyOf(text) = KeyOf(value)
    BY <1>2, <2>1, <2>2
  <2>3. CASE KeyOf(text) # KeyOf(value)
    BY <1>2, <2>1, <2>3
  <2>. QED
    BY <2>2, <2>3
<1>. QED
  BY <1>4, <1>5

LEMMA NarrowingMeets ==
  ASSUME NEW q \in Queries, q.exact, Narrowing(q) # {}, Resolved(q),
         NEW i \in Position, Satisfies(rows[i], q)
  PROVE  LET n == FirstOf(Narrowing(q)) IN
         /\ n \in DOMAIN q.conditions
         /\ \/ rows[i][key] = q.conditions[n].value
            \/ q.wildcard # Absent /\ rows[i][key] = q.wildcard
<1>. DEFINE n == FirstOf(Narrowing(q))
            condition == q.conditions[n]
<1>1. n \in Narrowing(q)
  <2>1. Narrowing(q) \in SUBSET Nat
    BY QueryTypes DEF Narrowing
  <2>. QED
    BY <2>1, Least
<1>2. /\ n \in DOMAIN q.conditions
      /\ condition.test = "equals" /\ PositionOf(condition.column) = key
  BY <1>1 DEF Narrowing
<1>3. Meets(rows[i][key], condition, q)
  <2>1. PlanOf(q)[n] = key
    BY <1>2 DEF PlanOf
  <2>2. Meets(rows[i][PlanOf(q)[n]], q.conditions[n], q)
    BY <1>2, Zenon DEF Satisfies
  <2>. QED
    BY <2>1, <2>2
<1>. QED
  BY <1>2, <1>3 DEF Meets, Equal

LEMMA WalkCovers ==
  ASSUME IInv, stage \in {"ready", "asked"}, NEW q \in Queries
  PROVE  /\ WalkOf(q) \in [1..3 -> Seq(Position)]
         /\ \A l \in 1..3 : Ascending(WalkOf(q)[l])
         /\ WalkOf(q) # NoWalk => Resolved(q)
         /\ \A i \in MatchingOf(q) : \E l \in 1..3 : i \in Listed(WalkOf(q)[l])
<1>. USE DEF IInv
<1>1. MatchingOf(q) \subseteq Position
  BY DEF MatchingOf
<1>2. (\E i \in DOMAIN q.conditions : PlanOf(q)[i] = 0) <=> ~Resolved(q)
  <2>1. \A i \in DOMAIN q.conditions :
          PlanOf(q)[i] = 0 <=> PositionOf(q.conditions[i].column) \notin Column
    <3>1. SUFFICES ASSUME NEW i \in DOMAIN q.conditions
                   PROVE  PlanOf(q)[i] = 0 <=> PositionOf(q.conditions[i].column) \notin Column
      OBVIOUS
    <3>2. PlanOf(q)[i] = PositionOf(q.conditions[i].column)
      BY DEF PlanOf
    <3>3. 0 \notin Column
      BY DEF Column
    <3>. QED
      BY <3>2, <3>3, Named
  <2>. QED
    BY <2>1 DEF Resolved
<1>3. CASE ~Resolved(q)
  <2>1. WalkOf(q) = NoWalk
    BY <1>2, <1>3 DEF WalkOf
  <2>. QED
    BY <1>3, <2>1, EmptyWalk, EmptyList, MatchingRows
<1>4. CASE Resolved(q) /\ q.exact /\ Narrowing(q) # {}
  <2>. DEFINE n == FirstOf(Narrowing(q))
  <2>1. WalkOf(q) = ListsFor(q.conditions[n].value, q.wildcard)
    BY <1>2, <1>4 DEF WalkOf
  <2>2. n \in DOMAIN q.conditions
    <3>1. Narrowing(q) \in SUBSET Nat /\ Narrowing(q) \subseteq DOMAIN q.conditions
      BY QueryTypes DEF Narrowing
    <3>. QED
      BY <1>4, <3>1, Least
  <2>3. q.conditions[n].value \in Text /\ q.wildcard \in Cell
    BY <2>2, QueryTypes
  <2>4. /\ WalkOf(q) \in [1..3 -> Seq(Position)]
        /\ \A l \in 1..3 : Ascending(WalkOf(q)[l])
    BY <2>1, <2>3, ListsInOrder DEF Settled
  <2>5. ASSUME NEW i \in MatchingOf(q)
        PROVE  \E l \in 1..3 : i \in Listed(WalkOf(q)[l])
    <3>1. i \in Position /\ Satisfies(rows[i], q)
      BY <1>4, MatchingRows
    <3>2. \/ rows[i][key] = q.conditions[n].value
          \/ q.wildcard # Absent /\ rows[i][key] = q.wildcard
      BY <1>4, <3>1, NarrowingMeets
    <3>. QED
      BY <2>1, <2>3, <3>1, <3>2, ListsCover
  <2>. QED
    BY <1>4, <2>4, <2>5
<1>5. CASE Resolved(q) /\ ~(q.exact /\ Narrowing(q) # {})
  <2>1. WalkOf(q) = EveryRow
    BY <1>2, <1>5 DEF WalkOf
  <2>. QED
    BY <1>1, <1>5, <2>1, EveryRowListed
<1>. QED
  BY <1>3, <1>4, <1>5

LEMMA FindInv == ASSUME IInv, NEW q \in Queries, Find(q) PROVE IInv'
<1>. USE DEF IInv
<1>1. /\ stage \in {"ready", "asked"} /\ stage' = "asked"
      /\ query' = q /\ walk' = WalkOf(q) /\ found' = <<>>
      /\ UNCHANGED <<rows, index, key, at, filed, unindexed>>
  BY DEF Find
<1>2. /\ WalkOf(q) \in [1..3 -> Seq(Position)]
      /\ \A l \in 1..3 : Ascending(WalkOf(q)[l])
      /\ WalkOf(q) # NoWalk => Resolved(q)
      /\ \A i \in MatchingOf(q) : \E l \in 1..3 : i \in Listed(WalkOf(q)[l])
  BY <1>1, WalkCovers
<1>3. TypeOK'
  BY <1>1, <1>2, EmptyList DEF TypeOK, Position
<1>4. IndexInv'
  <2>1. /\ \A k : FiledRows(k)' = FiledRows(k)
        /\ UnfiledRows' = UnfiledRows
        /\ Position' = Position
    BY <1>1 DEF FiledRows, UnfiledRows, Keyed, KeyOf, Entry, Position
  <2>. QED
    BY <1>1, <2>1 DEF IndexInv, Settled
<1>5. WalkInv'
  <2>1. Matching' = MatchingOf(q)
    BY <1>1 DEF Matching, MatchingOf, Position
  <2>2. (walk' # NoWalk) => Resolved(query')
    BY <1>1, <1>2
  <2>3. Resolved(query)' <=> Resolved(query')
    BY DEF Resolved
  <2>4. Ascending(found') /\ Listed(found') = {}
    BY <1>1, EmptyList
  <2>. QED
    BY <1>1, <1>2, <2>1, <2>2, <2>3, <2>4 DEF WalkInv, NoWalk
<1>. QED
  BY <1>3, <1>4, <1>5

-----------------------------------------------------------------------------
(* One turn of the walk.                                                   *)

(* The lowest head leaves every list that held it, and lists nothing else. *)
LEMMA PopsLowest ==
  ASSUME TypeOK, Heads # {}, \A l \in 1..3 : Ascending(walk[l])
  PROVE  LET position == FirstOf(Heads) IN
         /\ position \in Position
         /\ \E l \in 1..3 : position \in Listed(walk[l])
         /\ Past(position) \in [1..3 -> Seq(Position)]
         /\ \A l \in 1..3 :
              /\ Ascending(Past(position)[l])
              /\ Listed(Past(position)[l]) = Listed(walk[l]) \ {position}
              /\ \A j \in Listed(walk[l]) : position <= j
<1>. DEFINE position == FirstOf(Heads)
<1>1. Position \subseteq Nat /\ \A l \in 1..3 : walk[l] \in Seq(Position)
  BY DEF TypeOK, Position
<1>2. ASSUME NEW l \in 1..3, walk[l] # <<>>
      PROVE  /\ walk[l] \in Seq(Nat)
             /\ Head(walk[l]) \in Position /\ Tail(walk[l]) \in Seq(Position)
             /\ Head(walk[l]) \in Listed(walk[l])
             /\ \A d \in Listed(walk[l]) : Head(walk[l]) <= d
             /\ Listed(Tail(walk[l])) = Listed(walk[l]) \ {Head(walk[l])}
             /\ Ascending(Tail(walk[l]))
  <2>1. walk[l] \in Seq(Nat)
    BY <1>1, SeqMonotonic
  <2>2. Head(walk[l]) \in Position /\ Tail(walk[l]) \in Seq(Position)
    BY <1>1, <1>2, HeadTailProperties
  <2>. QED
    BY <1>2, <2>1, <2>2, HeadAndTail
<1>3. Heads \in SUBSET Nat
  BY <1>1, <1>2 DEF Heads
<1>4. position \in Heads /\ \A d \in Heads : position <= d
  BY <1>3, Least
<1>5. PICK m \in 1..3 : walk[m] # <<>> /\ Head(walk[m]) = position
  BY <1>4 DEF Heads
<1>6. position \in Position /\ position \in Listed(walk[m])
  BY <1>2, <1>5
<1>7. ASSUME NEW l \in 1..3
      PROVE  /\ Past(position)[l] \in Seq(Position)
             /\ Ascending(Past(position)[l])
             /\ Listed(Past(position)[l]) = Listed(walk[l]) \ {position}
             /\ \A j \in Listed(walk[l]) : position <= j
  <2>1. CASE walk[l] = <<>>
    BY <1>1, <2>1, EmptyList DEF Past
  <2>2. CASE walk[l] # <<>> /\ Head(walk[l]) = position
    BY <1>2, <2>2 DEF Past
  <2>3. CASE walk[l] # <<>> /\ Head(walk[l]) # position
    <3>1. Past(position)[l] = walk[l]
      BY <2>3 DEF Past
    <3>2. Head(walk[l]) \in Heads
      BY <2>3 DEF Heads
    <3>3. Head(walk[l]) \in Nat /\ position \in Nat /\ Listed(walk[l]) \subseteq Nat
      BY <1>1, <1>2, <1>6, <2>3, ListedNat
    <3>. HIDE DEF position
    <3>4. position < Head(walk[l])
      BY <1>4, <2>3, <3>2, <3>3
    <3>5. \A j \in Listed(walk[l]) : Head(walk[l]) <= j
      BY <1>2, <2>3
    <3>6. \A j \in Listed(walk[l]) : position < j
      BY <3>3, <3>4, <3>5
    <3>7. position \notin Listed(walk[l]) /\ \A j \in Listed(walk[l]) : position <= j
      BY <3>3, <3>6
    <3>. QED
      BY <1>1, <3>1, <3>7
  <2>. QED
    BY <2>1, <2>2, <2>3
<1>8. Past(position) \in [1..3 -> Seq(Position)]
  <2>1. Past(position) = [l \in 1..3 |-> Past(position)[l]]
    BY DEF Past
  <2>. QED
    BY <1>7, <2>1
<1>. QED
  BY <1>5, <1>6, <1>7, <1>8

LEMMA TestInv == IInv /\ Test => IInv'
<1>. SUFFICES ASSUME IInv, Test PROVE IInv'
  OBVIOUS
<1>. USE DEF IInv
<1>. DEFINE position == FirstOf(Heads)
            sat == Satisfies(rows[position], query)
<1>1. /\ Heads # {} /\ walk' = Past(position)
      /\ found' = IF sat THEN Append(found, position) ELSE found
      /\ UNCHANGED <<rows, index, key, stage, at, filed, unindexed, query>>
  BY DEF Test
<1>2. stage = "asked" /\ Resolved(query)
  <2>1. walk # NoWalk
    BY <1>1, EmptyWalk DEF Heads
  <2>. QED
    BY <2>1 DEF WalkInv
<1>3. /\ \A l \in 1..3 : Ascending(walk[l])
      /\ Ascending(found) /\ Listed(found) \subseteq Matching
      /\ \A i \in Matching \ Listed(found) : \E l \in 1..3 : i \in Listed(walk[l])
      /\ \A i \in Listed(found), l \in 1..3 : \A j \in Listed(walk[l]) : i < j
  BY <1>2 DEF WalkInv
<1>4. /\ position \in Position
      /\ \E l \in 1..3 : position \in Listed(walk[l])
      /\ Past(position) \in [1..3 -> Seq(Position)]
      /\ \A l \in 1..3 :
           /\ Ascending(Past(position)[l])
           /\ Listed(Past(position)[l]) = Listed(walk[l]) \ {position}
           /\ \A j \in Listed(walk[l]) : position <= j
  BY <1>1, <1>3, PopsLowest
<1>5. /\ Matching = {i \in Position : Satisfies(rows[i], query)}
      /\ Matching' = Matching /\ Position' = Position
  BY <1>1, <1>2, MatchingRows DEF Matching, MatchingOf, Position
<1>6. /\ found \in Seq(Position) /\ found \in Seq(Nat)
      /\ Position \subseteq Nat /\ position \in Nat
  BY <1>4, SeqMonotonic DEF TypeOK, Position
<1>7. \A i \in Listed(found) : i < position
  BY <1>3, <1>4
<1>8. /\ found' \in Seq(Position) /\ Ascending(found')
      /\ Listed(found') = Listed(found) \cup {i \in {position} : sat}
  <2>1. CASE sat
    <3>1. found' = Append(found, position) /\ found' \in Seq(Position)
      BY <1>1, <1>4, <1>6, <2>1, AppendProperties
    <3>. QED
      BY <1>3, <1>6, <1>7, <2>1, <3>1, AppendHigher
  <2>2. CASE ~sat
    BY <1>1, <1>3, <1>6, <2>2
  <2>. QED
    BY <2>1, <2>2
<1>9. TypeOK'
  BY <1>1, <1>4, <1>5, <1>8 DEF TypeOK
<1>10. IndexInv'
  <2>1. /\ \A k : FiledRows(k)' = FiledRows(k)
        /\ UnfiledRows' = UnfiledRows
    BY <1>1 DEF FiledRows, UnfiledRows, Keyed, KeyOf, Entry
  <2>. QED
    BY <1>1, <1>5, <2>1 DEF IndexInv
<1>11. WalkInv'
  <2>. HIDE DEF position
  <2>1. position \in Matching <=> sat
    BY <1>4, <1>5
  <2>2. Listed(found') \subseteq Matching
    BY <1>3, <1>8, <2>1
  <2>3. ASSUME NEW i \in Matching \ Listed(found')
        PROVE  \E l \in 1..3 : i \in Listed(walk'[l])
    <3>1. i \in Matching \ Listed(found) /\ i # position
      BY <1>8, <2>1, <2>3
    <3>. QED
      BY <1>1, <1>3, <1>4, <3>1
  <2>4. ASSUME NEW i \in Listed(found'), NEW l \in 1..3, NEW j \in Listed(walk'[l])
        PROVE  i < j
    <3>1. j \in Listed(walk[l]) /\ j # position /\ position <= j
      BY <1>1, <1>4, <2>4
    <3>2. j \in Nat
      <4>1. walk[l] \in Seq(Nat)
        BY <1>6, SeqMonotonic DEF TypeOK
      <4>. QED
        BY <3>1, <4>1, ListedNat
    <3>3. CASE i \in Listed(found)
      BY <1>3, <3>1, <3>3
    <3>4. CASE i = position
      BY <1>6, <3>1, <3>2, <3>4
    <3>. QED
      BY <1>8, <2>4, <3>3, <3>4
  <2>5. (stage = "asked")' /\ Resolved(query)'
    BY <1>1, <1>2 DEF Resolved
  <2>6. \A l \in 1..3 : Ascending(walk'[l])
    BY <1>1, <1>4
  <2>. QED
    BY <1>5, <1>8, <2>2, <2>3, <2>4, <2>5, <2>6 DEF WalkInv
<1>. QED
  BY <1>9, <1>10, <1>11

(* A set of numbers found on three lists is no larger than they are long.   *)
LEMMA ThreeLists ==
  ASSUME NEW s \in Seq(Nat), NEW t \in Seq(Nat), NEW u \in Seq(Nat), NEW S,
         S \subseteq (Listed(s) \cup Listed(t)) \cup Listed(u)
  PROVE  Cardinality(S) <= Len(s) + Len(t) + Len(u)
<1>. DEFINE AB == Listed(s) \cup Listed(t)
            ABC == AB \cup Listed(u)
            a == Cardinality(Listed(s))
            b == Cardinality(Listed(t))
            c == Cardinality(Listed(u))
            ab == Cardinality(AB)
            abc == Cardinality(ABC)
            n == Cardinality(S)
            x == Len(s)
            y == Len(t)
            z == Len(u)
<1>1. /\ IsFiniteSet(Listed(s)) /\ a \in Nat /\ x \in Nat /\ a <= x
      /\ IsFiniteSet(Listed(t)) /\ b \in Nat /\ y \in Nat /\ b <= y
      /\ IsFiniteSet(Listed(u)) /\ c \in Nat /\ z \in Nat /\ c <= z
  BY ListedBound, FS_CardinalityType
<1>2. IsFiniteSet(AB) /\ ab \in Nat /\ ab <= a + b
  BY <1>1, UnionBound
<1>3. IsFiniteSet(ABC) /\ abc \in Nat /\ abc <= ab + c
  BY <1>1, <1>2, UnionBound
<1>4. n \in Nat /\ n <= abc
  BY <1>3, FS_Subset, FS_CardinalityType
<1>5. n <= x + y + z
  <2>. HIDE DEF a, b, c, ab, abc, n, x, y, z
  <2>. QED
    BY <1>1, <1>2, <1>3, <1>4
<1>. QED
  BY <1>5

(* Of the ranges filed around an address one is the narrowest.             *)
LEMMA NarrowestAround ==
  ASSUME NEW address, Around(address) # {}
  PROVE  /\ Narrowest(address) \in Around(address)
         /\ \A j \in Around(address) : HostBits[Narrowest(address)] <= HostBits[j]
<1>. DEFINE S == {HostBits[k] : k \in Around(address)}
<1>1. S \in SUBSET Nat /\ S # {}
  BY TableAssumption DEF Around
<1>2. FirstOf(S) \in S /\ \A d \in S : FirstOf(S) <= d
  BY <1>1, Least
<1>3. \E k \in Around(address) : \A j \in Around(address) : HostBits[k] <= HostBits[j]
  BY <1>2
<1>. QED
  BY <1>3 DEF Narrowest

(* The lookup of an address in a table of ranges: the narrowest range the  *)
(* index files around it is that of the rows with the narrowest range.     *)
LEMMA RangesLead ==
  ASSUME TypeOK, IndexInv, stage \in {"ready", "asked"}, index.kind = "prefix",
         NEW address \in Key
  PROVE  Listed(PositionsAt(address)) =
           {i \in Position :
              /\ Reaches(i, address)
              /\ \A j \in Position : Reaches(j, address) =>
                   HostBits[KeyOf(rows[i][key])] <= HostBits[KeyOf(rows[j][key])]}
<1>. DEFINE RangeOf(i) == KeyOf(rows[i][key])
            filing == Around(address)
            k == Narrowest(address)
<1>1. /\ key \in Column /\ 1..(at - 1) = Position
      /\ \A e \in Key : Listed(filed[e]) = FiledRows(e)
  BY RowTypes DEF IndexInv, Settled, Position
<1>2. ASSUME NEW i \in Position, rows[i][key] # Absent, RangeOf(i) # Absent
      PROVE  /\ RangeOf(i) \in Key /\ Masked[RangeOf(i)] \in Key /\ HostBits[RangeOf(i)] \in Nat
             /\ Within[Masked[RangeOf(i)]] = Within[RangeOf(i)]
             /\ HostBits[Masked[RangeOf(i)]] = HostBits[RangeOf(i)]
  <2>1. rows[i][key] \in Text
    BY <1>1, <1>2, RowTypes DEF Cell
  <2>2. RangeOf(i) \in Key
    BY <1>2, <2>1, TableAssumption DEF KeyOf, ParsedKind
  <2>. QED
    BY <2>2, TableAssumption
<1>3. ASSUME NEW e \in Key, NEW i
      PROVE  i \in Listed(filed[e]) <=>
               /\ i \in Position /\ rows[i][key] # Absent
               /\ RangeOf(i) # Absent /\ Masked[RangeOf(i)] = e
  BY <1>1 DEF FiledRows, Keyed, Entry
<1>4. ASSUME NEW i \in Position, Reaches(i, address)
      PROVE  Masked[RangeOf(i)] \in filing
  <2>1. RangeOf(i) \in Key /\ Masked[RangeOf(i)] \in Key /\ address \in Within[Masked[RangeOf(i)]]
    BY <1>2, <1>4 DEF Reaches
  <2>2. i \in Listed(filed[Masked[RangeOf(i)]])
    BY <1>3, <1>4, <2>1 DEF Reaches
  <2>. QED
    BY <2>1, <2>2, EmptyList DEF Around
<1>5. CASE filing = {}
  <2>1. \A i \in Position : ~Reaches(i, address)
    BY <1>4, <1>5
  <2>2. PositionsAt(address) = <<>>
    BY <1>5 DEF PositionsAt
  <2>. QED
    BY <2>1, <2>2, EmptyList
<1>6. CASE filing # {}
  <2>1. /\ k \in filing /\ k \in Key /\ address \in Within[k]
        /\ filed[k] # <<>> /\ \A j \in filing : HostBits[k] <= HostBits[j]
    BY <1>6, NarrowestAround DEF Around
  <2>2. PositionsAt(address) = filed[k]
    BY <1>6 DEF PositionsAt
  <2>. HIDE DEF k, filing, RangeOf
  <2>3. PICK one : one \in Listed(filed[k])
    <3>1. filed[k] \in Seq(Position)
      BY <2>1 DEF TypeOK
    <3>2. 1 \in 1..Len(filed[k])
      BY <2>1, <3>1
    <3>. QED
      BY <3>2 DEF Listed
  <2>4. ASSUME NEW i \in Listed(filed[k])
        PROVE  /\ i \in Position /\ Reaches(i, address) /\ RangeOf(i) \in Key
               /\ Masked[RangeOf(i)] = k /\ HostBits[RangeOf(i)] = HostBits[k]
    <3>1. /\ i \in Position /\ rows[i][key] # Absent
          /\ RangeOf(i) # Absent /\ Masked[RangeOf(i)] = k
      BY <1>3, <2>1, <2>4
    <3>2. RangeOf(i) \in Key /\ Within[k] = Within[RangeOf(i)] /\ HostBits[k] = HostBits[RangeOf(i)]
      BY <1>2, <3>1
    <3>. QED
      BY <2>1, <3>1, <3>2 DEF Reaches, RangeOf
  <2>5. ASSUME NEW i \in Listed(filed[k]), NEW j \in Position, Reaches(j, address)
        PROVE  HostBits[RangeOf(i)] <= HostBits[RangeOf(j)]
    <3>1. Masked[RangeOf(j)] \in filing /\ HostBits[Masked[RangeOf(j)]] = HostBits[RangeOf(j)]
      BY <1>2, <1>4, <2>5 DEF Reaches, RangeOf
    <3>. QED
      BY <2>1, <2>4, <3>1
  <2>6. ASSUME NEW i \in Position, Reaches(i, address),
               \A j \in Position : Reaches(j, address) => HostBits[RangeOf(i)] <= HostBits[RangeOf(j)]
        PROVE  i \in Listed(filed[k])
    <3>1. /\ RangeOf(i) \in Key /\ address \in Within[RangeOf(i)] /\ HostBits[RangeOf(i)] \in Nat
          /\ rows[i][key] # Absent /\ RangeOf(i) # Absent
      BY <1>2, <2>6 DEF Reaches, RangeOf
    <3>2. /\ one \in Position /\ Reaches(one, address) /\ RangeOf(one) \in Key
          /\ Masked[RangeOf(one)] = k /\ address \in Within[RangeOf(one)]
          /\ HostBits[RangeOf(one)] \in Nat
      BY <1>2, <2>3, <2>4 DEF Reaches, RangeOf
    <3>3. HostBits[RangeOf(i)] = HostBits[RangeOf(one)]
      BY <2>3, <2>5, <2>6, <3>1, <3>2
    <3>4. Within[RangeOf(i)] \cap Within[RangeOf(one)] # {}
      BY <3>1, <3>2
    <3>5. Masked[RangeOf(i)] = k
      BY <3>1, <3>2, <3>3, <3>4, TableAssumption
    <3>. QED
      BY <1>3, <2>1, <2>6, <3>1, <3>5
  <2>. QED
    BY <2>2, <2>4, <2>5, <2>6 DEF RangeOf
<1>. QED
  BY <1>5, <1>6

-----------------------------------------------------------------------------
(* The theorems.                                                           *)

(* The lists of the index hold the rows of their keys, and the lists of a  *)
(* walk the rows yet to come, in every reachable state.                    *)
THEOREM InvariantHolds == Spec => []IInv
<1>1. IInv /\ [Next]_vars => IInv'
  <2>. SUFFICES ASSUME IInv, [Next]_vars PROVE IInv'
    OBVIOUS
  <2>1. CASE Locate
    BY <2>1, LocateInv
  <2>2. CASE File
    BY <2>2, FileInv
  <2>3. CASE OverCeiling
    BY <2>3, OverCeilingInv
  <2>4. ASSUME NEW q \in Queries, Find(q) PROVE IInv'
    BY <2>4, FindInv
  <2>5. CASE Test
    BY <2>5, TestInv
  <2>6. CASE UNCHANGED vars
    <3>1. /\ \A k : FiledRows(k)' = FiledRows(k)
          /\ UnfiledRows' = UnfiledRows
          /\ Position' = Position /\ Matching' = Matching
          /\ Resolved(query)' = Resolved(query)
      BY <2>6 DEF vars, FiledRows, UnfiledRows, Keyed, KeyOf, Entry, Position,
                  Matching, MatchingOf, Resolved
    <3>2. TypeOK'
      BY <2>6, <3>1 DEF IInv, TypeOK, vars
    <3>3. IndexInv'
      BY <2>6, <3>1 DEF IInv, IndexInv, vars
    <3>4. WalkInv'
      BY <2>6, <3>1 DEF IInv, WalkInv, vars
    <3>. QED
      BY <3>2, <3>3, <3>4 DEF IInv
  <2>. QED
    BY <2>1, <2>2, <2>3, <2>4, <2>5, <2>6 DEF Next
<1>. QED
  BY <1>1, InitInv, PTL DEF Spec

(* Every table, index, walk and answer has its type.                       *)
THEOREM TypeCorrect == Spec => []TypeOK
<1>1. IInv => TypeOK
  BY DEF IInv
<1>. QED
  BY <1>1, InvariantHolds, PTL

(* A key leads to the rows that carry it, all of them, in file order.      *)
THEOREM KeysLead == Spec => []KeysLeadToRows
<1>1. IInv => KeysLeadToRows
  <2>. SUFFICES ASSUME IInv, stage \in {"ready", "asked"} PROVE KeysLeadToRows
    BY DEF KeysLeadToRows
  <2>1. /\ key \in Column /\ at = Len(rows) + 1 /\ 1..(at - 1) = Position
        /\ \A k \in Text \cup Key : Ascending(filed[k]) /\ Listed(filed[k]) = FiledRows(k)
    BY RowTypes DEF IInv, IndexInv, Settled, Position
  <2>2. \A i \in Position : rows[i][key] \in Cell
    BY <2>1, RowTypes DEF IInv
  <2>3. ASSUME index.kind = "text", NEW text \in Text
        PROVE  Listed(PositionsOf(text)) = {i \in Position : rows[i][key] = text}
    <3>1. FiledRows(text) = {i \in Position : rows[i][key] = text}
      BY <2>1, <2>2, <2>3, TableAssumption DEF FiledRows, Keyed, KeyOf, Entry, Cell
    <3>. QED
      BY <2>1, <2>3, <3>1 DEF PositionsOf
  <2>4. ASSUME index.kind = "address", NEW address \in Key
        PROVE  Listed(PositionsAt(address)) =
                 {i \in Position : rows[i][key] # Absent /\ KeyOf(rows[i][key]) = address}
    <3>1. FiledRows(address) =
            {i \in Position : rows[i][key] # Absent /\ KeyOf(rows[i][key]) = address}
      BY <2>1, <2>4, TableAssumption DEF FiledRows, Keyed, Entry
    <3>. QED
      BY <2>1, <2>4, <3>1 DEF PositionsAt
  <2>5. ASSUME index.kind = "prefix", NEW address \in Key
        PROVE  Listed(PositionsAt(address)) =
                 {i \in Position :
                    /\ Reaches(i, address)
                    /\ \A j \in Position : Reaches(j, address) =>
                         HostBits[KeyOf(rows[i][key])] <= HostBits[KeyOf(rows[j][key])]}
    BY <2>5, RangesLead DEF IInv
  <2>. QED
    BY <2>1, <2>3, <2>4, <2>5 DEF KeysLeadToRows
<1>. QED
  BY <1>1, InvariantHolds, PTL

(* A find through the index answers what a scan of the table would.        *)
THEOREM AnswersAreTheScan == Spec => []AnswersTheScan
<1>1. IInv => AnswersTheScan
  <2>. SUFFICES ASSUME IInv, stage = "asked" PROVE AnswersTheScan
    BY DEF AnswersTheScan
  <2>1. ASSUME NEW i \in Matching \ Listed(found)
        PROVE  Heads # {} /\ \A j \in Listed(found) : j < i
    <3>1. PICK l \in 1..3 : i \in Listed(walk[l])
      BY DEF IInv, WalkInv
    <3>2. walk[l] # <<>>
      BY <3>1, EmptyList
    <3>. QED
      BY <3>1, <3>2 DEF IInv, WalkInv, Heads
  <2>. QED
    BY <2>1 DEF AnswersTheScan, IInv, WalkInv
<1>. QED
  BY <1>1, InvariantHolds, PTL

(* What is left on the lists bounds how many rows are still to come.       *)
THEOREM HintsHold == Spec => []HintHolds
<1>1. IInv => HintHolds
  <2>. SUFFICES ASSUME IInv, stage = "asked"
                PROVE  Cardinality(Matching \ Listed(found)) <= Remaining
    BY DEF HintHolds
  <2>1. /\ walk[1] \in Seq(Nat) /\ walk[2] \in Seq(Nat) /\ walk[3] \in Seq(Nat)
        /\ 1..3 = {1, 2, 3}
    <3>1. Position \subseteq Nat /\ 1 \in 1..3 /\ 2 \in 1..3 /\ 3 \in 1..3 /\ 1..3 = {1, 2, 3}
      BY DEF Position
    <3>2. \A l \in 1..3 : walk[l] \in Seq(Position)
      BY DEF IInv, TypeOK
    <3>. QED
      BY <3>1, <3>2, SeqMonotonic
  <2>2. Matching \ Listed(found) \subseteq
          (Listed(walk[1]) \cup Listed(walk[2])) \cup Listed(walk[3])
    BY <2>1 DEF IInv, WalkInv
  <2>. QED
    BY <2>1, <2>2, ThreeLists DEF Remaining
<1>. QED
  BY <1>1, InvariantHolds, PTL
=============================================================================
