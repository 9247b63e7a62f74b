------------------------ MODULE TableReader_proofs ------------------------
(***************************************************************************)
(* The ceiling of TableReader, the columns of a JSON document, what a file *)
(* is charged as it is read, and the table a published CSV is read back    *)
(* as, for files of any length and content.                                *)
(***************************************************************************)
EXTENDS TableReader, Iteration_proofs

(* What a CSV holds fits, and is a number of bytes.                        *)
CsvFits ==
  source.format = "csv" =>
    /\ held \in Nat /\ record \in Nat /\ field \in Seq(STRING)
    /\ held + record + Len(field) <= ceiling

JsonFits == source.format = "json" /\ ~taken => held <= ceiling

SourceInv == source \in Sources /\ ceiling \in Nat /\ at \in Nat \ {0}

RoomInv == SourceInv /\ CsvFits /\ JsonFits

-----------------------------------------------------------------------------
LEMMA InitRoom == Init => RoomInv
<1>. SUFFICES ASSUME Init PROVE RoomInv
  OBVIOUS
<1>1. SourceInv
  BY ReaderAssumption DEF Init, SourceInv
<1>2. field \in Seq(STRING) /\ Len(field) = 0
  BY DEF Init
<1>. QED
  BY <1>1, <1>2 DEF Init, RoomInv, SourceInv, CsvFits, JsonFits

(* Refusing a file changes nothing that is held.                           *)
LEMMA FailRoom == ASSUME NEW error, RoomInv, Fail(error) PROVE RoomInv'
BY DEF Fail, csv, parsed, RoomInv, SourceInv, CsvFits, JsonFits

LEMMA Costs == CellOverhead \in Nat /\ RowOverhead \in Nat
BY ReaderAssumption

(* The byte a CSV is at is a byte.                                         *)
LEMMA ByteType == ASSUME SourceInv, Feeding PROVE Byte \in STRING
<1>1. source.body \in Seq(STRING)
  BY SourceAssumption DEF SourceInv, Feeding
<1>2. at \in 1..Len(source.body)
  BY <1>1 DEF SourceInv, Feeding
<1>. QED
  BY <1>1, <1>2 DEF Byte

LEMMA ConsumeRoom ==
  ASSUME SourceInv, Consume
  PROVE  SourceInv' /\ source' = source /\ ceiling' = ceiling /\ taken' = taken
BY DEF Consume, SourceInv

(* A byte is charged for before it is held.                                *)
LEMMA PushRoom ==
  ASSUME RoomInv, source.format = "csv", NEW byte \in STRING, NEW next, Push(byte, next)
  PROVE  RoomInv'
<1>1. ASSUME NEW error, Fail(error) PROVE RoomInv'
  BY <1>1, FailRoom
<1>2. CASE Affords(record, Len(field) + 1 + CellOverhead) /\ Consume
           /\ field' = Append(field, byte) /\ UNCHANGED <<held, fields, record, records>>
  <2>1. SourceInv' /\ source' = source /\ ceiling' = ceiling
    BY <1>2, ConsumeRoom DEF RoomInv
  <2>2. field' \in Seq(STRING) /\ Len(field') = Len(field) + 1 /\ Len(field) \in Nat
    BY <1>2 DEF RoomInv, CsvFits
  <2>3. held + record + Len(field') <= ceiling
    BY <1>2, <2>2, Costs DEF Affords, RoomInv, CsvFits, SourceInv
  <2>. QED
    BY <1>2, <2>1, <2>2, <2>3 DEF RoomInv, CsvFits, JsonFits
<1>. QED
  BY <1>1, <1>2 DEF Push

(* A closed field fits with the overhead of its row.                       *)
LEMMA CloseFits ==
  ASSUME RoomInv, source.format = "csv", CloseError = "none"
  PROVE  Closed \in Nat /\ held + Closed + RowOverhead <= ceiling
<1>1. Affords(Closed, 0)
  BY DEF CloseError
<1>2. Closed \in Nat
  BY Costs DEF Closed, RoomInv, CsvFits
<1>. QED
  BY <1>1, <1>2, Costs DEF Affords, RoomInv, CsvFits, SourceInv

LEMMA EndRecordRoom ==
  ASSUME RoomInv, source.format = "csv", CloseError = "none", EndRecord,
         source' = source, ceiling' = ceiling, SourceInv'
  PROVE  RoomInv'
<1>1. Closed \in Nat /\ held + Closed + RowOverhead <= ceiling /\ held \in Nat
  BY CloseFits DEF RoomInv, CsvFits
<1>2. field' \in Seq(STRING) /\ Len(field') = 0
  BY DEF EndRecord
<1>. QED
  BY <1>1, <1>2, Costs DEF EndRecord, RoomInv, CsvFits, JsonFits, SourceInv

LEMMA EndFieldRoom == RoomInv /\ EndField => RoomInv'
<1>. SUFFICES ASSUME RoomInv, EndField PROVE RoomInv'
  OBVIOUS
<1>1. source.format = "csv"
  BY DEF EndField, Feeding
<1>2. CASE Fail(CloseError)
  BY <1>2, FailRoom
<1>3. CASE CloseError = "none" /\ Consume /\ record' = Closed /\ field' = <<>> /\ held' = held
  <2>1. SourceInv' /\ source' = source /\ ceiling' = ceiling
    BY <1>3, ConsumeRoom DEF RoomInv
  <2>2. Closed \in Nat /\ held + Closed + RowOverhead <= ceiling /\ held \in Nat
    BY <1>1, <1>3, CloseFits DEF RoomInv, CsvFits
  <2>3. field' \in Seq(STRING) /\ Len(field') = 0
    BY <1>3
  <2>. QED
    BY <1>1, <1>3, <2>1, <2>2, <2>3, Costs DEF RoomInv, CsvFits, JsonFits, SourceInv
<1>. QED
  BY <1>2, <1>3 DEF EndField

LEMMA EndLineRoom == RoomInv /\ EndLine => RoomInv'
<1>. SUFFICES ASSUME RoomInv, EndLine PROVE RoomInv'
  OBVIOUS
<1>1. source.format = "csv"
  BY DEF EndLine, Feeding
<1>2. CASE Consume /\ UNCHANGED <<held, state, started, field, fields, record, records>>
  BY <1>2, ConsumeRoom DEF RoomInv, CsvFits, JsonFits
<1>3. CASE Fail(CloseError)
  BY <1>3, FailRoom
<1>4. CASE CloseError = "none" /\ Consume /\ EndRecord
  BY <1>1, <1>4, ConsumeRoom, EndRecordRoom DEF RoomInv
<1>. QED
  BY <1>2, <1>3, <1>4 DEF EndLine

LEMMA FinishRoom == RoomInv /\ Finish => RoomInv'
<1>. SUFFICES ASSUME RoomInv, Finish PROVE RoomInv'
  OBVIOUS
<1>1. source.format = "csv"
  BY DEF Finish
<1>2. ASSUME NEW error, Fail(error) PROVE RoomInv'
  BY <1>2, FailRoom
<1>3. CASE UNCHANGED <<source, ceiling, at, parsed, afterCr, taken, pending>>
           /\ (\/ CloseError = "none" /\ EndRecord
               \/ UNCHANGED <<held, state, started, field, fields, record, records>>)
  <2>1. SourceInv' /\ source' = source /\ ceiling' = ceiling /\ taken' = taken
    BY <1>3 DEF RoomInv, SourceInv
  <2>2. CASE CloseError = "none" /\ EndRecord
    BY <1>1, <2>1, <2>2, EndRecordRoom
  <2>3. CASE UNCHANGED <<held, state, started, field, fields, record, records>>
    BY <2>1, <2>3 DEF RoomInv, CsvFits, JsonFits
  <2>. QED
    BY <1>3, <2>2, <2>3
<1>. QED
  BY <1>2, <1>3 DEF Finish

LEMMA FeedRoom == RoomInv /\ Feed => RoomInv'
<1>. SUFFICES ASSUME RoomInv, Feed PROVE RoomInv'
  OBVIOUS
<1>1. CASE SkipLF
  BY <1>1, ConsumeRoom DEF SkipLF, RoomInv, CsvFits, JsonFits
<1>2. CASE OpenQuote
  BY <1>2, ConsumeRoom DEF OpenQuote, RoomInv, CsvFits, JsonFits
<1>3. CASE EndField
  BY <1>3, EndFieldRoom
<1>4. CASE EndLine
  BY <1>4, EndLineRoom
<1>5. CASE Unquoted
  <2>1. Byte \in STRING /\ source.format = "csv"
    BY <1>5, ByteType DEF Unquoted, Feeding, RoomInv
  <2>. QED
    BY <1>5, <2>1, PushRoom DEF Unquoted
<1>6. CASE QuotedData
  <2>1. Byte \in STRING /\ source.format = "csv"
    BY <1>6, ByteType DEF QuotedData, Feeding, RoomInv
  <2>. QED
    BY <1>6, <2>1, PushRoom DEF QuotedData
<1>7. CASE QuoteInside
  BY <1>7, ConsumeRoom DEF QuoteInside, RoomInv, CsvFits, JsonFits
<1>8. CASE DoubledQuote
  <2>1. Quote \in STRING /\ source.format = "csv"
    <3>1. Byte \in STRING /\ Byte = Quote /\ source.format = "csv"
      BY <1>8, ByteType DEF DoubledQuote, Feeding, RoomInv
    <3>. QED
      BY <3>1
  <2>. QED
    BY <1>8, <2>1, PushRoom DEF DoubledQuote
<1>9. CASE TextAfterQuote
  BY <1>9, FailRoom DEF TextAfterQuote
<1>. QED
  BY <1>1, <1>2, <1>3, <1>4, <1>5, <1>6, <1>7, <1>8, <1>9 DEF Feed

LEMMA RowsRoom == RoomInv /\ Rows => RoomInv'
<1>. SUFFICES ASSUME RoomInv, Rows PROVE RoomInv'
  OBVIOUS
<1>1. ASSUME NEW error, Fail(error) PROVE RoomInv'
  BY <1>1, FailRoom
<1>2. CASE UNCHANGED <<source, ceiling, at, held, csv, taken, pending>>
  BY <1>2 DEF csv, RoomInv, SourceInv, CsvFits, JsonFits
<1>. QED
  BY <1>1, <1>2 DEF Rows

(* A row is added only when the rows then fit, whatever widening cost.     *)
LEMMA ElementsRoom == RoomInv /\ (Take \/ Widen \/ AddRow \/ EndArray) => RoomInv'
<1>. SUFFICES ASSUME RoomInv, Take \/ Widen \/ AddRow \/ EndArray PROVE RoomInv'
  OBVIOUS
<1>1. source.format = "json"
  BY DEF Take, Widen, AddRow, EndArray, Walking
<1>2. ASSUME NEW error, Fail(error) PROVE RoomInv'
  BY <1>2, FailRoom
<1>3. CASE UNCHANGED <<source, ceiling, at>> /\ taken'
  BY <1>1, <1>3 DEF RoomInv, SourceInv, CsvFits, JsonFits
<1>4. CASE AddRow /\ UNCHANGED <<source, ceiling>> /\ held' <= ceiling /\ at' = at + 1
  BY <1>1, <1>4 DEF RoomInv, SourceInv, CsvFits, JsonFits
<1>5. CASE UNCHANGED <<source, ceiling, at, held, taken>>
  BY <1>1, <1>5 DEF RoomInv, SourceInv, CsvFits, JsonFits
<1>6. CASE Take
  BY <1>2, <1>3, <1>6 DEF Take
<1>7. CASE Widen
  <2>1. taken
    BY <1>7 DEF Widen
  <2>2. CASE \E error : Fail(error)
    BY <1>2, <2>2
  <2>3. CASE UNCHANGED <<source, ceiling, at, taken>>
    BY <1>3, <2>1, <2>3
  <2>. QED
    BY <1>7, <2>2, <2>3 DEF Widen
<1>8. CASE AddRow
  BY <1>2, <1>4, <1>8 DEF AddRow
<1>9. CASE EndArray
  BY <1>5, <1>9 DEF EndArray
<1>. QED
  BY <1>6, <1>7, <1>8, <1>9

-----------------------------------------------------------------------------
(* A CSV of any bytes holds no more than the ceiling at any of them, and a *)
(* JSON document of any elements no more between two.                      *)
THEOREM CeilingHolds == Spec => []WithinCeiling
<1>1. RoomInv /\ [Next]_vars => RoomInv'
  <2>. SUFFICES ASSUME RoomInv, [Next]_vars PROVE RoomInv'
    OBVIOUS
  <2>1. CASE UNCHANGED vars
    BY <2>1 DEF vars, csv, parsed, RoomInv, SourceInv, CsvFits, JsonFits
  <2>. QED
    BY <2>1, FeedRoom, FinishRoom, RowsRoom, ElementsRoom DEF Next
<1>2. RoomInv => WithinCeiling
  BY DEF RoomInv, CsvFits, JsonFits, WithinCeiling
<1>. QED
  BY <1>1, <1>2, InitRoom, PTL DEF Spec

-----------------------------------------------------------------------------
(* What inserting into a sequence leaves where.                            *)
Inserted(T, s, i, e, t) ==
  /\ t \in Seq(T) /\ Len(t) = Len(s) + 1
  /\ \A j \in 1 .. i - 1 : t[j] = s[j]
  /\ t[i] = e
  /\ \A j \in i + 1 .. Len(s) + 1 : t[j] = s[j - 1]

LEMMA InsertIs ==
  ASSUME NEW T, NEW s \in Seq(T), NEW i \in 1 .. Len(s) + 1, NEW e \in T
  PROVE  Inserted(T, s, i, e, InsertAt(s, i, e))
<1>. DEFINE a == SubSeq(s, 1, i - 1)
            b == SubSeq(s, i, Len(s))
<1>1. a \in Seq(T) /\ Len(a) = i - 1 /\ \A j \in 1..(i - 1) : a[j] = s[j]
  OBVIOUS
<1>2. b \in Seq(T) /\ Len(b) = Len(s) + 1 - i /\ \A j \in 1..Len(b) : b[j] = s[i + j - 1]
  OBVIOUS
<1>. HIDE DEF a, b
<1>3. InsertAt(s, i, e) = (a \o <<e>>) \o b
  BY DEF InsertAt, a, b
<1>. DEFINE c == a \o <<e>>
<1>4. c \in Seq(T) /\ Len(c) = i /\ c[i] = e /\ \A j \in 1..(i - 1) : c[j] = s[j]
  BY <1>1
<1>. HIDE DEF c
<1>5. InsertAt(s, i, e) = c \o b
  BY <1>3 DEF c
<1>6. InsertAt(s, i, e) \in Seq(T) /\ Len(InsertAt(s, i, e)) = Len(s) + 1
  BY <1>2, <1>4, <1>5
<1>7. ASSUME NEW j \in 1 .. i PROVE InsertAt(s, i, e)[j] = c[j]
  BY <1>2, <1>4, <1>5
<1>8. ASSUME NEW j \in (i + 1)..(Len(s) + 1) PROVE InsertAt(s, i, e)[j] = s[j - 1]
  <2>1. InsertAt(s, i, e)[j] = b[j - i]
    BY <1>2, <1>4, <1>5
  <2>2. b[j - i] = s[i + (j - i) - 1]
    BY <1>2
  <2>. QED
    BY <2>1, <2>2
<1>. QED
  BY <1>4, <1>6, <1>7, <1>8 DEF Inserted

-----------------------------------------------------------------------------
(* Sums of costs.                                                          *)

(* The sums of the costs up to each.                                       *)
SumsOf(costs, f) ==
  /\ f \in [0 .. Len(costs) -> Nat] /\ f[0] = 0
  /\ \A i \in 1 .. Len(costs) : f[i] = f[i - 1] + costs[i]

LEMMA TotalIs ==
  ASSUME NEW costs \in Seq(Nat)
  PROVE  \E f : SumsOf(costs, f) /\ Total(costs) = f[Len(costs)]
<1>. DEFINE n == Len(costs)
            sums(f) == f = [i \in 0 .. n |-> IF i = 0 THEN 0 ELSE f[i - 1] + costs[i]]
            upTo == CHOOSE f : sums(f)
            g == [i \in 1 .. n |-> [x \in Nat |-> x + costs[i]]]
<1>1. n \in Nat /\ \A i \in 1 .. n : costs[i] \in Nat
  OBVIOUS
<1>2. g \in [1 .. n -> [Nat -> Nat]]
  BY <1>1
<1>3. PICK e : Passes(n, Nat, 0, g, e)
  <2>. HIDE DEF g, n
  <2>. QED
    BY <1>1, <1>2, Iterates
<1>4. ASSUME NEW i \in 0 .. n PROVE e[i] = IF i = 0 THEN 0 ELSE e[i - 1] + costs[i]
  <2>1. CASE i = 0
    BY <1>3, <2>1 DEF Passes
  <2>2. CASE i # 0
    <3>1. i \in 1 .. n /\ i - 1 \in 0 .. n
      BY <1>1, <2>2
    <3>2. e[i] = g[i][e[i - 1]] /\ e[i - 1] \in Nat
      BY <1>3, <3>1 DEF Passes
    <3>3. g[i][e[i - 1]] = e[i - 1] + costs[i]
      BY <3>1, <3>2
    <3>. QED
      BY <2>2, <3>2, <3>3
  <2>. QED
    BY <2>1, <2>2
<1>5. sums(e)
  <2>1. e = [i \in 0 .. n |-> e[i]]
    BY <1>3 DEF Passes
  <2>. HIDE DEF n
  <2>. QED
    BY <1>4, <2>1
<1>6. sums(upTo)
  <2>. HIDE DEF sums
  <2>. QED
    BY <1>5, Zenon
<1>. HIDE DEF upTo
<1>7. /\ upTo = [i \in 0 .. n |-> upTo[i]] /\ upTo[0] = 0
      /\ \A i \in 1 .. n : upTo[i] = upTo[i - 1] + costs[i]
  <2>1. \A i \in 0 .. n : upTo[i] = IF i = 0 THEN 0 ELSE upTo[i - 1] + costs[i]
    BY <1>6
  <2>2. 0 \in 0 .. n /\ \A i \in 1 .. n : i \in 0 .. n /\ i # 0
    BY <1>1
  <2>. QED
    BY <1>6, <2>1, <2>2
<1>. HIDE DEF sums, n
<1>8. \A i \in 0 .. n : upTo[i] \in Nat
  <2>. DEFINE Good == {i \in Nat : i \in 0 .. n => upTo[i] \in Nat}
  <2>1. 0 \in Good
    BY <1>7
  <2>2. ASSUME NEW i \in Nat, i \in Good PROVE i + 1 \in Good
    <3>1. SUFFICES ASSUME i + 1 \in 0 .. n PROVE upTo[i + 1] \in Nat
      OBVIOUS
    <3>2. i \in 0 .. n /\ i + 1 \in 1 .. n
      BY <1>1, <3>1
    <3>3. upTo[i] \in Nat /\ upTo[i + 1] = upTo[i] + costs[i + 1]
      <4>1. upTo[i + 1] = upTo[(i + 1) - 1] + costs[i + 1]
        BY <1>7, <3>2, Zenon
      <4>2. (i + 1) - 1 = i
        OBVIOUS
      <4>. QED
        BY <2>2, <3>2, <4>1, <4>2
    <3>. QED
      BY <1>1, <3>2, <3>3
  <2>. HIDE DEF Good
  <2>3. \A i \in Nat : i \in Good
    BY <2>1, <2>2, Induction
  <2>. QED
    BY <1>1, <2>3 DEF Good
<1>9. SumsOf(costs, upTo)
  BY <1>1, <1>7, <1>8 DEF SumsOf, n
<1>10. Total(costs) = upTo[n]
  BY DEF Total, upTo, sums, n
<1>. QED
  BY <1>9, <1>10 DEF n

(* Two sums that take the same costs are the same, index by index.         *)
LEMMA SumsAgree ==
  ASSUME NEW n \in Nat, NEW f, NEW h, f[0] = h[0],
         \A i \in 1 .. n : f[i - 1] = h[i - 1] => f[i] = h[i]
  PROVE  f[n] = h[n]
<1>. DEFINE Good == {i \in Nat : i \in 0 .. n => f[i] = h[i]}
<1>1. 0 \in Good
  OBVIOUS
<1>2. ASSUME NEW i \in Nat, i \in Good PROVE i + 1 \in Good
  <2>1. SUFFICES ASSUME i + 1 \in 0 .. n PROVE f[i + 1] = h[i + 1]
    OBVIOUS
  <2>2. i \in 0 .. n /\ i + 1 \in 1 .. n /\ (i + 1) - 1 = i
    BY <2>1
  <2>3. f[i] = h[i]
    BY <1>2, <2>2
  <2>4. f[(i + 1) - 1] = h[(i + 1) - 1] => f[i + 1] = h[i + 1]
    BY <2>2, Zenon
  <2>. QED
    BY <2>2, <2>3, <2>4
<1>. HIDE DEF Good
<1>3. n \in Good
  BY <1>1, <1>2, Induction
<1>. QED
  BY <1>3 DEF Good

LEMMA TotalNat == ASSUME NEW costs \in Seq(Nat) PROVE Total(costs) \in Nat
<1>1. PICK f : SumsOf(costs, f) /\ Total(costs) = f[Len(costs)]
  BY TotalIs
<1>2. Len(costs) \in 0 .. Len(costs)
  OBVIOUS
<1>. QED
  BY <1>1, <1>2 DEF SumsOf

LEMMA TotalEmpty == Total(<<>>) = 0
<1>1. <<>> \in Seq(Nat) /\ Len(<<>>) = 0
  OBVIOUS
<1>2. PICK f : SumsOf(<<>>, f) /\ Total(<<>>) = f[Len(<<>>)]
  BY <1>1, TotalIs
<1>. QED
  BY <1>1, <1>2 DEF SumsOf

(* The sum of the costs so far is that of the costs without the last.      *)
LEMMA TotalAppend ==
  ASSUME NEW costs \in Seq(Nat), NEW cost \in Nat
  PROVE  Total(Append(costs, cost)) = Total(costs) + cost
<1>. DEFINE more == Append(costs, cost)
            n == Len(costs)
<1>1. /\ more \in Seq(Nat) /\ Len(more) = n + 1 /\ more[n + 1] = cost
      /\ \A i \in 1 .. n : more[i] = costs[i]
      /\ n \in Nat
  OBVIOUS
<1>. HIDE DEF more
<1>2. PICK f : SumsOf(costs, f) /\ Total(costs) = f[n]
  BY TotalIs
<1>3. PICK h : SumsOf(more, h) /\ Total(more) = h[Len(more)]
  BY <1>1, TotalIs
<1>4. f[n] = h[n]
  <2>1. f[0] = h[0]
    BY <1>2, <1>3 DEF SumsOf
  <2>2. ASSUME NEW i \in 1 .. n, f[i - 1] = h[i - 1] PROVE f[i] = h[i]
    <3>1. i \in 1 .. Len(more)
      BY <1>1
    <3>. QED
      BY <1>1, <1>2, <1>3, <2>2, <3>1 DEF SumsOf
  <2>. HIDE DEF n
  <2>. QED
    BY <1>1, <2>1, <2>2, SumsAgree
<1>5. h[n + 1] = h[n] + cost
  <2>1. n + 1 \in 1 .. Len(more) /\ (n + 1) - 1 = n
    BY <1>1
  <2>2. h[n + 1] = h[(n + 1) - 1] + more[n + 1]
    BY <1>3, <2>1, Zenon DEF SumsOf
  <2>. QED
    BY <1>1, <2>1, <2>2
<1>. QED
  BY <1>1, <1>2, <1>3, <1>4, <1>5 DEF more

(* Costs that are no more, one by one, come to no more.                    *)
LEMMA TotalAtMost ==
  ASSUME NEW costs \in Seq(Nat), NEW more \in Seq(Nat), Len(costs) = Len(more),
         \A i \in 1 .. Len(costs) : costs[i] <= more[i]
  PROVE  Total(costs) <= Total(more)
<1>. DEFINE n == Len(costs)
<1>1. PICK f : SumsOf(costs, f) /\ Total(costs) = f[n]
  BY TotalIs
<1>2. PICK h : SumsOf(more, h) /\ Total(more) = h[n]
  BY TotalIs
<1>. DEFINE Good == {i \in Nat : i \in 0 .. n => f[i] <= h[i]}
<1>3. 0 \in Good
  BY <1>1, <1>2 DEF SumsOf
<1>4. ASSUME NEW i \in Nat, i \in Good PROVE i + 1 \in Good
  <2>1. SUFFICES ASSUME i + 1 \in 0 .. n PROVE f[i + 1] <= h[i + 1]
    OBVIOUS
  <2>2. i \in 0 .. n /\ i + 1 \in 1 .. n /\ (i + 1) - 1 = i
    BY <2>1
  <2>3. f[i + 1] = f[i] + costs[i + 1] /\ f[i] \in Nat
    <3>1. f[i + 1] = f[(i + 1) - 1] + costs[i + 1]
      BY <1>1, <2>2, Zenon DEF SumsOf
    <3>. QED
      BY <1>1, <2>2, <3>1 DEF SumsOf
  <2>4. h[i + 1] = h[i] + more[i + 1] /\ h[i] \in Nat
    <3>1. h[i + 1] = h[(i + 1) - 1] + more[i + 1]
      BY <1>2, <2>2, Zenon DEF SumsOf
    <3>. QED
      BY <1>2, <2>2, <3>1 DEF SumsOf
  <2>5. costs[i + 1] <= more[i + 1] /\ costs[i + 1] \in Nat /\ more[i + 1] \in Nat
    BY <2>2
  <2>6. f[i] <= h[i]
    BY <1>4, <2>2
  <2>. QED
    BY <2>3, <2>4, <2>5, <2>6
<1>5. n \in Nat
  OBVIOUS
<1>6. n \in Good
  <2>. HIDE DEF Good, n
  <2>. QED
    BY <1>3, <1>4, <1>5, Induction
<1>. QED
  BY <1>1, <1>2, <1>5, <1>6

(* A cost put in anywhere adds itself.                                     *)
LEMMA TotalInserted ==
  ASSUME NEW costs \in Seq(Nat), NEW m \in 1 .. Len(costs) + 1, NEW cost \in Nat,
         NEW more, Inserted(Nat, costs, m, cost, more)
  PROVE  Total(more) = Total(costs) + cost
<1>. DEFINE n == Len(costs)
<1>0. n = Len(costs) /\ \A i \in 1 .. n : costs[i] \in Nat
  OBVIOUS
<1>1. n \in Nat /\ m \in 1 .. n + 1 /\ more \in Seq(Nat) /\ Len(more) = n + 1
  BY DEF Inserted
<1>2. PICK f : SumsOf(costs, f) /\ Total(costs) = f[n]
  BY TotalIs
<1>3. PICK h : SumsOf(more, h) /\ Total(more) = h[n + 1]
  BY <1>1, TotalIs
<1>. HIDE DEF n
<1>4. ASSUME NEW i \in 0 .. n PROVE f[i] \in Nat /\ (i > 0 => f[i] = f[i - 1] + costs[i])
  <2>1. f \in [0 .. n -> Nat] /\ \A j \in 1 .. n : f[j] = f[j - 1] + costs[j]
    BY <1>2 DEF SumsOf, n
  <2>2. i > 0 => i \in 1 .. n
    BY <1>1
  <2>. QED
    BY <2>1, <2>2
<1>5. ASSUME NEW i \in 0 .. n + 1 PROVE h[i] \in Nat /\ (i > 0 => h[i] = h[i - 1] + more[i])
  <2>1. h \in [0 .. n + 1 -> Nat] /\ \A j \in 1 .. n + 1 : h[j] = h[j - 1] + more[j]
    BY <1>1, <1>3 DEF SumsOf
  <2>2. i > 0 => i \in 1 .. n + 1
    BY <1>1
  <2>. QED
    BY <2>1, <2>2
<1>6. f[0] = 0 /\ h[0] = 0
  BY <1>2, <1>3 DEF SumsOf
<1>7. /\ \A i \in 1 .. m - 1 : more[i] = costs[i]
      /\ more[m] = cost
      /\ \A i \in m + 1 .. n + 1 : more[i] = costs[i - 1]
  BY DEF Inserted, n
<1>. DEFINE Ahead(i) == i \in 0 .. m - 1 => h[i] = f[i]
            Behind(i) == i \in m .. n + 1 => h[i] = f[i - 1] + cost
            Good == {i \in Nat : Ahead(i) /\ Behind(i)}
<1>8. 0 \in Good
  BY <1>1, <1>6
<1>9. ASSUME NEW i \in Nat, i \in Good PROVE i + 1 \in Good
  <2>0. (i + 1) - 1 = i
    OBVIOUS
  <2>5. Ahead(i) /\ Behind(i)
    <3>. HIDE DEF Ahead, Behind
    <3>. QED
      BY <1>9
  <2>1. CASE i + 1 \in 1 .. m - 1
    <3>1. i \in 0 .. m - 1 /\ i + 1 \in 0 .. n /\ i + 1 \in 0 .. n + 1 /\ i + 1 > 0
          /\ i + 1 \notin m .. n + 1
      BY <1>1, <2>1
    <3>2. h[i] = f[i] /\ more[i + 1] = costs[i + 1]
      BY <1>7, <2>5, <2>1, <3>1
    <3>3. f[i + 1] = f[i] + costs[i + 1]
      BY <1>4, <2>0, <3>1
    <3>4. h[i + 1] = h[i] + more[i + 1]
      BY <1>5, <2>0, <3>1
    <3>. QED
      BY <3>1, <3>2, <3>3, <3>4
  <2>2. CASE i + 1 = m
    <3>1. i \in 0 .. m - 1 /\ i + 1 \in 0 .. n + 1 /\ i + 1 > 0 /\ i + 1 \notin 0 .. m - 1
      BY <1>1, <2>2
    <3>2. h[i] = f[i]
      BY <2>5, <3>1
    <3>3. h[i + 1] = h[i] + more[i + 1]
      BY <1>5, <2>0, <3>1
    <3>. QED
      BY <1>7, <2>0, <2>2, <3>1, <3>2, <3>3
  <2>3. CASE i + 1 \in m + 1 .. n + 1
    <3>1. i \in m .. n + 1 /\ i \in 0 .. n /\ i > 0 /\ i + 1 \in 0 .. n + 1 /\ i + 1 > 0
          /\ i + 1 \notin 0 .. m - 1
      BY <1>1, <2>3
    <3>2. h[i] = f[i - 1] + cost
      BY <2>5, <3>1
    <3>3. f[i] = f[i - 1] + costs[i] /\ f[i] \in Nat /\ f[i - 1] \in Nat
      <4>1. i - 1 \in 0 .. n
        BY <1>1, <3>1
      <4>. QED
        BY <1>4, <3>1, <4>1
    <3>4. h[i + 1] = h[i] + more[i + 1]
      BY <1>5, <2>0, <3>1
    <3>5. more[i + 1] = costs[i]
      BY <1>7, <2>0, <2>3
    <3>6. costs[i] \in Nat
      BY <1>0, <1>1, <3>1
    <3>7. h[i + 1] = f[i] + cost
      BY <3>2, <3>3, <3>4, <3>5, <3>6
    <3>. QED
      BY <2>0, <3>1, <3>7
  <2>4. CASE i + 1 > n + 1
    BY <1>1, <2>4
  <2>. QED
    BY <1>1, <2>1, <2>2, <2>3, <2>4
<1>10. n + 1 \in Good
  <2>. HIDE DEF Good
  <2>1. n + 1 \in Nat
    BY <1>1
  <2>. QED
    BY <1>8, <1>9, <2>1, Induction
<1>11. n + 1 \in m .. n + 1 /\ (n + 1) - 1 = n
  BY <1>1
<1>. QED
  BY <1>2, <1>3, <1>10, <1>11

(* Costs that each grow by as much grow by that for each.                  *)
LEMMA TotalRaised ==
  ASSUME NEW costs \in Seq(Nat), NEW more \in Seq(Nat), Len(costs) = Len(more),
         NEW cost \in Nat, \A i \in 1 .. Len(costs) : more[i] = costs[i] + cost
  PROVE  Total(more) = Total(costs) + Len(costs) * cost
<1>. DEFINE n == Len(costs)
<1>1. PICK f : SumsOf(costs, f) /\ Total(costs) = f[n]
  BY TotalIs
<1>2. PICK h : SumsOf(more, h) /\ Total(more) = h[n]
  BY TotalIs
<1>. DEFINE Good == {i \in Nat : i \in 0 .. n => h[i] = f[i] + i * cost}
<1>3. 0 \in Good
  BY <1>1, <1>2 DEF SumsOf
<1>4. ASSUME NEW i \in Nat, i \in Good PROVE i + 1 \in Good
  <2>1. SUFFICES ASSUME i + 1 \in 0 .. n PROVE h[i + 1] = f[i + 1] + (i + 1) * cost
    OBVIOUS
  <2>2. i \in 0 .. n /\ i + 1 \in 1 .. n /\ (i + 1) - 1 = i
    BY <2>1
  <2>3. f[i + 1] = f[i] + costs[i + 1] /\ f[i] \in Nat
    <3>1. f[i + 1] = f[(i + 1) - 1] + costs[i + 1]
      BY <1>1, <2>2, Zenon DEF SumsOf
    <3>. QED
      BY <1>1, <2>2, <3>1 DEF SumsOf
  <2>4. h[i + 1] = h[i] + more[i + 1]
    <3>1. h[i + 1] = h[(i + 1) - 1] + more[i + 1]
      BY <1>2, <2>2, Zenon DEF SumsOf
    <3>. QED
      BY <2>2, <3>1
  <2>5. more[i + 1] = costs[i + 1] + cost /\ costs[i + 1] \in Nat
    BY <2>2
  <2>6. h[i] = f[i] + i * cost
    BY <1>4, <2>2
  <2>7. (i + 1) * cost = i * cost + cost /\ i * cost \in Nat
    OBVIOUS
  <2>. QED
    BY <2>3, <2>4, <2>5, <2>6, <2>7
<1>5. n \in Nat
  OBVIOUS
<1>6. n \in Good
  <2>. HIDE DEF Good, n
  <2>. QED
    BY <1>3, <1>4, <1>5, Induction
<1>. QED
  BY <1>1, <1>2, <1>5, <1>6

(* The sum is the first cost and that of the rest.                         *)
LEMMA TotalTail ==
  ASSUME NEW costs \in Seq(Nat), costs # <<>>
  PROVE  Total(costs) = Total(Tail(costs)) + costs[1]
<1>1. Tail(costs) \in Seq(Nat) /\ Len(costs) = Len(Tail(costs)) + 1 /\ costs[1] \in Nat
      /\ \A j \in 2 .. Len(Tail(costs)) + 1 : costs[j] = Tail(costs)[j - 1]
  OBVIOUS
<1>2. Inserted(Nat, Tail(costs), 1, costs[1], costs)
  BY <1>1 DEF Inserted
<1>3. 1 \in 1 .. Len(Tail(costs)) + 1
  BY <1>1
<1>. QED
  BY <1>1, <1>2, <1>3, TotalInserted

-----------------------------------------------------------------------------
(* The columns of a JSON document.                                         *)

KeysAt(i) == DOMAIN source.body[i].cells

(* The keys that were looked at, up to the element that is being read.     *)
KeysRead ==
  (UNION {KeysAt(i) : i \in 1 .. at - 1}) \cup (IF taken THEN KeysAt(at) \ pending ELSE {})

Cells ==
  {Absent} \cup
    (UNION {{CellOfText(source.body[i].cells[k]) : k \in KeysAt(i)} : i \in DOMAIN source.body})

Sorted(s) == \A c, d \in DOMAIN s : c < d => s[c] < s[d]

(* Between two keys: the columns are what was looked at, and every row has *)
(* a cell under each of them.                                              *)
ColumnsInv ==
  /\ columns \in Seq(Nat)
  /\ IF source.names # Absent THEN columns = source.names /\ (taken => pending = {})
     ELSE Sorted(columns) /\ ToSet(columns) = KeysRead

RowsInv ==
  /\ rows \in Seq(Seq(Cells)) /\ Len(rows) = at - 1
  /\ \A i \in 1 .. at - 1 : rows[i] = RowOf(source.body[i].cells)

DocumentInv ==
  source.format = "json" =>
    /\ source \in Sources /\ outcome # "split"
    /\ at \in 1 .. Len(source.body) + 1 /\ taken \in BOOLEAN
    /\ taken => More /\ pending \subseteq Keys
    /\ outcome = "loaded" => ~More
    /\ ColumnsInv /\ RowsInv

LEMMA DocumentIs ==
  ASSUME source \in Sources, source.format = "json"
  PROVE  /\ DOMAIN source.body = 1 .. Len(source.body) /\ Len(source.body) \in Nat
         /\ \A i \in DOMAIN source.body : KeysAt(i) \subseteq Nat
         /\ source.names \in Seq(Nat) \cup {Absent}
<1>1. /\ source.body \in Seq({source.body[i] : i \in DOMAIN source.body})
      /\ source.names \in Seq(Nat) \cup {Absent}
      /\ \A i \in DOMAIN source.body : DOMAIN source.body[i].cells \subseteq Nat
  BY SourceAssumption
<1>. QED
  BY <1>1 DEF KeysAt

LEMMA RowOfIs ==
  ASSUME columns \in Seq(Nat), NEW i \in DOMAIN source.body
  PROVE  /\ RowOf(source.body[i].cells) \in Seq(Cells)
         /\ Len(RowOf(source.body[i].cells)) = Len(columns)
         /\ \A c \in 1 .. Len(columns) :
              /\ columns[c] \in KeysAt(i) =>
                   RowOf(source.body[i].cells)[c] = CellOfText(source.body[i].cells[columns[c]])
              /\ columns[c] \notin KeysAt(i) => RowOf(source.body[i].cells)[c] = Absent
<1>. DEFINE row == RowOf(source.body[i].cells)
            cell(c) == IF columns[c] \in KeysAt(i) THEN CellOfText(source.body[i].cells[columns[c]])
                       ELSE Absent
<1>1. row = [c \in 1 .. Len(columns) |-> cell(c)]
  BY DEF RowOf, KeysAt
<1>2. \A c \in 1 .. Len(columns) : cell(c) \in Cells
  BY DEF Cells
<1>3. Len(columns) \in Nat
  OBVIOUS
<1>. HIDE DEF row, cell
<1>4. row \in Seq(Cells) /\ Len(row) = Len(columns) /\ \A c \in 1 .. Len(columns) : row[c] = cell(c)
  BY <1>1, <1>2, <1>3
<1>. QED
  BY <1>4 DEF row, cell

(* A key goes where the lesser keys end.                                   *)
LEMMA PlaceIs ==
  ASSUME columns \in Seq(Nat), Sorted(columns), NEW key \in Nat, key \notin ToSet(columns)
  PROVE  /\ Place(key) \in 1 .. Len(columns) + 1
         /\ \A c \in 1 .. Place(key) - 1 : columns[c] < key
         /\ \A c \in Place(key) .. Len(columns) : key < columns[c]
<1>. DEFINE n == Len(columns)
            after == {c \in 1 .. n + 1 : c = n + 1 \/ key < columns[c]}
            m == Min(after)
<1>1. n \in Nat /\ DOMAIN columns = 1 .. n /\ \A c \in 1 .. n : columns[c] \in Nat /\ columns[c] # key
  BY DEF ToSet
<1>2. m \in after /\ \A c \in after : m <= c
  <2>1. after \subseteq Nat /\ n + 1 \in after
    BY <1>1
  <2>. HIDE DEF after
  <2>. QED
    BY <2>1, LeastOf
<1>3. m \in 1 .. n + 1 /\ (m = n + 1 \/ key < columns[m])
  BY <1>2
<1>4. ASSUME NEW c \in 1 .. m - 1 PROVE columns[c] < key
  <2>1. c \in 1 .. n /\ c \notin after
    <3>. HIDE DEF after, m
    <3>. QED
      BY <1>1, <1>2, <1>3
  <2>. QED
    BY <1>1, <2>1
<1>. HIDE DEF m
<1>5. ASSUME NEW c \in m .. n PROVE key < columns[c]
  <2>1. m \in 1 .. n /\ c \in 1 .. n /\ key < columns[m]
    BY <1>1, <1>3
  <2>2. CASE c = m
    BY <2>1, <2>2
  <2>3. CASE m < c
    <3>1. columns[m] < columns[c]
      BY <1>1, <2>1, <2>3 DEF Sorted
    <3>2. columns[m] \in Nat /\ columns[c] \in Nat
      BY <1>1, <2>1
    <3>. QED
      BY <2>1, <3>1, <3>2
  <2>. QED
    BY <1>1, <1>3, <2>2, <2>3
<1>6. Place(key) = m
  <2>1. {c \in DOMAIN columns : columns[c] < key} = 1 .. m - 1
    <3>1. ASSUME NEW c \in 1 .. n PROVE columns[c] < key <=> c \in 1 .. m - 1
      BY <1>1, <1>3, <1>4, <1>5
    <3>. QED
      BY <1>1, <1>3, <3>1
  <2>2. Cardinality(1 .. m - 1) = m - 1
    BY <1>1, <1>3, FS_Interval
  <2>3. Place(key) = 1 + (m - 1)
    BY <2>1, <2>2 DEF Place
  <2>. QED
    BY <1>1, <1>3, <2>3
<1>. QED
  BY <1>3, <1>4, <1>5, <1>6

LEMMA InitDocument == Init => DocumentInv
<1>. SUFFICES ASSUME Init, source.format = "json" PROVE DocumentInv
  BY DEF DocumentInv
<1>1. source \in Sources /\ at = 1 /\ rows = <<>> /\ ~taken /\ outcome = "reading"
      /\ columns = (IF source.names # Absent THEN source.names ELSE <<>>)
  BY DEF Init
<1>2. at \in 1 .. Len(source.body) + 1
  BY <1>1, DocumentIs
<1>3. ColumnsInv
  <2>1. columns \in Seq(Nat) /\ (source.names = Absent => columns = <<>>)
    BY <1>1, DocumentIs
  <2>2. KeysRead = {}
    BY <1>1 DEF KeysRead
  <2>. QED
    BY <1>1, <2>1, <2>2 DEF ColumnsInv, Sorted, ToSet
<1>4. RowsInv
  BY <1>1 DEF RowsInv
<1>5. outcome # "split" /\ outcome # "loaded" /\ taken \in BOOLEAN
  BY <1>1 DEF Init
<1>. QED
  BY <1>1, <1>2, <1>3, <1>4, <1>5 DEF DocumentInv

(* Refusing a file, and a step on a CSV, leave a document as it is.        *)
LEMMA FailDocument ==
  ASSUME NEW error, error # "split", error # "loaded", DocumentInv, Fail(error) PROVE DocumentInv'
BY DEF Fail, csv, parsed, DocumentInv, ColumnsInv, RowsInv, KeysRead, KeysAt, Keys, Element, More,
       Cells, RowOf

LEMMA CsvDocument ==
  ASSUME DocumentInv, Feed \/ Finish PROVE DocumentInv'
<1>1. source.format = "csv" /\ source' = source
  BY DEF Feed, Finish, SkipLF, OpenQuote, EndField, EndLine, Unquoted, QuotedData, QuoteInside,
         DoubledQuote, TextAfterQuote, Feeding, Push, Consume, Fail
<1>. QED
  BY <1>1 DEF DocumentInv

LEMMA RowsDocument ==
  ASSUME DocumentInv, Rows PROVE DocumentInv'
<1>1. outcome = "split" /\ source' = source
  BY DEF Rows, Fail
<1>. QED
  BY <1>1 DEF DocumentInv

LEMMA TakeDocument ==
  ASSUME DocumentInv, Take PROVE DocumentInv'
<1>1. source.format = "json" /\ outcome = "reading" /\ More /\ ~taken
  BY DEF Take, Walking
<1>2. CASE Fail("over") \/ Fail("notAnArrayOfObjects")
  BY <1>2, FailDocument
<1>3. CASE /\ taken' = TRUE
           /\ pending' = IF source.names = Absent THEN Keys ELSE {}
           /\ UNCHANGED <<source, ceiling, at, outcome, parsed, held, csv>>
  <2>1. UNCHANGED <<source, at, outcome, columns, rows>>
    BY <1>3 DEF parsed
  <2>2. (source.names = Absent => KeysRead' = KeysRead) /\ pending' \subseteq Keys
    BY <1>1, <1>3, <2>1 DEF KeysRead, KeysAt, Keys, Element
  <2>3. ColumnsInv'
    BY <1>1, <1>3, <2>1, <2>2 DEF DocumentInv, ColumnsInv
  <2>4. RowsInv'
    BY <1>1, <2>1 DEF DocumentInv, RowsInv, RowOf, Cells, KeysAt
  <2>. QED
    BY <1>1, <1>3, <2>1, <2>2, <2>3, <2>4 DEF DocumentInv, More, Keys, Element
<1>. QED
  BY <1>2, <1>3 DEF Take

(* In t, a key is put at m among the n sorted keys of s.                    *)
PutIn(s, n, m, key, t) ==
  /\ n \in Nat /\ m \in 1 .. n + 1 /\ key \in Nat
  /\ \A c \in 1 .. n : s[c] \in Nat
  /\ \A c, d \in 1 .. n : c < d => s[c] < s[d]
  /\ \A c \in 1 .. m - 1 : s[c] < key
  /\ \A c \in m .. n : key < s[c]
  /\ \A j \in 1 .. m - 1 : t[j] = s[j]
  /\ t[m] = key
  /\ \A j \in m + 1 .. n + 1 : t[j] = s[j - 1]

LEMMA SortedInsert ==
  ASSUME NEW n, NEW s, NEW t, NEW m, NEW key, PutIn(s, n, m, key, t)
  PROVE  /\ \A c, d \in 1 .. n + 1 : c < d => t[c] < t[d]
         /\ \A j \in 1 .. n + 1 : t[j] = key \/ \E i \in 1 .. n : t[j] = s[i]
         /\ \A i \in 1 .. n : \E j \in 1 .. n + 1 : t[j] = s[i]
<1>. USE DEF PutIn
<1>1. ASSUME NEW c \in 1 .. n + 1, NEW d \in 1 .. n + 1, c < d PROVE t[c] < t[d]
  <2>1. CASE d < m
    <3>1. c \in 1 .. m - 1 /\ d \in 1 .. m - 1 /\ c \in 1 .. n /\ d \in 1 .. n
      BY <1>1, <2>1
    <3>. QED
      BY <1>1, <3>1
  <2>2. CASE d = m
    <3>1. c \in 1 .. m - 1
      BY <1>1, <2>2
    <3>. QED
      BY <2>2, <3>1
  <2>3. CASE c = m
    <3>1. d \in m + 1 .. n + 1 /\ d - 1 \in m .. n
      BY <1>1, <2>3
    <3>. QED
      BY <2>3, <3>1
  <2>4. CASE c < m /\ m < d
    <3>1. c \in 1 .. m - 1 /\ d \in m + 1 .. n + 1 /\ d - 1 \in m .. n
          /\ c \in 1 .. n /\ d - 1 \in 1 .. n
      BY <1>1, <2>4
    <3>2. s[c] < key /\ key < s[d - 1] /\ s[c] \in Nat /\ s[d - 1] \in Nat
      BY <3>1
    <3>. QED
      BY <3>1, <3>2
  <2>5. CASE m < c
    <3>1. c \in m + 1 .. n + 1 /\ d \in m + 1 .. n + 1 /\ c - 1 \in 1 .. n /\ d - 1 \in 1 .. n
          /\ c - 1 < d - 1
      BY <1>1, <2>5
    <3>. QED
      BY <3>1
  <2>. QED
    BY <1>1, <2>1, <2>2, <2>3, <2>4, <2>5
<1>2. ASSUME NEW j \in 1 .. n + 1 PROVE t[j] = key \/ \E i \in 1 .. n : t[j] = s[i]
  <2>1. CASE j \in 1 .. m - 1
    BY <2>1
  <2>2. CASE j \in m + 1 .. n + 1
    <3>1. j - 1 \in 1 .. n
      BY <2>2
    <3>. QED
      BY <2>2, <3>1
  <2>. QED
    BY <2>1, <2>2
<1>3. ASSUME NEW i \in 1 .. n PROVE \E j \in 1 .. n + 1 : t[j] = s[i]
  <2>1. CASE i \in 1 .. m - 1
    BY <2>1
  <2>2. CASE i \in m .. n
    <3>1. i + 1 \in m + 1 .. n + 1 /\ (i + 1) - 1 = i
      BY <2>2
    <3>2. t[i + 1] = s[i]
      BY <3>1
    <3>. QED
      BY <3>2
  <2>. QED
    BY <2>1, <2>2
<1>. QED
  BY <1>1, <1>2, <1>3

(* A column that is put in its place leaves the columns sorted.            *)
LEMMA WidenColumns ==
  ASSUME columns \in Seq(Nat), Sorted(columns), NEW key \in Nat, key \notin ToSet(columns),
         columns' = InsertAt(columns, Place(key), key)
  PROVE  columns' \in Seq(Nat) /\ Sorted(columns') /\ ToSet(columns') = ToSet(columns) \cup {key}
<1>. DEFINE n == Len(columns)
            m == Place(key)
            t == InsertAt(columns, m, key)
<1>1. /\ m \in 1 .. n + 1
      /\ \A c \in 1 .. m - 1 : columns[c] < key
      /\ \A c \in m .. n : key < columns[c]
  BY PlaceIs
<1>2. /\ n \in Nat /\ \A c \in 1 .. n : columns[c] \in Nat
      /\ \A c, d \in 1 .. n : c < d => columns[c] < columns[d]
  BY DEF Sorted
<1>. HIDE DEF m
<1>3. Inserted(Nat, columns, m, key, t)
  <2>1. m \in 1 .. Len(columns) + 1
    BY <1>1
  <2>. QED
    BY <2>1, InsertIs
<1>. HIDE DEF t
<1>4. t \in Seq(Nat) /\ DOMAIN t = 1 .. n + 1 /\ DOMAIN columns = 1 .. n
  BY <1>3 DEF Inserted
<1>5. PutIn(columns, n, m, key, t)
  BY <1>1, <1>2, <1>3 DEF PutIn, Inserted
<1>. HIDE DEF n
<1>6. /\ \A c, d \in 1 .. n + 1 : c < d => t[c] < t[d]
      /\ \A j \in 1 .. n + 1 : t[j] = key \/ \E i \in 1 .. n : t[j] = columns[i]
      /\ \A i \in 1 .. n : \E j \in 1 .. n + 1 : t[j] = columns[i]
  BY <1>5, SortedInsert
<1>7. Sorted(t)
  BY <1>4, <1>6 DEF Sorted
<1>8. ToSet(t) = ToSet(columns) \cup {key}
  <2>1. m \in 1 .. n + 1 /\ t[m] = key
    BY <1>5 DEF PutIn
  <2>2. ASSUME NEW x \in ToSet(t) PROVE x \in ToSet(columns) \cup {key}
    BY <1>4, <1>6, <2>2, Zenon DEF ToSet
  <2>3. ASSUME NEW x \in ToSet(columns) PROVE x \in ToSet(t)
    <3>1. PICK i \in 1 .. n : x = columns[i]
      BY <1>4, <2>3, Zenon DEF ToSet
    <3>2. PICK j \in 1 .. n + 1 : t[j] = columns[i]
      BY <1>6
    <3>. QED
      BY <1>4, <3>1, <3>2, Zenon DEF ToSet
  <2>4. key \in ToSet(t)
    BY <1>4, <2>1, Zenon DEF ToSet
  <2>. QED
    BY <2>2, <2>3, <2>4
<1>9. columns' = t
  BY DEF t, m
<1>. QED
  BY <1>4, <1>7, <1>8, <1>9

(* Rows are widened with the columns: an object read before the key was    *)
(* seen has not got it.                                                    *)
LEMMA WidenRows ==
  ASSUME source \in Sources, source.format = "json", at \in 1 .. Len(source.body) + 1,
         columns \in Seq(Nat), Sorted(columns), RowsInv,
         \A i \in 1 .. at - 1 : KeysAt(i) \subseteq ToSet(columns),
         NEW key \in Nat, key \notin ToSet(columns),
         columns' = InsertAt(columns, Place(key), key), rows' = RowsWidened(key),
         UNCHANGED <<source, at>>
  PROVE  RowsInv'
<1>. DEFINE n == Len(columns)
            m == Place(key)
            t == InsertAt(columns, m, key)
            wide(i) == InsertAt(rows[i], m, Absent)
<1>1. n \in Nat /\ m \in 1 .. n + 1
  BY PlaceIs
<1>2. Inserted(Nat, columns, m, key, t)
  <2>. HIDE DEF m
  <2>1. m \in 1 .. Len(columns) + 1
    BY <1>1
  <2>. QED
    BY <2>1, InsertIs
<1>3. ASSUME NEW i \in 1 .. at - 1
      PROVE  wide(i) \in Seq(Cells) /\ wide(i) = RowOf(source.body[i].cells)'
  <2>. DEFINE cells == source.body[i].cells
              row == RowOf(cells)
              next == [c \in DOMAIN t |->
                        IF t[c] \in DOMAIN cells THEN CellOfText(cells[t[c]]) ELSE Absent]
              cell(k) == IF k \in DOMAIN cells THEN CellOfText(cells[k]) ELSE Absent
  <2>1. i \in DOMAIN source.body /\ key \notin DOMAIN cells
    <3>1. i \in DOMAIN source.body
      BY DocumentIs
    <3>. QED
      BY <3>1 DEF KeysAt
  <2>2. row \in Seq(Cells) /\ Len(row) = n /\ \A c \in 1 .. n : row[c] = cell(columns[c])
    BY <2>1, RowOfIs DEF KeysAt
  <2>3. rows[i] = row /\ Absent \in Cells
    BY DEF RowsInv, Cells
  <2>4. Inserted(Cells, row, m, Absent, wide(i))
    <3>. HIDE DEF m, row
    <3>1. m \in 1 .. Len(row) + 1
      BY <1>1, <2>2
    <3>. QED
      BY <2>2, <2>3, <3>1, InsertIs
  <2>5. DOMAIN t = 1 .. n + 1 /\ DOMAIN wide(i) = 1 .. n + 1 /\ wide(i) \in Seq(Cells)
    <3>. HIDE DEF t, wide, row, m
    <3>. QED
      BY <1>1, <1>2, <2>2, <2>4 DEF Inserted
  <2>6. ASSUME NEW c \in 1 .. n + 1 PROVE wide(i)[c] = cell(t[c])
    <3>. HIDE DEF t, wide, row, m, cells
    <3>1. CASE c \in 1 .. m - 1
      <4>1. c \in 1 .. n
        BY <1>1, <3>1
      <4>. QED
        BY <1>2, <2>2, <2>4, <3>1, <4>1 DEF Inserted
    <3>2. CASE c = m
      BY <1>2, <2>1, <2>4, <3>2 DEF Inserted
    <3>3. CASE c \in m + 1 .. n + 1
      <4>1. c - 1 \in 1 .. n
        BY <1>1, <3>3
      <4>2. wide(i)[c] = row[c - 1] /\ t[c] = columns[c - 1]
        BY <1>2, <2>2, <2>4, <3>3 DEF Inserted
      <4>. QED
        BY <2>2, <4>1, <4>2
    <3>. QED
      BY <1>1, <3>1, <3>2, <3>3
  <2>7. wide(i) = next
    <3>1. wide(i) = [c \in 1 .. n + 1 |-> wide(i)[c]]
      <4>. HIDE DEF wide
      <4>. QED
        BY <2>5
    <3>2. next = [c \in 1 .. n + 1 |-> cell(t[c])]
      <4>. HIDE DEF t, cells
      <4>. QED
        BY <2>5
    <3>. HIDE DEF wide, next, cell, t
    <3>. QED
      BY <2>6, <3>1, <3>2
  <2>8. RowOf(cells)' = next
    BY DEF RowOf
  <2>. QED
    BY <2>5, <2>7, <2>8
<1>. HIDE DEF wide
<1>4. rows' = [i \in 1 .. at - 1 |-> wide(i)]
  BY DEF RowsWidened, RowsInv, wide
<1>5. rows' \in Seq(Seq(Cells)) /\ Len(rows') = at - 1
  <2>1. at - 1 \in Nat
    BY DocumentIs
  <2>. DEFINE k == at - 1
              row == Seq(Cells)
  <2>2. rows' = [i \in 1 .. k |-> wide(i)] /\ \A i \in 1 .. k : wide(i) \in row
    BY <1>3, <1>4
  <2>. HIDE DEF k, row
  <2>3. rows' \in Seq(row) /\ Len(rows') = k
    BY <2>1, <2>2 DEF k
  <2>. QED
    BY <2>3 DEF k, row
<1>6. Cells' = Cells
  BY DEF Cells, KeysAt
<1>. QED
  BY <1>3, <1>4, <1>5, <1>6 DEF RowsInv

LEMMA WidenDocument ==
  ASSUME DocumentInv, Widen PROVE DocumentInv'
<1>. DEFINE key == Min(pending)
<1>1. source.format = "json" /\ outcome = "reading" /\ taken /\ pending # {} /\ More
      /\ pending \subseteq Keys /\ ColumnsInv /\ RowsInv /\ at \in 1 .. Len(source.body) + 1
      /\ source \in Sources
  BY DEF Widen, Walking, DocumentInv
<1>2. Keys = KeysAt(at) /\ Keys \subseteq Nat /\ at \in DOMAIN source.body
  <2>1. at \in DOMAIN source.body
    BY <1>1, DocumentIs DEF More
  <2>. QED
    BY <1>1, <2>1, DocumentIs DEF Keys, Element, KeysAt
<1>3. key \in pending /\ key \in Nat
  BY <1>1, <1>2, LeastOf
<1>4. source.names = Absent /\ columns \in Seq(Nat) /\ Sorted(columns) /\ ToSet(columns) = KeysRead
  BY <1>1 DEF ColumnsInv
<1>. HIDE DEF key
<1>5. ASSUME UNCHANGED <<source, at, taken>>, pending' = pending \ {key}
      PROVE  KeysRead' = KeysRead \cup {key}
  <2>. DEFINE before == UNION {KeysAt(i) : i \in 1 .. at - 1}
              here == KeysAt(at)
  <2>1. key \in pending /\ key \in here
    BY <1>1, <1>2, <1>3
  <2>2. KeysRead = before \cup (IF taken THEN here \ pending ELSE {})
    BY DEF KeysRead
  <2>3. KeysRead' = before' \cup (IF taken' THEN here' \ pending' ELSE {})
    BY DEF KeysRead
  <2>4. before' = before /\ here' = here /\ taken' /\ taken
    <3>1. UNCHANGED <<source, at, taken>> /\ taken
      BY <1>1, <1>5
    <3>2. before' = before /\ here' = here
      BY <3>1 DEF KeysAt
    <3>. QED
      BY <3>1, <3>2
  <2>. HIDE DEF before, here
  <2>. QED
    BY <1>5, <2>1, <2>2, <2>3, <2>4
<1>6. CASE Fail("notAnArrayOfObjects")
  BY <1>6, FailDocument
<1>7. CASE /\ key \in ToSet(columns) /\ pending' = pending \ {key}
           /\ UNCHANGED <<source, ceiling, at, outcome, parsed, held, csv, taken>>
  <2>1. UNCHANGED <<source, at, taken, columns, rows, outcome>>
    BY <1>7 DEF parsed
  <2>2. ColumnsInv'
    BY <1>4, <1>5, <1>7, <2>1 DEF ColumnsInv
  <2>3. RowsInv'
    BY <1>1, <2>1 DEF RowsInv, RowOf, Cells, KeysAt
  <2>. QED
    BY <1>1, <1>7, <2>1, <2>2, <2>3 DEF DocumentInv, More, Keys, Element
<1>8. CASE /\ key \notin ToSet(columns)
           /\ columns' = InsertAt(columns, Place(key), key) /\ rows' = RowsWidened(key)
           /\ pending' = pending \ {key}
           /\ UNCHANGED <<source, ceiling, at, outcome, csv, taken>>
  <2>1. \A i \in 1 .. at - 1 : KeysAt(i) \subseteq ToSet(columns)
    BY <1>4 DEF KeysRead
  <2>2. columns' \in Seq(Nat) /\ Sorted(columns') /\ ToSet(columns') = ToSet(columns) \cup {key}
    BY <1>3, <1>4, <1>8, WidenColumns
  <2>3. ColumnsInv'
    <3>1. KeysRead' = KeysRead \cup {key}
      BY <1>5, <1>8
    <3>2. ToSet(columns)' = KeysRead' /\ Sorted(columns)'
      BY <1>4, <2>2, <3>1 DEF ToSet, Sorted
    <3>. QED
      BY <1>4, <1>8, <2>2, <3>2 DEF ColumnsInv
  <2>4. RowsInv'
    BY <1>1, <1>3, <1>4, <1>8, <2>1, WidenRows
  <2>. QED
    BY <1>1, <1>8, <2>3, <2>4 DEF DocumentInv, More, Keys, Element
<1>. QED
  BY <1>6, <1>7, <1>8 DEF Widen, key

LEMMA AddRowDocument ==
  ASSUME DocumentInv, AddRow PROVE DocumentInv'
<1>1. source.format = "json" /\ outcome = "reading" /\ taken /\ pending = {} /\ More
      /\ ColumnsInv /\ RowsInv /\ at \in 1 .. Len(source.body) + 1 /\ source \in Sources
  BY DEF AddRow, Walking, DocumentInv
<1>2. at \in 1 .. Len(source.body) /\ Len(source.body) \in Nat /\ at \in DOMAIN source.body
  BY <1>1, DocumentIs DEF More
<1>3. CASE Fail("over")
  BY <1>3, FailDocument
<1>4. CASE /\ rows' = Append(rows, RowOf(source.body[at].cells))
           /\ taken' = FALSE /\ at' = at + 1
           /\ UNCHANGED <<source, ceiling, outcome, columns, csv, pending>>
  <2>1. (source.names = Absent => KeysRead' = KeysRead)
    <3>1. 1 .. at' - 1 = (1 .. at - 1) \cup {at}
      BY <1>2, <1>4
    <3>2. KeysRead' = UNION {KeysAt(i) : i \in (1 .. at - 1) \cup {at}}
      BY <1>4, <3>1 DEF KeysRead, KeysAt
    <3>. DEFINE before == UNION {KeysAt(i) : i \in 1 .. at - 1}
                here == KeysAt(at)
    <3>3. KeysRead = before \cup (IF taken THEN here \ pending ELSE {})
      BY DEF KeysRead
    <3>4. UNION {KeysAt(i) : i \in (1 .. at - 1) \cup {at}} = before \cup here
      BY Zenon
    <3>. HIDE DEF before, here
    <3>. QED
      BY <1>1, <3>2, <3>3, <3>4
  <2>2. ColumnsInv'
    BY <1>1, <1>4, <2>1 DEF ColumnsInv
  <2>3. RowsInv'
    <3>. DEFINE row == RowOf(source.body[at].cells)
    <3>1. row \in Seq(Cells)
      BY <1>1, <1>2, RowOfIs DEF ColumnsInv
    <3>2. rows \in Seq(Seq(Cells)) /\ Len(rows) = at - 1
      BY <1>1 DEF RowsInv
    <3>3. rows' = Append(rows, row)
      BY <1>4
    <3>. HIDE DEF row
    <3>4. rows' \in Seq(Seq(Cells)) /\ Len(rows') = at /\ rows'[at] = row
          /\ \A i \in 1 .. at - 1 : rows'[i] = rows[i]
      BY <1>2, <3>1, <3>2, <3>3
    <3>5. \A i \in 1 .. at : rows'[i] = RowOf(source.body[i].cells)
      <4>1. \A i \in 1 .. at - 1 : rows'[i] = RowOf(source.body[i].cells)
        BY <1>1, <3>4 DEF RowsInv
      <4>2. rows'[at] = RowOf(source.body[at].cells)
        BY <3>4 DEF row
      <4>3. \A i \in 1 .. at : i = at \/ i \in 1 .. at - 1
        BY <1>2
      <4>. QED
        BY <4>1, <4>2, <4>3
    <3>6. Cells' = Cells /\ \A i : RowOf(source.body[i].cells)' = RowOf(source.body[i].cells)
      BY <1>4 DEF Cells, KeysAt, RowOf
    <3>. QED
      BY <1>2, <1>4, <3>4, <3>5, <3>6 DEF RowsInv
  <2>4. source' = source /\ at' \in 1 .. Len(source.body) + 1 /\ ~taken' /\ taken' \in BOOLEAN
        /\ outcome' = "reading"
    <3>1. UNCHANGED <<source, outcome>> /\ at' = at + 1 /\ taken' = FALSE
      BY <1>4
    <3>2. at + 1 \in 1 .. Len(source.body) + 1
      BY <1>2
    <3>. QED
      BY <1>1, <3>1, <3>2
  <2>. QED
    BY <1>1, <2>2, <2>3, <2>4 DEF DocumentInv
<1>. QED
  BY <1>3, <1>4 DEF AddRow, Element

LEMMA EndArrayDocument ==
  ASSUME DocumentInv, EndArray PROVE DocumentInv'
<1>1. ~More /\ outcome' # "split" /\ UNCHANGED <<source, at, taken, pending, columns, rows>>
  BY DEF EndArray, parsed
<1>. QED
  BY <1>1 DEF DocumentInv, More, Keys, Element, ColumnsInv, RowsInv, KeysRead, KeysAt, Cells, RowOf

LEMMA StepDocument == DocumentInv /\ [Next]_vars => DocumentInv'
<1>. SUFFICES ASSUME DocumentInv, [Next]_vars PROVE DocumentInv'
  OBVIOUS
<1>1. CASE UNCHANGED vars
  BY <1>1 DEF vars, csv, parsed, DocumentInv, ColumnsInv, RowsInv, KeysRead, KeysAt, Keys, Element,
              More, Cells, RowOf
<1>. QED
  BY <1>1, CsvDocument, RowsDocument, TakeDocument, WidenDocument, AddRowDocument, EndArrayDocument
     DEF Next

(* The columns of a JSON document of any length are all its keys, sorted,  *)
(* and each row has its object's values under them: inserting a column and *)
(* widening the rows already read never parts a value from its key.        *)
THEOREM ColumnsAreTheKeys == Spec => []KeysBecomeColumns
<1>1. ASSUME DocumentInv PROVE KeysBecomeColumns
  <2>. SUFFICES ASSUME source.format = "json", outcome = "loaded"
                PROVE  /\ IF source.names # Absent THEN columns = source.names
                          ELSE /\ ToSet(columns) =
                                    UNION {DOMAIN element.cells : element \in ToSet(source.body)}
                               /\ \A c, d \in DOMAIN columns : c < d => columns[c] < columns[d]
                       /\ Len(rows) = Len(source.body)
                       /\ \A i \in DOMAIN rows : rows[i] = RowOf(source.body[i].cells)
    BY DEF KeysBecomeColumns
  <2>1. /\ ~More /\ ~taken /\ ColumnsInv /\ RowsInv /\ at \in 1 .. Len(source.body) + 1
        /\ DOMAIN source.body = 1 .. Len(source.body) /\ Len(source.body) \in Nat
    BY <1>1, DocumentIs DEF DocumentInv
  <2>2. at - 1 = Len(source.body)
    BY <2>1 DEF More
  <2>3. KeysRead = UNION {DOMAIN element.cells : element \in ToSet(source.body)}
    BY <2>1, <2>2 DEF KeysRead, KeysAt, ToSet
  <2>4. Len(rows) = Len(source.body) /\ \A i \in DOMAIN rows : rows[i] = RowOf(source.body[i].cells)
    <3>1. DOMAIN rows = 1 .. at - 1
      BY <2>1 DEF RowsInv
    <3>. QED
      BY <2>1, <2>2, <3>1 DEF RowsInv
  <2>. QED
    BY <2>1, <2>3, <2>4 DEF ColumnsInv, Sorted
<1>. QED
  BY <1>1, InitDocument, StepDocument, PTL DEF Spec

-----------------------------------------------------------------------------
(* What is charged is what is held.                                        *)

Text == Seq(STRING)
Cell == {Absent} \cup Text

(* What a CSV is read into, and what has been charged for it.              *)
ScanInv ==
  /\ source \in Sources /\ ceiling \in Ceilings /\ at \in Nat \ {0} /\ outcome \in Outcome
  /\ state \in {"FieldStart", "Unquoted", "Quoted", "QuoteInQuoted"}
  /\ started \in BOOLEAN /\ afterCr \in BOOLEAN /\ taken \in BOOLEAN
  /\ field \in Text /\ Len(field) <= MaxField
  /\ fields \in Seq(Text) /\ Len(fields) <= MaxFields
  /\ records \in Seq(Seq(Text))
  /\ state = "FieldStart" => field = <<>>
  /\ ~started => field = <<>> /\ fields = <<>>

CsvCharged ==
  source.format = "csv" =>
    /\ at <= Len(source.body) + 1 /\ ~taken
    /\ held = RecordsCost(records) /\ record = TextsCost(fields)
    /\ outcome # "loaded" => rows = <<>>
    /\ \A i \in DOMAIN rows : DOMAIN rows[i] = DOMAIN columns
    /\ RowsCost(rows) \in Nat /\ RowsCost(rows) <= held

JsonCharged == source.format = "json" => held = RowsCost(rows) /\ record = 0

ChargedInv == ScanInv /\ CsvCharged /\ JsonCharged /\ DocumentInv

Csv == ScanInv /\ CsvCharged /\ source.format = "csv"

-----------------------------------------------------------------------------
(* What texts, records and rows cost.                                      *)

Costed(s, cost) == [i \in DOMAIN s |-> cost[s[i]]]

LEMMA CostedAppend ==
  ASSUME NEW T, NEW s \in Seq(T), NEW x \in T, NEW cost, \A e \in T : cost[e] \in Nat
  PROVE  /\ Costed(s, cost) \in Seq(Nat)
         /\ Costed(Append(s, x), cost) = Append(Costed(s, cost), cost[x])
<1>. DEFINE n == Len(s)
            t == Append(s, x)
            c == [i \in DOMAIN s |-> cost[s[i]]]
            d == [i \in DOMAIN t |-> cost[t[i]]]
<1>1. /\ n \in Nat /\ DOMAIN s = 1 .. n /\ t \in Seq(T) /\ DOMAIN t = 1 .. n + 1 /\ t[n + 1] = x
      /\ \A i \in 1 .. n : t[i] = s[i] /\ s[i] \in T
  OBVIOUS
<1>. HIDE DEF n, t
<1>2. c \in Seq(Nat) /\ Len(c) = n /\ \A i \in 1 .. n : c[i] = cost[s[i]]
  BY <1>1
<1>3. d = [i \in 1 .. n + 1 |-> cost[t[i]]]
  BY <1>1
<1>. HIDE DEF c, d
<1>4. Append(c, cost[x]) = [i \in 1 .. n + 1 |-> IF i = n + 1 THEN cost[x] ELSE c[i]]
  BY <1>1, <1>2
<1>5. \A i \in 1 .. n + 1 : cost[t[i]] = IF i = n + 1 THEN cost[x] ELSE c[i]
  BY <1>1, <1>2
<1>6. d = Append(c, cost[x])
  BY <1>3, <1>4, <1>5
<1>. QED
  BY <1>2, <1>6 DEF c, d, t, Costed

LEMMA TextsAppend ==
  ASSUME NEW texts \in Seq(Text), NEW text \in Text
  PROVE  TextsCost(texts) \in Nat
         /\ TextsCost(Append(texts, text)) = TextsCost(texts) + CellOverhead + Len(text)
<1>. DEFINE cost == [e \in Text |-> CellOverhead + Len(e)]
<1>1. \A e \in Text : cost[e] \in Nat /\ cost[e] = CellOverhead + Len(e)
  BY Costs DEF Text
<1>2. ASSUME NEW s \in Seq(Text) PROVE TextsCost(s) = Total(Costed(s, cost))
  <2>1. \A i \in DOMAIN s : CellOverhead + Len(s[i]) = cost[s[i]]
    BY <1>1
  <2>2. [i \in DOMAIN s |-> CellOverhead + Len(s[i])] = Costed(s, cost)
    BY <2>1 DEF Costed
  <2>. QED
    BY <2>2 DEF TextsCost, Costed
<1>. HIDE DEF cost
<1>3. Costed(texts, cost) \in Seq(Nat)
      /\ Costed(Append(texts, text), cost) = Append(Costed(texts, cost), cost[text])
  BY <1>1, CostedAppend
<1>4. Append(texts, text) \in Seq(Text)
  OBVIOUS
<1>5. Total(Append(Costed(texts, cost), cost[text])) = Total(Costed(texts, cost)) + cost[text]
      /\ Total(Costed(texts, cost)) \in Nat
  BY <1>1, <1>3, TotalAppend, TotalNat
<1>6. TextsCost(texts) = Total(Costed(texts, cost))
      /\ TextsCost(Append(texts, text)) = Total(Append(Costed(texts, cost), cost[text]))
  BY <1>2, <1>3, <1>4
<1>7. cost[text] = CellOverhead + Len(text) /\ Len(text) \in Nat
  BY <1>1 DEF Text
<1>. QED
  BY <1>5, <1>6, <1>7, Costs

LEMMA NoTexts == TextsCost(<<>>) = 0 /\ RecordsCost(<<>>) = 0 /\ RowsCost(<<>>) = 0
<1>1. /\ [i \in DOMAIN <<>> |-> CellOverhead + Len(<<>>[i])] = <<>>
      /\ [i \in DOMAIN <<>> |-> RowOverhead + TextsCost(<<>>[i])] = <<>>
      /\ [i \in DOMAIN <<>> |-> Footprint(<<>>[i])] = <<>>
  OBVIOUS
<1>. QED
  BY <1>1, TotalEmpty DEF TextsCost, RecordsCost, RowsCost

LEMMA RecordsAppend ==
  ASSUME NEW table \in Seq(Seq(Text)), NEW r \in Seq(Text)
  PROVE  RecordsCost(table) \in Nat
         /\ RecordsCost(Append(table, r)) = RecordsCost(table) + RowOverhead + TextsCost(r)
<1>. DEFINE T == Seq(Text)
            cost == [e \in T |-> RowOverhead + TextsCost(e)]
<1>1. \A e \in T : TextsCost(e) \in Nat
  <2>1. <<>> \in Text
    BY DEF Text
  <2>. QED
    BY <2>1, TextsAppend
<1>2. \A e \in T : cost[e] \in Nat /\ cost[e] = RowOverhead + TextsCost(e)
  BY <1>1, Costs
<1>. HIDE DEF T
<1>3. ASSUME NEW s \in Seq(T) PROVE RecordsCost(s) = Total(Costed(s, cost))
  <2>1. \A i \in DOMAIN s : RowOverhead + TextsCost(s[i]) = cost[s[i]]
    BY <1>2
  <2>2. [i \in DOMAIN s |-> RowOverhead + TextsCost(s[i])] = Costed(s, cost)
    BY <2>1 DEF Costed
  <2>. QED
    BY <2>2 DEF RecordsCost, Costed
<1>. HIDE DEF cost
<1>4. table \in Seq(T) /\ r \in T
  BY DEF T
<1>5. Costed(table, cost) \in Seq(Nat)
      /\ Costed(Append(table, r), cost) = Append(Costed(table, cost), cost[r])
  BY <1>2, <1>4, CostedAppend
<1>6. Append(table, r) \in Seq(T)
  BY <1>4
<1>7. Total(Append(Costed(table, cost), cost[r])) = Total(Costed(table, cost)) + cost[r]
      /\ Total(Costed(table, cost)) \in Nat
  BY <1>2, <1>4, <1>5, TotalAppend, TotalNat
<1>8. RecordsCost(table) = Total(Costed(table, cost))
      /\ RecordsCost(Append(table, r)) = Total(Append(Costed(table, cost), cost[r]))
  BY <1>3, <1>4, <1>5, <1>6
<1>9. cost[r] = RowOverhead + TextsCost(r) /\ TextsCost(r) \in Nat
  BY <1>1, <1>2, <1>4
<1>. QED
  BY <1>7, <1>8, <1>9, Costs

(* A row costs a number of bytes, and one as wide of texts at least as     *)
(* much as the cells they are made.                                        *)
LEMMA FootprintIs ==
  ASSUME NEW row \in Seq(Cell)
  PROVE  /\ [c \in DOMAIN row |-> CellCost(row[c])] \in Seq(Nat)
         /\ Footprint(row) \in Nat
<1>1. ASSUME NEW cell \in Cell PROVE CellCost(cell) \in Nat
  BY <1>1, Costs DEF CellCost, Cell, Text
<1>2. [c \in DOMAIN row |-> CellCost(row[c])] \in Seq(Nat)
  BY <1>1
<1>. QED
  BY <1>2, TotalNat, Costs DEF Footprint

LEMMA RowsAppend ==
  ASSUME NEW table \in Seq(Seq(Cell)), NEW row \in Seq(Cell)
  PROVE  RowsCost(table) \in Nat
         /\ RowsCost(Append(table, row)) = RowsCost(table) + Footprint(row)
<1>. DEFINE T == Seq(Cell)
            cost == [e \in T |-> Footprint(e)]
<1>1. \A e \in T : cost[e] \in Nat /\ cost[e] = Footprint(e)
  BY FootprintIs
<1>. HIDE DEF T
<1>2. ASSUME NEW s \in Seq(T) PROVE RowsCost(s) = Total(Costed(s, cost))
  <2>1. \A i \in DOMAIN s : Footprint(s[i]) = cost[s[i]]
    BY <1>1
  <2>2. [i \in DOMAIN s |-> Footprint(s[i])] = Costed(s, cost)
    BY <2>1 DEF Costed
  <2>. QED
    BY <2>2 DEF RowsCost, Costed
<1>. HIDE DEF cost
<1>3. table \in Seq(T) /\ row \in T
  BY DEF T
<1>4. Costed(table, cost) \in Seq(Nat)
      /\ Costed(Append(table, row), cost) = Append(Costed(table, cost), cost[row])
  BY <1>1, <1>3, CostedAppend
<1>5. Append(table, row) \in Seq(T)
  BY <1>3
<1>6. Total(Append(Costed(table, cost), cost[row])) = Total(Costed(table, cost)) + cost[row]
      /\ Total(Costed(table, cost)) \in Nat
  BY <1>1, <1>3, <1>4, TotalAppend, TotalNat
<1>. QED
  BY <1>1, <1>2, <1>3, <1>4, <1>5, <1>6

(* An absent cell put into a row costs its overhead.                       *)
LEMMA FootprintInserted ==
  ASSUME NEW row \in Seq(Cell), NEW m \in 1 .. Len(row) + 1
  PROVE  InsertAt(row, m, Absent) \in Seq(Cell)
         /\ Footprint(InsertAt(row, m, Absent)) = Footprint(row) + CellOverhead
<1>. DEFINE n == Len(row)
            wide == InsertAt(row, m, Absent)
            c == [i \in DOMAIN row |-> CellCost(row[i])]
            d == [i \in DOMAIN wide |-> CellCost(wide[i])]
<1>1. Inserted(Cell, row, m, Absent, wide)
  BY InsertIs DEF Cell
<1>. HIDE DEF wide
<1>2. wide \in Seq(Cell) /\ Len(wide) = n + 1 /\ n \in Nat
  BY <1>1 DEF Inserted
<1>3. /\ c \in Seq(Nat) /\ Footprint(row) = RowOverhead + Total(c)
      /\ d \in Seq(Nat) /\ Footprint(wide) = RowOverhead + Total(d)
  BY <1>2, FootprintIs DEF Footprint
<1>4. /\ Len(c) = n /\ \A i \in 1 .. n : c[i] = CellCost(row[i])
      /\ Len(d) = n + 1 /\ \A i \in 1 .. n + 1 : d[i] = CellCost(wide[i])
  BY <1>2
<1>. HIDE DEF c, d, n
<1>5. /\ \A j \in 1 .. m - 1 : wide[j] = row[j]
      /\ wide[m] = Absent
      /\ \A j \in m + 1 .. n + 1 : wide[j] = row[j - 1]
      /\ m \in 1 .. n + 1
  BY <1>1 DEF Inserted, n
<1>6. Inserted(Nat, c, m, CellOverhead, d)
  <2>1. ASSUME NEW j \in 1 .. m - 1 PROVE d[j] = c[j]
    <3>1. j \in 1 .. n /\ j \in 1 .. n + 1
      BY <1>2, <1>5
    <3>. QED
      BY <1>4, <1>5, <3>1
  <2>2. d[m] = CellOverhead
    BY <1>4, <1>5, Costs DEF CellCost
  <2>3. ASSUME NEW j \in m + 1 .. n + 1 PROVE d[j] = c[j - 1]
    <3>1. j - 1 \in 1 .. n /\ j \in 1 .. n + 1
      BY <1>2, <1>5
    <3>. QED
      BY <1>4, <1>5, <3>1
  <2>. QED
    BY <1>2, <1>3, <1>4, <2>1, <2>2, <2>3 DEF Inserted
<1>7. m \in 1 .. Len(c) + 1
  BY <1>4, <1>5
<1>8. Total(d) = Total(c) + CellOverhead /\ Total(c) \in Nat
  BY <1>3, <1>6, <1>7, Costs, TotalInserted, TotalNat
<1>. QED
  BY <1>2, <1>3, <1>8, Costs DEF wide

-----------------------------------------------------------------------------
LEMMA InitCharged == Init => ScanInv /\ CsvCharged /\ JsonCharged
<1>. SUFFICES ASSUME Init PROVE ScanInv /\ CsvCharged /\ JsonCharged
  OBVIOUS
<1>1. /\ field = <<>> /\ fields = <<>> /\ records = <<>> /\ rows = <<>>
      /\ held = 0 /\ record = 0 /\ at = 1 /\ taken = FALSE /\ source \in Sources
  BY DEF Init
<1>2. Len(<<>>) = 0 /\ <<>> \in Text /\ <<>> \in Seq(Text) /\ <<>> \in Seq(Seq(Text))
      /\ DOMAIN <<>> = {}
  BY DEF Text
<1>3. ScanInv
  <2>1. /\ source \in Sources /\ ceiling \in Ceilings /\ at \in Nat \ {0}
        /\ outcome \in Outcome /\ state = "FieldStart"
        /\ started \in BOOLEAN /\ afterCr \in BOOLEAN /\ taken \in BOOLEAN
    <3>1. source \in Sources /\ ceiling \in Ceilings
      BY DEF Init
    <3>2. at \in Nat \ {0} /\ outcome \in Outcome /\ state = "FieldStart"
      BY <1>1 DEF Init, Outcome
    <3>3. started \in BOOLEAN /\ afterCr \in BOOLEAN /\ taken \in BOOLEAN
      BY DEF Init
    <3>. QED
      BY <3>1, <3>2, <3>3
  <2>2. /\ field \in Text /\ Len(field) <= MaxField
        /\ fields \in Seq(Text) /\ Len(fields) <= MaxFields /\ records \in Seq(Seq(Text))
    BY <1>1, <1>2, ReaderAssumption
  <2>. QED
    BY <1>1, <2>1, <2>2 DEF ScanInv
<1>4. source.format = "csv" => Len(source.body) \in Nat
  BY <1>1, SourceAssumption
<1>5. CsvCharged
  BY <1>1, <1>2, <1>4, NoTexts DEF CsvCharged
<1>6. JsonCharged
  BY <1>1, NoTexts DEF JsonCharged
<1>. QED
  BY <1>3, <1>5, <1>6

(* A byte that is consumed leaves what was charged.                        *)
LEMMA SameCharged ==
  ASSUME CsvCharged, source.format = "csv", at' <= Len(source.body) + 1,
         UNCHANGED <<source, columns, rows, held, record, records, fields, taken>>,
         outcome # "loaded", outcome' # "loaded"
  PROVE  CsvCharged'
BY DEF CsvCharged

LEMMA FailCharged ==
  ASSUME Csv, outcome # "loaded", NEW error \in Outcome, error # "loaded", Fail(error)
  PROVE  Csv'
<1>1. /\ outcome' = error
      /\ UNCHANGED <<source, ceiling, at, columns, rows, held, taken, state, started, afterCr,
                     field, fields, record, records>>
  BY DEF Fail, parsed, csv
<1>2. ScanInv'
  BY <1>1 DEF Csv, ScanInv
<1>3. at' <= Len(source.body) + 1
  BY <1>1 DEF Csv, CsvCharged
<1>4. CsvCharged'
  BY <1>1, <1>3, SameCharged DEF Csv
<1>. QED
  BY <1>1, <1>2, <1>4 DEF Csv

LEMMA ConsumeCharged ==
  ASSUME Csv, Feeding, Consume
  PROVE  /\ at' \in Nat \ {0} /\ at' <= Len(source.body) + 1 /\ afterCr' \in BOOLEAN
         /\ outcome # "loaded" /\ outcome' # "loaded"
         /\ UNCHANGED <<source, ceiling, outcome, columns, rows, taken>>
<1>1. source.body \in Seq(STRING)
  BY SourceAssumption DEF Csv, ScanInv
<1>. QED
  BY <1>1 DEF Csv, ScanInv, Feeding, Consume, parsed

LEMMA PushCharged ==
  ASSUME Csv, Feeding, NEW byte \in STRING, NEW next \in {"Unquoted", "Quoted"}, Push(byte, next)
  PROVE  Csv'
<1>1. outcome # "loaded" /\ {"malformed", "over"} \subseteq Outcome
  BY DEF Feeding, Outcome
<1>2. ASSUME NEW error \in {"malformed", "over"}, Fail(error) PROVE Csv'
  BY <1>1, <1>2, FailCharged
<1>3. CASE /\ Len(field) < MaxField /\ Consume /\ field' = Append(field, byte)
           /\ state' = next /\ started' = TRUE
           /\ UNCHANGED <<held, fields, record, records>>
  <2>1. field' \in Text /\ Len(field') <= MaxField
    BY <1>3, ReaderAssumption DEF Csv, ScanInv, Text
  <2>2. ScanInv'
    BY <1>3, <2>1, ConsumeCharged DEF Csv, ScanInv
  <2>3. CsvCharged'
    BY <1>3, ConsumeCharged, SameCharged DEF Csv
  <2>. QED
    BY <1>3, <2>2, <2>3, ConsumeCharged DEF Csv
<1>. QED
  BY <1>2, <1>3 DEF Push

(* A field is closed for its overhead and its bytes.                       *)
LEMMA CloseCharged ==
  ASSUME Csv, CloseError = "none"
  PROVE  /\ Append(fields, field) \in Seq(Text) /\ Len(Append(fields, field)) <= MaxFields
         /\ Closed = TextsCost(Append(fields, field))
<1>1. Len(fields) < MaxFields
  BY ReaderAssumption DEF CloseError, Csv, ScanInv
<1>2. record = TextsCost(fields) /\ fields \in Seq(Text) /\ field \in Text
  BY DEF Csv, ScanInv, CsvCharged
<1>3. Append(fields, field) \in Seq(Text) /\ Len(Append(fields, field)) <= MaxFields
  BY <1>1, <1>2, ReaderAssumption
<1>. QED
  BY <1>2, <1>3, TextsAppend DEF Closed

LEMMA CloseErrors == CloseError \in {"malformed", "over", "none"}
BY DEF CloseError

(* What a record was charged is what its texts cost.                       *)
LEMMA EndRecordCharged ==
  ASSUME Csv, CloseError = "none", EndRecord, outcome # "loaded",
         outcome' \in Outcome, outcome' # "loaded", at' \in Nat \ {0}, at' <= Len(source.body) + 1,
         afterCr' \in BOOLEAN, UNCHANGED <<source, ceiling, columns, rows, taken>>
  PROVE  Csv'
<1>. DEFINE r == Append(fields, field)
<1>1. /\ r \in Seq(Text) /\ Closed = TextsCost(r) /\ records \in Seq(Seq(Text))
      /\ held = RecordsCost(records)
  BY CloseCharged DEF Csv, ScanInv, CsvCharged
<1>2. /\ records' = Append(records, r) /\ held' = held + Closed + RowOverhead
      /\ field' = <<>> /\ fields' = <<>> /\ record' = 0
      /\ state' = "FieldStart" /\ started' = FALSE
  BY DEF EndRecord
<1>. HIDE DEF r
<1>3. records' \in Seq(Seq(Text)) /\ held' = RecordsCost(records') /\ held' >= held /\ held \in Nat
      /\ held' \in Nat
  <2>1. RecordsCost(records') = RecordsCost(records) + RowOverhead + TextsCost(r)
        /\ RecordsCost(records) \in Nat
    BY <1>1, <1>2, RecordsAppend
  <2>2. TextsCost(r) \in Nat
    <3>1. <<>> \in Text
      BY DEF Text
    <3>. QED
      BY <1>1, <3>1, TextsAppend
  <2>3. records' \in Seq(Seq(Text))
    BY <1>1, <1>2
  <2>. QED
    BY <1>1, <1>2, <2>1, <2>2, <2>3, Costs
<1>4. Len(<<>>) = 0 /\ <<>> \in Text /\ <<>> \in Seq(Text)
  BY DEF Text
<1>5. ScanInv'
  <2>1. /\ field' \in Text /\ Len(field') <= MaxField
        /\ fields' \in Seq(Text) /\ Len(fields') <= MaxFields
    BY <1>2, <1>4, ReaderAssumption
  <2>. QED
    BY <1>2, <1>3, <2>1 DEF Csv, ScanInv
<1>6. CsvCharged'
  <2>1. rows = <<>> /\ rows' = <<>> /\ ~taken' /\ DOMAIN <<>> = {}
    BY DEF Csv, CsvCharged
  <2>. QED
    BY <1>2, <1>3, <2>1, NoTexts DEF CsvCharged
<1>. QED
  BY <1>5, <1>6 DEF Csv

LEMMA EndFieldCharged == Csv /\ EndField => Csv'
<1>. SUFFICES ASSUME Csv, EndField PROVE Csv'
  OBVIOUS
<1>1. outcome # "loaded" /\ Feeding
  BY DEF EndField, Feeding
<1>2. CASE CloseError # "none" /\ Fail(CloseError)
  BY <1>1, <1>2, CloseErrors, FailCharged DEF Outcome
<1>3. CASE /\ CloseError = "none" /\ Consume
           /\ fields' = Append(fields, field) /\ record' = Closed
           /\ field' = <<>> /\ state' = "FieldStart" /\ started' = TRUE
           /\ UNCHANGED <<held, records>>
  <2>1. /\ fields' \in Seq(Text) /\ Len(fields') <= MaxFields /\ record' = TextsCost(fields')
    BY <1>3, CloseCharged
  <2>2. /\ at' \in Nat \ {0} /\ at' <= Len(source.body) + 1 /\ afterCr' \in BOOLEAN
        /\ outcome' # "loaded"
        /\ UNCHANGED <<source, ceiling, outcome, columns, rows, taken>>
    BY <1>1, <1>3, ConsumeCharged
  <2>3. field' \in Text /\ Len(field') <= MaxField
    <3>1. <<>> \in Text /\ Len(<<>>) = 0
      BY DEF Text
    <3>. QED
      BY <1>3, <3>1, ReaderAssumption
  <2>4. ScanInv'
    BY <1>3, <2>1, <2>2, <2>3 DEF Csv, ScanInv
  <2>5. CsvCharged'
    BY <1>1, <1>3, <2>1, <2>2 DEF Csv, CsvCharged
  <2>. QED
    BY <2>2, <2>4, <2>5 DEF Csv
<1>. QED
  BY <1>2, <1>3 DEF EndField

LEMMA EndLineCharged == Csv /\ EndLine => Csv'
<1>. SUFFICES ASSUME Csv, EndLine PROVE Csv'
  OBVIOUS
<1>1. outcome # "loaded" /\ Feeding
  BY DEF EndLine, Feeding
<1>2. CASE CloseError # "none" /\ Fail(CloseError)
  BY <1>1, <1>2, CloseErrors, FailCharged DEF Outcome
<1>3. CASE Consume /\ UNCHANGED <<held, state, started, field, fields, record, records>>
  <2>1. ScanInv' /\ CsvCharged'
    BY <1>1, <1>3, ConsumeCharged, SameCharged DEF Csv, ScanInv
  <2>. QED
    BY <1>1, <1>3, <2>1, ConsumeCharged DEF Csv
<1>4. CASE CloseError = "none" /\ Consume /\ EndRecord
  BY <1>1, <1>4, ConsumeCharged, EndRecordCharged DEF Csv, ScanInv
<1>. QED
  BY <1>2, <1>3, <1>4 DEF EndLine

LEMMA FinishCharged == Csv /\ Finish => Csv'
<1>. SUFFICES ASSUME Csv, Finish PROVE Csv'
  OBVIOUS
<1>1. outcome # "loaded" /\ "malformed" \in Outcome /\ "split" \in Outcome
  BY DEF Finish, Outcome
<1>2. CASE Fail("malformed")
  BY <1>1, <1>2, FailCharged
<1>3. CASE CloseError # "none" /\ Fail(CloseError)
  BY <1>1, <1>3, CloseErrors, FailCharged DEF Outcome
<1>4. CASE /\ outcome' = "split"
           /\ UNCHANGED <<source, ceiling, at, parsed, afterCr, taken, pending>>
           /\ (\/ CloseError = "none" /\ EndRecord
               \/ UNCHANGED <<held, state, started, field, fields, record, records>>)
  <2>1. /\ at' \in Nat \ {0} /\ at' <= Len(source.body) + 1 /\ afterCr' \in BOOLEAN
        /\ outcome' \in Outcome /\ outcome' # "loaded"
        /\ UNCHANGED <<source, ceiling, columns, rows, taken>>
    BY <1>1, <1>4 DEF Csv, ScanInv, CsvCharged, parsed
  <2>2. CASE CloseError = "none" /\ EndRecord
    BY <1>1, <2>1, <2>2, EndRecordCharged
  <2>3. CASE UNCHANGED <<held, state, started, field, fields, record, records>>
    <3>1. ScanInv' /\ CsvCharged'
      BY <1>1, <2>1, <2>3, SameCharged DEF Csv, ScanInv
    <3>. QED
      BY <2>1, <3>1 DEF Csv
  <2>. QED
    BY <1>4, <2>2, <2>3
<1>. QED
  BY <1>2, <1>3, <1>4 DEF Finish

LEMMA FeedCharged == Csv /\ Feed => Csv'
<1>. SUFFICES ASSUME Csv, Feed PROVE Csv'
  OBVIOUS
<1>1. CASE SkipLF
  <2>1. ScanInv' /\ CsvCharged'
    BY <1>1, ConsumeCharged, SameCharged DEF SkipLF, Csv, ScanInv
  <2>. QED
    BY <1>1, <2>1, ConsumeCharged DEF SkipLF, Csv
<1>2. CASE OpenQuote
  <2>1. ScanInv' /\ CsvCharged'
    BY <1>2, ConsumeCharged, SameCharged DEF OpenQuote, Csv, ScanInv
  <2>. QED
    BY <1>2, <2>1, ConsumeCharged DEF OpenQuote, Csv
<1>3. CASE EndField
  BY <1>3, EndFieldCharged
<1>4. CASE EndLine
  BY <1>4, EndLineCharged
<1>5. ASSUME Feeding PROVE Byte \in STRING
  <2>1. source.body \in Seq(STRING)
    BY SourceAssumption DEF Csv, ScanInv
  <2>. QED
    BY <1>5, <2>1 DEF Csv, ScanInv, Feeding, Byte
<1>6. CASE Unquoted
  BY <1>5, <1>6, PushCharged DEF Unquoted
<1>7. CASE QuotedData
  BY <1>5, <1>7, PushCharged DEF QuotedData
<1>8. CASE QuoteInside
  <2>1. ScanInv' /\ CsvCharged'
    BY <1>8, ConsumeCharged, SameCharged DEF QuoteInside, Csv, ScanInv
  <2>. QED
    BY <1>8, <2>1, ConsumeCharged DEF QuoteInside, Csv
<1>9. CASE DoubledQuote
  <2>1. Byte \in STRING /\ Byte = Quote /\ Feeding /\ Push(Quote, "Quoted")
    BY <1>5, <1>9 DEF DoubledQuote
  <2>. HIDE DEF Quote
  <2>. QED
    BY <2>1, PushCharged
<1>10. CASE TextAfterQuote
  <2>1. "malformed" \in Outcome /\ outcome # "loaded"
    BY <1>10 DEF TextAfterQuote, Feeding, Outcome
  <2>. QED
    BY <1>10, <2>1, FailCharged DEF TextAfterQuote
<1>. QED
  BY <1>1, <1>2, <1>3, <1>4, <1>6, <1>7, <1>8, <1>9, <1>10 DEF Feed

-----------------------------------------------------------------------------
(* What the records are made.                                              *)

LEMMA TextsAtMost ==
  ASSUME NEW texts \in Seq(Text), NEW more \in Seq(Text), Len(texts) = Len(more),
         \A c \in 1 .. Len(texts) : Len(texts[c]) <= Len(more[c])
  PROVE  TextsCost(texts) <= TextsCost(more) /\ TextsCost(texts) \in Nat /\ TextsCost(more) \in Nat
<1>. DEFINE a == [i \in DOMAIN texts |-> CellOverhead + Len(texts[i])]
            b == [i \in DOMAIN more |-> CellOverhead + Len(more[i])]
<1>. DEFINE n == Len(texts)
<1>0. n \in Nat /\ DOMAIN texts = 1 .. n /\ DOMAIN more = 1 .. n
  OBVIOUS
<1>. HIDE DEF n
<1>1. \A c \in 1 .. n :
        /\ Len(texts[c]) \in Nat /\ Len(more[c]) \in Nat
        /\ a[c] = CellOverhead + Len(texts[c]) /\ b[c] = CellOverhead + Len(more[c])
  BY <1>0 DEF Text
<1>21. a = [i \in 1 .. n |-> a[i]] /\ b = [i \in 1 .. n |-> b[i]]
  BY <1>0
<1>. HIDE DEF a, b
<1>2. a \in Seq(Nat) /\ b \in Seq(Nat) /\ Len(a) = n /\ Len(b) = n
  <2>1. (\A i \in 1 .. n : a[i] \in Nat) /\ (\A i \in 1 .. n : b[i] \in Nat)
    BY <1>1, Costs
  <2>. QED
    BY <1>0, <1>21, <2>1, SeqIs
<1>3. \A i \in 1 .. Len(a) : a[i] <= b[i]
  BY <1>1, <1>2, Costs DEF n
<1>4. Total(a) <= Total(b) /\ Total(a) \in Nat /\ Total(b) \in Nat
  BY <1>2, <1>3, TotalAtMost, TotalNat
<1>. QED
  BY <1>4 DEF TextsCost, a, b

LEMMA RecordsAtMost ==
  ASSUME NEW table \in Seq(Seq(Text)), NEW more \in Seq(Seq(Text)), Len(table) = Len(more),
         \A i \in 1 .. Len(table) :
           /\ Len(table[i]) = Len(more[i])
           /\ \A c \in 1 .. Len(table[i]) : Len(table[i][c]) <= Len(more[i][c])
  PROVE  RecordsCost(table) <= RecordsCost(more)
<1>. DEFINE a == [i \in DOMAIN table |-> RowOverhead + TextsCost(table[i])]
            b == [i \in DOMAIN more |-> RowOverhead + TextsCost(more[i])]
<1>. DEFINE n == Len(table)
<1>0. n \in Nat /\ DOMAIN table = 1 .. n /\ DOMAIN more = 1 .. n
  OBVIOUS
<1>1. ASSUME NEW i \in 1 .. n
      PROVE  /\ TextsCost(table[i]) \in Nat /\ TextsCost(more[i]) \in Nat
             /\ TextsCost(table[i]) <= TextsCost(more[i])
  <2>1. table[i] \in Seq(Text) /\ more[i] \in Seq(Text)
    OBVIOUS
  <2>. QED
    BY <2>1, TextsAtMost
<1>. HIDE DEF n
<1>21. /\ a = [i \in 1 .. n |-> a[i]] /\ b = [i \in 1 .. n |-> b[i]]
       /\ \A i \in 1 .. n : a[i] = RowOverhead + TextsCost(table[i])
       /\ \A i \in 1 .. n : b[i] = RowOverhead + TextsCost(more[i])
  BY <1>0
<1>. HIDE DEF a, b
<1>2. a \in Seq(Nat) /\ b \in Seq(Nat) /\ Len(a) = n /\ Len(b) = n
  <2>1. (\A i \in 1 .. n : a[i] \in Nat) /\ (\A i \in 1 .. n : b[i] \in Nat)
    <3>1. ASSUME NEW i \in 1 .. n PROVE a[i] \in Nat /\ b[i] \in Nat
      BY <1>1, <1>21, Costs DEF n
    <3>. QED
      BY <3>1
  <2>. QED
    BY <1>0, <1>21, <2>1, SeqIs
<1>3. \A i \in 1 .. Len(a) : a[i] <= b[i]
  BY <1>1, <1>2, <1>21, Costs
<1>4. Total(a) <= Total(b)
  BY <1>2, <1>3, TotalAtMost
<1>. QED
  BY <1>4 DEF RecordsCost, a, b

LEMMA RecordsTail ==
  ASSUME NEW table \in Seq(Seq(Text)), table # <<>>
  PROVE  RecordsCost(Tail(table)) <= RecordsCost(table)
<1>. DEFINE a == [i \in DOMAIN table |-> RowOverhead + TextsCost(table[i])]
            rest == Tail(table)
            b == [i \in DOMAIN rest |-> RowOverhead + TextsCost(rest[i])]
<1>1. \A r \in Seq(Text) : TextsCost(r) \in Nat
  <2>1. <<>> \in Text
    BY DEF Text
  <2>. QED
    BY <2>1, TextsAppend
<1>. DEFINE n == Len(rest)
<1>2. /\ rest \in Seq(Seq(Text)) /\ Len(table) = n + 1 /\ n \in Nat
      /\ \A i \in 1 .. n : rest[i] = table[i + 1]
      /\ DOMAIN table = 1 .. n + 1 /\ DOMAIN rest = 1 .. n
      /\ \A i \in 1 .. n + 1 : table[i] \in Seq(Text)
  OBVIOUS
<1>. HIDE DEF n, rest
<1>3. /\ a = [i \in 1 .. n + 1 |-> a[i]] /\ b = [i \in 1 .. n |-> b[i]]
      /\ \A i \in 1 .. n + 1 : a[i] = RowOverhead + TextsCost(table[i])
      /\ \A i \in 1 .. n : b[i] = RowOverhead + TextsCost(rest[i])
  BY <1>2
<1>. HIDE DEF a, b
<1>4. /\ \A i \in 1 .. n + 1 : a[i] \in Nat
      /\ \A i \in 1 .. n : i + 1 \in 1 .. n + 1 /\ b[i] = a[i + 1] /\ b[i] \in Nat
  <2>1. ASSUME NEW i \in 1 .. n + 1 PROVE a[i] \in Nat
    BY <1>1, <1>2, <1>3, Costs
  <2>2. ASSUME NEW i \in 1 .. n PROVE i + 1 \in 1 .. n + 1 /\ b[i] = a[i + 1] /\ b[i] \in Nat
    <3>1. i + 1 \in 1 .. n + 1
      BY <1>2
    <3>2. b[i] = a[i + 1]
      BY <1>2, <1>3, <3>1
    <3>. QED
      BY <2>1, <3>1, <3>2
  <2>. QED
    BY <2>1, <2>2
<1>5. a \in Seq(Nat) /\ Len(a) = n + 1 /\ b \in Seq(Nat) /\ Len(b) = n
  <2>1. n + 1 \in Nat /\ \A i \in 1 .. n : b[i] \in Nat
    BY <1>2, <1>4
  <2>2. a \in Seq(Nat) /\ Len(a) = n + 1
    BY <1>3, <1>4, <2>1, SeqIs
  <2>. QED
    BY <1>2, <1>3, <2>1, <2>2, SeqIs
<1>6. Inserted(Nat, b, 1, a[1], a)
  <2>1. ASSUME NEW j \in 1 + 1 .. Len(b) + 1 PROVE a[j] = b[j - 1]
    <3>1. j - 1 \in 1 .. n /\ (j - 1) + 1 = j
      BY <1>2, <1>5
    <3>. QED
      BY <1>4, <3>1
  <2>. QED
    BY <1>2, <1>5, <2>1 DEF Inserted
<1>7. 1 \in 1 .. Len(b) + 1 /\ a[1] \in Nat
  BY <1>2, <1>4, <1>5
<1>8. Total(a) = Total(b) + a[1] /\ Total(b) \in Nat
  BY <1>5, <1>6, <1>7, TotalInserted, TotalNat
<1>10. Total(b) <= Total(a)
  BY <1>7, <1>8
<1>. QED
  BY <1>10 DEF RecordsCost, a, b, rest

LEMMA StrippedIs ==
  ASSUME records \in Seq(Seq(Text))
  PROVE  /\ Stripped \in Seq(Seq(Text)) /\ Len(Stripped) = Len(records)
         /\ RecordsCost(Stripped) <= RecordsCost(records)
<1>. DEFINE text(i, c) == IF i = 1 /\ c = 1 /\ records[i][c] # <<>> /\ Head(records[i][c]) = Mark
                          THEN Tail(records[i][c]) ELSE records[i][c]
            row(i) == [c \in DOMAIN records[i] |-> text(i, c)]
<1>1. Stripped = [i \in DOMAIN records |-> row(i)]
  BY DEF Stripped
<1>2. ASSUME NEW i \in 1 .. Len(records)
      PROVE  /\ row(i) \in Seq(Text) /\ Len(row(i)) = Len(records[i])
             /\ \A c \in 1 .. Len(row(i)) : Len(row(i)[c]) <= Len(records[i][c])
  <2>1. records[i] \in Seq(Text)
    OBVIOUS
  <2>2. ASSUME NEW c \in 1 .. Len(records[i])
        PROVE  text(i, c) \in Text /\ Len(text(i, c)) <= Len(records[i][c])
    <3>. DEFINE t == records[i][c]
    <3>1. t \in Seq(STRING)
      BY <2>1 DEF Text
    <3>. HIDE DEF t
    <3>2. t # <<>> => Tail(t) \in Seq(STRING) /\ Len(Tail(t)) <= Len(t)
      BY <3>1
    <3>3. Len(t) <= Len(t)
      BY <3>1
    <3>. QED
      BY <3>1, <3>2, <3>3 DEF Text, t
  <2>. DEFINE n == Len(records[i])
  <2>3. DOMAIN records[i] = 1 .. n /\ n \in Nat
    BY <2>1
  <2>. HIDE DEF text, n
  <2>4. row(i) = [c \in 1 .. n |-> row(i)[c]] /\ \A c \in 1 .. n : row(i)[c] = text(i, c)
    BY <2>3
  <2>. HIDE DEF row
  <2>5. \A c \in 1 .. n : row(i)[c] \in Text
    BY <2>2, <2>4 DEF n
  <2>6. row(i) \in Seq(Text) /\ Len(row(i)) = n
    BY <2>3, <2>4, <2>5, SeqIs
  <2>. QED
    BY <2>2, <2>4, <2>6 DEF n
<1>. HIDE DEF row
<1>21. Stripped = [i \in 1 .. Len(records) |-> Stripped[i]] /\ Len(records) \in Nat
      /\ \A i \in 1 .. Len(records) : Stripped[i] = row(i)
  BY <1>1
<1>3. /\ Stripped \in Seq(Seq(Text)) /\ Len(Stripped) = Len(records)
      /\ \A i \in 1 .. Len(records) : Stripped[i] = row(i)
  <2>1. \A i \in 1 .. Len(records) : Stripped[i] \in Seq(Text)
    BY <1>2, <1>21
  <2>. QED
    BY <1>21, <2>1, SeqIs
<1>4. RecordsCost(Stripped) <= RecordsCost(records)
  BY <1>2, <1>3, RecordsAtMost
<1>. QED
  BY <1>3, <1>4

(* A row of cells costs no more than the texts they were made from.        *)
LEMMA CellsAtMost ==
  ASSUME NEW texts \in Seq(Text), NEW row, row = [c \in 1 .. Len(texts) |-> CellOfText(texts[c])]
  PROVE  row \in Seq(Cell) /\ Footprint(row) <= RowOverhead + TextsCost(texts)
<1>. DEFINE a == [c \in DOMAIN row |-> CellCost(row[c])]
            b == [c \in DOMAIN texts |-> CellOverhead + Len(texts[c])]
<1>1. ASSUME NEW c \in 1 .. Len(texts)
      PROVE  CellOfText(texts[c]) \in Cell
             /\ CellCost(CellOfText(texts[c])) <= CellOverhead + Len(texts[c])
             /\ Len(texts[c]) \in Nat /\ CellCost(CellOfText(texts[c])) \in Nat
  <2>1. texts[c] \in Seq(STRING)
    BY DEF Text
  <2>. QED
    BY <2>1, Costs DEF CellOfText, CellCost, Cell, Text
<1>. DEFINE n == Len(texts)
<1>0. n \in Nat /\ DOMAIN texts = 1 .. n /\ DOMAIN row = 1 .. n
  OBVIOUS
<1>21. row = [c \in 1 .. n |-> row[c]] /\ \A c \in 1 .. n : row[c] = CellOfText(texts[c])
  OBVIOUS
<1>22. \A c \in 1 .. n : row[c] \in Cell
  BY <1>1, <1>21
<1>. HIDE DEF n
<1>2. row \in Seq(Cell) /\ Len(row) = n
  BY <1>0, <1>21, <1>22, SeqIs
<1>23. /\ a = [c \in 1 .. n |-> a[c]] /\ b = [c \in 1 .. n |-> b[c]]
       /\ \A c \in 1 .. n : a[c] = CellCost(CellOfText(texts[c]))
       /\ \A c \in 1 .. n : b[c] = CellOverhead + Len(texts[c])
  BY <1>0, <1>21
<1>24. \A c \in 1 .. n : a[c] \in Nat /\ b[c] \in Nat /\ a[c] <= b[c]
  BY <1>1, <1>23, Costs DEF n
<1>3. a \in Seq(Nat) /\ Len(a) = n /\ b \in Seq(Nat) /\ Len(b) = n
  <2>. HIDE DEF a, b
  <2>. QED
    BY <1>0, <1>23, <1>24, SeqIs
<1>4. Footprint(row) = RowOverhead + Total(a) /\ TextsCost(texts) = Total(b)
  BY DEF Footprint, TextsCost
<1>. HIDE DEF a, b
<1>5. Total(a) <= Total(b) /\ Total(a) \in Nat /\ Total(b) \in Nat
  BY <1>3, <1>24, TotalAtMost, TotalNat
<1>. QED
  BY <1>2, <1>4, <1>5, Costs

LEMMA RowsAtMost ==
  ASSUME NEW data \in Seq(Seq(Text)), NEW table,
         table = [i \in 1 .. Len(data) |-> [c \in 1 .. Len(data[i]) |-> CellOfText(data[i][c])]]
  PROVE  RowsCost(table) \in Nat /\ RowsCost(table) <= RecordsCost(data)
<1>. DEFINE a == [i \in DOMAIN table |-> Footprint(table[i])]
            b == [i \in DOMAIN data |-> RowOverhead + TextsCost(data[i])]
<1>1. ASSUME NEW i \in 1 .. Len(data)
      PROVE  /\ table[i] \in Seq(Cell) /\ Footprint(table[i]) <= RowOverhead + TextsCost(data[i])
             /\ Footprint(table[i]) \in Nat /\ TextsCost(data[i]) \in Nat
  <2>1. data[i] \in Seq(Text)
    OBVIOUS
  <2>2. table[i] = [c \in 1 .. Len(data[i]) |-> CellOfText(data[i][c])]
    OBVIOUS
  <2>3. table[i] \in Seq(Cell) /\ Footprint(table[i]) <= RowOverhead + TextsCost(data[i])
    BY <2>1, <2>2, CellsAtMost
  <2>4. TextsCost(data[i]) \in Nat
    <3>1. <<>> \in Text
      BY DEF Text
    <3>. QED
      BY <2>1, <3>1, TextsAppend
  <2>. QED
    BY <2>3, <2>4, FootprintIs
<1>. DEFINE n == Len(data)
<1>0. n \in Nat /\ DOMAIN data = 1 .. n /\ DOMAIN table = 1 .. n
  OBVIOUS
<1>. HIDE DEF n
<1>21. /\ a = [i \in 1 .. n |-> a[i]] /\ b = [i \in 1 .. n |-> b[i]]
       /\ \A i \in 1 .. n : a[i] = Footprint(table[i])
       /\ \A i \in 1 .. n : b[i] = RowOverhead + TextsCost(data[i])
  BY <1>0
<1>22. \A i \in 1 .. n : a[i] \in Nat /\ b[i] \in Nat /\ a[i] <= b[i]
  <2>1. ASSUME NEW i \in 1 .. n PROVE a[i] \in Nat /\ b[i] \in Nat /\ a[i] <= b[i]
    <3>1. i \in 1 .. Len(data)
      BY DEF n
    <3>2. /\ Footprint(table[i]) <= RowOverhead + TextsCost(data[i])
          /\ Footprint(table[i]) \in Nat /\ TextsCost(data[i]) \in Nat
      BY <1>1, <3>1, Zenon
    <3>3. a[i] = Footprint(table[i]) /\ b[i] = RowOverhead + TextsCost(data[i])
      BY <1>21
    <3>. HIDE DEF a, b
    <3>. QED
      BY <3>2, <3>3, Costs
  <2>. QED
    BY <2>1
<1>2. a \in Seq(Nat) /\ Len(a) = n /\ b \in Seq(Nat) /\ Len(b) = n
  <2>. HIDE DEF a, b
  <2>. QED
    BY <1>0, <1>21, <1>22, SeqIs
<1>3. RowsCost(table) = Total(a) /\ RecordsCost(data) = Total(b)
  BY DEF RowsCost, RecordsCost
<1>. HIDE DEF a, b
<1>. QED
  BY <1>2, <1>3, <1>22, TotalAtMost, TotalNat

LEMMA RowsCharged == Csv /\ Rows => Csv'
<1>. SUFFICES ASSUME Csv, Rows PROVE Csv'
  OBVIOUS
<1>. DEFINE data == IF source.header /\ records # <<>> THEN Tail(Stripped) ELSE Stripped
            names == IF source.names # Absent THEN source.names ELSE Head(Stripped)
<1>1. outcome # "loaded" /\ {"empty", "namesRequired", "noNames", "malformed"} \subseteq Outcome
      /\ "loaded" \in Outcome
  BY DEF Rows, Outcome
<1>2. ASSUME NEW error \in {"empty", "namesRequired", "noNames", "malformed"}, Fail(error)
      PROVE  Csv'
  BY <1>1, <1>2, FailCharged
<1>3. CASE /\ source.header => records # <<>>
           /\ source.header \/ source.names # Absent
           /\ \A i \in DOMAIN data : Len(data[i]) = Len(names)
           /\ columns' = names
           /\ rows' = [i \in DOMAIN data |-> [c \in DOMAIN names |-> CellOfText(data[i][c])]]
           /\ outcome' = "loaded"
           /\ UNCHANGED <<source, ceiling, at, held, csv, taken, pending>>
  <2>1. /\ Stripped \in Seq(Seq(Text)) /\ Len(Stripped) = Len(records)
        /\ RecordsCost(Stripped) <= RecordsCost(records)
        /\ RecordsCost(Stripped) \in Nat /\ RecordsCost(records) \in Nat
    <3>1. records \in Seq(Seq(Text)) /\ <<>> \in Seq(Text)
      BY DEF Csv, ScanInv
    <3>2. /\ Stripped \in Seq(Seq(Text)) /\ Len(Stripped) = Len(records)
          /\ RecordsCost(Stripped) <= RecordsCost(records)
      BY <3>1, StrippedIs
    <3>. QED
      BY <3>1, <3>2, RecordsAppend
  <2>2. records # <<>> => Stripped # <<>>
    <3>1. records \in Seq(Seq(Text))
      BY DEF Csv, ScanInv
    <3>. HIDE DEF data, names
    <3>. QED
      BY <2>1, <3>1
  <2>3. names \in Seq(Text)
    <3>1. source.names \in Seq(Text) \cup {Absent}
      BY SourceAssumption DEF Csv, ScanInv, Text
    <3>2. CASE source.names = Absent
      <4>1. Stripped # <<>>
        BY <1>3, <2>2, <3>2
      <4>. QED
        BY <2>1, <3>2, <4>1
    <3>. QED
      BY <3>1, <3>2
  <2>4. data \in Seq(Seq(Text)) /\ RecordsCost(data) <= RecordsCost(records)
        /\ RecordsCost(data) \in Nat
    <3>1. CASE source.header /\ records # <<>>
      <4>1. Stripped # <<>> /\ Tail(Stripped) \in Seq(Seq(Text)) /\ data = Tail(Stripped)
            /\ <<>> \in Seq(Text)
        BY <2>1, <2>2, <3>1
      <4>2. RecordsCost(Tail(Stripped)) <= RecordsCost(Stripped)
        BY <2>1, <4>1, RecordsTail
      <4>3. RecordsCost(Tail(Stripped)) \in Nat
        BY <4>1, RecordsAppend
      <4>. HIDE DEF data, names
      <4>. QED
        BY <2>1, <4>1, <4>2, <4>3
    <3>2. CASE ~(source.header /\ records # <<>>)
      BY <2>1, <3>2
    <3>. QED
      BY <3>1, <3>2
  <2>. HIDE DEF data, names
  <2>5. rows' = [i \in 1 .. Len(data) |-> [c \in 1 .. Len(data[i]) |-> CellOfText(data[i][c])]]
    <3>1. DOMAIN data = 1 .. Len(data) /\ DOMAIN names = 1 .. Len(names)
      BY <2>3, <2>4
    <3>2. \A i \in 1 .. Len(data) : DOMAIN names = 1 .. Len(data[i])
      BY <1>3, <3>1
    <3>. QED
      BY <1>3, <3>1, <3>2
  <2>6. RowsCost(rows') \in Nat /\ RowsCost(rows') <= RecordsCost(data)
    BY <2>4, <2>5, RowsAtMost
  <2>7. \A i \in DOMAIN rows' : DOMAIN rows'[i] = DOMAIN columns'
    BY <1>3
  <2>8. UNCHANGED <<source, ceiling, at, held, taken, state, started, afterCr, field, fields,
                    record, records>>
    BY <1>3 DEF csv
  <2>9. ScanInv'
    BY <1>1, <1>3, <2>8 DEF Csv, ScanInv
  <2>10. held = RecordsCost(records)
    BY DEF Csv, CsvCharged
  <2>11. RowsCost(rows') <= held'
    BY <2>1, <2>4, <2>6, <2>8, <2>10
  <2>12. CsvCharged'
    BY <1>3, <2>6, <2>7, <2>8, <2>11 DEF Csv, CsvCharged
  <2>. QED
    BY <2>8, <2>9, <2>12 DEF Csv
<1>. QED
  BY <1>2, <1>3 DEF Rows

-----------------------------------------------------------------------------
(* What a JSON document is charged.                                        *)

Json == ScanInv /\ JsonCharged /\ DocumentInv /\ source.format = "json"

(* Every row widened by a cell costs that cell's overhead more.            *)
LEMMA RowsRaised ==
  ASSUME NEW table \in Seq(Seq(Cell)), NEW m,
         \A i \in 1 .. Len(table) : m \in 1 .. Len(table[i]) + 1,
         NEW wide, wide = [i \in 1 .. Len(table) |-> InsertAt(table[i], m, Absent)]
  PROVE  RowsCost(wide) = RowsCost(table) + Len(table) * CellOverhead
<1>. DEFINE a == [i \in DOMAIN table |-> Footprint(table[i])]
            b == [i \in DOMAIN wide |-> Footprint(wide[i])]
            n == Len(table)
<1>1. /\ n \in Nat /\ DOMAIN table = 1 .. n /\ DOMAIN wide = 1 .. n
      /\ \A i \in 1 .. n : wide[i] = InsertAt(table[i], m, Absent) /\ table[i] \in Seq(Cell)
      /\ \A i \in 1 .. n : m \in 1 .. Len(table[i]) + 1
  OBVIOUS
<1>. HIDE DEF n
<1>2. /\ a = [i \in 1 .. n |-> a[i]] /\ b = [i \in 1 .. n |-> b[i]]
      /\ \A i \in 1 .. n : a[i] = Footprint(table[i])
      /\ \A i \in 1 .. n : b[i] = Footprint(wide[i])
  BY <1>1
<1>. HIDE DEF a, b
<1>3. ASSUME NEW i \in 1 .. n PROVE a[i] \in Nat /\ b[i] \in Nat /\ b[i] = a[i] + CellOverhead
  <2>1. Footprint(wide[i]) = Footprint(table[i]) + CellOverhead /\ Footprint(table[i]) \in Nat
    BY <1>1, FootprintInserted, FootprintIs
  <2>2. a[i] = Footprint(table[i]) /\ b[i] = Footprint(wide[i])
    BY <1>2
  <2>. QED
    BY <2>1, <2>2, Costs
<1>4. a \in Seq(Nat) /\ Len(a) = n /\ b \in Seq(Nat) /\ Len(b) = n
  <2>1. (\A i \in 1 .. n : a[i] \in Nat) /\ (\A i \in 1 .. n : b[i] \in Nat)
    BY <1>3
  <2>. QED
    BY <1>1, <1>2, <2>1, SeqIs
<1>5. Total(b) = Total(a) + Len(a) * CellOverhead
  <2>1. \A i \in 1 .. Len(a) : b[i] = a[i] + CellOverhead
    BY <1>3, <1>4
  <2>. QED
    BY <1>4, <2>1, TotalRaised, Costs
<1>. QED
  BY <1>4, <1>5 DEF RowsCost, a, b, n

(* The rows of a document are rows of cells, as wide as its columns.       *)
LEMMA DocumentRows ==
  ASSUME DocumentInv, source.format = "json"
  PROVE  /\ rows \in Seq(Seq(Cell)) /\ columns \in Seq(Nat)
         /\ \A i \in 1 .. Len(rows) : Len(rows[i]) = Len(columns)
<1>1. /\ source \in Sources /\ at \in 1 .. Len(source.body) + 1 /\ columns \in Seq(Nat)
      /\ rows \in Seq(Seq(Cells)) /\ Len(rows) = at - 1
      /\ \A i \in 1 .. at - 1 : rows[i] = RowOf(source.body[i].cells)
  BY DEF DocumentInv, ColumnsInv, RowsInv
<1>2. DOMAIN source.body = 1 .. Len(source.body) /\ Len(source.body) \in Nat
  BY <1>1, DocumentIs
<1>3. Cells \subseteq Cell
  <2>1. ASSUME NEW i \in DOMAIN source.body, NEW k \in KeysAt(i)
        PROVE  CellOfText(source.body[i].cells[k]) \in Cell
    <3>1. source.body[i].cells[k] \in Seq(STRING)
      BY <1>1, SourceAssumption DEF KeysAt
    <3>. QED
      BY <3>1 DEF CellOfText, Cell, Text
  <2>. QED
    BY <2>1 DEF Cells, Cell
<1>4. rows \in Seq(Seq(Cell))
  <2>1. Seq(Cells) \subseteq Seq(Cell)
    BY <1>3
  <2>. QED
    BY <1>1, <2>1
<1>5. ASSUME NEW i \in 1 .. Len(rows) PROVE Len(rows[i]) = Len(columns)
  <2>1. i \in DOMAIN source.body /\ i \in 1 .. at - 1
    BY <1>1, <1>2
  <2>. QED
    BY <1>1, <2>1, RowOfIs
<1>. QED
  BY <1>1, <1>4, <1>5

LEMMA WidenCharged ==
  ASSUME Json, Widen
  PROVE  ScanInv' /\ JsonCharged'
<1>. DEFINE key == Min(pending)
<1>1. /\ outcome = "reading" /\ taken /\ pending # {} /\ pending \subseteq KeysAt(at)
      /\ source \in Sources /\ source.format = "json" /\ at \in DOMAIN source.body
  BY DocumentIs DEF Widen, Walking, Json, DocumentInv, More, Keys, Element, KeysAt
<1>2. key \in Nat
  <2>1. pending \subseteq Nat
    BY <1>1, DocumentIs
  <2>. QED
    BY <1>1, <2>1, LeastOf
<1>3. columns \in Seq(Nat) /\ Sorted(columns)
  BY <1>1 DEF Json, DocumentInv, ColumnsInv
<1>. HIDE DEF key
<1>4. CASE UNCHANGED <<source, ceiling, at, parsed, held, csv, taken>> /\ outcome' \in Outcome
  BY <1>4 DEF Json, ScanInv, JsonCharged, parsed, csv
<1>5. "notAnArrayOfObjects" \in Outcome /\ outcome \in Outcome
  BY DEF Json, ScanInv, Outcome
<1>6. CASE /\ key \notin ToSet(columns) /\ rows' = RowsWidened(key) /\ held' = held + Widened
           /\ UNCHANGED <<source, ceiling, at, outcome, csv, taken>>
  <2>1. Place(key) \in 1 .. Len(columns) + 1
    BY <1>2, <1>3, <1>6, PlaceIs
  <2>2. /\ rows \in Seq(Seq(Cell)) /\ \A i \in 1 .. Len(rows) : Len(rows[i]) = Len(columns)
    BY DocumentRows DEF Json
  <2>3. rows' = [i \in 1 .. Len(rows) |-> InsertAt(rows[i], Place(key), Absent)]
    BY <1>6, <2>2 DEF RowsWidened
  <2>4. RowsCost(rows') = RowsCost(rows) + Len(rows) * CellOverhead
    BY <2>1, <2>2, <2>3, RowsRaised
  <2>5. held' = RowsCost(rows') /\ record' = record
    BY <1>6, <2>4 DEF Json, JsonCharged, Widened, csv
  <2>6. ScanInv'
    BY <1>6 DEF Json, ScanInv, csv
  <2>. QED
    BY <1>6, <2>5, <2>6 DEF Json, JsonCharged
<1>. QED
  BY <1>4, <1>5, <1>6 DEF Widen, Fail, key

LEMMA AddRowCharged ==
  ASSUME Json, AddRow
  PROVE  ScanInv' /\ JsonCharged'
<1>1. "over" \in Outcome /\ at \in DOMAIN source.body
  BY DocumentIs DEF AddRow, Json, DocumentInv, More, Outcome
<1>2. CASE Fail("over")
  BY <1>1, <1>2 DEF Fail, parsed, csv, Json, ScanInv, JsonCharged
<1>. DEFINE row == RowOf(source.body[at].cells)
<1>3. CASE /\ rows' = Append(rows, row) /\ held' = held + Footprint(row)
           /\ taken' = FALSE /\ at' = at + 1
           /\ UNCHANGED <<source, ceiling, outcome, columns, csv, pending>>
  <2>1. row \in Seq(Cell) /\ rows \in Seq(Seq(Cell))
    <3>1. columns \in Seq(Nat) /\ rows \in Seq(Seq(Cell))
      BY DocumentRows DEF Json
    <3>2. row = [c \in 1 .. Len(columns) |-> row[c]] /\ Len(columns) \in Nat
      BY <3>1 DEF RowOf
    <3>3. ASSUME NEW c \in 1 .. Len(columns) PROVE row[c] \in Cell
      <4>1. \A k \in DOMAIN source.body[at].cells : source.body[at].cells[k] \in Seq(STRING)
        BY <1>1, SourceAssumption DEF Json, ScanInv
      <4>. QED
        BY <3>1, <4>1 DEF RowOf, CellOfText, Cell, Text
    <3>. HIDE DEF row
    <3>. QED
      BY <3>1, <3>2, <3>3, SeqIs
  <2>2. RowsCost(rows') = RowsCost(rows) + Footprint(row)
    BY <1>3, <2>1, RowsAppend
  <2>3. held' = RowsCost(rows') /\ record' = record
    BY <1>3, <2>2 DEF Json, JsonCharged, csv
  <2>4. ScanInv'
    <3>1. UNCHANGED <<source, ceiling, outcome, state, started, afterCr, field, fields, records>>
          /\ taken' \in BOOLEAN
      BY <1>3 DEF csv
    <3>2. at' \in Nat \ {0}
      BY <1>3 DEF Json, ScanInv
    <3>. QED
      BY <3>1, <3>2 DEF Json, ScanInv
  <2>. QED
    BY <1>3, <2>3, <2>4 DEF Json, JsonCharged
<1>. QED
  BY <1>2, <1>3 DEF AddRow, Element

LEMMA TakeCharged ==
  ASSUME Json, Take \/ EndArray
  PROVE  ScanInv' /\ JsonCharged'
<1>1. /\ UNCHANGED <<source, ceiling, at, parsed, held, csv>> /\ outcome' \in Outcome
      /\ taken' \in BOOLEAN
  BY DEF Take, EndArray, Fail, Json, ScanInv, Outcome
<1>. QED
  BY <1>1 DEF Json, ScanInv, JsonCharged, parsed, csv

-----------------------------------------------------------------------------
LEMMA StepCharged == ChargedInv /\ [Next]_vars => ChargedInv'
<1>. SUFFICES ASSUME ChargedInv, [Next]_vars PROVE ChargedInv'
  OBVIOUS
<1>1. DocumentInv'
  BY StepDocument DEF ChargedInv
<1>2. source' = source
  BY DEF Next, vars, Feed, SkipLF, OpenQuote, EndField, EndLine, Unquoted, QuotedData, QuoteInside,
         DoubledQuote, TextAfterQuote, Push, Consume, Fail, Finish, Rows, Take, Widen, AddRow,
         EndArray
<1>3. CASE UNCHANGED vars
  BY <1>1, <1>3 DEF vars, csv, parsed, ChargedInv, ScanInv, CsvCharged, JsonCharged
<1>4. CASE Next /\ source.format = "csv"
  <2>1. Csv /\ ~Take /\ ~Widen /\ ~AddRow /\ ~EndArray
    BY <1>4 DEF ChargedInv, Csv, Take, Widen, AddRow, EndArray, Walking
  <2>2. Csv'
    BY <1>4, <2>1, FeedCharged, FinishCharged, RowsCharged DEF Next
  <2>. QED
    BY <1>1, <1>2, <1>4, <2>2 DEF Csv, ChargedInv, JsonCharged
<1>5. CASE Next /\ source.format = "json"
  <2>1. Json /\ ~Feed /\ ~Finish /\ ~Rows
    BY <1>5 DEF ChargedInv, Json, DocumentInv, Feed, SkipLF, OpenQuote, EndField, EndLine, Unquoted,
                QuotedData, QuoteInside, DoubledQuote, TextAfterQuote, Feeding, Finish, Rows
  <2>2. ScanInv' /\ JsonCharged'
    BY <1>5, <2>1, WidenCharged, AddRowCharged, TakeCharged DEF Next
  <2>. QED
    BY <1>1, <1>2, <1>5, <2>2 DEF ChargedInv, CsvCharged
<1>6. source.format \in {"csv", "json"}
  BY SourceAssumption DEF ChargedInv, ScanInv
<1>. QED
  BY <1>3, <1>4, <1>5, <1>6

LEMMA ChargedInvHolds == Spec => []ChargedInv
<1>1. Init => ChargedInv
  BY InitCharged, InitDocument DEF ChargedInv
<1>. QED
  BY <1>1, StepCharged, PTL DEF Spec

(* What the ceiling is told is held is what is held, whatever the file: a  *)
(* CSV's texts at every byte, a document's rows at every key, those that   *)
(* were widened after they were charged for included.                      *)
THEOREM HeldIsCharged == Spec => []Charged
<1>1. ChargedInv => Charged
  <2>. SUFFICES ASSUME ChargedInv PROVE Charged
    OBVIOUS
  <2>1. CASE source.format = "csv"
    BY <2>1 DEF ChargedInv, CsvCharged, Charged
  <2>2. CASE source.format = "json"
    <3>1. RowsCost(rows) \in Nat
      <4>1. rows \in Seq(Seq(Cell)) /\ <<>> \in Seq(Cell)
        BY <2>2, DocumentRows DEF ChargedInv
      <4>. QED
        BY <4>1, RowsAppend
    <3>. QED
      BY <2>2, <3>1 DEF ChargedInv, JsonCharged, Charged
  <2>3. source.format \in {"csv", "json"}
    BY SourceAssumption DEF ChargedInv, ScanInv
  <2>. QED
    BY <2>1, <2>2, <2>3
<1>. QED
  BY <1>1, ChargedInvHolds, PTL

(* A reader's fields stay within their limits and its rows as wide as its  *)
(* columns.                                                                *)
THEOREM ReaderTyped == Spec => []TypeOK
<1>1. ChargedInv => TypeOK
  <2>. SUFFICES ASSUME ChargedInv PROVE TypeOK
    OBVIOUS
  <2>1. CASE source.format = "csv"
    <3>1. held \in Nat /\ record \in Nat
      <4>1. /\ fields \in Seq(Text) /\ records \in Seq(Seq(Text))
            /\ <<>> \in Text /\ <<>> \in Seq(Text)
        BY DEF ChargedInv, ScanInv, Text
      <4>2. TextsCost(fields) \in Nat /\ RecordsCost(records) \in Nat
        BY <4>1, TextsAppend, RecordsAppend
      <4>3. held = RecordsCost(records) /\ record = TextsCost(fields)
        BY <2>1 DEF ChargedInv, CsvCharged
      <4>. QED
        BY <4>2, <4>3
    <3>2. at \in 1 .. Len(source.body) + 1
      <4>1. Len(source.body) \in Nat
        BY <2>1, SourceAssumption DEF ChargedInv, ScanInv
      <4>. QED
        BY <2>1, <4>1 DEF ChargedInv, ScanInv, CsvCharged
    <3>. QED
      BY <2>1, <3>1, <3>2 DEF ChargedInv, ScanInv, CsvCharged, TypeOK
  <2>2. CASE source.format = "json"
    <3>1. held \in Nat /\ record \in Nat
      <4>1. rows \in Seq(Seq(Cell)) /\ <<>> \in Seq(Cell)
        BY <2>2, DocumentRows DEF ChargedInv
      <4>2. RowsCost(rows) \in Nat
        BY <4>1, RowsAppend
      <4>3. held = RowsCost(rows) /\ record = 0
        BY <2>2 DEF ChargedInv, JsonCharged
      <4>. QED
        BY <4>2, <4>3
    <3>2. \A i \in DOMAIN rows : DOMAIN rows[i] = DOMAIN columns
      <4>1. /\ rows \in Seq(Seq(Cell)) /\ columns \in Seq(Nat)
            /\ \A i \in 1 .. Len(rows) : Len(rows[i]) = Len(columns)
        BY <2>2, DocumentRows DEF ChargedInv
      <4>. QED
        BY <4>1
    <3>. QED
      BY <2>2, <3>1, <3>2 DEF ChargedInv, ScanInv, DocumentInv, TypeOK
  <2>3. source.format \in {"csv", "json"}
    BY SourceAssumption DEF ChargedInv, ScanInv
  <2>. QED
    BY <2>1, <2>2, <2>3
<1>. QED
  BY <1>1, ChargedInvHolds, PTL
-----------------------------------------------------------------------------
(* The first elements of a sequence.                                       *)
First(s, n) == [i \in 1 .. n |-> s[i]]

(* The first none, the first all, and the first one more.                  *)
LEMMA FirstIs ==
  ASSUME NEW T, NEW s \in Seq(T)
  PROVE  /\ First(s, 0) = <<>> /\ First(s, Len(s)) = s
         /\ \A n \in 0 .. Len(s) : First(s, n) \in Seq(T) /\ Len(First(s, n)) = n
         /\ \A n \in 0 .. Len(s) - 1 : Append(First(s, n), s[n + 1]) = First(s, n + 1)
<1>1. Len(s) \in Nat /\ \A i \in 1 .. Len(s) : s[i] \in T
  OBVIOUS
<1>2. First(s, 0) = <<>>
  BY DEF First
<1>3. First(s, Len(s)) = s
  BY DEF First
<1>4. ASSUME NEW n \in 0 .. Len(s) PROVE First(s, n) \in Seq(T) /\ Len(First(s, n)) = n
  <2>1. n \in Nat /\ \A i \in 1 .. n : s[i] \in T
    BY <1>1
  <2>. QED
    BY <2>1 DEF First
<1>5. ASSUME NEW n \in 0 .. Len(s) - 1 PROVE Append(First(s, n), s[n + 1]) = First(s, n + 1)
  <2>1. n \in 0 .. Len(s) /\ n + 1 \in 0 .. Len(s)
    BY <1>1
  <2>2. /\ First(s, n) \in Seq(T) /\ Len(First(s, n)) = n
        /\ First(s, n + 1) \in Seq(T) /\ Len(First(s, n + 1)) = n + 1
    BY <1>4, <2>1
  <2>3. \A i \in 1 .. n : First(s, n)[i] = s[i]
    BY DEF First
  <2>4. \A i \in 1 .. n + 1 : First(s, n + 1)[i] = s[i]
    BY DEF First
  <2>5. s[n + 1] \in T
    BY <1>1, <2>1
  <2>. QED
    BY <2>2, <2>3, <2>4, <2>5
<1>. QED
  BY <1>2, <1>3, <1>4, <1>5

-----------------------------------------------------------------------------
(* Where each of the sequences that are put together starts.               *)
Starts(ss, f) ==
  /\ f \in [1 .. Len(ss) + 1 -> Nat] /\ f[1] = 0
  /\ \A i \in 1 .. Len(ss) : f[i + 1] = f[i] + Len(ss[i])

(* A place past x in what is w long lies within what that fits in.         *)
LEMMA WithinIs ==
  ASSUME NEW x \in Nat, NEW w \in Nat, NEW z \in Nat, x + w <= z, NEW m \in 1 .. w
  PROVE  x + m \in 1 .. z
OBVIOUS

(* The members of ss stand in all one behind the other, each from f.       *)
Laid(ss, f, all) ==
  /\ Starts(ss, f) /\ Len(all) = f[Len(ss) + 1]
  /\ \A i \in 1 .. Len(ss) + 1 : f[i] <= Len(all)
  /\ \A i \in 1 .. Len(ss) : \A m \in 1 .. Len(ss[i]) : all[f[i] + m] = ss[i][m]

(* What stands where in two sequences put together.                        *)
LEMMA ConcatIs ==
  ASSUME NEW S, NEW x \in Seq(S), NEW y \in Seq(S)
  PROVE  /\ x \o y \in Seq(S) /\ Len(x \o y) = Len(x) + Len(y)
         /\ Len(x) \in Nat /\ Len(y) \in Nat
         /\ \A m \in 1 .. Len(x) : (x \o y)[m] = x[m]
         /\ \A m \in 1 .. Len(y) : (x \o y)[Len(x) + m] = y[m]
<1>1. \A m \in 1 .. Len(y) : Len(x) + m > Len(x) /\ Len(x) + m - Len(x) = m /\ Len(x) + m \in 1 .. Len(x) + Len(y)
  OBVIOUS
<1>2. \A k \in 1 .. Len(x) + Len(y) : (x \o y)[k] = IF k <= Len(x) THEN x[k] ELSE y[k - Len(x)]
  OBVIOUS
<1>3. \A m \in 1 .. Len(x) : m <= Len(x) /\ m \in 1 .. Len(x) + Len(y)
  OBVIOUS
<1>. QED
  BY <1>1, <1>2, <1>3

(* Putting members together one at a time lays them out.                   *)
LEMMA LaidMore ==
  ASSUME NEW S, NEW ss \in Seq(Seq(S)), NEW e, Passes(Len(ss), Seq(S), <<>>,
           [i \in 1 .. Len(ss) |-> [x \in Seq(S) |-> x \o ss[i]]], e)
  PROVE  \E f : Laid(ss, f, e[Len(ss)])
<1>. DEFINE n == Len(ss)
            f == [i \in 1 .. n + 1 |-> Len(e[i - 1])]
<1>1. n \in Nat /\ \A i \in 1 .. n : ss[i] \in Seq(S) /\ Len(ss[i]) \in Nat
  OBVIOUS
<1>2. /\ e \in [0 .. n -> Seq(S)] /\ e[0] = <<>>
      /\ \A i \in 1 .. n : e[i] = e[i - 1] \o ss[i] /\ e[i - 1] \in Seq(S)
  <2>1. e \in [0 .. n -> Seq(S)] /\ e[0] = <<>>
    BY DEF Passes
  <2>2. ASSUME NEW i \in 1 .. n PROVE e[i] = e[i - 1] \o ss[i] /\ e[i - 1] \in Seq(S)
    <3>1. i - 1 \in 0 .. n
      BY <1>1
    <3>2. e[i] = [j \in 1 .. n |-> [x \in Seq(S) |-> x \o ss[j]]][i][e[i - 1]]
      BY DEF Passes
    <3>. QED
      BY <2>1, <3>1, <3>2
  <2>. QED
    BY <2>1, <2>2
<1>3. ASSUME NEW i \in 1 .. n
      PROVE  /\ Len(e[i]) = Len(e[i - 1]) + Len(ss[i]) /\ Len(e[i - 1]) \in Nat /\ Len(e[i]) \in Nat
             /\ \A m \in 1 .. Len(e[i - 1]) : e[i][m] = e[i - 1][m]
             /\ \A m \in 1 .. Len(ss[i]) : e[i][Len(e[i - 1]) + m] = ss[i][m]
  <2>1. e[i] = e[i - 1] \o ss[i] /\ e[i - 1] \in Seq(S) /\ ss[i] \in Seq(S)
    BY <1>1, <1>2
  <2>2. PICK x \in Seq(S) : x = e[i - 1]
    BY <2>1
  <2>3. PICK y \in Seq(S) : y = ss[i]
    BY <2>1
  <2>4. e[i] = x \o y
    BY <2>1, <2>2, <2>3
  <2>5. /\ Len(x \o y) = Len(x) + Len(y) /\ Len(x) \in Nat /\ Len(y) \in Nat
        /\ \A m \in 1 .. Len(x) : (x \o y)[m] = x[m]
        /\ \A m \in 1 .. Len(y) : (x \o y)[Len(x) + m] = y[m]
    BY ConcatIs
  <2>6. Len(x) + Len(y) \in Nat
    BY <2>5
  <2>. QED
    BY <2>2, <2>3, <2>4, <2>5, <2>6, Zenon
<1>4. f \in [1 .. n + 1 -> Nat] /\ f[1] = 0 /\ \A i \in 1 .. n : f[i + 1] = Len(e[i]) /\ f[i] = Len(e[i - 1])
  <2>1. ASSUME NEW i \in 1 .. n + 1 PROVE Len(e[i - 1]) \in Nat
    <3>1. i - 1 \in 0 .. n
      BY <1>1
    <3>. QED
      BY <1>2, <3>1
  <2>2. f[1] = 0
    BY <1>1, <1>2
  <2>3. \A i \in 1 .. n : (i + 1) - 1 = i /\ i + 1 \in 1 .. n + 1 /\ i \in 1 .. n + 1
    BY <1>1
  <2>4. \A i \in 1 .. n : f[i + 1] = Len(e[(i + 1) - 1])
    BY <2>3
  <2>. QED
    BY <1>1, <2>1, <2>2, <2>3, <2>4
<1>. HIDE DEF f
<1>5. Starts(ss, f)
  BY <1>3, <1>4 DEF Starts
<1>. DEFINE Kept(k) == \A i \in 1 .. k :
                         /\ f[i + 1] <= Len(e[k])
                         /\ \A m \in 1 .. Len(ss[i]) : e[k][f[i] + m] = ss[i][m]
            Good == {k \in 0 .. n : Kept(k)}
<1>6. 0 \in Good
  BY <1>1
<1>7. ASSUME NEW k \in 1 .. n, k - 1 \in Good PROVE k \in Good
  <2>1. k - 1 \in 0 .. n /\ k \in 0 .. n /\ Kept(k - 1)
    BY <1>7
  <2>2. ASSUME NEW i \in 1 .. k
        PROVE  /\ f[i + 1] <= Len(e[k])
               /\ \A m \in 1 .. Len(ss[i]) : e[k][f[i] + m] = ss[i][m]
    <3>1. i \in 1 .. n /\ f[i] \in Nat /\ f[i + 1] \in Nat /\ f[i + 1] = f[i] + Len(ss[i])
      <4>1. i \in 1 .. n /\ i \in 1 .. n + 1 /\ i + 1 \in 1 .. n + 1
        BY <1>1
      <4>. QED
        BY <1>4, <1>5, <4>1 DEF Starts
    <3>2. CASE i = k
      <4>1. f[k] = Len(e[k - 1]) /\ f[k + 1] = Len(e[k])
        BY <1>4, <3>1, <3>2
      <4>2. \A m \in 1 .. Len(ss[k]) : e[k][Len(e[k - 1]) + m] = ss[k][m]
        BY <1>3, <3>1, <3>2
      <4>3. f[k + 1] <= Len(e[k])
        BY <3>1, <3>2, <4>1
      <4>4. \A m \in 1 .. Len(ss[k]) : e[k][f[k] + m] = ss[k][m]
        BY <4>1, <4>2, Zenon
      <4>. QED
        BY <3>2, <4>3, <4>4, Zenon
    <3>3. CASE i # k
      <4>1. i \in 1 .. k - 1
        BY <3>3
      <4>2. f[i + 1] <= Len(e[k - 1]) /\ \A m \in 1 .. Len(ss[i]) : e[k - 1][f[i] + m] = ss[i][m]
        BY <2>1, <4>1
      <4>3. Len(e[k]) = Len(e[k - 1]) + Len(ss[k]) /\ Len(e[k - 1]) \in Nat /\ Len(ss[k]) \in Nat
            /\ \A m \in 1 .. Len(e[k - 1]) : e[k][m] = e[k - 1][m]
        BY <1>1, <1>3
      <4>4. ASSUME NEW m \in 1 .. Len(ss[i]) PROVE e[k][f[i] + m] = ss[i][m]
        <5>1. f[i] + m \in 1 .. Len(e[k - 1])
          <6>. DEFINE b == f[i + 1]
                      l == Len(ss[i])
                      z == Len(e[k - 1])
          <6>1. f[i] \in Nat /\ b = f[i] + l /\ b <= z /\ z \in Nat /\ m \in 1 .. l /\ l \in Nat
            BY <1>1, <3>1, <4>2, <4>3
          <6>. HIDE DEF b, l, z
          <6>2. f[i] + m \in 1 .. z
            BY <6>1, WithinIs
          <6>. QED
            BY <6>2 DEF z
        <5>. QED
          BY <4>2, <4>3, <5>1
      <4>. QED
        <5>. DEFINE b == f[i + 1]
                    l == Len(ss[k])
                    z == Len(e[k - 1])
                    y == Len(e[k])
        <5>1. b \in Nat /\ b <= z /\ z \in Nat /\ l \in Nat /\ y = z + l
          BY <3>1, <4>2, <4>3
        <5>. HIDE DEF b, l, z, y
        <5>2. b <= y
          BY <5>1
        <5>3. f[i + 1] <= Len(e[k])
          BY <5>2 DEF b, y
        <5>. QED
          BY <4>4, <5>3, Zenon
    <3>. QED
      BY <3>2, <3>3
  <2>. QED
    BY <2>1, <2>2
<1>. HIDE DEF Good
<1>8. n \in Good
  <2>. HIDE DEF n
  <2>1. \A i \in 0 .. n : i \in Good
    BY <1>1, <1>6, <1>7, UpTo
  <2>. QED
    BY <1>1, <2>1
<1>9. Kept(n)
  BY <1>8 DEF Good
<1>10. Len(e[n]) = f[n + 1]
  <2>1. CASE n = 0
    BY <1>2, <1>4, <2>1
  <2>2. CASE n # 0
    <3>1. n \in 1 .. n
      BY <1>1, <2>2
    <3>. QED
      BY <1>4, <3>1, Zenon
  <2>. QED
    BY <2>1, <2>2
<1>11. ASSUME NEW i \in 1 .. n + 1 PROVE f[i] <= Len(e[n])
  <2>1. CASE i = n + 1
    BY <1>4, <1>10, <2>1
  <2>2. CASE i # n + 1
    <3>1. i \in 1 .. n
      BY <1>1, <2>2
    <3>2. f[i + 1] <= Len(e[n]) /\ f[i + 1] = f[i] + Len(ss[i]) /\ f[i] \in Nat /\ Len(ss[i]) \in Nat
      BY <1>1, <1>4, <1>5, <1>9, <3>1 DEF Starts
    <3>3. Len(e[n]) \in Nat
      BY <1>1, <1>2
    <3>. QED
      BY <3>2, <3>3
  <2>. QED
    BY <2>1, <2>2
<1>12. Laid(ss, f, e[n])
  BY <1>5, <1>9, <1>10, <1>11 DEF Laid
<1>. QED
  BY <1>12

(* Sequences put together are each where the ones before it end.           *)
LEMMA FlattenIs ==
  ASSUME NEW S, NEW ss \in Seq(Seq(S))
  PROVE  FlattenSeq(ss) \in Seq(S) /\ \E f : Laid(ss, f, FlattenSeq(ss))
<1>. DEFINE n == Len(ss)
            g == [i \in 1 .. n |-> [x \in Seq(S) |-> x \o ss[i]]]
            flattens(f) == f = [i \in 1 .. n |-> IF i = 1 THEN ss[i] ELSE f[i - 1] \o ss[i]]
            flatten == CHOOSE f : flattens(f)
<1>1. n \in Nat /\ \A i \in 1 .. n : ss[i] \in Seq(S)
  OBVIOUS
<1>2. g \in [1 .. n -> [Seq(S) -> Seq(S)]]
  BY <1>1
<1>3. <<>> \in Seq(S)
  OBVIOUS
<1>4. PICK e : Passes(n, Seq(S), <<>>, g, e)
  <2>. DEFINE T == Seq(S)
  <2>1. <<>> \in T /\ g \in [1 .. n -> [T -> T]]
    BY <1>2, <1>3
  <2>. HIDE DEF g, n, T
  <2>2. \E e : Passes(n, T, <<>>, g, e)
    BY <1>1, <2>1, Iterates
  <2>. QED
    BY <2>2 DEF T
<1>5. e \in [0 .. n -> Seq(S)] /\ e[0] = <<>> /\ \A i \in 1 .. n : e[i] = e[i - 1] \o ss[i]
  <2>1. e \in [0 .. n -> Seq(S)] /\ e[0] = <<>>
    BY <1>4 DEF Passes
  <2>2. ASSUME NEW i \in 1 .. n PROVE e[i] = e[i - 1] \o ss[i]
    <3>1. i - 1 \in 0 .. n
      BY <1>1
    <3>2. e[i] = g[i][e[i - 1]]
      BY <1>4 DEF Passes
    <3>. QED
      BY <2>1, <3>1, <3>2
  <2>. QED
    BY <2>1, <2>2
<1>6. PICK f : Laid(ss, f, e[n])
  BY <1>4, LaidMore
<1>7. CASE n = 0
  <2>1. ss = <<>> /\ FlattenSeq(ss) = ss
    BY <1>7 DEF FlattenSeq
  <2>2. e[n] = <<>>
    BY <1>5, <1>7
  <2>. QED
    BY <1>3, <1>6, <2>1, <2>2
<1>8. CASE n # 0
  <2>. DEFINE d == [i \in 1 .. n |-> e[i]]
  <2>1. flattens(d)
    <3>1. ASSUME NEW i \in 1 .. n PROVE e[i] = IF i = 1 THEN ss[i] ELSE d[i - 1] \o ss[i]
      <4>1. CASE i = 1
        <5>1. e[1] = e[0] \o ss[1]
          <6>1. 1 \in 1 .. n /\ 1 - 1 = 0
            BY <4>1
          <6>2. e[1] = e[1 - 1] \o ss[1]
            BY <1>5, <6>1, Zenon
          <6>. QED
            BY <6>1, <6>2
        <5>2. <<>> \o ss[1] = ss[1]
          BY <1>1, <4>1
        <5>. QED
          BY <1>5, <4>1, <5>1, <5>2
      <4>2. CASE i # 1
        <5>1. i - 1 \in 1 .. n
          BY <1>1, <4>2
        <5>2. d[i - 1] = e[i - 1]
          BY <5>1
        <5>. QED
          BY <1>5, <4>2, <5>2
      <4>. QED
        BY <4>1, <4>2
    <3>. HIDE DEF n
    <3>. QED
      BY <3>1
  <2>2. flattens(flatten)
    <3>. HIDE DEF flattens
    <3>. QED
      BY <2>1, Zenon
  <2>. HIDE DEF flatten
  <2>3. \A i \in 1 .. n : flatten[i] = IF i = 1 THEN ss[i] ELSE flatten[i - 1] \o ss[i]
    <3>. HIDE DEF n
    <3>. QED
      BY <2>2
  <2>. DEFINE Good == {i \in Nat : i + 1 \in 1 .. n => flatten[i + 1] = e[i + 1]}
  <2>4. 0 \in Good
    <3>1. flatten[1] = ss[1] /\ e[1] = e[0] \o ss[1] /\ ss[1] \in Seq(S)
      <4>1. 1 \in 1 .. n /\ 1 - 1 = 0
        BY <1>1, <1>8
      <4>2. e[1] = e[1 - 1] \o ss[1]
        BY <1>5, <4>1, Zenon
      <4>3. flatten[1] = IF 1 = 1 THEN ss[1] ELSE flatten[1 - 1] \o ss[1]
        BY <2>3, <4>1, Zenon
      <4>. QED
        BY <1>1, <4>1, <4>2, <4>3
    <3>2. <<>> \o ss[1] = ss[1]
      BY <3>1
    <3>. QED
      BY <1>5, <3>1, <3>2
  <2>5. ASSUME NEW i \in Nat, i \in Good PROVE i + 1 \in Good
    <3>1. SUFFICES ASSUME i + 2 \in 1 .. n PROVE flatten[i + 2] = e[i + 2]
      OBVIOUS
    <3>2. i + 1 \in 1 .. n /\ i + 2 # 1 /\ (i + 2) - 1 = i + 1
      BY <1>1, <3>1
    <3>3. flatten[i + 2] = flatten[(i + 2) - 1] \o ss[i + 2]
      BY <2>3, <3>1, <3>2
    <3>4. e[i + 2] = e[(i + 2) - 1] \o ss[i + 2]
      BY <1>5, <3>1
    <3>5. flatten[i + 1] = e[i + 1]
      BY <2>5, <3>2
    <3>. QED
      BY <3>2, <3>3, <3>4, <3>5
  <2>. HIDE DEF Good
  <2>6. n - 1 \in Good
    <3>1. \A i \in Nat : i \in Good
      BY <2>4, <2>5, Induction
    <3>2. n - 1 \in Nat
      BY <1>1, <1>8
    <3>. QED
      BY <3>1, <3>2
  <2>7. flatten[n] = e[n]
    <3>1. n - 1 + 1 = n /\ n \in 1 .. n
      BY <1>1, <1>8
    <3>. QED
      BY <2>6, <3>1 DEF Good
  <2>8. FlattenSeq(ss) = flatten[n]
    BY <1>8 DEF FlattenSeq, flatten, flattens
  <2>9. e[n] \in Seq(S)
    BY <1>1, <1>5
  <2>. QED
    BY <1>6, <2>7, <2>8, <2>9
<1>. QED
  BY <1>7, <1>8

-----------------------------------------------------------------------------
(* A text stands in a body after so many bytes of it.                      *)
Stands(body, p, text) == \A m \in 1 .. Len(text) : body[p + m] = text[m]

(* A quoted text between two positions of a body, each of its bytes after  *)
(* the one before and a quote twice.                                       *)
Spelled(body, t, p, e, D) ==
  /\ D \in [1 .. Len(t) + 1 -> Nat] /\ D[1] = p + 1 /\ body[p + 1] = Quote
  /\ \A k \in 1 .. Len(t) :
       /\ D[k + 1] = D[k] + (IF t[k] = Quote THEN 2 ELSE 1)
       /\ body[D[k] + 1] = t[k] /\ (t[k] = Quote => body[D[k] + 2] = Quote)
  /\ \A k \in 1 .. Len(t) + 1 : D[k] < e
  /\ e = D[Len(t) + 1] + 1 /\ body[e] = Quote

(* What may stand in a body unquoted.                                      *)
Plain(t) == ~Has(t, {Delimiter, LF, CR}) /\ (t # <<>> => t[1] # Quote)

(* A field between two positions, as it is written.                        *)
FieldLaid(body, t, quoted, p, e) ==
  IF quoted THEN \E D : Spelled(body, t, p, e, D)
  ELSE Plain(t) /\ e = p + Len(t) /\ Stands(body, p, t)

(* The fields of a record, each after a delimiter but the first.           *)
RecordLaid(body, r, p, e, P, E, Q) ==
  /\ P \in [DOMAIN r -> Nat] /\ E \in [DOMAIN r -> Nat] /\ Q \in [DOMAIN r -> BOOLEAN]
  /\ P[1] = p /\ E[Len(r)] = e /\ p < e
  /\ \A c \in DOMAIN r : FieldLaid(body, r[c], Q[c], P[c], E[c]) /\ P[c] <= E[c] /\ E[c] <= e
  /\ \A c \in 1 .. Len(r) - 1 : E[c] < e /\ P[c + 1] = E[c] + 1 /\ body[E[c] + 1] = Delimiter

(* The records of a table, with line ends between them and after the last. *)
TableLaid(body, table, P, E) ==
  /\ P \in [DOMAIN table -> Nat] /\ E \in [DOMAIN table -> Nat]
  /\ P[1] = 0
  /\ \A i \in DOMAIN table :
       /\ E[i] <= Len(body)
       /\ \E p, e, q : RecordLaid(body, table[i], P[i], E[i], p, e, q)
  /\ \A i \in 1 .. Len(table) - 1 :
       E[i] < P[i + 1] /\ P[i + 1] <= Len(body) /\ \A b \in E[i] + 1 .. P[i + 1] : body[b] \in {LF, CR}
  /\ \A b \in E[Len(table)] + 1 .. Len(body) : body[b] \in {LF, CR}

-----------------------------------------------------------------------------
(* One byte is a text, and so are two.                                     *)
LEMMA OneByte ==
  ASSUME NEW b \in STRING, NEW d \in STRING
  PROVE  <<b>> \in Text /\ <<b, d>> \in Text
<1>1. ASSUME NEW S, NEW x \in S, NEW y \in S PROVE <<x>> \in Seq(S) /\ <<x, y>> \in Seq(S)
  OBVIOUS
<1>. QED
  BY <1>1 DEF Text

(* The bytes between the quotes of a quoted text.                          *)
Doubled(t) == [i \in DOMAIN t |-> IF t[i] = Quote THEN <<Quote, Quote>> ELSE <<t[i]>>]

(* A quoted text is its doubled bytes between two quotes.                  *)
LEMMA QuotedIs ==
  ASSUME NEW t \in Text
  PROVE  /\ Quoted(t) \in Text
         /\ Doubled(t) \in Seq(Text) /\ Len(Doubled(t)) = Len(t)
         /\ \E F \in Text :
              /\ \E f : Laid(Doubled(t), f, F)
              /\ Len(Quoted(t)) = Len(F) + 2 /\ Quoted(t)[1] = Quote
              /\ Quoted(t)[Len(F) + 2] = Quote
              /\ \A m \in 1 .. Len(F) : Quoted(t)[m + 1] = F[m]
<1>. DEFINE ss == Doubled(t)
            n == Len(t)
<1>1. n \in Nat /\ DOMAIN t = 1 .. n /\ \A k \in 1 .. n : t[k] \in STRING
  BY DEF Text
<1>2. /\ ss \in Seq(Text) /\ Len(ss) = n
      /\ \A k \in 1 .. n : ss[k] = IF t[k] = Quote THEN <<Quote, Quote>> ELSE <<t[k]>>
  <2>1. \A k \in 1 .. n : (IF t[k] = Quote THEN <<Quote, Quote>> ELSE <<t[k]>>) \in Text
    <3>1. Quote \in STRING
      BY BytesAssumption
    <3>2. \A k \in 1 .. n : <<Quote, Quote>> \in Text /\ <<t[k]>> \in Text
      BY <1>1, <3>1, OneByte
    <3>. QED
      BY <3>2
  <2>. QED
    BY <1>1, <2>1 DEF Doubled
<1>. HIDE DEF ss
<1>3. FlattenSeq(ss) \in Text /\ \E f : Laid(ss, f, FlattenSeq(ss))
  BY <1>2, FlattenIs DEF Text
<1>4. PICK F \in Text : F = FlattenSeq(ss)
  BY <1>3
<1>5. PICK f : Laid(ss, f, F)
  BY <1>3, <1>4
<1>6. Quoted(t) = (<<Quote>> \o F) \o <<Quote>>
  BY <1>4 DEF Quoted, Doubled, ss
<1>7. PICK L \in Nat : L = Len(F)
  BY DEF Text
<1>8. PICK h \in Text : h = <<Quote>>
  <2>1. Quote \in STRING
    BY BytesAssumption
  <2>. QED
    BY <2>1, OneByte
<1>9. Len(h) = 1 /\ h[1] = Quote
  BY <1>8
<1>10. PICK g \in Text : g = h \o F
  BY <1>8, ConcatIs DEF Text
<1>11. Len(g) = L + 1 /\ g[1] = Quote /\ \A m \in 1 .. L : g[1 + m] = F[m]
  <2>1. /\ Len(h \o F) = Len(h) + Len(F) /\ \A m \in 1 .. Len(h) : (h \o F)[m] = h[m]
        /\ \A m \in 1 .. Len(F) : (h \o F)[Len(h) + m] = F[m]
    BY ConcatIs DEF Text
  <2>. QED
    BY <1>7, <1>9, <1>10, <2>1
<1>12. /\ Quoted(t) \in Text /\ Len(Quoted(t)) = L + 2
       /\ \A m \in 1 .. L + 1 : Quoted(t)[m] = g[m]
       /\ Quoted(t)[L + 2] = Quote
  <2>1. Quoted(t) = g \o h
    BY <1>6, <1>8, <1>10
  <2>2. /\ g \o h \in Text /\ Len(g \o h) = Len(g) + Len(h)
        /\ \A m \in 1 .. Len(g) : (g \o h)[m] = g[m]
        /\ \A m \in 1 .. Len(h) : (g \o h)[Len(g) + m] = h[m]
    BY ConcatIs DEF Text
  <2>3. 1 \in 1 .. Len(h) /\ Len(g) + 1 = L + 2
    BY <1>7, <1>9, <1>11
  <2>4. (g \o h)[Len(g) + 1] = h[1]
    BY <2>2, <2>3
  <2>. QED
    BY <1>9, <1>11, <2>1, <2>2, <2>3, <2>4
<1>13. ASSUME NEW m \in 1 .. L PROVE Quoted(t)[m + 1] = F[m]
  <2>1. m + 1 \in 1 .. L + 1 /\ m + 1 = 1 + m
    OBVIOUS
  <2>. QED
    BY <1>11, <1>12, <2>1
<1>14. Quoted(t)[1] = Quote
  <2>1. 1 \in 1 .. L + 1
    OBVIOUS
  <2>. QED
    BY <1>11, <1>12, <2>1
<1>. QED
  BY <1>2, <1>5, <1>7, <1>12, <1>13, <1>14 DEF ss

(* Where a quoted text stands, it is spelled out byte by byte.             *)
LEMMA SpelledIn ==
  ASSUME NEW body, NEW t \in Text, NEW p \in Nat, Stands(body, p, Quoted(t))
  PROVE  \E D : Spelled(body, t, p, p + Len(Quoted(t)), D)
<1>. DEFINE ss == Doubled(t)
            n == Len(t)
<1>1. n \in Nat
  BY DEF Text
<1>2. \A k \in 1 .. n : ss[k] = IF t[k] = Quote THEN <<Quote, Quote>> ELSE <<t[k]>>
  BY DEF Doubled, Text
<1>3. PICK F \in Text :
        /\ \E f : Laid(ss, f, F)
        /\ Len(Quoted(t)) = Len(F) + 2 /\ Quoted(t)[1] = Quote
        /\ Quoted(t)[Len(F) + 2] = Quote
        /\ \A m \in 1 .. Len(F) : Quoted(t)[m + 1] = F[m]
  BY QuotedIs
<1>4. Len(ss) = n
  BY QuotedIs
<1>. HIDE DEF ss
<1>5. PICK f : Laid(ss, f, F)
  BY <1>3
<1>7. PICK L \in Nat : L = Len(F)
  BY DEF Text
<1>13. body[p + 1] = Quote /\ body[p + (L + 2)] = Quote /\ \A m \in 1 .. L : body[p + 1 + m] = F[m]
  <2>1. \A m \in 1 .. L + 2 : body[p + m] = Quoted(t)[m]
    BY <1>3, <1>7 DEF Stands
  <2>2. 1 \in 1 .. L + 2 /\ L + 2 \in 1 .. L + 2
    OBVIOUS
  <2>3. ASSUME NEW m \in 1 .. L PROVE body[p + 1 + m] = F[m]
    <3>1. m + 1 \in 1 .. L + 2 /\ p + (m + 1) = p + 1 + m
      OBVIOUS
    <3>2. body[p + (m + 1)] = Quoted(t)[m + 1]
      BY <2>1, <3>1
    <3>. QED
      BY <1>3, <1>7, <3>1, <3>2
  <2>4. body[p + 1] = Quoted(t)[1] /\ body[p + (L + 2)] = Quoted(t)[L + 2]
    BY <2>1, <2>2
  <2>. QED
    BY <1>3, <1>7, <2>3, <2>4
<1>. DEFINE D == [k \in 1 .. n + 1 |-> p + 1 + f[k]]
<1>14. /\ f \in [1 .. n + 1 -> Nat] /\ f[1] = 0 /\ f[n + 1] = L
       /\ \A k \in 1 .. n : f[k + 1] = f[k] + Len(ss[k])
       /\ \A k \in 1 .. n + 1 : f[k] <= L
       /\ \A k \in 1 .. n : \A m \in 1 .. Len(ss[k]) : F[f[k] + m] = ss[k][m]
  BY <1>4, <1>5, <1>7 DEF Laid, Starts
<1>15. ASSUME NEW k \in 1 .. n
       PROVE  /\ D[k + 1] = D[k] + (IF t[k] = Quote THEN 2 ELSE 1)
              /\ body[D[k] + 1] = t[k] /\ (t[k] = Quote => body[D[k] + 2] = Quote)
  <2>1. k \in 1 .. n + 1 /\ k + 1 \in 1 .. n + 1 /\ f[k] \in Nat /\ f[k + 1] \in Nat
    <3>1. k \in 1 .. n + 1 /\ k + 1 \in 1 .. n + 1
      BY <1>1
    <3>. QED
      BY <1>14, <3>1
  <2>2. D[k] = p + 1 + f[k] /\ D[k + 1] = p + 1 + f[k + 1]
    BY <2>1
  <2>3. CASE t[k] = Quote
    <3>1. ss[k] = <<Quote, Quote>>
      BY <1>2, <2>3
    <3>2. Len(ss[k]) = 2 /\ ss[k][1] = Quote /\ ss[k][2] = Quote
      BY <3>1
    <3>3. F[f[k] + 1] = Quote /\ F[f[k] + 2] = Quote /\ f[k + 1] = f[k] + 2 /\ f[k + 1] <= L
      <4>1. 1 \in 1 .. Len(ss[k]) /\ 2 \in 1 .. Len(ss[k])
        BY <3>2
      <4>2. F[f[k] + 1] = ss[k][1] /\ F[f[k] + 2] = ss[k][2]
        BY <1>14, <4>1
      <4>. QED
        BY <1>14, <2>1, <3>2, <4>2
    <3>4. f[k] + 1 \in 1 .. L /\ f[k] + 2 \in 1 .. L
      BY <2>1, <3>3
    <3>5. body[p + 1 + (f[k] + 1)] = Quote /\ body[p + 1 + (f[k] + 2)] = Quote
      BY <1>13, <3>3, <3>4
    <3>6. p + 1 + (f[k] + 1) = D[k] + 1 /\ p + 1 + (f[k] + 2) = D[k] + 2 /\ D[k + 1] = D[k] + 2
      <4>1. PICK y \in Nat : y = f[k]
        BY <2>1
      <4>2. D[k] = p + 1 + y /\ D[k + 1] = p + 1 + (y + 2)
        BY <2>2, <3>3, <4>1
      <4>3. p + 1 + (y + 1) = p + 1 + y + 1 /\ p + 1 + (y + 2) = p + 1 + y + 2
        OBVIOUS
      <4>. HIDE DEF D
      <4>. QED
        BY <4>1, <4>2, <4>3
    <3>. QED
      BY <2>3, <3>5, <3>6
  <2>4. CASE t[k] # Quote
    <3>1. ss[k] = <<t[k]>>
      BY <1>2, <2>4
    <3>2. Len(ss[k]) = 1 /\ ss[k][1] = t[k]
      BY <3>1
    <3>3. F[f[k] + 1] = t[k] /\ f[k + 1] = f[k] + 1 /\ f[k + 1] <= L
      <4>1. 1 \in 1 .. Len(ss[k])
        BY <3>2
      <4>2. F[f[k] + 1] = ss[k][1]
        BY <1>14, <4>1
      <4>. QED
        BY <1>14, <2>1, <3>2, <4>2
    <3>4. f[k] + 1 \in 1 .. L
      BY <2>1, <3>3
    <3>5. body[p + 1 + (f[k] + 1)] = t[k]
      BY <1>13, <3>3, <3>4
    <3>6. p + 1 + (f[k] + 1) = D[k] + 1 /\ D[k + 1] = D[k] + 1
      BY <2>1, <2>2, <3>3
    <3>. QED
      BY <2>4, <3>5, <3>6
  <2>. QED
    BY <2>3, <2>4
<1>16. D \in [1 .. n + 1 -> Nat]
  BY <1>14
<1>17. D[1] = p + 1 /\ D[n + 1] = p + 1 + L
  BY <1>1, <1>14
<1>18. ASSUME NEW k \in 1 .. n + 1 PROVE D[k] < p + (L + 2)
  <2>1. f[k] \in Nat /\ f[k] <= L
    BY <1>14
  <2>. QED
    BY <2>1
<1>. HIDE DEF D
<1>19. p + (L + 2) = D[n + 1] + 1
  BY <1>17
<1>20. Spelled(body, t, p, p + (L + 2), D)
  BY <1>13, <1>15, <1>16, <1>17, <1>18, <1>19 DEF Spelled
<1>. QED
  BY <1>3, <1>7, <1>20

(* A field is published as text.                                           *)
LEMMA FieldText ==
  ASSUME NEW t \in Text, NEW how, NEW alone
  PROVE  FieldBytes(t, how, alone) \in Text
BY QuotedIs DEF FieldBytes

(* Where a field stands it is laid out, and takes room if alone.           *)
LEMMA FieldIn ==
  ASSUME NEW body, NEW t \in Text, NEW p \in Nat, NEW how, NEW alone \in BOOLEAN,
         how.quoteAll \in BOOLEAN, Stands(body, p, FieldBytes(t, how, alone))
  PROVE  /\ FieldLaid(body, t, how.quoteAll \/ MustQuote(t, alone), p,
                      p + Len(FieldBytes(t, how, alone)))
         /\ (alone => Len(FieldBytes(t, how, alone)) > 0)
<1>1. CASE how.quoteAll \/ MustQuote(t, alone)
  <2>1. FieldBytes(t, how, alone) = Quoted(t)
    BY <1>1 DEF FieldBytes
  <2>2. Quoted(t) \in Text /\ \E D : Spelled(body, t, p, p + Len(Quoted(t)), D)
    BY <2>1, QuotedIs, SpelledIn
  <2>3. PICK D : Spelled(body, t, p, p + Len(Quoted(t)), D)
    BY <2>2
  <2>4. Len(Quoted(t)) > 0
    <3>1. PICK L \in Nat : L = Len(Quoted(t))
      BY <2>2 DEF Text
    <3>2. D \in [1 .. Len(t) + 1 -> Nat] /\ p + L = D[Len(t) + 1] + 1 /\ D[1] = p + 1 /\ D[1] < p + L
      <4>1. Len(t) \in Nat
        BY DEF Text
      <4>2. 1 \in 1 .. Len(t) + 1
        BY <4>1
      <4>. QED
        BY <2>3, <3>1, <4>2 DEF Spelled
    <3>. QED
      BY <3>1, <3>2
  <2>. QED
    BY <1>1, <2>1, <2>2, <2>4 DEF FieldLaid
<1>2. CASE ~(how.quoteAll \/ MustQuote(t, alone))
  <2>1. FieldBytes(t, how, alone) = t
    BY <1>2 DEF FieldBytes
  <2>2. Plain(t) /\ (alone => Len(t) > 0)
    <3>1. t # <<>> => Head(t) = t[1] /\ Len(t) > 0
      BY DEF Text
    <3>. QED
      BY <1>2, <3>1 DEF MustQuote, Plain
  <2>. QED
    BY <1>2, <2>1, <2>2 DEF FieldLaid
<1>. QED
  BY <1>1, <1>2

-----------------------------------------------------------------------------
(* Which fields of a record a publisher quotes.                            *)
Quoting(r, how) == [c \in DOMAIN r |-> how.quoteAll \/ MustQuote(r[c], Len(r) = 1)]

(* What the fields of a record are published as.                           *)
Pieces(r, how) ==
  [c \in DOMAIN r |->
     (IF c = 1 THEN <<>> ELSE <<Delimiter>>) \o FieldBytes(r[c], how, Len(r) = 1)]

(* A piece is its field, behind a delimiter from the second on.            *)
LEMMA PiecesAre ==
  ASSUME NEW r \in Seq(Text), NEW how
  PROVE  /\ Pieces(r, how) \in Seq(Text) /\ Len(Pieces(r, how)) = Len(r)
         /\ \A c \in 1 .. Len(r) :
              LET d == IF c = 1 THEN 0 ELSE 1
                  bytes == FieldBytes(r[c], how, Len(r) = 1)
              IN /\ bytes \in Text
                 /\ Len(Pieces(r, how)[c]) = d + Len(bytes)
                 /\ c # 1 => Pieces(r, how)[c][1] = Delimiter
                 /\ \A m \in 1 .. Len(bytes) : Pieces(r, how)[c][d + m] = bytes[m]
<1>1. /\ DOMAIN r = 1 .. Len(r) /\ Len(r) \in Nat /\ \A c \in 1 .. Len(r) : r[c] \in Text
  OBVIOUS
<1>2. ASSUME NEW c \in 1 .. Len(r)
      PROVE  LET d == IF c = 1 THEN 0 ELSE 1
                 bytes == FieldBytes(r[c], how, Len(r) = 1)
             IN /\ bytes \in Text
                /\ Pieces(r, how)[c] \in Text
                /\ Len(Pieces(r, how)[c]) = d + Len(bytes)
                /\ c # 1 => Pieces(r, how)[c][1] = Delimiter
                /\ \A m \in 1 .. Len(bytes) : Pieces(r, how)[c][d + m] = bytes[m]
  <2>1. FieldBytes(r[c], how, Len(r) = 1) \in Text
    BY <1>1, FieldText
  <2>2. PICK y \in Text : y = FieldBytes(r[c], how, Len(r) = 1)
    BY <2>1
  <2>3. PICK x \in Text : x = IF c = 1 THEN <<>> ELSE <<Delimiter>>
    <3>1. <<>> \in Text
      BY DEF Text
    <3>2. <<Delimiter>> \in Text
      BY OneByte, BytesAssumption
    <3>. QED
      BY <3>1, <3>2
  <2>4. Len(x) = (IF c = 1 THEN 0 ELSE 1) /\ (c # 1 => x[1] = Delimiter)
    BY <2>3
  <2>5. Pieces(r, how)[c] = x \o y
    BY <1>1, <2>2, <2>3 DEF Pieces
  <2>6. /\ x \o y \in Text /\ Len(x \o y) = Len(x) + Len(y)
        /\ \A m \in 1 .. Len(x) : (x \o y)[m] = x[m]
        /\ \A m \in 1 .. Len(y) : (x \o y)[Len(x) + m] = y[m]
    BY ConcatIs DEF Text
  <2>. HIDE DEF Text
  <2>7. c # 1 => (x \o y)[1] = Delimiter
    <3>1. c # 1 => 1 \in 1 .. Len(x)
      BY <2>4
    <3>. QED
      BY <2>4, <2>6, <3>1
  <2>. QED
    BY <2>1, <2>2, <2>4, <2>5, <2>6, <2>7
<1>3. Pieces(r, how) = [c \in 1 .. Len(r) |-> Pieces(r, how)[c]]
  BY <1>1 DEF Pieces
<1>4. \A c \in 1 .. Len(r) : Pieces(r, how)[c] \in Text
  BY <1>2
<1>5. Pieces(r, how) \in Seq(Text) /\ Len(Pieces(r, how)) = Len(r)
  BY <1>1, <1>3, <1>4, SeqIs
<1>. QED
  BY <1>2, <1>5

(* A record is published as its pieces laid out.                           *)
LEMMA RecordText ==
  ASSUME NEW r \in Seq(Text), NEW how
  PROVE  /\ RecordBytes(r, how) \in Text
         /\ \E f : Laid(Pieces(r, how), f, RecordBytes(r, how))
<1>1. RecordBytes(r, how) = FlattenSeq(Pieces(r, how))
  BY DEF RecordBytes, Pieces
<1>2. Pieces(r, how) \in Seq(Seq(STRING))
  BY PiecesAre DEF Text
<1>. QED
  BY <1>1, <1>2, FlattenIs DEF Text

(* A record laid out somehow, quoted as Q says.                            *)
RecordStands(body, r, p, e, Q) == \E P, E : RecordLaid(body, r, p, e, P, E, Q)

(* Where a record stands, its fields are laid out in it.                   *)
LEMMA RecordIn ==
  ASSUME NEW body, NEW r \in Seq(Text), r # <<>>, NEW p \in Nat,
         NEW how \in How, Stands(body, p, RecordBytes(r, how))
  PROVE  RecordStands(body, r, p, p + Len(RecordBytes(r, how)), Quoting(r, how))
<1>. DEFINE n == Len(r)
            ss == Pieces(r, how)
            d(c) == IF c = 1 THEN 0 ELSE 1
            bytes(c) == FieldBytes(r[c], how, n = 1)
<1>. how.quoteAll \in BOOLEAN
  BY DEF How
<1>1. n \in Nat \ {0} /\ DOMAIN r = 1 .. n /\ \A c \in 1 .. n : r[c] \in Text
  OBVIOUS
<1>2. PICK all \in Text : all = RecordBytes(r, how)
  BY RecordText
<1>3. PICK f : Laid(ss, f, all)
  BY <1>2, RecordText
<1>4. PICK L \in Nat : L = Len(all)
  BY DEF Text
<1>5. PICK l \in [1 .. n -> Nat] : \A c \in 1 .. n : l[c] = Len(bytes(c))
  <2>1. \A c \in 1 .. n : Len(bytes(c)) \in Nat
    <3>1. \A c \in 1 .. n : bytes(c) \in Text
      BY <1>1, FieldText
    <3>. QED
      BY <3>1 DEF Text
  <2>2. [c \in 1 .. n |-> Len(bytes(c))] \in [1 .. n -> Nat]
    BY <2>1
  <2>. HIDE DEF bytes
  <2>. QED
    BY <2>2
<1>6. /\ f \in [1 .. n + 1 -> Nat] /\ f[1] = 0 /\ f[n + 1] = L
      /\ \A c \in 1 .. n : f[c + 1] = f[c] + d(c) + l[c]
      /\ \A c \in 1 .. n + 1 : f[c] <= L
  <2>1. Len(ss) = n /\ \A c \in 1 .. n : Len(ss[c]) = d(c) + l[c]
    BY <1>5, PiecesAre
  <2>2. \A c \in 1 .. n : f[c + 1] = f[c] + Len(ss[c])
    BY <1>3, <2>1 DEF Laid, Starts
  <2>3. f \in [1 .. n + 1 -> Nat]
    BY <1>3, <2>1 DEF Laid, Starts
  <2>4. ASSUME NEW c \in 1 .. n PROVE f[c + 1] = f[c] + d(c) + l[c]
    <3>1. f[c] \in Nat /\ l[c] \in Nat
      BY <1>1, <1>5, <2>3
    <3>. QED
      BY <2>1, <2>2, <3>1
  <2>. QED
    BY <1>3, <1>4, <2>1, <2>3, <2>4 DEF Laid, Starts
<1>7. ASSUME NEW c \in 1 .. n
      PROVE  /\ c # 1 => body[p + f[c] + 1] = Delimiter
             /\ Stands(body, p + f[c] + d(c), bytes(c))
  <2>1. f[c] \in Nat /\ f[c + 1] \in Nat /\ f[c + 1] <= L /\ f[c + 1] = f[c] + d(c) + l[c] /\ l[c] \in Nat
    <3>1. c \in 1 .. n + 1 /\ c + 1 \in 1 .. n + 1
      BY <1>1
    <3>. QED
      BY <1>5, <1>6, <3>1
  <2>2. \A m \in 1 .. L : body[p + m] = all[m]
    BY <1>2, <1>4 DEF Stands
  <2>3. /\ Len(ss[c]) = d(c) + l[c]
        /\ c # 1 => ss[c][1] = Delimiter
        /\ \A m \in 1 .. l[c] : ss[c][d(c) + m] = bytes(c)[m]
    BY <1>5, PiecesAre
  <2>. PICK k \in Nat : k = d(c) /\ (c # 1 => k = 1)
    OBVIOUS
  <2>. PICK x \in Nat : x = f[c]
    BY <2>1
  <2>. PICK y \in Nat : y = l[c]
    BY <2>1
  <2>20. x + k + y <= L
    BY <2>1
  <2>4. ASSUME NEW m \in 1 .. d(c) + l[c] PROVE body[p + f[c] + m] = ss[c][m]
    <3>1. all[f[c] + m] = ss[c][m]
      <4>1. Len(ss) = n
        BY PiecesAre
      <4>. QED
        BY <1>3, <2>3, <4>1 DEF Laid
    <3>2. f[c] + m \in 1 .. L /\ p + (f[c] + m) = p + f[c] + m
      <4>1. m \in 1 .. k + y
        OBVIOUS
      <4>2. x + m \in 1 .. L
        <5>1. x + (k + y) <= L /\ k + y \in Nat
          BY <2>20
        <5>. QED
          BY <4>1, <5>1, WithinIs
      <4>3. p + (x + m) = p + x + m
        BY <4>1
      <4>. QED
        BY <4>2, <4>3
    <3>3. body[p + (f[c] + m)] = all[f[c] + m]
      BY <2>2, <3>2
    <3>. QED
      BY <3>1, <3>2, <3>3
  <2>5. c # 1 => body[p + f[c] + 1] = Delimiter
    <3>1. c # 1 => 1 \in 1 .. d(c) + l[c]
      BY <2>1
    <3>. QED
      BY <2>3, <2>4, <3>1
  <2>6. ASSUME NEW m \in 1 .. l[c] PROVE body[p + f[c] + d(c) + m] = bytes(c)[m]
    <3>1. d(c) + m \in 1 .. d(c) + l[c] /\ p + f[c] + (d(c) + m) = p + f[c] + d(c) + m
      <4>1. m \in 1 .. y
        OBVIOUS
      <4>2. m \in Nat /\ 1 <= m /\ m <= y
        BY <4>1
      <4>3. k + m \in Nat /\ 1 <= k + m /\ k + m <= k + y
        BY <4>2
      <4>4. p + x + (k + m) = p + x + k + m
        BY <4>2
      <4>. QED
        BY <4>3, <4>4
    <3>2. body[p + f[c] + (d(c) + m)] = ss[c][d(c) + m]
      BY <2>4, <3>1
    <3>3. ss[c][d(c) + m] = bytes(c)[m]
      BY <2>3
    <3>. QED
      BY <3>1, <3>2, <3>3
  <2>. QED
    BY <1>5, <2>5, <2>6 DEF Stands
<1>. DEFINE P == [c \in 1 .. n |-> p + f[c] + d(c)]
            E == [c \in 1 .. n |-> p + f[c + 1]]
            Q == Quoting(r, how)
            e == p + L
<1>8. ASSUME NEW c \in 1 .. n
      PROVE  /\ P[c] = p + f[c] + d(c) /\ E[c] = p + f[c + 1]
             /\ f[c] \in Nat /\ f[c + 1] \in Nat /\ l[c] \in Nat
             /\ f[c + 1] = f[c] + d(c) + l[c] /\ f[c + 1] <= L
  <2>1. c \in 1 .. n + 1 /\ c + 1 \in 1 .. n + 1
    BY <1>1
  <2>. QED
    BY <1>5, <1>6, <2>1
<1>9. P \in [1 .. n -> Nat] /\ E \in [1 .. n -> Nat] /\ Q \in [1 .. n -> BOOLEAN]
  <2>1. ASSUME NEW c \in 1 .. n PROVE P[c] \in Nat /\ E[c] \in Nat
    <3>1. PICK y \in Nat, z \in Nat : y = f[c] /\ z = f[c + 1]
      BY <1>8
    <3>2. p + y + d(c) \in Nat /\ p + z \in Nat
      OBVIOUS
    <3>. QED
      BY <1>8, <3>1, <3>2
  <2>2. \A c \in 1 .. n : (how.quoteAll \/ MustQuote(r[c], n = 1)) \in BOOLEAN
    OBVIOUS
  <2>. QED
    BY <1>1, <2>1, <2>2 DEF Quoting
<1>10. ASSUME NEW c \in 1 .. n
       PROVE  FieldLaid(body, r[c], Q[c], P[c], E[c]) /\ P[c] <= E[c] /\ E[c] <= e
  <2>1. P[c] \in Nat /\ E[c] = P[c] + l[c] /\ E[c] <= e /\ P[c] <= E[c]
    <3>1. PICK k \in Nat : k = d(c)
      OBVIOUS
    <3>2. PICK x \in Nat : x = f[c]
      BY <1>8
    <3>3. PICK y \in Nat : y = l[c]
      BY <1>8
    <3>4. P[c] = p + x + k /\ E[c] = p + (x + k + y) /\ x + k + y <= L
      BY <1>8, <3>1, <3>2, <3>3
    <3>5. p + x + k \in Nat /\ p + (x + k + y) = p + x + k + y /\ p + (x + k + y) <= p + L
          /\ p + x + k <= p + (x + k + y)
      BY <3>4
    <3>. QED
      BY <3>3, <3>4, <3>5
  <2>2. Stands(body, P[c], bytes(c))
    BY <1>7, <1>8
  <2>3. Q[c] = (how.quoteAll \/ MustQuote(r[c], n = 1))
    BY <1>1 DEF Quoting
  <2>4. FieldLaid(body, r[c], how.quoteAll \/ MustQuote(r[c], n = 1), P[c], P[c] + Len(bytes(c)))
    <3>. HIDE DEF P
    <3>. QED
      BY <1>1, <2>1, <2>2, FieldIn
  <2>. QED
    BY <1>5, <2>1, <2>3, <2>4
<1>11. ASSUME NEW c \in 1 .. n - 1
       PROVE  E[c] < e /\ P[c + 1] = E[c] + 1 /\ body[E[c] + 1] = Delimiter
  <2>1. c \in 1 .. n /\ c + 1 \in 1 .. n /\ c + 1 # 1
    BY <1>1
  <2>2. E[c] = p + f[c + 1] /\ f[c + 1] \in Nat
    BY <1>8, <2>1
  <2>3. /\ P[c + 1] = p + f[c + 1] + 1
        /\ f[c + 2] = f[c + 1] + 1 + l[c + 1] /\ f[c + 2] <= L /\ l[c + 1] \in Nat
    <3>1. /\ P[c + 1] = p + f[c + 1] + d(c + 1)
          /\ f[c + 1 + 1] = f[c + 1] + d(c + 1) + l[c + 1] /\ f[c + 1 + 1] <= L /\ l[c + 1] \in Nat
      BY <1>8, <2>1
    <3>2. d(c + 1) = 1 /\ c + 1 + 1 = c + 2
      BY <2>1
    <3>. QED
      BY <3>1, <3>2
  <2>4. body[p + f[c + 1] + 1] = Delimiter
    BY <1>7, <2>1
  <2>. QED
    BY <2>2, <2>3, <2>4
<1>12. P[1] = p /\ E[n] = e
  <2>1. 1 \in 1 .. n /\ n \in 1 .. n
    BY <1>1
  <2>2. P[1] = p + f[1] + d(1) /\ E[n] = p + f[n + 1]
    BY <1>8, <2>1
  <2>. QED
    BY <1>6, <2>2
<1>13. p < e
  <2>1. CASE n = 1
    <3>1. Stands(body, p, bytes(1)) /\ 1 \in 1 .. n
      <4>1. 1 \in 1 .. n /\ p + f[1] + d(1) = p
        BY <1>1, <1>6
      <4>. QED
        BY <1>7, <4>1
    <3>2. Len(bytes(1)) > 0
      BY <1>1, <2>1, <3>1, FieldIn
    <3>3. l[1] > 0
      BY <1>5, <3>1, <3>2
    <3>. QED
      BY <1>8, <1>12, <2>1, <3>1, <3>3
  <2>2. CASE n # 1
    <3>1. 1 \in 1 .. n - 1 /\ 1 \in 1 .. n
      BY <1>1, <2>2
    <3>2. E[1] < e /\ P[1] <= E[1] /\ P[1] = p /\ E[1] \in Nat
      BY <1>9, <1>10, <1>11, <1>12, <3>1
    <3>. QED
      BY <3>2
  <2>. QED
    BY <2>1, <2>2
<1>. HIDE DEF P, E, Q
<1>14. RecordLaid(body, r, p, e, P, E, Q)
  BY <1>1, <1>9, <1>10, <1>11, <1>12, <1>13 DEF RecordLaid
<1>. QED
  BY <1>2, <1>4, <1>14 DEF Q, RecordStands

-----------------------------------------------------------------------------
(* A text behind the mark.                                                 *)
LEMMA MarkedText ==
  ASSUME NEW t \in Text
  PROVE  /\ <<Mark>> \o t \in Text /\ Len(<<Mark>> \o t) = Len(t) + 1
         /\ (<<Mark>> \o t)[1] = Mark
         /\ \A m \in 1 .. Len(t) : (<<Mark>> \o t)[m + 1] = t[m]
         /\ \A m \in 2 .. Len(t) + 1 : (<<Mark>> \o t)[m] = t[m - 1]
<1>1. PICK x \in Text : x = <<Mark>>
  BY OneByte, BytesAssumption
<1>2. Len(x) = 1 /\ x[1] = Mark
  BY <1>1
<1>3. /\ x \o t \in Text /\ Len(x \o t) = Len(x) + Len(t) /\ Len(t) \in Nat
      /\ \A m \in 1 .. Len(x) : (x \o t)[m] = x[m]
      /\ \A m \in 1 .. Len(t) : (x \o t)[Len(x) + m] = t[m]
  BY ConcatIs DEF Text
<1>. HIDE DEF Text
<1>4. 1 \in 1 .. Len(x)
  BY <1>2
<1>5. (x \o t)[1] = Mark /\ Len(x \o t) = Len(t) + 1
  BY <1>2, <1>3, <1>4
<1>6. ASSUME NEW m \in 1 .. Len(t) PROVE (x \o t)[m + 1] = t[m]
  <2>1. m + 1 = Len(x) + m
    BY <1>2, <1>3
  <2>. QED
    BY <1>3, <2>1
<1>7. ASSUME NEW m \in 2 .. Len(t) + 1 PROVE (x \o t)[m] = t[m - 1]
  <2>1. m - 1 \in 1 .. Len(t) /\ m - 1 + 1 = m
    BY <1>3
  <2>. QED
    BY <1>6, <2>1
<1>. QED
  BY <1>1, <1>3, <1>5, <1>6, <1>7

(* A record read with the mark left in front of it.                        *)
WithMark(r) == [c \in DOMAIN r |-> IF c = 1 THEN <<Mark>> \o r[c] ELSE r[c]]

(* A record behind an unquoted mark is laid out with it.                   *)
LEMMA MarkedLaid ==
  ASSUME NEW body, NEW r \in Seq(Text), r # <<>>, NEW e \in Nat, NEW P, NEW E, NEW Q,
         RecordLaid(body, r, 1, e, P, E, Q), ~Q[1], body[1] = Mark
  PROVE  RecordLaid(body, WithMark(r), 0, e, [P EXCEPT ![1] = 0], E, Q)
<1>. DEFINE n == Len(r)
            s == WithMark(r)
            O == [P EXCEPT ![1] = 0]
<1>1. n \in Nat \ {0} /\ DOMAIN r = 1 .. n /\ \A c \in 1 .. n : r[c] \in Text
  OBVIOUS
<1>2. /\ DOMAIN s = 1 .. n /\ Len(s) = n
      /\ s[1] = <<Mark>> \o r[1] /\ \A c \in 1 .. n : c # 1 => s[c] = r[c]
  BY <1>1 DEF WithMark
<1>3. /\ P \in [1 .. n -> Nat] /\ E \in [1 .. n -> Nat] /\ Q \in [1 .. n -> BOOLEAN]
      /\ P[1] = 1 /\ E[n] = e /\ 1 < e
      /\ \A c \in 1 .. n : FieldLaid(body, r[c], Q[c], P[c], E[c]) /\ P[c] <= E[c] /\ E[c] <= e
      /\ \A c \in 1 .. n - 1 : E[c] < e /\ P[c + 1] = E[c] + 1 /\ body[E[c] + 1] = Delimiter
  BY <1>1 DEF RecordLaid
<1>4. O \in [1 .. n -> Nat] /\ O[1] = 0 /\ \A c \in 1 .. n : c # 1 => O[c] = P[c]
  BY <1>1, <1>3
<1>5. 1 \in 1 .. n
  BY <1>1
<1>6. FieldLaid(body, s[1], FALSE, 0, E[1])
  <2>1. Plain(r[1]) /\ E[1] = 1 + Len(r[1]) /\ Stands(body, 1, r[1])
    BY <1>3, <1>5 DEF FieldLaid
  <2>2. PICK t \in Text : t = r[1]
    BY <1>1, <1>5
  <2>3. PICK u \in Text : u = <<Mark>> \o t
    BY MarkedText
  <2>4. Len(t) \in Nat /\ DOMAIN t = 1 .. Len(t) /\ DOMAIN u = 1 .. Len(u)
    BY DEF Text
  <2>5. Len(u) = Len(t) + 1 /\ u[1] = Mark /\ \A m \in 2 .. Len(t) + 1 : u[m] = t[m - 1]
    BY <2>3, MarkedText
  <2>6. ASSUME NEW m \in 1 .. Len(u) PROVE body[0 + m] = u[m] /\ u[m] \notin {Delimiter, LF, CR}
    <3>1. CASE m = 1
      BY <2>5, <3>1 DEF Mark, Delimiter, LF, CR
    <3>2. CASE m # 1
      <4>1. m \in 2 .. Len(t) + 1 /\ m - 1 \in 1 .. Len(t) /\ 1 + (m - 1) = m /\ 0 + m = m
        BY <2>4, <2>5, <3>2
      <4>2. body[1 + (m - 1)] = t[m - 1] /\ t[m - 1] \notin {Delimiter, LF, CR}
        BY <2>1, <2>2, <2>4, <4>1 DEF Stands, Plain, Has
      <4>. QED
        BY <2>5, <4>1, <4>2
    <3>. QED
      BY <3>1, <3>2
  <2>7. Plain(u)
    BY <2>4, <2>5, <2>6 DEF Plain, Has, Mark, Quote
  <2>8. Stands(body, 0, u) /\ E[1] = 0 + Len(u)
    BY <2>1, <2>2, <2>4, <2>5, <2>6 DEF Stands
  <2>9. s[1] = u
    BY <1>2, <2>2, <2>3
  <2>. QED
    BY <2>7, <2>8, <2>9 DEF FieldLaid
<1>. HIDE DEF s, O
<1>7. ASSUME NEW c \in 1 .. n
      PROVE  FieldLaid(body, s[c], Q[c], O[c], E[c]) /\ O[c] <= E[c] /\ E[c] <= e
  <2>1. E[c] \in Nat
    BY <1>3
  <2>2. CASE c = 1
    <3>1. Q[1] = FALSE
      BY <1>3, <1>5
    <3>2. FieldLaid(body, s[c], Q[c], O[c], E[c])
      BY <1>4, <1>6, <2>2, <3>1
    <3>3. O[c] = 0 /\ E[c] <= e
      BY <1>3, <1>4, <2>2
    <3>. QED
      BY <2>1, <3>2, <3>3
  <2>3. CASE c # 1
    BY <1>2, <1>3, <1>4, <2>3
  <2>. QED
    BY <2>2, <2>3
<1>8. ASSUME NEW c \in 1 .. n - 1
      PROVE  E[c] < e /\ O[c + 1] = E[c] + 1 /\ body[E[c] + 1] = Delimiter
  <2>1. c + 1 \in 1 .. n /\ c + 1 # 1
    BY <1>1
  <2>. QED
    BY <1>3, <1>4, <2>1
<1>9. RecordLaid(body, s, 0, e, O, E, Q)
  BY <1>2, <1>3, <1>4, <1>7, <1>8 DEF RecordLaid
<1>. QED
  BY <1>9 DEF s, O

-----------------------------------------------------------------------------
(* The table with the mark as what it is to the reader: a byte of the      *)
(* first name.                                                             *)
Whole(s) ==
  [i \in DOMAIN s.written |->
     IF i = 1 /\ s.how.mark THEN WithMark(s.written[i]) ELSE s.written[i]]

(* What is known of a published file.                                      *)
LEMMA PublishedIs ==
  ASSUME NEW s \in Sources, Published(s)
  PROVE  /\ s.written \in Seq(Seq(Text)) /\ s.written # <<>>
         /\ s.how \in How /\ s.body = Body(s.written, s.how) /\ s.body \in Text
         /\ s.header \in BOOLEAN /\ s.names \in Seq(Text) \cup {Absent}
         /\ \A i \in 1 .. Len(s.written) :
              /\ s.written[i] # <<>>
              /\ \A c \in DOMAIN s.written[i] : ~Has(s.written[i][c], {NotText})
<1>1. /\ s.format = "csv" /\ s.written # Absent
  BY DEF Published
<1>2. /\ s.written \in Seq(Seq(Seq(STRING))) /\ s.body \in Seq(STRING)
      /\ s.header \in BOOLEAN /\ s.names \in Seq(Seq(STRING)) \cup {Absent}
  BY <1>1, SourceAssumption
<1>3. DOMAIN s.written = 1 .. Len(s.written)
  BY <1>2
<1>. QED
  BY <1>2, <1>3, PublisherAssumption DEF Text

(* The mark is in front of the first field alone.                          *)
LEMMA MarkedRecord ==
  ASSUME NEW r \in Seq(Text), r # <<>>
  PROVE  /\ WithMark(r) \in Seq(Text) /\ Len(WithMark(r)) = Len(r) /\ WithMark(r) # <<>>
         /\ WithMark(r)[1] = <<Mark>> \o r[1]
         /\ \A c \in 1 .. Len(r) : c # 1 => WithMark(r)[c] = r[c]
<1>1. Len(r) \in Nat \ {0} /\ DOMAIN r = 1 .. Len(r) /\ \A c \in 1 .. Len(r) : r[c] \in Text
  OBVIOUS
<1>2. WithMark(r) = [c \in 1 .. Len(r) |-> IF c = 1 THEN <<Mark>> \o r[c] ELSE r[c]]
  BY <1>1 DEF WithMark
<1>3. \A c \in 1 .. Len(r) : WithMark(r)[c] \in Text
  BY <1>1, <1>2, MarkedText
<1>4. WithMark(r) = [c \in 1 .. Len(r) |-> WithMark(r)[c]]
  BY <1>2
<1>5. WithMark(r) \in Seq(Text) /\ Len(WithMark(r)) = Len(r)
  BY <1>1, <1>3, <1>4, SeqIs
<1>6. 1 \in 1 .. Len(r)
  BY <1>1
<1>7. WithMark(r) # <<>>
  BY <1>1, <1>5
<1>8. WithMark(r)[1] = <<Mark>> \o r[1] /\ \A c \in 1 .. Len(r) : c # 1 => WithMark(r)[c] = r[c]
  BY <1>2, <1>6
<1>. QED
  BY <1>5, <1>7, <1>8

(* What a reader finds is what was written, and the mark.                  *)
LEMMA WholeIs ==
  ASSUME NEW s \in Sources, Published(s)
  PROVE  /\ Whole(s) \in Seq(Seq(Text)) /\ Len(Whole(s)) = Len(s.written) /\ Whole(s) # <<>>
         /\ \A i \in 1 .. Len(s.written) :
              /\ Whole(s)[i] # <<>> /\ Len(Whole(s)[i]) = Len(s.written[i])
              /\ Whole(s)[i] \in Seq(Text)
              /\ i = 1 /\ s.how.mark => Whole(s)[i] = WithMark(s.written[i])
              /\ ~(i = 1 /\ s.how.mark) => Whole(s)[i] = s.written[i]
<1>. DEFINE w == s.written
            n == Len(w)
<1>1. n \in Nat \ {0} /\ DOMAIN w = 1 .. n /\ \A i \in 1 .. n : w[i] \in Seq(Text) /\ w[i] # <<>>
  BY PublishedIs
<1>2. Whole(s) = [i \in 1 .. n |-> IF i = 1 /\ s.how.mark THEN WithMark(w[i]) ELSE w[i]]
  BY <1>1 DEF Whole
<1>3. ASSUME NEW i \in 1 .. n
      PROVE  /\ Whole(s)[i] # <<>> /\ Len(Whole(s)[i]) = Len(w[i])
             /\ Whole(s)[i] \in Seq(Text)
             /\ i = 1 /\ s.how.mark => Whole(s)[i] = WithMark(w[i])
             /\ ~(i = 1 /\ s.how.mark) => Whole(s)[i] = w[i]
  BY <1>1, <1>2, MarkedRecord
<1>4. Whole(s) = [i \in 1 .. n |-> Whole(s)[i]]
  BY <1>2
<1>5. Whole(s) \in Seq(Seq(Text)) /\ Len(Whole(s)) = n
  BY <1>1, <1>3, <1>4, SeqIs
<1>. QED
  BY <1>1, <1>3, <1>5

-----------------------------------------------------------------------------
(* The bytes a line may end with.                                          *)
LineEnds == {LF, CR}

(* Lines are ended, and a body padded, with those alone.                   *)
LEMMA EndsAre ==
  ASSUME NEW how \in How
  PROVE  /\ how.ending \in Text /\ Len(how.ending) > 0
         /\ \A m \in 1 .. Len(how.ending) : how.ending[m] \in LineEnds
         /\ how.padding \in Text /\ \A m \in 1 .. Len(how.padding) : how.padding[m] \in LineEnds
         /\ how.quoteAll \in BOOLEAN /\ how.mark \in BOOLEAN /\ how.lastEnding \in BOOLEAN
<1>1. /\ how.ending \in {<<LF>>, <<CR>>, <<CR, LF>>} /\ how.padding \in Seq({LF, CR})
      /\ how.quoteAll \in BOOLEAN /\ how.mark \in BOOLEAN /\ how.lastEnding \in BOOLEAN
  BY DEF How
<1>2. LF \in STRING /\ CR \in STRING
  BY BytesAssumption
<1>3. how.ending \in Text
  BY <1>1, <1>2, OneByte
<1>4. Len(how.ending) > 0 /\ \A m \in 1 .. Len(how.ending) : how.ending[m] \in LineEnds
  <2>1. CASE how.ending = <<LF>>
    BY <2>1 DEF LineEnds
  <2>2. CASE how.ending = <<CR>>
    BY <2>2 DEF LineEnds
  <2>3. CASE how.ending = <<CR, LF>>
    BY <2>3 DEF LineEnds
  <2>. QED
    BY <1>1, <2>1, <2>2, <2>3
<1>5. \A m \in 1 .. Len(how.padding) : how.padding[m] \in LineEnds
  BY <1>1 DEF LineEnds
<1>6. how.padding \in Text
  <2>1. \A m \in 1 .. Len(how.padding) : how.padding[m] \in STRING
    BY <1>1, <1>2
  <2>2. how.padding = [m \in 1 .. Len(how.padding) |-> how.padding[m]] /\ Len(how.padding) \in Nat
    BY <1>1
  <2>. QED
    BY <2>1, <2>2, SeqIs DEF Text
<1>. QED
  BY <1>1, <1>3, <1>4, <1>5, <1>6

(* What the records of a table are published as.                           *)
Lines(w, how) ==
  [i \in DOMAIN w |->
     RecordBytes(w[i], how)
       \o (IF i = Len(w) /\ ~how.lastEnding THEN <<>> ELSE how.ending)]

(* A line is a record's bytes, and then what ends it.                      *)
Line(line, bytes) ==
  /\ line \in Text /\ bytes \in Text /\ Len(bytes) <= Len(line)
  /\ \A m \in 1 .. Len(bytes) : line[m] = bytes[m]
  /\ \A m \in Len(bytes) + 1 .. Len(line) : line[m] \in LineEnds

(* A line is its record and some line ends, one at least but last.         *)
LEMMA LinesAre ==
  ASSUME NEW w \in Seq(Seq(Text)), NEW how \in How
  PROVE  /\ Lines(w, how) \in Seq(Text) /\ Len(Lines(w, how)) = Len(w)
         /\ \A i \in 1 .. Len(w) :
              /\ Line(Lines(w, how)[i], RecordBytes(w[i], how))
              /\ i < Len(w) => Len(RecordBytes(w[i], how)) < Len(Lines(w, how)[i])
<1>. DEFINE n == Len(w)
<1>1. n \in Nat /\ DOMAIN w = 1 .. n /\ \A i \in 1 .. n : w[i] \in Seq(Text)
  OBVIOUS
<1>2. ASSUME NEW i \in 1 .. n
      PROVE  /\ Lines(w, how)[i] \in Text
             /\ Line(Lines(w, how)[i], RecordBytes(w[i], how))
             /\ i < n => Len(RecordBytes(w[i], how)) < Len(Lines(w, how)[i])
  <2>1. PICK x \in Text : x = RecordBytes(w[i], how)
    BY <1>1, RecordText
  <2>2. PICK y \in Text : y = IF i = n /\ ~how.lastEnding THEN <<>> ELSE how.ending
    <3>1. <<>> \in Text
      BY DEF Text
    <3>. QED
      BY <3>1, EndsAre
  <2>3. Lines(w, how)[i] = x \o y
    BY <1>1, <2>1, <2>2 DEF Lines
  <2>4. /\ x \o y \in Text /\ Len(x \o y) = Len(x) + Len(y) /\ Len(x) \in Nat /\ Len(y) \in Nat
        /\ \A m \in 1 .. Len(x) : (x \o y)[m] = x[m]
        /\ \A m \in 1 .. Len(y) : (x \o y)[Len(x) + m] = y[m]
    BY ConcatIs DEF Text
  <2>. HIDE DEF Text
  <2>5. (\A m \in 1 .. Len(y) : y[m] \in LineEnds) /\ (i < n => Len(y) > 0)
    <3>1. CASE i = n /\ ~how.lastEnding
      <4>1. y = <<>>
        BY <2>2, <3>1
      <4>2. Len(y) = 0
        BY <4>1
      <4>. QED
        BY <1>1, <3>1, <4>2
    <3>2. CASE ~(i = n /\ ~how.lastEnding)
      <4>1. y = how.ending
        BY <2>2, <3>2
      <4>. QED
        BY <4>1, EndsAre
    <3>. QED
      BY <3>1, <3>2
  <2>6. ASSUME NEW m \in Len(x) + 1 .. Len(x \o y) PROVE (x \o y)[m] \in LineEnds
    <3>1. m - Len(x) \in 1 .. Len(y) /\ Len(x) + (m - Len(x)) = m
      BY <2>4
    <3>2. (x \o y)[Len(x) + (m - Len(x))] = y[m - Len(x)]
      BY <2>4, <3>1
    <3>. QED
      BY <2>5, <3>1, <3>2
  <2>7. Len(x) <= Len(x \o y) /\ (i < n => Len(x) < Len(x \o y))
    BY <2>4, <2>5
  <2>. QED
    BY <2>1, <2>3, <2>4, <2>6, <2>7 DEF Line
<1>3. Lines(w, how) = [i \in 1 .. n |-> Lines(w, how)[i]]
  BY <1>1 DEF Lines
<1>4. \A i \in 1 .. n : Lines(w, how)[i] \in Text
  BY <1>2
<1>5. Lines(w, how) \in Seq(Text) /\ Len(Lines(w, how)) = n
  BY <1>1, <1>3, <1>4, SeqIs
<1>. QED
  BY <1>2, <1>5

(* A body is the mark, when there is one, the lines, and the padding.      *)
Composed(w, how, body, F, x) ==
  /\ \E f : Laid(Lines(w, how), f, F)
  /\ Len(body) = x + Len(F) + Len(how.padding)
  /\ x = IF how.mark THEN 1 ELSE 0
  /\ how.mark => body[1] = Mark
  /\ Stands(body, x, F)
  /\ Stands(body, x + Len(F), how.padding)

(* A body is the mark if any, its lines laid out, and the padding.         *)
LEMMA BodyIs ==
  ASSUME NEW w \in Seq(Seq(Text)), NEW how \in How
  PROVE  \E F \in Text, x \in 0 .. 1 : Composed(w, how, Body(w, how), F, x)
<1>1. Lines(w, how) \in Seq(Seq(STRING))
  BY LinesAre DEF Text
<1>2. PICK F \in Text : F = FlattenSeq(Lines(w, how)) /\ \E f : Laid(Lines(w, how), f, F)
  BY <1>1, FlattenIs DEF Text
<1>3. PICK X \in Text : X = IF how.mark THEN <<Mark>> ELSE <<>>
  <2>1. <<>> \in Text
    BY DEF Text
  <2>. QED
    BY <2>1, OneByte, BytesAssumption
<1>4. PICK G \in Text : G = how.padding
  BY EndsAre
<1>5. Body(w, how) = (X \o F) \o G
  BY <1>2, <1>3, <1>4 DEF Body, Lines
<1>6. PICK H \in Text : H = X \o F
  BY ConcatIs DEF Text
<1>7. /\ Len(H) = Len(X) + Len(F)
      /\ \A m \in 1 .. Len(X) : H[m] = X[m]
      /\ \A m \in 1 .. Len(F) : H[Len(X) + m] = F[m]
  BY <1>6, ConcatIs DEF Text
<1>8. /\ Len(Body(w, how)) = Len(H) + Len(G)
      /\ \A m \in 1 .. Len(H) : Body(w, how)[m] = H[m]
      /\ \A m \in 1 .. Len(G) : Body(w, how)[Len(H) + m] = G[m]
  BY <1>5, <1>6, ConcatIs DEF Text
<1>9. PICK x \in 0 .. 1 : x = Len(X) /\ (x = IF how.mark THEN 1 ELSE 0) /\ (how.mark => X[1] = Mark)
  BY <1>3
<1>10. PICK L \in Nat : L = Len(F)
  BY DEF Text
<1>11. Stands(Body(w, how), x, F)
  <2>1. ASSUME NEW m \in 1 .. L PROVE Body(w, how)[x + m] = F[m]
    <3>1. x + m \in 1 .. Len(H)
      BY <1>7, <1>9, <1>10
    <3>. QED
      BY <1>7, <1>8, <1>9, <1>10, <3>1
  <2>. QED
    BY <1>10, <2>1 DEF Stands
<1>12. how.mark => Body(w, how)[1] = Mark
  <2>1. how.mark => 1 \in 1 .. Len(X) /\ 1 \in 1 .. Len(H)
    BY <1>7, <1>9, <1>10
  <2>. QED
    BY <1>7, <1>8, <1>9, <2>1
<1>13. Stands(Body(w, how), x + Len(F), how.padding)
  BY <1>4, <1>7, <1>8, <1>9 DEF Stands
<1>14. Len(Body(w, how)) = x + Len(F) + Len(how.padding)
  BY <1>4, <1>7, <1>8, <1>9
<1>. QED
  BY <1>2, <1>9, <1>11, <1>12, <1>13, <1>14 DEF Composed

-----------------------------------------------------------------------------
(* A place in a body, counted from where a line starts.                    *)
LEMMA OffsetIs ==
  ASSUME NEW a \in Int, NEW v \in Nat, NEW z \in Nat, NEW b \in Int, a + v + 1 <= b, b <= a + z
  PROVE  b - a \in v + 1 .. z /\ b - a \in 1 .. z /\ a + (b - a) = b
OBVIOUS

(* A record ends where its line does at the latest, and that in the body.  *)
LEMMA SpanIs ==
  ASSUME NEW x \in Nat, NEW y \in Nat, NEW z \in Nat, NEW v \in Nat, NEW total \in Nat,
         NEW pad \in Nat, y + z <= total, v <= z
  PROVE  /\ x + y + v \in Nat /\ x + y + v <= x + total + pad
         /\ v < z => x + y + v < x + (y + z)
         /\ x + (y + z) <= x + total + pad
OBVIOUS

(* What a published body holds is laid out in it from its first byte.      *)
LEMMA TableIn ==
  ASSUME NEW s \in Sources, Published(s), MarkIsSeen(s)
  PROVE  \E P, E : TableLaid(s.body, Whole(s), P, E)
<1>. PICK w \in Seq(Seq(Text)) : w = s.written
  BY PublishedIs
<1>. PICK how \in How : how = s.how
  BY PublishedIs
<1>. HIDE DEF Text
<1>. PICK body : body = s.body
  OBVIOUS
<1>. DEFINE n == Len(w)
            ss == Lines(w, how)
<1>1. /\ n \in Nat \ {0} /\ body = Body(w, how)
      /\ DOMAIN w = 1 .. n /\ \A i \in 1 .. n : w[i] \in Seq(Text) /\ w[i] # <<>>
  <2>1. w # <<>> /\ body = Body(w, how) /\ \A i \in 1 .. n : w[i] # <<>>
    BY PublishedIs
  <2>. QED
    BY <2>1
<1>20. PICK F \in Text, x \in 0 .. 1 : Composed(w, how, body, F, x)
  BY <1>1, BodyIs
<1>2. /\ \E f : Laid(ss, f, F)
      /\ Len(body) = x + Len(F) + Len(how.padding)
      /\ x = IF how.mark THEN 1 ELSE 0
      /\ how.mark => body[1] = Mark
      /\ Stands(body, x, F)
      /\ Stands(body, x + Len(F), how.padding)
  BY <1>20 DEF Composed
<1>3. PICK f : Laid(ss, f, F)
  BY <1>2
<1>4. PICK L \in Nat : L = Len(F)
  BY DEF Text
<1>5. PICK pad \in Nat : pad = Len(how.padding)
  <2>1. how.padding \in Text
    BY EndsAre
  <2>. QED
    BY <2>1 DEF Text
<1>6. PICK l \in [1 .. n -> Nat] : \A i \in 1 .. n : l[i] = Len(RecordBytes(w[i], how))
  <2>1. \A i \in 1 .. n : Len(RecordBytes(w[i], how)) \in Nat
    <3>1. \A i \in 1 .. n : RecordBytes(w[i], how) \in Text
      BY <1>1, RecordText
    <3>. QED
      BY <3>1 DEF Text
  <2>2. [i \in 1 .. n |-> Len(RecordBytes(w[i], how))] \in [1 .. n -> Nat]
    BY <2>1
  <2>. QED
    BY <2>2
<1>7. PICK k \in [1 .. n -> Nat] : \A i \in 1 .. n : k[i] = Len(ss[i])
  <2>1. \A i \in 1 .. n : ss[i] \in Text
    BY <1>1, LinesAre DEF Line
  <2>2. \A i \in 1 .. n : Len(ss[i]) \in Nat
    BY <2>1 DEF Text
  <2>3. [i \in 1 .. n |-> Len(ss[i])] \in [1 .. n -> Nat]
    BY <2>2
  <2>. QED
    BY <2>3
<1>8. Len(ss) = n
  BY <1>1, LinesAre
<1>9. f \in [1 .. n + 1 -> Nat] /\ f[1] = 0 /\ f[n + 1] = L
  BY <1>3, <1>4, <1>8 DEF Laid, Starts
<1>10. ASSUME NEW i \in 1 .. n
       PROVE  /\ f[i] \in Nat /\ f[i + 1] \in Nat /\ l[i] \in Nat /\ k[i] \in Nat
              /\ f[i + 1] = f[i] + k[i] /\ f[i + 1] <= L
              /\ l[i] <= k[i] /\ (i < n => l[i] < k[i])
              /\ \A m \in 1 .. l[i] : ss[i][m] = RecordBytes(w[i], how)[m]
              /\ \A m \in l[i] + 1 .. k[i] : ss[i][m] \in LineEnds
              /\ \A m \in 1 .. k[i] : F[f[i] + m] = ss[i][m]
  <2>1. i \in 1 .. n + 1 /\ i + 1 \in 1 .. n + 1
    BY <1>1
  <2>2. f[i] \in Nat /\ f[i + 1] \in Nat /\ l[i] \in Nat /\ k[i] \in Nat
    BY <1>6, <1>7, <1>9, <2>1
  <2>3. f[i + 1] = f[i] + k[i] /\ f[i + 1] <= L /\ \A m \in 1 .. k[i] : F[f[i] + m] = ss[i][m]
    BY <1>3, <1>4, <1>7, <1>8, <2>1 DEF Laid, Starts
  <2>4. /\ Line(ss[i], RecordBytes(w[i], how))
        /\ i < n => Len(RecordBytes(w[i], how)) < Len(ss[i])
    BY <1>1, LinesAre
  <2>. QED
    BY <1>6, <1>7, <2>2, <2>3, <2>4 DEF Line
<1>11. ASSUME NEW i \in 1 .. n, NEW m \in 1 .. k[i] PROVE body[x + f[i] + m] = ss[i][m]
  <2>. PICK y \in Nat : y = f[i]
    BY <1>10
  <2>. PICK z \in Nat : z = k[i]
    BY <1>10
  <2>1. y + z <= L /\ m \in 1 .. z
    BY <1>10
  <2>2. m \in Nat /\ y + m \in Nat /\ 1 <= y + m /\ y + m <= L
    BY <2>1
  <2>3. y + m \in 1 .. L /\ x + (y + m) = x + y + m
    BY <2>2
  <2>4. body[x + (y + m)] = F[y + m]
    BY <1>2, <1>4, <2>3 DEF Stands
  <2>5. F[f[i] + m] = ss[i][m]
    BY <1>10
  <2>. QED
    BY <2>3, <2>4, <2>5
<1>. DEFINE P == [i \in 1 .. n |-> IF i = 1 THEN 0 ELSE x + f[i]]
            E == [i \in 1 .. n |-> x + f[i] + l[i]]
<1>12. ASSUME NEW i \in 1 .. n
       PROVE  \E p, e, q : RecordLaid(body, Whole(s)[i], P[i], E[i], p, e, q)
  <2>1. x + f[i] \in Nat /\ E[i] = x + f[i] + l[i] /\ E[i] \in Nat
    BY <1>10
  <2>2. Stands(body, x + f[i], RecordBytes(w[i], how))
    <3>1. ASSUME NEW m \in 1 .. l[i] PROVE body[x + f[i] + m] = RecordBytes(w[i], how)[m]
      <4>1. m \in 1 .. k[i]
        BY <1>10
      <4>. QED
        BY <1>10, <1>11, <4>1
    <3>. QED
      BY <1>6, <3>1 DEF Stands
  <2>3. PICK p, e : RecordLaid(body, w[i], x + f[i], E[i], p, e, Quoting(w[i], how))
    <3>2. PICK o \in Nat : o = x + f[i]
      BY <2>1
    <3>3. RecordStands(body, w[i], o, o + Len(RecordBytes(w[i], how)), Quoting(w[i], how))
      <4>1. PICK r \in Seq(Text) : r = w[i] /\ r # <<>>
        BY <1>1
      <4>2. Stands(body, o, RecordBytes(r, how))
        BY <2>2, <3>2, <4>1
      <4>3. RecordStands(body, r, o, o + Len(RecordBytes(r, how)), Quoting(r, how))
        BY <4>1, <4>2, RecordIn
      <4>. QED
        BY <4>1, <4>3
    <3>. QED
      BY <1>6, <2>1, <3>2, <3>3 DEF RecordStands
  <2>4. CASE i = 1 /\ how.mark
    <3>1. Whole(s)[i] = WithMark(w[1]) /\ P[i] = 0 /\ x + f[i] = 1
      <4>1. Whole(s)[i] = WithMark(w[1])
        BY <1>1, <2>4, WholeIs
      <4>2. x = 1 /\ f[1] = 0
        BY <1>2, <1>9, <2>4
      <4>. QED
        BY <2>4, <4>1, <4>2
    <3>2. body[1] = Mark
      BY <1>2, <2>4
    <3>3. ~Quoting(w[1], how)[1]
      <4>1. 1 \in DOMAIN w[1]
        <5>1. PICK r \in Seq(Text) : r = w[1] /\ r # <<>>
          BY <1>1, <2>4
        <5>2. 1 \in DOMAIN r
          BY <5>1
        <5>. QED
          BY <5>1, <5>2
      <4>. QED
        BY <2>4, <4>1 DEF Quoting, MarkIsSeen
    <3>4. RecordLaid(body, w[1], 1, E[1], p, e, Quoting(w[1], how)) /\ E[1] \in Nat
          /\ w[1] \in Seq(Text) /\ w[1] # <<>>
      BY <1>1, <2>1, <2>3, <2>4, <3>1
    <3>. HIDE DEF E, P
    <3>5. RecordLaid(body, WithMark(w[1]), 0, E[1], [p EXCEPT ![1] = 0], e, Quoting(w[1], how))
      BY <3>2, <3>3, <3>4, MarkedLaid
    <3>. QED
      BY <2>4, <3>1, <3>5
  <2>5. CASE ~(i = 1 /\ how.mark)
    <3>1. Whole(s)[i] = w[i]
      BY <1>1, <2>5, WholeIs
    <3>2. P[i] = x + f[i]
      BY <1>2, <1>9, <2>5
    <3>. QED
      BY <2>3, <3>1, <3>2
  <2>. QED
    BY <2>4, <2>5
<1>13. ASSUME NEW i \in 1 .. n
       PROVE  /\ P[i] \in Nat /\ E[i] \in Nat /\ E[i] <= Len(body)
              /\ E[i] = x + f[i] + l[i]
              /\ \A b \in E[i] + 1 .. x + f[i + 1] : body[b] \in LineEnds
  <2>. PICK y \in Nat : y = f[i]
    BY <1>10
  <2>. PICK z \in Nat : z = k[i]
    BY <1>10
  <2>. PICK v \in Nat : v = l[i]
    BY <1>10
  <2>1. f[i + 1] = y + z /\ y + z <= L /\ v <= z
    BY <1>10
  <2>2. E[i] = x + y + v /\ P[i] \in Nat
    OBVIOUS
  <2>3. x + y + v \in Nat /\ x + y + v <= x + L + pad
    <3>1. x \in Nat
      OBVIOUS
    <3>. QED
      BY <2>1, <3>1, SpanIs, Zenon
  <2>4. ASSUME NEW b \in x + y + v + 1 .. x + (y + z) PROVE body[b] \in LineEnds
    <3>0. PICK a \in Int : a = x + y
      OBVIOUS
    <3>1. b - (x + y) \in v + 1 .. z /\ b - (x + y) \in 1 .. z /\ x + y + (b - (x + y)) = b
      <4>1. b \in Int /\ a + v + 1 <= b /\ b <= a + z
        BY <3>0
      <4>2. b - a \in v + 1 .. z /\ b - a \in 1 .. z /\ a + (b - a) = b
        BY <4>1, OffsetIs
      <4>. QED
        BY <3>0, <4>2
    <3>2. PICK m \in 1 .. z : m = b - (x + y)
      BY <3>1
    <3>3. body[x + y + m] = ss[i][m]
      BY <1>11
    <3>4. ss[i][m] \in LineEnds
      BY <1>10, <3>1, <3>2
    <3>. QED
      BY <3>1, <3>2, <3>3, <3>4
  <2>. QED
    BY <1>2, <1>4, <1>5, <2>1, <2>2, <2>3, <2>4
<1>14. ASSUME NEW i \in 1 .. n - 1
       PROVE  /\ E[i] < P[i + 1] /\ P[i + 1] <= Len(body)
              /\ \A b \in E[i] + 1 .. P[i + 1] : body[b] \in LineEnds
  <2>1. i \in 1 .. n /\ i + 1 \in 1 .. n /\ i + 1 # 1 /\ i < n
    BY <1>1
  <2>2. P[i + 1] = x + f[i + 1]
    BY <2>1
  <2>3. E[i] = x + f[i] + l[i] /\ l[i] < k[i] /\ f[i + 1] = f[i] + k[i] /\ f[i + 1] <= L
        /\ f[i] \in Nat /\ l[i] \in Nat /\ k[i] \in Nat
    BY <1>10, <2>1
  <2>4. E[i] < x + f[i + 1] /\ x + f[i + 1] <= x + L + pad
    <3>1. PICK y \in Nat, z \in Nat, v \in Nat : y = f[i] /\ z = k[i] /\ v = l[i]
      BY <2>3
    <3>2. /\ E[i] = x + y + v /\ v < z /\ v <= z /\ f[i + 1] = y + z /\ y + z <= L
      BY <2>3, <3>1
    <3>. HIDE DEF E
    <3>. QED
      BY <3>2, SpanIs
  <2>. QED
    BY <1>2, <1>4, <1>5, <1>13, <2>1, <2>2, <2>4
<1>15. ASSUME NEW b \in E[n] + 1 .. Len(body) PROVE body[b] \in LineEnds
  <2>0. n \in 1 .. n
    BY <1>1
  <2>1. n \in 1 .. n /\ E[n] \in Nat /\ Len(body) = x + L + pad
    BY <1>2, <1>4, <1>5, <1>13, <2>0
  <2>2. PICK c \in Nat : c = E[n]
    BY <2>1
  <2>3. b \in Nat /\ c + 1 <= b /\ b <= x + L + pad
    BY <2>1, <2>2
  <2>4. CASE b <= x + L
    <3>1. b \in E[n] + 1 .. x + f[n + 1]
      BY <1>9, <2>2, <2>3, <2>4
    <3>. QED
      BY <1>13, <2>1, <3>1
  <2>5. CASE ~(b <= x + L)
    <3>1. b - (x + L) \in 1 .. pad /\ x + L + (b - (x + L)) = b
      BY <2>3, <2>5
    <3>2. PICK m \in 1 .. pad : m = b - (x + L)
      BY <3>1
    <3>3. body[x + L + m] = how.padding[m]
      BY <1>2, <1>4, <1>5 DEF Stands
    <3>4. how.padding[m] \in LineEnds
      BY <1>1, <1>5, EndsAre
    <3>. QED
      BY <3>1, <3>2, <3>3, <3>4
  <2>. QED
    BY <2>4, <2>5
<1>16. P \in [1 .. n -> Nat] /\ E \in [1 .. n -> Nat] /\ P[1] = 0
  <2>1. \A i \in 1 .. n : P[i] \in Nat /\ E[i] \in Nat
    BY <1>13
  <2>2. 1 \in 1 .. n
    BY <1>1
  <2>. QED
    BY <2>1, <2>2
<1>. HIDE DEF P, E
<1>17. DOMAIN Whole(s) = 1 .. n /\ Len(Whole(s)) = n
  BY WholeIs
<1>18. TableLaid(body, Whole(s), P, E)
  BY <1>12, <1>13, <1>14, <1>15, <1>16, <1>17 DEF TableLaid, LineEnds
<1>. QED
  BY <1>18

-----------------------------------------------------------------------------
(* What follows a field ends it.                                           *)
Ended(body, e) == e < Len(body) => body[e + 1] \in {Delimiter, LF, CR}

(* The reader has so many bytes of a field and is about to take byte "a".  *)
Reached(body, t, k, quoted, p, e, D, st, a) ==
  /\ t \in Text /\ k \in 0 .. Len(t) /\ quoted \in BOOLEAN /\ p \in Nat /\ e \in Nat /\ p <= e
  /\ e <= Len(body) /\ Ended(body, e)
  /\ IF quoted
     THEN /\ Spelled(body, t, p, e, D)
          /\ \/ k = 0 /\ st = "FieldStart" /\ a = p + 1
             \/ st = "Quoted" /\ a = D[k + 1] + 1
             \/ st = "QuoteInQuoted" /\ k < Len(t) /\ t[k + 1] = Quote /\ a = D[k + 1] + 2
             \/ st = "QuoteInQuoted" /\ k = Len(t) /\ a = e + 1
     ELSE /\ Plain(t) /\ Stands(body, p, t) /\ e = p + Len(t) /\ a = p + k + 1
          /\ st = IF k = 0 THEN "FieldStart" ELSE "Unquoted"

-----------------------------------------------------------------------------
(* Where the bytes of a quoted text are.                                   *)
Spot(body, t, p, e, D, k, n, L) ==
  /\ D[k + 1] \in Nat /\ D[k + 1] < e /\ D[1] = p + 1 /\ body[p + 1] = Quote
  /\ p + 1 <= L /\ D[k + 1] + 1 <= L
  /\ k < n => /\ D[k + 2] \in Nat /\ body[D[k + 1] + 1] = t[k + 1]
              /\ D[k + 2] = D[k + 1] + (IF t[k + 1] = Quote THEN 2 ELSE 1)
              /\ t[k + 1] = Quote => body[D[k + 1] + 2] = Quote
              /\ D[k + 1] + 2 <= L
  /\ k = n => e = D[k + 1] + 1 /\ body[D[k + 1] + 1] = Quote

(* A quoted text is spelled as its bytes are, at each of them.             *)
LEMMA SpelledAt ==
  ASSUME NEW body, NEW t \in Text, NEW p \in Nat, NEW e \in Nat, NEW D, Spelled(body, t, p, e, D),
         NEW k \in 0 .. Len(t), NEW n \in Nat, n = Len(t), NEW L \in Nat, e <= L
  PROVE  Spot(body, t, p, e, D, k, n, L)
<1>1. /\ D \in [1 .. n + 1 -> Nat] /\ D[1] = p + 1 /\ body[p + 1] = Quote
      /\ \A j \in 1 .. n :
           /\ D[j + 1] = D[j] + (IF t[j] = Quote THEN 2 ELSE 1)
           /\ body[D[j] + 1] = t[j] /\ (t[j] = Quote => body[D[j] + 2] = Quote)
      /\ \A j \in 1 .. n + 1 : D[j] < e
      /\ e = D[n + 1] + 1 /\ body[e] = Quote
  BY DEF Spelled
<1>2. k + 1 \in 1 .. n + 1 /\ 1 \in 1 .. n + 1
  OBVIOUS
<1>3. PICK x \in Nat : x = D[k + 1]
  BY <1>1, <1>2
<1>4. x < e /\ p + 1 < e /\ p + 1 <= L /\ x + 1 <= L
  BY <1>1, <1>2, <1>3
<1>5. CASE k < n
  <2>1. k + 1 \in 1 .. n /\ k + 2 \in 1 .. n + 1 /\ (k + 1) + 1 = k + 2
    BY <1>5
  <2>2. PICK y \in Nat : y = D[k + 2]
    BY <1>1, <2>1
  <2>3. y = x + (IF t[k + 1] = Quote THEN 2 ELSE 1)
    BY <1>1, <1>3, <2>1, <2>2
  <2>4. x + 2 <= L
    <3>1. y < e
      BY <1>1, <2>1, <2>2
    <3>. QED
      BY <2>3, <3>1
  <2>5. body[x + 1] = t[k + 1] /\ (t[k + 1] = Quote => body[x + 2] = Quote)
    BY <1>1, <1>3, <2>1
  <2>. QED
    BY <1>1, <1>3, <1>4, <1>5, <2>2, <2>3, <2>4, <2>5 DEF Spot
<1>6. CASE k = n
  BY <1>1, <1>3, <1>4, <1>6 DEF Spot
<1>. QED
  BY <1>5, <1>6

(* The byte read in quotes is the next of the text, or a quote.            *)
LEMMA InQuotes ==
  ASSUME NEW body \in Text, NEW t, NEW k, NEW quoted, NEW p, NEW e, NEW D, NEW a,
         Reached(body, t, k, quoted, p, e, D, "Quoted", a)
  PROVE  /\ a <= Len(body)
         /\ body[a] # Quote => /\ k < Len(t) /\ body[a] = t[k + 1]
                               /\ Reached(body, t, k + 1, quoted, p, e, D, "Quoted", a + 1)
         /\ body[a] = Quote => Reached(body, t, k, quoted, p, e, D, "QuoteInQuoted", a + 1)
<1>1. /\ t \in Text /\ k \in 0 .. Len(t) /\ quoted = TRUE /\ p \in Nat /\ e \in Nat /\ p <= e
      /\ e <= Len(body) /\ Ended(body, e) /\ Spelled(body, t, p, e, D) /\ a = D[k + 1] + 1
  BY DEF Reached
<1>2. PICK n \in Nat, L \in Nat : n = Len(t) /\ L = Len(body)
  BY <1>1 DEF Text
<1>3. /\ D[k + 1] \in Nat /\ D[k + 1] + 1 <= L
      /\ k < n => /\ D[k + 2] \in Nat /\ body[D[k + 1] + 1] = t[k + 1]
                  /\ D[k + 2] = D[k + 1] + (IF t[k + 1] = Quote THEN 2 ELSE 1)
      /\ k = n => e = D[k + 1] + 1 /\ body[D[k + 1] + 1] = Quote
  <2>1. Spot(body, t, p, e, D, k, n, L)
    BY <1>1, <1>2, SpelledAt
  <2>. QED
    BY <2>1 DEF Spot
<1>4. PICK x \in Nat : x = D[k + 1]
  BY <1>3
<1>5. CASE k < n /\ body[a] # Quote
  <2>1. D[k + 2] = x + 1 /\ body[a] = t[k + 1] /\ a + 1 = D[k + 2] + 1
    BY <1>1, <1>3, <1>4, <1>5
  <2>2. k + 1 \in 0 .. Len(t) /\ (k + 1) + 1 = k + 2
    BY <1>1, <1>2, <1>5
  <2>3. Reached(body, t, k + 1, quoted, p, e, D, "Quoted", a + 1)
    BY <1>1, <2>1, <2>2 DEF Reached
  <2>. QED
    BY <1>1, <1>2, <1>3, <1>5, <2>1, <2>3
<1>6. CASE k < n /\ body[a] = Quote
  <2>1. t[k + 1] = Quote /\ a + 1 = x + 2
    BY <1>1, <1>3, <1>4, <1>6
  <2>2. Reached(body, t, k, quoted, p, e, D, "QuoteInQuoted", a + 1)
    BY <1>1, <1>2, <1>4, <1>6, <2>1 DEF Reached
  <2>. QED
    BY <1>1, <1>2, <1>3, <1>6, <2>2
<1>7. CASE k = n
  <2>1. body[a] = Quote /\ a + 1 = e + 1
    BY <1>1, <1>3, <1>7
  <2>2. Reached(body, t, k, quoted, p, e, D, "QuoteInQuoted", a + 1)
    BY <1>1, <1>2, <1>7, <2>1 DEF Reached
  <2>. QED
    BY <1>1, <1>2, <1>3, <2>1, <2>2
<1>8. a <= Len(body)
  BY <1>1, <1>2, <1>3
<1>9. k < n \/ k = n
  BY <1>1, <1>2
<1>. QED
  BY <1>5, <1>6, <1>7, <1>8, <1>9

(* A quote in quotes is one of two or the last.                            *)
LEMMA AfterQuote ==
  ASSUME NEW body \in Text, NEW t, NEW k, NEW quoted, NEW p, NEW e, NEW D, NEW a,
         Reached(body, t, k, quoted, p, e, D, "QuoteInQuoted", a), a <= Len(body)
  PROVE  /\ body[a] = Quote => /\ k < Len(t) /\ Quote = t[k + 1]
                               /\ Reached(body, t, k + 1, quoted, p, e, D, "Quoted", a + 1)
         /\ body[a] # Quote => body[a] \in {Delimiter, LF, CR}
<1>1. /\ t \in Text /\ k \in 0 .. Len(t) /\ quoted = TRUE /\ p \in Nat /\ e \in Nat /\ p <= e
      /\ e <= Len(body) /\ Ended(body, e) /\ Spelled(body, t, p, e, D)
      /\ \/ k < Len(t) /\ t[k + 1] = Quote /\ a = D[k + 1] + 2
         \/ k = Len(t) /\ a = e + 1
  BY DEF Reached
<1>2. PICK n \in Nat, L \in Nat : n = Len(t) /\ L = Len(body)
  BY <1>1 DEF Text
<1>3. k < n => /\ D[k + 1] \in Nat /\ D[k + 2] \in Nat
               /\ D[k + 2] = D[k + 1] + (IF t[k + 1] = Quote THEN 2 ELSE 1)
               /\ t[k + 1] = Quote => body[D[k + 1] + 2] = Quote
  <2>1. Spot(body, t, p, e, D, k, n, L)
    BY <1>1, <1>2, SpelledAt
  <2>. QED
    BY <2>1 DEF Spot
<1>4. CASE k < n
  <2>1. t[k + 1] = Quote /\ a = D[k + 1] + 2 /\ D[k + 2] = D[k + 1] + 2 /\ body[a] = Quote
    BY <1>1, <1>2, <1>3, <1>4
  <2>2. k + 1 \in 0 .. Len(t) /\ (k + 1) + 1 = k + 2 /\ a + 1 = D[k + 2] + 1
    BY <1>1, <1>2, <1>4, <2>1
  <2>3. Reached(body, t, k + 1, quoted, p, e, D, "Quoted", a + 1)
    BY <1>1, <2>2 DEF Reached
  <2>. QED
    BY <1>2, <1>4, <2>1, <2>3
<1>5. CASE k = n
  <2>1. body[a] \in {Delimiter, LF, CR}
    BY <1>1, <1>2, <1>5 DEF Ended
  <2>. QED
    BY <2>1 DEF Quote, Delimiter, LF, CR
<1>. QED
  BY <1>1, <1>2, <1>4, <1>5

(* Bytes that are not in quotes, up to what ends the field.                *)
LEMMA OutOfQuotes ==
  ASSUME NEW body \in Text, NEW t, NEW k, NEW quoted, NEW p, NEW e, NEW D, NEW st, NEW a,
         Reached(body, t, k, quoted, p, e, D, st, a), st \in {"FieldStart", "Unquoted"}, a <= Len(body)
  PROVE  /\ st = "FieldStart" /\ body[a] = Quote =>
              Reached(body, t, k, quoted, p, e, D, "Quoted", a + 1)
         /\ body[a] \notin {Delimiter, LF, CR} /\ (st = "FieldStart" => body[a] # Quote) =>
              /\ k < Len(t) /\ body[a] = t[k + 1]
              /\ Reached(body, t, k + 1, quoted, p, e, D, "Unquoted", a + 1)
<1>1. /\ t \in Text /\ k \in 0 .. Len(t) /\ quoted \in BOOLEAN /\ p \in Nat /\ e \in Nat /\ p <= e
      /\ e <= Len(body) /\ Ended(body, e)
  BY DEF Reached
<1>2. PICK n \in Nat, L \in Nat : n = Len(t) /\ L = Len(body)
  BY <1>1 DEF Text
<1>3. DOMAIN t = 1 .. n
  BY <1>1, <1>2 DEF Text
<1>4. CASE quoted
  <2>1. Spelled(body, t, p, e, D) /\ st = "FieldStart" /\ k = 0 /\ a = p + 1
    BY <1>4 DEF Reached
  <2>2. Spot(body, t, p, e, D, k, n, L)
    BY <1>1, <1>2, <2>1, SpelledAt
  <2>3. D[k + 1] = p + 1 /\ body[a] = Quote /\ a + 1 = D[k + 1] + 1
    BY <2>1, <2>2 DEF Spot
  <2>4. Reached(body, t, k, quoted, p, e, D, "Quoted", a + 1)
    BY <1>1, <1>4, <2>1, <2>3 DEF Reached
  <2>. QED
    BY <2>1, <2>3, <2>4
<1>5. CASE ~quoted
  <2>1. /\ Plain(t) /\ Stands(body, p, t) /\ e = p + n /\ a = p + k + 1
        /\ st = IF k = 0 THEN "FieldStart" ELSE "Unquoted"
    BY <1>2, <1>5 DEF Reached
  <2>2. CASE k = n
    <3>1. a = e + 1 /\ body[a] \in {Delimiter, LF, CR}
      BY <1>1, <1>2, <2>1, <2>2 DEF Ended
    <3>. QED
      BY <3>1 DEF Quote, Delimiter, LF, CR
  <2>3. CASE k < n
    <3>1. k + 1 \in 1 .. n /\ a = p + (k + 1) /\ a + 1 = p + (k + 1) + 1
          /\ k + 1 \in 0 .. Len(t) /\ k + 1 # 0
      BY <1>1, <1>2, <2>1, <2>3
    <3>2. body[a] = t[k + 1]
      BY <1>2, <2>1, <3>1 DEF Stands
    <3>3. ~(st = "FieldStart" /\ body[a] = Quote)
      <4>1. CASE k = 0
        BY <1>1, <1>2, <1>3, <2>1, <2>3, <3>2, <4>1 DEF Plain
      <4>2. CASE k # 0
        BY <2>1, <4>2
      <4>. QED
        BY <4>1, <4>2
    <3>4. Reached(body, t, k + 1, quoted, p, e, D, "Unquoted", a + 1)
      BY <1>1, <1>2, <1>5, <2>1, <3>1 DEF Reached
    <3>. QED
      BY <1>2, <2>3, <3>2, <3>3, <3>4
  <2>. QED
    BY <1>1, <1>2, <2>2, <2>3
<1>. QED
  BY <1>4, <1>5

(* What ends a field comes when it has been read.                          *)
LEMMA FieldRead ==
  ASSUME NEW body \in Text, NEW t, NEW k, NEW quoted, NEW p, NEW e, NEW D, NEW st, NEW a,
         Reached(body, t, k, quoted, p, e, D, st, a), st # "Quoted",
         a <= Len(body) => body[a] \in {Delimiter, LF, CR}
  PROVE  k = Len(t) /\ a = e + 1 /\ (st = "FieldStart" => p = e)
<1>1. /\ t \in Text /\ k \in 0 .. Len(t) /\ quoted \in BOOLEAN /\ p \in Nat /\ e \in Nat /\ p <= e
      /\ e <= Len(body) /\ Ended(body, e)
  BY DEF Reached
<1>2. PICK n \in Nat, L \in Nat : n = Len(t) /\ L = Len(body)
  BY <1>1 DEF Text
<1>3. DOMAIN t = 1 .. n
  BY <1>1, <1>2 DEF Text
<1>4. CASE quoted
  <2>1. /\ Spelled(body, t, p, e, D)
        /\ \/ k = 0 /\ a = p + 1
           \/ k < Len(t) /\ t[k + 1] = Quote /\ a = D[k + 1] + 2
           \/ k = Len(t) /\ a = e + 1 /\ st = "QuoteInQuoted"
    BY <1>4 DEF Reached
  <2>2. Spot(body, t, p, e, D, k, n, L)
    BY <1>1, <1>2, <2>1, SpelledAt
  <2>3. CASE k = 0 /\ a = p + 1
    <3>1. body[a] = Quote /\ a <= L
      BY <2>2, <2>3 DEF Spot
    <3>. QED
      BY <1>2, <3>1 DEF Quote, Delimiter, LF, CR
  <2>4. CASE k < Len(t) /\ t[k + 1] = Quote /\ a = D[k + 1] + 2
    <3>1. body[a] = Quote /\ a <= L
      BY <1>2, <2>2, <2>4 DEF Spot
    <3>. QED
      BY <1>2, <3>1 DEF Quote, Delimiter, LF, CR
  <2>. QED
    BY <2>1, <2>3, <2>4
<1>5. CASE ~quoted
  <2>1. /\ Plain(t) /\ Stands(body, p, t) /\ e = p + n /\ a = p + k + 1
        /\ st = IF k = 0 THEN "FieldStart" ELSE "Unquoted"
    BY <1>2, <1>5 DEF Reached
  <2>2. CASE k = n
    BY <1>1, <1>2, <2>1, <2>2
  <2>3. CASE k < n
    <3>1. k + 1 \in 1 .. n /\ a = p + (k + 1) /\ a <= L
      BY <1>1, <1>2, <2>1, <2>3
    <3>2. body[a] = t[k + 1] /\ t[k + 1] \notin {Delimiter, LF, CR}
      BY <1>2, <1>3, <2>1, <3>1 DEF Stands, Plain, Has
    <3>. QED
      BY <1>2, <3>1, <3>2
  <2>. QED
    BY <1>1, <1>2, <2>2, <2>3
<1>. QED
  BY <1>4, <1>5

(* A field that was laid is at its start.                                  *)
LEMMA AtStart ==
  ASSUME NEW body \in Text, NEW t \in Text, NEW quoted \in BOOLEAN, NEW p \in Nat, NEW e \in Nat,
         FieldLaid(body, t, quoted, p, e), p <= e, e <= Len(body), Ended(body, e)
  PROVE  \E D : Reached(body, t, 0, quoted, p, e, D, "FieldStart", p + 1)
<1>1. 0 \in 0 .. Len(t)
  BY DEF Text
<1>2. CASE quoted
  <2>1. PICK D : Spelled(body, t, p, e, D)
    BY <1>2 DEF FieldLaid
  <2>2. Reached(body, t, 0, quoted, p, e, D, "FieldStart", p + 1)
    BY <1>1, <1>2, <2>1 DEF Reached
  <2>. QED
    BY <2>2
<1>3. CASE ~quoted
  <2>1. Plain(t) /\ e = p + Len(t) /\ Stands(body, p, t) /\ p + 0 + 1 = p + 1
    BY <1>3 DEF FieldLaid
  <2>2. Reached(body, t, 0, quoted, p, e, <<>>, "FieldStart", p + 1)
    BY <1>1, <1>3, <2>1 DEF Reached
  <2>. QED
    BY <2>2
<1>. QED
  BY <1>2, <1>3

-----------------------------------------------------------------------------
(* A table of records that have fields, as it is printed.                  *)
Printed(body, T, P, E) ==
  /\ body \in Text /\ T \in Seq(Seq(Text)) /\ T # <<>> /\ \A i \in 1 .. Len(T) : T[i] # <<>>
  /\ TableLaid(body, T, P, E)

(* In field c of record i, k bytes of it read.                             *)
Inside(body, T, P, E, i, p, e, q, c, k, D) ==
  /\ i \in 1 .. Len(T) /\ c \in 1 .. Len(T[i])
  /\ RecordLaid(body, T[i], P[i], E[i], p, e, q)
  /\ Reached(body, T[i][c], k, q[c], p[c], e[c], D, state, at)
  /\ records = First(T, i - 1) /\ fields = First(T[i], c - 1) /\ field = First(T[i][c], k)
  /\ started \/ (c = 1 /\ state = "FieldStart")

(* Past record i, in the line ends behind it.                              *)
Behind(body, T, P, E, i) ==
  /\ i \in 1 .. Len(T) /\ at \in Nat /\ E[i] < at
  /\ at <= 1 + (IF i < Len(T) THEN P[i + 1] ELSE Len(body))
  /\ records = First(T, i) /\ fields = <<>> /\ field = <<>>
  /\ ~started /\ state = "FieldStart"

-----------------------------------------------------------------------------
(* What is known of each record of a printed table.                        *)
LEMMA PrintedIs ==
  ASSUME NEW body, NEW T, NEW P, NEW E, Printed(body, T, P, E), NEW i \in 1 .. Len(T)
  PROVE  /\ Len(T) \in Nat \ {0} /\ Len(body) \in Nat /\ T[i] \in Seq(Text) /\ Len(T[i]) \in Nat \ {0}
         /\ DOMAIN T[i] = 1 .. Len(T[i]) /\ \A c \in 1 .. Len(T[i]) : T[i][c] \in Text
         /\ P[i] \in Nat /\ E[i] \in Nat /\ E[i] <= Len(body) /\ P[1] = 0
         /\ \E p, e, q : RecordLaid(body, T[i], P[i], E[i], p, e, q)
         /\ i < Len(T) => /\ i + 1 \in 1 .. Len(T) /\ P[i + 1] \in Nat
                          /\ E[i] < P[i + 1] /\ P[i + 1] <= Len(body)
                          /\ \A b \in E[i] + 1 .. P[i + 1] : body[b] \in {LF, CR}
         /\ i = Len(T) => \A b \in E[i] + 1 .. Len(body) : body[b] \in {LF, CR}
<1>1. /\ body \in Text /\ T \in Seq(Seq(Text)) /\ T # <<>> /\ T[i] # <<>>
      /\ TableLaid(body, T, P, E)
  BY DEF Printed
<1>2. Len(T) \in Nat \ {0} /\ T[i] \in Seq(Text) /\ DOMAIN T = 1 .. Len(T)
  BY <1>1
<1>3. Len(T[i]) \in Nat \ {0} /\ DOMAIN T[i] = 1 .. Len(T[i]) /\ \A c \in 1 .. Len(T[i]) : T[i][c] \in Text
  <2>1. PICK r \in Seq(Text) : r = T[i] /\ r # <<>>
    BY <1>1, <1>2
  <2>2. Len(r) \in Nat \ {0} /\ DOMAIN r = 1 .. Len(r) /\ \A c \in 1 .. Len(r) : r[c] \in Text
    BY <2>1
  <2>. QED
    BY <2>1, <2>2
<1>4. Len(body) \in Nat
  BY <1>1 DEF Text
<1>5. /\ P \in [1 .. Len(T) -> Nat] /\ E \in [1 .. Len(T) -> Nat] /\ P[1] = 0
      /\ E[i] <= Len(body) /\ \E p, e, q : RecordLaid(body, T[i], P[i], E[i], p, e, q)
  BY <1>1, <1>2 DEF TableLaid
<1>6. ASSUME i < Len(T)
      PROVE  /\ i + 1 \in 1 .. Len(T) /\ i \in 1 .. Len(T) - 1
             /\ E[i] < P[i + 1] /\ P[i + 1] <= Len(body)
             /\ \A b \in E[i] + 1 .. P[i + 1] : body[b] \in {LF, CR}
  <2>1. i + 1 \in 1 .. Len(T) /\ i \in 1 .. Len(T) - 1
    BY <1>2, <1>6
  <2>. QED
    BY <1>1, <2>1 DEF TableLaid
<1>7. ASSUME i = Len(T) PROVE \A b \in E[i] + 1 .. Len(body) : body[b] \in {LF, CR}
  BY <1>1, <1>7 DEF TableLaid
<1>. QED
  BY <1>2, <1>3, <1>4, <1>5, <1>6, <1>7

(* Where a field of a record is, and what is behind it.                    *)
Fielded(body, p, e, c, n, last) ==
  /\ p[c] \in Nat /\ e[c] \in Nat /\ p[c] <= e[c] /\ e[c] <= Len(body) /\ Ended(body, e[c])
  /\ c < n => /\ c + 1 \in 1 .. n /\ p[c + 1] = e[c] + 1
              /\ e[c] < Len(body) /\ body[e[c] + 1] = Delimiter
  /\ c = n => e[c] = last
  /\ c = 1 /\ p[c] = e[c] => c < n

(* What is known of each field of one.                                     *)
LEMMA FieldedIs ==
  ASSUME NEW body, NEW T, NEW P, NEW E, Printed(body, T, P, E), NEW i \in 1 .. Len(T),
         NEW p, NEW e, NEW q, RecordLaid(body, T[i], P[i], E[i], p, e, q), NEW c \in 1 .. Len(T[i])
  PROVE  /\ Fielded(body, p, e, c, Len(T[i]), E[i]) /\ q[c] \in BOOLEAN
         /\ FieldLaid(body, T[i][c], q[c], p[c], e[c])
<1>1. PICK n \in Nat \ {0}, L \in Nat, z \in Nat :
        n = Len(T[i]) /\ L = Len(body) /\ z = E[i] /\ z <= L /\ DOMAIN T[i] = 1 .. n
  BY PrintedIs
<1>2. /\ p \in [1 .. n -> Nat] /\ e \in [1 .. n -> Nat] /\ q \in [1 .. n -> BOOLEAN]
      /\ p[1] = P[i] /\ e[n] = z /\ P[i] < z
      /\ \A d \in 1 .. n : FieldLaid(body, T[i][d], q[d], p[d], e[d]) /\ p[d] <= e[d] /\ e[d] <= z
      /\ \A d \in 1 .. n - 1 : e[d] < z /\ p[d + 1] = e[d] + 1 /\ body[e[d] + 1] = Delimiter
  BY <1>1 DEF RecordLaid
<1>3. PICK x \in Nat, y \in Nat : x = p[c] /\ y = e[c]
  BY <1>1, <1>2
<1>4. x <= y /\ y <= z /\ y <= L /\ q[c] \in BOOLEAN /\ FieldLaid(body, T[i][c], q[c], p[c], e[c])
  <2>1. c \in 1 .. n
    BY <1>1
  <2>2. p[c] <= e[c] /\ e[c] <= z
    BY <1>2, <2>1
  <2>3. x <= y /\ y <= z /\ y <= L
    BY <1>1, <1>3, <2>2
  <2>4. q[c] \in BOOLEAN
    BY <1>2, <2>1
  <2>5. FieldLaid(body, T[i][c], q[c], p[c], e[c])
    BY <1>2, <2>1
  <2>. QED
    BY <2>3, <2>4, <2>5
<1>5. c < n => c + 1 \in 1 .. n /\ p[c + 1] = y + 1 /\ y < L /\ body[y + 1] = Delimiter
  <2>1. c < n => c \in 1 .. n - 1 /\ c + 1 \in 1 .. n
    BY <1>1
  <2>. QED
    BY <1>1, <1>2, <1>3, <2>1
<1>6. c = n => y = z
  BY <1>2, <1>3
<1>7. c < n \/ c = n
  BY <1>1
<1>8. Ended(body, y)
  <2>1. CASE c < n
    BY <1>5, <2>1 DEF Ended
  <2>2. CASE c = n
    <3>1. y < L => body[y + 1] \in {LF, CR}
      <4>1. CASE i < Len(T)
        <5>1. /\ P[i + 1] \in Nat /\ z < P[i + 1]
              /\ \A b \in z + 1 .. P[i + 1] : body[b] \in {LF, CR}
          BY <1>1, <4>1, PrintedIs
        <5>2. PICK w \in Nat : w = P[i + 1]
          BY <5>1
        <5>3. y + 1 \in z + 1 .. w
          BY <1>6, <2>2, <5>1, <5>2
        <5>. QED
          BY <5>1, <5>2, <5>3
      <4>2. CASE ~(i < Len(T))
        <5>1. i = Len(T)
          <6>1. Len(T) \in Nat
            BY PrintedIs
          <6>. QED
            BY <4>2, <6>1
        <5>2. \A b \in z + 1 .. L : body[b] \in {LF, CR}
          BY <1>1, <5>1, PrintedIs
        <5>3. y < L => y + 1 \in z + 1 .. L
          BY <1>6, <2>2
        <5>. QED
          BY <5>2, <5>3
      <4>. QED
        BY <4>1, <4>2
    <3>. QED
      BY <1>1, <3>1 DEF Ended
  <2>. QED
    BY <1>7, <2>1, <2>2
<1>9. c = 1 /\ p[c] = e[c] => c < n
  <2>1. ~(c = 1 /\ p[c] = e[c] /\ c = n)
    BY <1>2
  <2>. QED
    BY <1>7, <2>1
<1>10. Fielded(body, p, e, c, n, z)
  BY <1>1, <1>3, <1>4, <1>5, <1>6, <1>8, <1>9 DEF Fielded
<1>. QED
  BY <1>1, <1>4, <1>10

-----------------------------------------------------------------------------
(* Where a record starts its first field does.                             *)
LEMMA RecordStarts ==
  ASSUME NEW body, NEW T, NEW P, NEW E, Printed(body, T, P, E), NEW i \in 1 .. Len(T),
         records = First(T, i - 1), fields = <<>>, field = <<>>, state = "FieldStart", at = P[i] + 1
  PROVE  \E p, e, q, D : Inside(body, T, P, E, i, p, e, q, 1, 0, D)
<1>1. PICK p, e, q : RecordLaid(body, T[i], P[i], E[i], p, e, q)
  BY PrintedIs
<1>2. T[i] \in Seq(Text) /\ 1 \in 1 .. Len(T[i]) /\ T[i][1] \in Text /\ body \in Text /\ p[1] = P[i]
  <2>1. /\ T[i] \in Seq(Text) /\ Len(T[i]) \in Nat \ {0}
        /\ \A c \in 1 .. Len(T[i]) : T[i][c] \in Text
    BY PrintedIs
  <2>2. 1 \in 1 .. Len(T[i])
    BY <2>1
  <2>3. body \in Text /\ p[1] = P[i]
    BY <1>1 DEF Printed, RecordLaid
  <2>. QED
    BY <2>1, <2>2, <2>3
<1>3. /\ Fielded(body, p, e, 1, Len(T[i]), E[i]) /\ q[1] \in BOOLEAN
      /\ FieldLaid(body, T[i][1], q[1], p[1], e[1])
  <2>1. ASSUME NEW c \in 1 .. Len(T[i])
        PROVE  /\ Fielded(body, p, e, c, Len(T[i]), E[i]) /\ q[c] \in BOOLEAN
               /\ FieldLaid(body, T[i][c], q[c], p[c], e[c])
    BY <1>1, FieldedIs
  <2>. QED
    BY <1>2, <2>1
<1>4. p[1] \in Nat /\ e[1] \in Nat /\ p[1] <= e[1] /\ e[1] <= Len(body) /\ Ended(body, e[1])
  BY <1>3 DEF Fielded
<1>5. PICK D : Reached(body, T[i][1], 0, q[1], p[1], e[1], D, "FieldStart", p[1] + 1)
  BY <1>2, <1>3, <1>4, AtStart
<1>6. fields = First(T[i], 1 - 1) /\ field = First(T[i][1], 0)
  <2>1. First(T[i], 0) = <<>> /\ First(T[i][1], 0) = <<>>
    BY <1>2, FirstIs DEF Text
  <2>. QED
    BY <2>1
<1>7. Inside(body, T, P, E, i, p, e, q, 1, 0, D)
  BY <1>1, <1>2, <1>5, <1>6 DEF Inside
<1>. QED
  BY <1>7

(* Behind a record there are line ends, and then the next, or nothing.     *)
LEMMA BehindIs ==
  ASSUME NEW body, NEW T, NEW P, NEW E, Printed(body, T, P, E), NEW i, Behind(body, T, P, E, i)
  PROVE  \/ \E j, p, e, q, c, k, D : Inside(body, T, P, E, j, p, e, q, c, k, D)
         \/ at <= Len(body) /\ body[at] \in {LF, CR} /\ at <= IF i < Len(T) THEN P[i + 1] ELSE Len(body)
         \/ at > Len(body) /\ i = Len(T)
<1>1. /\ i \in 1 .. Len(T) /\ at \in Nat /\ E[i] < at
      /\ at <= 1 + (IF i < Len(T) THEN P[i + 1] ELSE Len(body))
      /\ records = First(T, i) /\ fields = <<>> /\ field = <<>> /\ state = "FieldStart"
  BY DEF Behind
<1>2. PICK L \in Nat, y \in Nat, n \in Nat : L = Len(body) /\ y = E[i] /\ n = Len(T)
  BY <1>1, PrintedIs
<1>3. CASE i < n
  <2>1. /\ i + 1 \in 1 .. n /\ P[i + 1] \in Nat /\ P[i + 1] <= L
        /\ \A b \in y + 1 .. P[i + 1] : body[b] \in {LF, CR}
    BY <1>1, <1>2, <1>3, PrintedIs
  <2>2. PICK w \in Nat : w = P[i + 1]
    BY <2>1
  <2>3. CASE at = w + 1
    <3>1. records = First(T, (i + 1) - 1)
      BY <1>1, <1>2
    <3>2. \E p, e, q, D : Inside(body, T, P, E, i + 1, p, e, q, 1, 0, D)
      BY <1>1, <1>2, <2>1, <2>2, <2>3, <3>1, RecordStarts
    <3>. QED
      BY <3>2
  <2>4. CASE at # w + 1
    <3>1. at \in y + 1 .. w /\ at <= w /\ at <= L
      BY <1>1, <1>2, <1>3, <2>1, <2>2, <2>4
    <3>. QED
      BY <1>2, <1>3, <2>1, <2>2, <3>1
  <2>. QED
    BY <2>3, <2>4
<1>4. CASE i = n
  <2>1. \A b \in y + 1 .. L : body[b] \in {LF, CR}
    BY <1>1, <1>2, <1>4, PrintedIs
  <2>2. at <= L => at \in y + 1 .. L
    BY <1>1, <1>2
  <2>. QED
    BY <1>1, <1>2, <1>4, <2>1, <2>2
<1>. QED
  BY <1>1, <1>2, <1>3, <1>4

(* The moves a reader makes inside a record.                               *)
LEMMA GoesOn ==
  ASSUME NEW body, NEW T, NEW P, NEW E, NEW i, NEW p, NEW e, NEW q, NEW c, NEW k, NEW D, NEW m,
         Inside(body, T, P, E, i, p, e, q, c, k, D),
         Reached(body, T[i][c], m, q[c], p[c], e[c], D, state', at'),
         UNCHANGED <<records, fields>>, field' = First(T[i][c], m), started'
  PROVE  Inside(body, T, P, E, i, p, e, q, c, m, D)'
BY DEF Inside

(* Past a delimiter is the next field.                                     *)
LEMMA ToNextField ==
  ASSUME NEW body, NEW T, NEW P, NEW E, Printed(body, T, P, E),
         NEW i, NEW p, NEW e, NEW q, NEW c, NEW k, NEW D,
         Inside(body, T, P, E, i, p, e, q, c, k, D),
         k = Len(T[i][c]), c < Len(T[i]), at = e[c] + 1,
         records' = records, fields' = Append(fields, field), field' = <<>>,
         state' = "FieldStart", started', at' = at + 1
  PROVE  \E F : Inside(body, T, P, E, i, p, e, q, c + 1, 0, F)'
<1>1. /\ i \in 1 .. Len(T) /\ c \in 1 .. Len(T[i]) /\ RecordLaid(body, T[i], P[i], E[i], p, e, q)
      /\ records = First(T, i - 1) /\ fields = First(T[i], c - 1) /\ field = First(T[i][c], k)
  BY DEF Inside
<1>2. PICK n \in Nat : n = Len(T[i])
  BY <1>1, PrintedIs
<1>3. /\ T[i] \in Seq(Text) /\ T[i][c] \in Text /\ body \in Text
      /\ c + 1 \in 1 .. n /\ T[i][c + 1] \in Text
  BY <1>1, <1>2, PrintedIs DEF Printed
<1>4. PICK y \in Nat : y = e[c] /\ p[c + 1] = y + 1
  <2>1. Fielded(body, p, e, c, n, E[i])
    BY <1>1, <1>2, FieldedIs
  <2>. QED
    BY <1>2, <2>1 DEF Fielded
<1>5. /\ Fielded(body, p, e, c + 1, n, E[i]) /\ q[c + 1] \in BOOLEAN
      /\ FieldLaid(body, T[i][c + 1], q[c + 1], p[c + 1], e[c + 1])
  BY <1>1, <1>2, <1>3, FieldedIs
<1>6. /\ p[c + 1] \in Nat /\ e[c + 1] \in Nat /\ p[c + 1] <= e[c + 1]
      /\ e[c + 1] <= Len(body) /\ Ended(body, e[c + 1])
  BY <1>5 DEF Fielded
<1>7. PICK F : Reached(body, T[i][c + 1], 0, q[c + 1], p[c + 1], e[c + 1], F, "FieldStart", p[c + 1] + 1)
  BY <1>3, <1>5, <1>6, AtStart
<1>8. at' = p[c + 1] + 1
  BY <1>4
<1>9. fields' = First(T[i], (c + 1) - 1)
  <2>1. field = T[i][c]
    BY <1>1, <1>3, FirstIs DEF Text
  <2>2. c - 1 \in 0 .. n - 1 /\ (c - 1) + 1 = c /\ (c + 1) - 1 = c
    BY <1>1, <1>2
  <2>3. Append(First(T[i], c - 1), T[i][(c - 1) + 1]) = First(T[i], (c - 1) + 1)
    BY <1>2, <1>3, <2>2, FirstIs
  <2>. QED
    BY <1>1, <2>1, <2>2, <2>3
<1>10. field' = First(T[i][c + 1], 0)
  BY <1>3, FirstIs DEF Text
<1>11. records' = First(T, i - 1)
  BY <1>1
<1>12. Inside(body, T, P, E, i, p, e, q, c + 1, 0, F)'
  BY <1>1, <1>2, <1>3, <1>7, <1>8, <1>9, <1>10, <1>11 DEF Inside
<1>. QED
  BY <1>12

(* A record that has been read.                                            *)
LEMMA RecordRead ==
  ASSUME NEW body, NEW T, NEW P, NEW E, Printed(body, T, P, E),
         NEW i, NEW p, NEW e, NEW q, NEW c, NEW k, NEW D,
         Inside(body, T, P, E, i, p, e, q, c, k, D), k = Len(T[i][c]), c = Len(T[i]), at = e[c] + 1
  PROVE  /\ i \in 1 .. Len(T) /\ Append(records, Append(fields, field)) = First(T, i) /\ at = E[i] + 1
         /\ E[i] \in Nat
<1>1. /\ i \in 1 .. Len(T) /\ c \in 1 .. Len(T[i]) /\ RecordLaid(body, T[i], P[i], E[i], p, e, q)
      /\ records = First(T, i - 1) /\ fields = First(T[i], c - 1) /\ field = First(T[i][c], k)
  BY DEF Inside
<1>2. PICK n \in Nat \ {0}, N \in Nat : n = Len(T[i]) /\ N = Len(T)
  BY <1>1, PrintedIs
<1>3. T \in Seq(Seq(Text)) /\ T[i] \in Seq(Text) /\ T[i][c] \in Text /\ E[i] \in Nat
  BY <1>1, PrintedIs DEF Printed
<1>4. e[c] = E[i]
  <2>1. Fielded(body, p, e, c, n, E[i])
    BY <1>1, <1>2, FieldedIs
  <2>. QED
    BY <1>2, <2>1 DEF Fielded
<1>5. field = T[i][c]
  BY <1>1, <1>3, FirstIs DEF Text
<1>6. Append(fields, field) = T[i]
  <2>1. c - 1 \in 0 .. n - 1 /\ (c - 1) + 1 = c
    BY <1>1, <1>2
  <2>2. Append(First(T[i], c - 1), T[i][(c - 1) + 1]) = First(T[i], (c - 1) + 1)
    BY <1>2, <1>3, <2>1, FirstIs
  <2>3. First(T[i], n) = T[i]
    BY <1>2, <1>3, FirstIs
  <2>. QED
    BY <1>1, <1>2, <1>5, <2>1, <2>2, <2>3
<1>7. Append(records, T[i]) = First(T, i)
  <2>1. i - 1 \in 0 .. N - 1 /\ (i - 1) + 1 = i
    BY <1>1, <1>2
  <2>2. Append(First(T, i - 1), T[(i - 1) + 1]) = First(T, (i - 1) + 1)
    BY <1>2, <1>3, <2>1, FirstIs
  <2>. QED
    BY <1>1, <2>1, <2>2
<1>. QED
  BY <1>1, <1>3, <1>4, <1>6, <1>7

(* Past the line end of a record is behind that record.                    *)
LEMMA LineRead ==
  ASSUME NEW body, NEW T, NEW P, NEW E, Printed(body, T, P, E),
         NEW i \in 1 .. Len(T), at = E[i] + 1, at <= Len(body), records' = First(T, i),
         fields' = <<>>, field' = <<>>, ~started', state' = "FieldStart", at' = at + 1
  PROVE  Behind(body, T, P, E, i)'
<1>1. PICK L \in Nat, y \in Nat, n \in Nat : L = Len(body) /\ y = E[i] /\ n = Len(T)
  BY PrintedIs
<1>2. at' = y + 2 /\ y + 1 <= L
  BY <1>1
<1>3. CASE i < n
  <2>1. P[i + 1] \in Nat /\ y < P[i + 1]
    BY <1>1, <1>3, PrintedIs
  <2>2. PICK w \in Nat : w = P[i + 1]
    BY <2>1
  <2>3. at' <= 1 + w /\ at' \in Nat /\ y < at'
    BY <1>2, <2>1, <2>2
  <2>. QED
    BY <1>1, <1>3, <2>2, <2>3 DEF Behind
<1>4. CASE ~(i < n)
  <2>1. at' <= 1 + L /\ at' \in Nat /\ y < at'
    BY <1>2
  <2>. QED
    BY <1>1, <1>4, <2>1 DEF Behind
<1>. QED
  BY <1>3, <1>4

-----------------------------------------------------------------------------
(* The first cost raised raises the sum by as much.                        *)
LEMMA TotalHead ==
  ASSUME NEW costs \in Seq(Nat), NEW more \in Seq(Nat), costs # <<>>, Len(more) = Len(costs),
         NEW d \in Nat, more[1] = costs[1] + d, \A i \in 2 .. Len(costs) : more[i] = costs[i]
  PROVE  Total(more) = Total(costs) + d
<1>1. /\ more # <<>> /\ Tail(costs) \in Seq(Nat) /\ Tail(more) \in Seq(Nat)
      /\ Len(Tail(more)) = Len(Tail(costs)) /\ Len(costs) = Len(Tail(costs)) + 1
      /\ Len(Tail(costs)) \in Nat /\ costs[1] \in Nat
  OBVIOUS
<1>2. ASSUME NEW i \in 1 .. Len(Tail(costs)) PROVE Tail(more)[i] = Tail(costs)[i]
  <2>1. i + 1 \in 2 .. Len(costs)
    BY <1>1
  <2>2. Tail(more)[i] = more[i + 1] /\ Tail(costs)[i] = costs[i + 1]
    BY <1>1
  <2>. QED
    BY <2>1, <2>2
<1>3. Tail(more) = Tail(costs)
  BY <1>1, <1>2
<1>4. Total(costs) = Total(Tail(costs)) + costs[1] /\ Total(more) = Total(Tail(costs)) + (costs[1] + d)
  BY <1>1, <1>3, TotalTail
<1>5. Total(Tail(costs)) \in Nat
  BY <1>1, TotalNat
<1>. QED
  BY <1>1, <1>4, <1>5

(* Texts have a cost.                                                      *)
LEMMA TextsNat ==
  ASSUME NEW texts \in Seq(Text)
  PROVE  TextsCost(texts) \in Nat
<1>1. <<>> \in Text
  BY DEF Text
<1>. QED
  BY <1>1, TextsAppend

(* And so have records.                                                    *)
LEMMA RecordsNat ==
  ASSUME NEW table \in Seq(Seq(Text))
  PROVE  RecordsCost(table) \in Nat
<1>1. <<>> \in Seq(Text)
  OBVIOUS
<1>. QED
  BY <1>1, RecordsAppend

(* What the first texts cost, and the next, is no more than all of them.   *)
LEMMA TextsFirst ==
  ASSUME NEW r \in Seq(Text), NEW c \in 1 .. Len(r)
  PROVE  /\ TextsCost(First(r, c - 1)) \in Nat
         /\ TextsCost(First(r, c - 1)) + CellOverhead + Len(r[c]) <= TextsCost(r)
<1>. DEFINE n == Len(r)
            cost(m) == TextsCost(First(r, m))
            Good == {m \in Nat : c + m \in 0 .. n => cost(c) <= cost(c + m)}
<1>1. n \in Nat /\ c \in 1 .. n /\ \A m \in 1 .. n : r[m] \in Text /\ Len(r[m]) \in Nat
  BY DEF Text
<1>2. ASSUME NEW m \in 0 .. n - 1
      PROVE  cost(m) \in Nat /\ cost(m + 1) = cost(m) + CellOverhead + Len(r[m + 1]) /\ cost(m + 1) >= cost(m)
             /\ cost(m + 1) \in Nat
  <2>1. First(r, m) \in Seq(Text) /\ m + 1 \in 1 .. n /\ Append(First(r, m), r[m + 1]) = First(r, m + 1)
    <3>1. m \in 0 .. Len(r) /\ m \in 0 .. Len(r) - 1 /\ m + 1 \in 1 .. n
      BY <1>1
    <3>2. /\ \A l \in 0 .. Len(r) : First(r, l) \in Seq(Text)
          /\ \A l \in 0 .. Len(r) - 1 : Append(First(r, l), r[l + 1]) = First(r, l + 1)
      BY FirstIs
    <3>. QED
      BY <3>1, <3>2, Zenon
  <2>2. r[m + 1] \in Text /\ Len(r[m + 1]) \in Nat
    BY <1>1, <2>1
  <2>3. cost(m) \in Nat /\ cost(m + 1) = cost(m) + CellOverhead + Len(r[m + 1])
    BY <2>1, <2>2, TextsAppend
  <2>. HIDE DEF cost
  <2>. QED
    BY <2>2, <2>3, Costs
<1>3. cost(n) = TextsCost(r)
  BY FirstIs
<1>. HIDE DEF cost, n
<1>4. 0 \in Good
  <2>1. c - 1 \in 0 .. n - 1 /\ (c - 1) + 1 = c
    BY <1>1
  <2>2. cost(c) \in Nat
    BY <1>2, <2>1
  <2>. QED
    BY <1>1, <2>2
<1>5. ASSUME NEW m \in Nat, m \in Good PROVE m + 1 \in Good
  <2>1. SUFFICES ASSUME c + (m + 1) \in 0 .. n PROVE cost(c) <= cost(c + (m + 1))
    OBVIOUS
  <2>2. c + m \in 0 .. n - 1 /\ c + m \in 0 .. n /\ (c + m) + 1 = c + (m + 1)
    BY <1>1, <2>1
  <2>3. cost(c) <= cost(c + m) /\ cost(c + m) \in Nat /\ cost((c + m) + 1) >= cost(c + m)
        /\ cost((c + m) + 1) \in Nat
    BY <1>2, <1>5, <2>2
  <2>4. cost(c) \in Nat
    <3>1. c - 1 \in 0 .. n - 1 /\ (c - 1) + 1 = c
      BY <1>1
    <3>. QED
      BY <1>2, <3>1
  <2>. QED
    BY <2>2, <2>3, <2>4
<1>6. cost(c) <= cost(n)
  <2>. HIDE DEF Good
  <2>1. \A m \in Nat : m \in Good
    BY <1>4, <1>5, Induction
  <2>2. n - c \in Nat /\ c + (n - c) = n /\ c + (n - c) \in 0 .. n
    BY <1>1
  <2>. QED
    BY <2>1, <2>2 DEF Good
<1>7. c - 1 \in 0 .. n - 1 /\ (c - 1) + 1 = c
  BY <1>1
<1>8. cost(c - 1) \in Nat /\ cost(c) = cost(c - 1) + CellOverhead + Len(r[c])
  BY <1>2, <1>7
<1>. QED
  BY <1>3, <1>6, <1>8 DEF cost

(* The records before one and that one cost no more than all.              *)
LEMMA RecordsFirst ==
  ASSUME NEW table \in Seq(Seq(Text)), NEW c \in 1 .. Len(table)
  PROVE  /\ RecordsCost(First(table, c - 1)) \in Nat
         /\ RecordsCost(First(table, c - 1)) + RowOverhead + TextsCost(table[c]) <= RecordsCost(table)
<1>. DEFINE n == Len(table)
            cost(m) == RecordsCost(First(table, m))
            Good == {m \in Nat : c + m \in 0 .. n => cost(c) <= cost(c + m)}
<1>1. n \in Nat /\ c \in 1 .. n /\ \A m \in 1 .. n : table[m] \in Seq(Text) /\ TextsCost(table[m]) \in Nat
  BY TextsNat
<1>2. ASSUME NEW m \in 0 .. n - 1
      PROVE  cost(m) \in Nat /\ cost(m + 1) = cost(m) + RowOverhead + TextsCost(table[m + 1])
             /\ cost(m + 1) >= cost(m) /\ cost(m + 1) \in Nat
  <2>1. First(table, m) \in Seq(Seq(Text)) /\ m + 1 \in 1 .. n
        /\ Append(First(table, m), table[m + 1]) = First(table, m + 1)
    <3>. DEFINE R == Seq(Text)
    <3>1. table \in Seq(R) /\ m \in 0 .. Len(table) /\ m \in 0 .. Len(table) - 1
      BY <1>1
    <3>2. m + 1 \in 1 .. n
      BY <1>1
    <3>. HIDE DEF R
    <3>3. First(table, m) \in Seq(R) /\ Append(First(table, m), table[m + 1]) = First(table, m + 1)
      BY <3>1, FirstIs
    <3>. QED
      BY <3>2, <3>3 DEF R
  <2>2. table[m + 1] \in Seq(Text) /\ TextsCost(table[m + 1]) \in Nat
    BY <1>1, <2>1
  <2>3. cost(m) \in Nat /\ cost(m + 1) = cost(m) + RowOverhead + TextsCost(table[m + 1])
    BY <2>1, <2>2, RecordsAppend
  <2>. HIDE DEF cost
  <2>. QED
    BY <2>2, <2>3, Costs
<1>3. cost(n) = RecordsCost(table)
  BY FirstIs
<1>. HIDE DEF cost, n
<1>4. 0 \in Good
  <2>1. c - 1 \in 0 .. n - 1 /\ (c - 1) + 1 = c
    BY <1>1
  <2>2. cost(c) \in Nat
    BY <1>2, <2>1
  <2>. QED
    BY <1>1, <2>2
<1>5. ASSUME NEW m \in Nat, m \in Good PROVE m + 1 \in Good
  <2>1. SUFFICES ASSUME c + (m + 1) \in 0 .. n PROVE cost(c) <= cost(c + (m + 1))
    OBVIOUS
  <2>2. c + m \in 0 .. n - 1 /\ c + m \in 0 .. n /\ (c + m) + 1 = c + (m + 1)
    BY <1>1, <2>1
  <2>3. cost(c) <= cost(c + m) /\ cost(c + m) \in Nat /\ cost((c + m) + 1) >= cost(c + m)
        /\ cost((c + m) + 1) \in Nat
    BY <1>2, <1>5, <2>2
  <2>4. cost(c) \in Nat
    <3>1. c - 1 \in 0 .. n - 1 /\ (c - 1) + 1 = c
      BY <1>1
    <3>. QED
      BY <1>2, <3>1
  <2>. QED
    BY <2>2, <2>3, <2>4
<1>6. cost(c) <= cost(n)
  <2>. HIDE DEF Good
  <2>1. \A m \in Nat : m \in Good
    BY <1>4, <1>5, Induction
  <2>2. n - c \in Nat /\ c + (n - c) = n /\ c + (n - c) \in 0 .. n
    BY <1>1
  <2>. QED
    BY <2>1, <2>2 DEF Good
<1>7. c - 1 \in 0 .. n - 1 /\ (c - 1) + 1 = c
  BY <1>1
<1>8. cost(c - 1) \in Nat /\ cost(c) = cost(c - 1) + RowOverhead + TextsCost(table[c])
  BY <1>2, <1>7
<1>. QED
  BY <1>3, <1>6, <1>8 DEF cost

(* A field and all that comes before it is part of what a table costs.     *)
LEMMA FieldAfford ==
  ASSUME NEW T \in Seq(Seq(Text)), NEW i \in 1 .. Len(T), NEW c \in 1 .. Len(T[i])
  PROVE  /\ RecordsCost(First(T, i - 1)) \in Nat /\ TextsCost(First(T[i], c - 1)) \in Nat
         /\ Len(T[i][c]) \in Nat /\ RecordsCost(T) \in Nat
         /\ RecordsCost(First(T, i - 1)) + TextsCost(First(T[i], c - 1))
              + CellOverhead + Len(T[i][c]) + RowOverhead <= RecordsCost(T)
<1>1. T[i] \in Seq(Text)
  OBVIOUS
<1>2. T[i][c] \in Text
  BY <1>1
<1>3. Len(T[i][c]) \in Nat /\ RecordsCost(T) \in Nat /\ TextsCost(T[i]) \in Nat
  BY <1>1, <1>2, TextsNat, RecordsNat DEF Text
<1>4. /\ RecordsCost(First(T, i - 1)) \in Nat
      /\ RecordsCost(First(T, i - 1)) + RowOverhead + TextsCost(T[i]) <= RecordsCost(T)
  BY RecordsFirst
<1>5. /\ TextsCost(First(T[i], c - 1)) \in Nat
      /\ TextsCost(First(T[i], c - 1)) + CellOverhead + Len(T[i][c]) <= TextsCost(T[i])
  BY <1>1, TextsFirst
<1>6. PICK a \in Nat, b \in Nat, x \in Nat, y \in Nat, z \in Nat :
        /\ a = RecordsCost(First(T, i - 1)) /\ b = TextsCost(First(T[i], c - 1))
        /\ x = Len(T[i][c]) /\ y = TextsCost(T[i]) /\ z = RecordsCost(T)
  BY <1>3, <1>4, <1>5
<1>7. a + RowOverhead + y <= z /\ b + CellOverhead + x <= y
  BY <1>4, <1>5, <1>6
<1>8. a + b + CellOverhead + x + RowOverhead <= z
  BY <1>7, Costs
<1>. QED
  BY <1>6, <1>8

-----------------------------------------------------------------------------
(* The mark costs a byte.                                                  *)
LEMMA MarkedCost ==
  ASSUME NEW r \in Seq(Text), r # <<>>
  PROVE  TextsCost(WithMark(r)) = TextsCost(r) + 1
<1>. DEFINE n == Len(r)
            s == WithMark(r)
            a == [i \in DOMAIN r |-> CellOverhead + Len(r[i])]
            b == [i \in DOMAIN s |-> CellOverhead + Len(s[i])]
<1>1. n \in Nat \ {0} /\ DOMAIN r = 1 .. n /\ \A c \in 1 .. n : r[c] \in Text /\ Len(r[c]) \in Nat
  BY DEF Text
<1>2. /\ s \in Seq(Text) /\ Len(s) = n /\ s[1] = <<Mark>> \o r[1]
      /\ \A c \in 1 .. n : c # 1 => s[c] = r[c]
  BY MarkedRecord
<1>3. DOMAIN s = 1 .. n /\ 1 \in 1 .. n /\ Len(s[1]) = Len(r[1]) + 1
  BY <1>1, <1>2, MarkedText
<1>4. /\ a = [i \in 1 .. n |-> a[i]] /\ \A i \in 1 .. n : a[i] = CellOverhead + Len(r[i])
      /\ b = [i \in 1 .. n |-> b[i]] /\ \A i \in 1 .. n : b[i] = CellOverhead + Len(s[i])
  BY <1>1, <1>3
<1>. HIDE DEF a, b, s, n
<1>5. \A i \in 1 .. n : a[i] \in Nat
  BY <1>1, <1>4, Costs
<1>6. b[1] = a[1] + 1 /\ \A i \in 2 .. n : b[i] = a[i]
  <2>1. b[1] = a[1] + 1
    <3>1. PICK x \in Nat : x = Len(r[1])
      BY <1>1, <1>3
    <3>2. a[1] = CellOverhead + x /\ b[1] = CellOverhead + (x + 1)
      BY <1>3, <1>4, <3>1
    <3>. QED
      BY <3>2, Costs
  <2>2. \A i \in 2 .. n : i \in 1 .. n /\ i # 1
    BY <1>1
  <2>3. ASSUME NEW i \in 2 .. n PROVE b[i] = a[i]
    <3>1. s[i] = r[i]
      BY <1>2, <2>2
    <3>. QED
      BY <1>4, <2>2, <3>1
  <2>. QED
    BY <2>1, <2>3
<1>7. \A i \in 1 .. n : b[i] \in Nat
  <2>1. \A i \in 1 .. n : i = 1 \/ i \in 2 .. n
    BY <1>1
  <2>. QED
    BY <1>5, <1>6, <2>1
<1>8. a \in Seq(Nat) /\ Len(a) = n /\ b \in Seq(Nat) /\ Len(b) = n
  BY <1>1, <1>4, <1>5, <1>7, SeqIs
<1>9. a # <<>>
  BY <1>1, <1>8
<1>10. Total(b) = Total(a) + 1
  <2>1. Len(b) = Len(a) /\ \A i \in 2 .. Len(a) : b[i] = a[i]
    BY <1>6, <1>8
  <2>. QED
    BY <1>6, <1>8, <1>9, <2>1, TotalHead
<1>. QED
  BY <1>10 DEF TextsCost, a, b, s

(* The mark costs one byte more.                                           *)
LEMMA WholeCost ==
  ASSUME NEW s \in Sources, Published(s)
  PROVE  RecordsCost(Whole(s)) = RecordsCost(s.written) + (IF s.how.mark THEN 1 ELSE 0)
         /\ RecordsCost(s.written) \in Nat
<1>. PICK w \in Seq(Seq(Text)) : w = s.written /\ w # <<>> /\ \A i \in 1 .. Len(w) : w[i] # <<>>
  BY PublishedIs
<1>. DEFINE n == Len(w)
            T == Whole(s)
            a == [i \in DOMAIN w |-> RowOverhead + TextsCost(w[i])]
            b == [i \in DOMAIN T |-> RowOverhead + TextsCost(T[i])]
            d == IF s.how.mark THEN 1 ELSE 0
<1>1. n \in Nat \ {0} /\ DOMAIN w = 1 .. n /\ 1 \in 1 .. n
      /\ \A i \in 1 .. n : w[i] \in Seq(Text) /\ TextsCost(w[i]) \in Nat
  BY TextsNat
<1>2. /\ T \in Seq(Seq(Text)) /\ Len(T) = n
      /\ s.how.mark => T[1] = WithMark(w[1])
      /\ ~s.how.mark => T[1] = w[1]
      /\ \A i \in 2 .. n : T[i] = w[i]
  <2>1. \A i \in 2 .. n : i \in 1 .. n /\ i # 1
    BY <1>1
  <2>. QED
    BY <1>1, <2>1, WholeIs
<1>3. DOMAIN T = 1 .. n
  BY <1>2
<1>4. TextsCost(T[1]) = TextsCost(w[1]) + d
  <2>1. CASE s.how.mark
    BY <1>1, <1>2, <2>1, MarkedCost
  <2>2. CASE ~s.how.mark
    BY <1>1, <1>2, <2>2
  <2>. QED
    BY <2>1, <2>2
<1>5. /\ a = [i \in 1 .. n |-> a[i]] /\ \A i \in 1 .. n : a[i] = RowOverhead + TextsCost(w[i])
      /\ b = [i \in 1 .. n |-> b[i]] /\ \A i \in 1 .. n : b[i] = RowOverhead + TextsCost(T[i])
  BY <1>1, <1>3
<1>6. d \in Nat
  OBVIOUS
<1>. HIDE DEF a, b, T, n, d
<1>7. \A i \in 1 .. n : a[i] \in Nat
  BY <1>1, <1>5, Costs
<1>8. b[1] = a[1] + d /\ \A i \in 2 .. n : b[i] = a[i]
  <2>1. b[1] = a[1] + d
    BY <1>1, <1>4, <1>5, <1>6, Costs
  <2>2. \A i \in 2 .. n : i \in 1 .. n
    BY <1>1
  <2>. QED
    BY <1>2, <1>5, <2>1, <2>2
<1>9. \A i \in 1 .. n : b[i] \in Nat
  <2>1. \A i \in 1 .. n : i = 1 \/ i \in 2 .. n
    BY <1>1
  <2>. QED
    BY <1>6, <1>7, <1>8, <2>1
<1>10. a \in Seq(Nat) /\ Len(a) = n /\ b \in Seq(Nat) /\ Len(b) = n
  BY <1>1, <1>5, <1>7, <1>9, SeqIs
<1>11. a # <<>>
  BY <1>1, <1>10
<1>12. Total(b) = Total(a) + d
  BY <1>6, <1>8, <1>10, <1>11, TotalHead
<1>13. RecordsCost(w) \in Nat
  BY RecordsNat
<1>. QED
  BY <1>12, <1>13 DEF RecordsCost, a, b, T, d

-----------------------------------------------------------------------------
(* A published file is a printed table.                                    *)
LEMMA WholePrinted ==
  ASSUME NEW s \in Sources, Published(s), MarkIsSeen(s)
  PROVE  \E P, E : Printed(s.body, Whole(s), P, E)
<1>1. PICK P, E : TableLaid(s.body, Whole(s), P, E)
  BY TableIn
<1>2. /\ s.body \in Text /\ Whole(s) \in Seq(Seq(Text)) /\ Whole(s) # <<>>
      /\ \A i \in 1 .. Len(Whole(s)) : Whole(s)[i] # <<>>
  BY PublishedIs, WholeIs
<1>3. Printed(s.body, Whole(s), P, E)
  BY <1>1, <1>2 DEF Printed
<1>. QED
  BY <1>3

(* A body has the mark when it was published with it.                      *)
LEMMA MarkedIs ==
  ASSUME source \in Sources, Published(source), MarkIsSeen(source)
  PROVE  Marked = IF source.how.mark THEN 1 ELSE 0
<1>. DEFINE body == source.body
            T == Whole(source)
            w == source.written
<1>1. PICK P, E : Printed(body, T, P, E)
  BY WholePrinted
<1>2. /\ Len(T) = Len(w) /\ Len(T) \in Nat \ {0} /\ 1 \in 1 .. Len(T)
      /\ ~source.how.mark => T[1] = w[1]
  <2>1. Len(T) = Len(w) /\ T \in Seq(Seq(Text)) /\ T # <<>>
    BY WholeIs
  <2>2. Len(T) \in Nat \ {0} /\ 1 \in 1 .. Len(T)
    BY <2>1
  <2>. QED
    BY <2>1, <2>2, WholeIs
<1>. HIDE DEF body, T, w
<1>3. PICK p, e, q : RecordLaid(body, T[1], P[1], E[1], p, e, q)
  BY <1>1, <1>2, PrintedIs
<1>4. T[1] \in Seq(Text) /\ 1 \in 1 .. Len(T[1]) /\ T[1][1] \in Text /\ body \in Text /\ P[1] = 0
  <2>1. body \in Text
    BY <1>1 DEF Printed
  <2>2. /\ T[1] \in Seq(Text) /\ Len(T[1]) \in Nat \ {0} /\ P[1] = 0
        /\ \A c \in 1 .. Len(T[1]) : T[1][c] \in Text
    BY <1>1, <1>2, PrintedIs
  <2>3. 1 \in 1 .. Len(T[1])
    BY <2>2
  <2>. QED
    BY <2>1, <2>2, <2>3
<1>5. /\ Fielded(body, p, e, 1, Len(T[1]), E[1])
      /\ FieldLaid(body, T[1][1], q[1], p[1], e[1]) /\ q[1] \in BOOLEAN
  BY <1>1, <1>2, <1>3, <1>4, FieldedIs
<1>6. p[1] = 0 /\ 0 < E[1]
  BY <1>3, <1>4 DEF RecordLaid
<1>7. body # <<>>
  <2>1. E[1] <= Len(body) /\ E[1] \in Nat
    BY <1>1, <1>2, PrintedIs
  <2>2. Len(body) # 0
    BY <1>6, <2>1
  <2>. QED
    BY <2>2
<1>8. Head(body) = body[1]
  BY <1>4, <1>7 DEF Text
<1>9. CASE source.how.mark
  <2>1. body[1] = Mark
    <3>1. /\ w \in Seq(Seq(Text)) /\ source.how \in How /\ body = Body(w, source.how)
      BY PublishedIs DEF body, w
    <3>2. PICK F \in Text, x \in 0 .. 1 : Composed(w, source.how, body, F, x)
      BY <3>1, BodyIs
    <3>. QED
      BY <1>9, <3>2 DEF Composed
  <2>. QED
    BY <1>7, <1>8, <1>9, <2>1 DEF Marked, body
<1>10. CASE ~source.how.mark
  <2>1. w[1][1] # <<>> => w[1][1][1] # Mark
    <3>1. w[1][1] # <<>> => Head(w[1][1]) # Mark
      BY <1>10 DEF MarkIsSeen, w
    <3>2. PICK t \in Text : t = w[1][1]
      BY <1>2, <1>4, <1>10
    <3>3. t # <<>> => Head(t) = t[1]
      BY DEF Text
    <3>. QED
      BY <3>1, <3>2, <3>3
  <2>2. T[1][1] # <<>> => T[1][1][1] # Mark
    BY <1>2, <1>10, <2>1
  <2>3. body[1] # Mark
    <3>1. CASE q[1]
      <4>1. PICK D : Spelled(body, T[1][1], 0, e[1], D)
        BY <1>5, <1>6, <3>1 DEF FieldLaid
      <4>2. body[0 + 1] = Quote
        BY <4>1 DEF Spelled
      <4>. QED
        BY <4>2 DEF Quote, Mark
    <3>2. CASE ~q[1]
      <4>1. e[1] = 0 + Len(T[1][1]) /\ Stands(body, 0, T[1][1])
        BY <1>5, <1>6, <3>2 DEF FieldLaid
      <4>2. PICK n \in Nat : n = Len(T[1][1])
        BY <1>4 DEF Text
      <4>3. CASE n = 0
        <5>1. p[1] = e[1]
          BY <1>6, <4>1, <4>2, <4>3
        <5>2. 1 < Len(T[1]) /\ body[e[1] + 1] = Delimiter
          BY <1>5, <5>1 DEF Fielded
        <5>3. e[1] + 1 = 1
          BY <4>1, <4>2, <4>3
        <5>. QED
          BY <5>2, <5>3 DEF Delimiter, Mark
      <4>4. CASE n # 0
        <5>1. 1 \in 1 .. n
          BY <4>4
        <5>2. body[0 + 1] = T[1][1][1]
          BY <4>1, <4>2, <5>1 DEF Stands
        <5>3. T[1][1] # <<>>
          BY <4>2, <4>4
        <5>. QED
          BY <2>2, <5>2, <5>3
      <4>. QED
        BY <4>3, <4>4
    <3>. QED
      BY <1>5, <3>1, <3>2
  <2>. QED
    BY <1>8, <1>10, <2>3 DEF Marked, body
<1>. QED
  BY <1>9, <1>10

-----------------------------------------------------------------------------
(* The limits of a table, as its reader meets them.                        *)
Limited(table) ==
  \A i \in DOMAIN table :
    Len(table[i]) <= MaxFields /\ \A c \in DOMAIN table[i] : Len(table[i][c]) <= MaxField

(* What Loadable asks but the limits.                                      *)
Fitting ==
  /\ source.header \/ source.names # Absent
  /\ Named # <<>> /\ Data # <<>>
  /\ \A i \in DOMAIN Data : Len(Data[i]) = Len(Named)

(* A table is loadable when it fits and what is read is in limits.         *)
LEMMA LimitsAre ==
  ASSUME source \in Sources, Published(source), MarkIsSeen(source), ceiling \in Nat
  PROVE  Loadable <=> Fitting /\ RecordsCost(Whole(source)) <= ceiling /\ Limited(Whole(source))
<1>. DEFINE w == source.written
            T == Whole(source)
            x == IF source.how.mark THEN 1 ELSE 0
<1>1. Marked = x /\ x \in Nat
  BY MarkedIs
<1>2. RecordsCost(T) = RecordsCost(w) + x /\ RecordsCost(w) \in Nat
  BY WholeCost
<1>3. w \in Seq(Seq(Text)) /\ w # <<>> /\ \A i \in 1 .. Len(w) : w[i] # <<>>
  BY PublishedIs
<1>4. DOMAIN w = 1 .. Len(w) /\ 1 \in 1 .. Len(w) /\ T \in Seq(Seq(Text)) /\ Len(T) = Len(w)
      /\ DOMAIN T = 1 .. Len(w)
  BY <1>3, WholeIs
<1>. HIDE DEF w, T, x
<1>5. ASSUME NEW i \in 1 .. Len(w)
      PROVE  /\ Len(T[i]) = Len(w[i]) /\ DOMAIN T[i] = DOMAIN w[i]
             /\ \A c \in DOMAIN w[i] : Len(T[i][c]) = Len(w[i][c]) + (IF i = 1 /\ c = 1 THEN x ELSE 0)
  <2>1. PICK r \in Seq(Text) : r = w[i] /\ r # <<>>
    BY <1>3
  <2>2. PICK n \in Nat : n = Len(r) /\ DOMAIN r = 1 .. n /\ \A c \in 1 .. n : r[c] \in Text /\ Len(r[c]) \in Nat
    <3>1. Len(r) \in Nat /\ DOMAIN r = 1 .. Len(r) /\ \A c \in 1 .. Len(r) : r[c] \in Text
      OBVIOUS
    <3>2. \A t \in Text : Len(t) \in Nat
      BY DEF Text
    <3>. QED
      BY <3>1, <3>2
  <2>3. T[i] \in Seq(Text)
    BY <1>4
  <2>4. CASE i = 1 /\ source.how.mark
    <3>1. T[i] = WithMark(r) /\ x = 1
      BY <1>4, <2>1, <2>4, WholeIs DEF T, w, x
    <3>2. /\ Len(T[i]) = n /\ T[i][1] = <<Mark>> \o r[1]
          /\ \A c \in 1 .. n : c # 1 => T[i][c] = r[c]
      <4>1. /\ Len(WithMark(r)) = Len(r) /\ WithMark(r)[1] = <<Mark>> \o r[1]
            /\ \A c \in 1 .. Len(r) : c # 1 => WithMark(r)[c] = r[c]
        BY <2>1, MarkedRecord
      <4>. QED
        BY <2>2, <3>1, <4>1
    <3>3. DOMAIN T[i] = 1 .. n
      BY <2>3, <3>2
    <3>4. ASSUME NEW c \in 1 .. n PROVE Len(T[i][c]) = Len(r[c]) + (IF i = 1 /\ c = 1 THEN x ELSE 0)
      <4>1. CASE c = 1
        <5>1. Len(<<Mark>> \o r[1]) = Len(r[1]) + 1
          BY <2>2, <4>1, MarkedText
        <5>. QED
          BY <2>4, <3>1, <3>2, <4>1, <5>1
      <4>2. CASE c # 1
        BY <2>2, <3>2, <4>2
      <4>. QED
        BY <4>1, <4>2
    <3>. QED
      BY <2>1, <2>2, <3>2, <3>3, <3>4
  <2>5. CASE ~(i = 1 /\ source.how.mark)
    <3>1. T[i] = r
      BY <1>4, <2>1, <2>5, WholeIs DEF T, w
    <3>2. i = 1 => x = 0
      BY <2>5 DEF x
    <3>3. ASSUME NEW c \in 1 .. n PROVE Len(T[i][c]) = Len(r[c]) + (IF i = 1 /\ c = 1 THEN x ELSE 0)
      BY <2>2, <3>1, <3>2
    <3>. QED
      BY <2>1, <2>2, <3>1, <3>3
  <2>. QED
    BY <2>4, <2>5
<1>6. Limited(T) <=>
        \A i \in DOMAIN w :
          /\ Len(w[i]) <= MaxFields
          /\ \A c \in DOMAIN w[i] : Len(w[i][c]) + (IF i = 1 /\ c = 1 THEN x ELSE 0) <= MaxField
  BY <1>4, <1>5 DEF Limited
<1>7. RecordsCost(T) <= ceiling <=> Marked + RecordsCost(w) <= ceiling
  BY <1>1, <1>2
<1>8. Loadable <=>
        /\ Fitting
        /\ Marked + RecordsCost(w) <= ceiling
        /\ \A i \in DOMAIN w :
             /\ Len(w[i]) <= MaxFields
             /\ \A c \in DOMAIN w[i] : Len(w[i][c]) + (IF i = 1 /\ c = 1 THEN x ELSE 0) <= MaxField
  BY <1>1 DEF Loadable, Fitting, Written, w
<1>. QED
  BY <1>6, <1>7, <1>8 DEF T

-----------------------------------------------------------------------------
(* A file that was published, and where what was written stands in it.     *)
Given(body, T, P, E) ==
  /\ source \in Sources /\ Published(source) /\ MarkIsSeen(source)
  /\ body = source.body /\ T = Whole(source) /\ Printed(body, T, P, E)

(* The reader is in a record or behind one.                                *)
Amid(body, T, P, E) == \E i, p, e, q, c, k, D : Inside(body, T, P, E, i, p, e, q, c, k, D)
(* The reader is behind some record.                                       *)
After(body, T, P, E) == \E i : Behind(body, T, P, E, i)

(* What was read of a published file is what it holds so far.              *)
Following == \E body, T, P, E : Given(body, T, P, E) /\ (Amid(body, T, P, E) \/ After(body, T, P, E))

(* What was read of a published file, at every stage of reading it.        *)
ReadInv ==
  Published(source) =>
    /\ outcome = "reading" => Following
    /\ outcome = "split" => records = Whole(source)
    /\ CsvReadsBack

(* A line end is remembered only between records, and what is held is      *)
(* within the limits of a table.                                           *)
TidyInv ==
  source.format = "csv" =>
    /\ started => ~afterCr
    /\ Limited(records) /\ \A c \in DOMAIN fields : Len(fields[c]) <= MaxField

-----------------------------------------------------------------------------
(* A reader that still follows the table keeps the invariant.              *)
LEMMA GoesFollowing ==
  ASSUME NEW body, NEW T, NEW P, NEW E, Given(body, T, P, E), source' = source,
         outcome' = "reading", Amid(body, T, P, E)' \/ After(body, T, P, E)'
  PROVE  ReadInv'
<1>1. Given(body, T, P, E)'
  BY DEF Given, Published, MarkIsSeen, Whole
<1>2. Following'
  BY <1>1 DEF Following
<1>. QED
  BY <1>2 DEF ReadInv, CsvReadsBack

(* What a table should be read as is settled by its file and ceiling.      *)
LEMMA Same ==
  ASSUME UNCHANGED <<source, ceiling>>
  PROVE  /\ Loadable' = Loadable /\ Data' = Data /\ Named' = Named /\ Fitting' = Fitting
BY Zenon DEF Loadable, Fitting, Data, Named, Written, Marked

(* A table that is not loadable may be refused with any error.             *)
LEMMA Refused ==
  ASSUME NEW error, error \notin {"reading", "split", "loaded"}, Fail(error), ~Loadable
  PROVE  ReadInv'
<1>1. outcome' = error /\ UNCHANGED <<source, ceiling>>
  BY DEF Fail
<1>2. ~Loadable'
  BY <1>1, Same
<1>. QED
  BY <1>1, <1>2 DEF ReadInv, CsvReadsBack

-----------------------------------------------------------------------------
(* A field that does not fit makes a table that does not.                  *)
LEMMA TooMuch ==
  ASSUME NEW body, NEW T, NEW P, NEW E, Given(body, T, P, E), ScanInv,
         NEW i \in 1 .. Len(T), NEW c \in 1 .. Len(T[i]),
         \/ c > MaxFields
         \/ Len(T[i][c]) > MaxField
         \/ RecordsCost(T) > ceiling
  PROVE  ~Loadable
<1>1. source \in Sources /\ Published(source) /\ MarkIsSeen(source) /\ T = Whole(source)
  BY DEF Given
<1>2. ceiling \in Nat
  BY ReaderAssumption DEF ScanInv
<1>3. /\ i \in DOMAIN T /\ c \in DOMAIN T[i] /\ Len(T[i]) \in Nat /\ c <= Len(T[i])
      /\ Len(T[i][c]) \in Nat /\ RecordsCost(T) \in Nat
  <2>1. T \in Seq(Seq(Text)) /\ Printed(body, T, P, E)
    BY DEF Given, Printed
  <2>2. Len(T[i]) \in Nat /\ DOMAIN T[i] = 1 .. Len(T[i]) /\ T[i][c] \in Text
    BY <2>1, PrintedIs
  <2>3. Len(T[i][c]) \in Nat
    BY <2>2 DEF Text
  <2>. QED
    BY <2>1, <2>2, <2>3, RecordsNat
<1>4. CASE c > MaxFields \/ Len(T[i][c]) > MaxField
  <2>1. MaxFields \in Nat /\ MaxField \in Nat
    BY ReaderAssumption
  <2>2. ~(Len(T[i]) <= MaxFields /\ Len(T[i][c]) <= MaxField)
    BY <1>3, <1>4, <2>1
  <2>3. ~Limited(T)
    BY <1>3, <2>2 DEF Limited
  <2>. QED
    BY <1>1, <1>2, <2>3, LimitsAre
<1>5. CASE RecordsCost(T) > ceiling
  <2>1. ~(RecordsCost(T) <= ceiling)
    BY <1>2, <1>3, <1>5
  <2>. QED
    BY <1>1, <1>2, <2>1, LimitsAre
<1>. QED
  BY <1>4, <1>5

(* What is charged amid a record is what came before of it.                *)
LEMMA InsideCharged ==
  ASSUME NEW body, NEW T, NEW P, NEW E, Given(body, T, P, E), Csv,
         NEW i, NEW p, NEW e, NEW q, NEW c, NEW k, NEW D, Inside(body, T, P, E, i, p, e, q, c, k, D)
  PROVE  /\ i \in 1 .. Len(T) /\ c \in 1 .. Len(T[i]) /\ T[i][c] \in Text
         /\ k \in 0 .. Len(T[i][c]) /\ Len(field) = k /\ Len(fields) = c - 1
         /\ field = First(T[i][c], k)
         /\ held \in Nat /\ record \in Nat /\ Len(T[i][c]) \in Nat /\ RecordsCost(T) \in Nat
         /\ held + record + CellOverhead + Len(T[i][c]) + RowOverhead <= RecordsCost(T)
<1>1. /\ i \in 1 .. Len(T) /\ c \in 1 .. Len(T[i])
      /\ Reached(body, T[i][c], k, q[c], p[c], e[c], D, state, at)
      /\ records = First(T, i - 1) /\ fields = First(T[i], c - 1) /\ field = First(T[i][c], k)
  BY DEF Inside
<1>2. T \in Seq(Seq(Text)) /\ Printed(body, T, P, E)
  BY DEF Given, Printed
<1>3. T[i] \in Seq(Text) /\ T[i][c] \in Text /\ k \in 0 .. Len(T[i][c]) /\ Len(T[i]) \in Nat
  BY <1>1, <1>2, PrintedIs DEF Reached
<1>4. Len(field) = k
  BY <1>1, <1>3, FirstIs DEF Text
<1>5. Len(fields) = c - 1
  <2>1. c - 1 \in 0 .. Len(T[i])
    BY <1>1, <1>3
  <2>. QED
    BY <1>1, <1>3, <2>1, FirstIs
<1>6. held = RecordsCost(records) /\ record = TextsCost(fields)
  BY DEF Csv, CsvCharged
<1>7. /\ held \in Nat /\ record \in Nat /\ Len(T[i][c]) \in Nat /\ RecordsCost(T) \in Nat
      /\ held + record + CellOverhead + Len(T[i][c]) + RowOverhead <= RecordsCost(T)
  BY <1>1, <1>2, <1>6, FieldAfford
<1>. QED
  BY <1>1, <1>3, <1>4, <1>5, <1>7

(* What a partial charge is past, the whole is.                            *)
LEMMA Exceeds ==
  ASSUME NEW h \in Nat, NEW r \in Nat, NEW o \in Nat, NEW w \in Nat, NEW l \in Nat, NEW z \in Nat,
         NEW most \in Nat, NEW n \in Nat, h + r + o + l + w <= z,
         n <= l, h + r + w + (n + o) > most
  PROVE  z > most
OBVIOUS

(* A byte of a field is taken, or the table is past a limit.               *)
LEMMA PushRead ==
  ASSUME NEW body, NEW T, NEW P, NEW E, Given(body, T, P, E), Csv, Feeding,
         NEW i, NEW p, NEW e, NEW q, NEW c, NEW k, NEW D, Inside(body, T, P, E, i, p, e, q, c, k, D),
         NEW byte, NEW next, Push(byte, next), k < Len(T[i][c]), byte = T[i][c][k + 1],
         Reached(body, T[i][c], k + 1, q[c], p[c], e[c], D, next, at + 1)
  PROVE  ReadInv'
<1>1. /\ i \in 1 .. Len(T) /\ c \in 1 .. Len(T[i]) /\ T[i][c] \in Text
      /\ k \in 0 .. Len(T[i][c]) /\ Len(field) = k /\ field = First(T[i][c], k)
      /\ held \in Nat /\ record \in Nat /\ Len(T[i][c]) \in Nat /\ RecordsCost(T) \in Nat
      /\ held + record + CellOverhead + Len(T[i][c]) + RowOverhead <= RecordsCost(T)
  BY InsideCharged
<1>2. ScanInv /\ ceiling \in Nat /\ MaxField \in Nat
  BY ReaderAssumption DEF Csv, ScanInv
<1>3. CASE Len(field) >= MaxField /\ Fail("malformed")
  <2>1. Len(T[i][c]) > MaxField
    BY <1>1, <1>2, <1>3
  <2>2. ~Loadable
    BY <1>1, <1>2, <2>1, TooMuch
  <2>. QED
    BY <1>3, <2>2, Refused
<1>4. CASE ~Affords(record, Len(field) + 1 + CellOverhead) /\ Fail("over")
  <2>0. PICK l \in Nat, z \in Nat : l = Len(T[i][c]) /\ z = RecordsCost(T) /\ k \in Nat
    BY <1>1
  <2>1. held + record + RowOverhead + (k + 1 + CellOverhead) > ceiling
    <3>1. ~(held + record + RowOverhead + (k + 1 + CellOverhead) <= ceiling)
      BY <1>1, <1>4 DEF Affords
    <3>2. held \in Nat /\ record \in Nat
      BY <1>1
    <3>. QED
      BY <1>2, <2>0, <3>1, <3>2, Costs
  <2>11. held + record + CellOverhead + l + RowOverhead <= z /\ k < l
    BY <1>1, <2>0
  <2>12. z > ceiling
    <3>1. held \in Nat /\ record \in Nat /\ k + 1 \in Nat /\ k + 1 <= l
      BY <1>1, <2>0, <2>11
    <3>. QED
      BY <1>2, <2>1, <2>11, <3>1, Costs, Exceeds
  <2>2. RecordsCost(T) > ceiling
    BY <2>0, <2>12
  <2>3. ~Loadable
    BY <1>1, <1>2, <2>2, TooMuch
  <2>. QED
    BY <1>4, <2>3, Refused
<1>5. CASE /\ Consume /\ field' = Append(field, byte) /\ state' = next /\ started' = TRUE
           /\ UNCHANGED <<held, fields, record, records>>
  <2>1. at' = at + 1 /\ source' = source /\ outcome' = "reading"
    BY <1>5 DEF Consume, Feeding
  <2>2. field' = First(T[i][c], k + 1)
    <3>1. PICK t \in Seq(STRING) : t = T[i][c]
      BY <1>1 DEF Text
    <3>2. k \in 0 .. Len(t) - 1
      BY <1>1, <3>1
    <3>3. Append(First(t, k), t[k + 1]) = First(t, k + 1)
      BY <3>2, FirstIs
    <3>. QED
      BY <1>1, <1>5, <3>1, <3>3
  <2>3. Inside(body, T, P, E, i, p, e, q, c, k + 1, D)'
    BY <1>5, <2>1, <2>2, GoesOn
  <2>4. Amid(body, T, P, E)'
    BY <2>3 DEF Amid
  <2>. QED
    BY <2>1, <2>4, GoesFollowing
<1>. QED
  BY <1>3, <1>4, <1>5 DEF Push

(* A field refused at its end is past a limit.                             *)
LEMMA CloseRead ==
  ASSUME NEW body, NEW T, NEW P, NEW E, Given(body, T, P, E), Csv,
         NEW i, NEW p, NEW e, NEW q, NEW c, NEW k, NEW D, Inside(body, T, P, E, i, p, e, q, c, k, D),
         k = Len(T[i][c]), CloseError # "none", Fail(CloseError)
  PROVE  ReadInv'
<1>1. /\ i \in 1 .. Len(T) /\ c \in 1 .. Len(T[i]) /\ T[i][c] \in Text
      /\ Len(field) = k /\ Len(fields) = c - 1 /\ field = First(T[i][c], k)
      /\ held \in Nat /\ record \in Nat /\ Len(T[i][c]) \in Nat /\ RecordsCost(T) \in Nat
      /\ held + record + CellOverhead + Len(T[i][c]) + RowOverhead <= RecordsCost(T)
  BY InsideCharged
<1>2. ScanInv /\ ceiling \in Nat /\ MaxFields \in Nat
  BY ReaderAssumption DEF Csv, ScanInv
<1>3. CloseError \in {"malformed", "over"}
  BY CloseErrors
<1>4. ~Has(field, {NotText})
  <2>1. field = T[i][c]
    BY <1>1, FirstIs DEF Text
  <2>. DEFINE w == source.written
  <2>2. source \in Sources /\ Published(source) /\ T = Whole(source)
    BY DEF Given
  <2>3. w \in Seq(Seq(Text)) /\ Len(T) = Len(w) /\ Len(T[i]) = Len(w[i])
    BY <1>1, <2>2, PublishedIs, WholeIs
  <2>4. PICK r \in Seq(Text) : r = w[i] /\ r # <<>> /\ \A d \in DOMAIN r : ~Has(r[d], {NotText})
    <3>1. i \in 1 .. Len(w) /\ w[i] \in Seq(Text)
      BY <1>1, <2>3
    <3>2. w[i] # <<>> /\ \A d \in DOMAIN w[i] : ~Has(w[i][d], {NotText})
      BY <2>2, <3>1, PublishedIs
    <3>. QED
      BY <3>1, <3>2
  <2>5. c \in DOMAIN r /\ r[c] \in Text /\ ~Has(r[c], {NotText})
    <3>1. c \in DOMAIN r /\ r[c] \in Text
      BY <1>1, <2>3, <2>4
    <3>. QED
      BY <2>4, <3>1
  <2>6. CASE i = 1 /\ source.how.mark
    <3>1. T[i] = WithMark(r)
      BY <1>1, <2>2, <2>3, <2>4, <2>6, WholeIs
    <3>2. c # 1 => T[i][c] = r[c]
      BY <1>1, <2>3, <2>4, <3>1, MarkedRecord
    <3>3. CASE c = 1
      <4>1. T[i][c] = <<Mark>> \o r[1] /\ r[1] \in Text
        BY <2>4, <2>5, <3>1, <3>3, MarkedRecord
      <4>2. PICK t \in Text : t = r[1] /\ ~Has(t, {NotText})
        BY <2>5, <3>3
      <4>3. PICK u \in Text : u = <<Mark>> \o t
        BY MarkedText
      <4>4. u[1] = Mark /\ Len(u) = Len(t) + 1 /\ \A m \in 2 .. Len(t) + 1 : u[m] = t[m - 1]
        BY <4>3, MarkedText
      <4>5. DOMAIN u = 1 .. Len(u) /\ DOMAIN t = 1 .. Len(t) /\ Len(t) \in Nat
        BY DEF Text
      <4>6. ASSUME NEW m \in DOMAIN u PROVE u[m] # NotText
        <5>1. CASE m = 1
          BY <4>4, <5>1 DEF Mark, NotText
        <5>2. CASE m # 1
          <6>1. m \in 2 .. Len(t) + 1 /\ m - 1 \in DOMAIN t
            BY <4>4, <4>5, <5>2
          <6>. QED
            BY <4>2, <4>4, <6>1 DEF Has
        <5>. QED
          BY <5>1, <5>2
      <4>. QED
        BY <2>1, <4>1, <4>2, <4>3, <4>6 DEF Has
    <3>. QED
      BY <2>1, <2>5, <3>2, <3>3
  <2>7. CASE ~(i = 1 /\ source.how.mark)
    <3>1. T[i] = r
      BY <1>1, <2>2, <2>3, <2>4, <2>7, WholeIs
    <3>. QED
      BY <2>1, <2>5, <3>1
  <2>. QED
    BY <2>6, <2>7
<1>5. CASE Len(fields) >= MaxFields
  <2>1. c > MaxFields
    <3>1. c \in Nat
      BY <1>1
    <3>. QED
      BY <1>1, <1>2, <1>5, <3>1
  <2>. QED
    BY <1>1, <1>2, <1>3, <2>1, TooMuch, Refused
<1>6. CASE ~(Len(fields) >= MaxFields)
  <2>1. ~Affords(Closed, 0)
    BY <1>4, <1>6 DEF CloseError
  <2>0. PICK l \in Nat, z \in Nat : l = Len(T[i][c]) /\ z = RecordsCost(T) /\ k = l
    BY <1>1
  <2>3. held \in Nat /\ record \in Nat
    BY <1>1
  <2>2. held + record + RowOverhead + (l + CellOverhead) > ceiling
    <3>1. Closed = record + CellOverhead + l
      BY <1>1, <2>0 DEF Closed
    <3>2. ~(held + (record + CellOverhead + l) + RowOverhead + 0 <= ceiling)
      BY <2>1, <3>1 DEF Affords
    <3>3. ceiling \in Nat
      BY <1>2
    <3>4. PICK o \in Nat, w \in Nat, m \in Nat, h \in Nat, r \in Nat :
            o = CellOverhead /\ w = RowOverhead /\ m = ceiling /\ h = held /\ r = record
      BY <2>3, <3>3, Costs
    <3>5. ~(h + (r + o + l) + w + 0 <= m)
      BY <3>2, <3>4
    <3>6. h + r + w + (l + o) > m
      BY <3>5
    <3>. QED
      BY <3>4, <3>6
  <2>21. held + record + CellOverhead + l + RowOverhead <= z
    BY <1>1, <2>0
  <2>22. z > ceiling
    <3>1. l <= l
      BY <2>0
    <3>. QED
      BY <1>2, <2>0, <2>2, <2>3, <2>21, <3>1, Costs, Exceeds
  <2>4. RecordsCost(T) > ceiling
    BY <2>0, <2>22
  <2>. QED
    BY <1>1, <1>2, <1>3, <2>4, TooMuch, Refused
<1>. QED
  BY <1>5, <1>6

-----------------------------------------------------------------------------
(* Behind a record, with a line end to take.                               *)
Idle(body, T, P, E) ==
  \E i : /\ Behind(body, T, P, E, i) /\ at <= Len(body) /\ body[at] \in {LF, CR}
         /\ at <= IF i < Len(T) THEN P[i + 1] ELSE Len(body)

(* The reader is in a record, or has a line end to take.                   *)
LEMMA Where ==
  ASSUME NEW body, NEW T, NEW P, NEW E, Given(body, T, P, E), Feeding,
         Amid(body, T, P, E) \/ After(body, T, P, E)
  PROVE  (Amid(body, T, P, E) \/ Idle(body, T, P, E)) /\ Byte = body[at] /\ at <= Len(body)
<1>1. body = source.body /\ Printed(body, T, P, E) /\ at <= Len(body) /\ Byte = body[at]
  BY DEF Given, Feeding, Byte
<1>2. Len(body) \in Nat
  BY <1>1 DEF Printed, Text
<1>3. ASSUME NEW i, Behind(body, T, P, E, i) PROVE Amid(body, T, P, E) \/ Idle(body, T, P, E)
  <2>1. at \in Nat
    BY <1>3 DEF Behind
  <2>2. ~(at > Len(body))
    BY <1>1, <1>2, <2>1
  <2>. QED
    BY <1>1, <1>3, <2>2, BehindIs DEF Amid, Idle
<1>. QED
  BY <1>1, <1>3 DEF After

(* A line end behind a record changes nothing that was read.               *)
LEMMA StaysBehind ==
  ASSUME NEW body, NEW T, NEW P, NEW E, Given(body, T, P, E), Feeding, Idle(body, T, P, E), Consume,
         UNCHANGED <<held, state, started, field, fields, record, records>>
  PROVE  ReadInv'
<1>1. PICK i : /\ Behind(body, T, P, E, i)
               /\ at <= IF i < Len(T) THEN P[i + 1] ELSE Len(body)
  BY DEF Idle
<1>2. at' = at + 1 /\ source' = source /\ outcome' = "reading"
  BY DEF Consume, Feeding
<1>3. i \in 1 .. Len(T) /\ at \in Nat /\ E[i] < at /\ Printed(body, T, P, E)
  BY <1>1 DEF Behind, Given
<1>4. PICK y \in Nat, z \in Nat : y = E[i] /\ z = IF i < Len(T) THEN P[i + 1] ELSE Len(body)
  BY <1>3, PrintedIs
<1>5. at' \in Nat /\ E[i] < at' /\ at' <= 1 + z
  BY <1>1, <1>2, <1>3, <1>4
<1>6. Behind(body, T, P, E, i)'
  BY <1>1, <1>4, <1>5 DEF Behind
<1>7. After(body, T, P, E)'
  BY <1>6 DEF After
<1>. QED
  BY <1>2, <1>7, GoesFollowing

(* What ends a field is a delimiter, or, of a record's last, what ends a   *)
(* line.                                                                   *)
LEMMA Follows ==
  ASSUME NEW body, NEW T, NEW P, NEW E, Given(body, T, P, E),
         NEW i, NEW p, NEW e, NEW q, NEW c, NEW k, NEW D, Inside(body, T, P, E, i, p, e, q, c, k, D),
         state # "Quoted", at <= Len(body) => body[at] \in {Delimiter, LF, CR}
  PROVE  /\ k = Len(T[i][c]) /\ at = e[c] + 1
         /\ c < Len(T[i]) => at <= Len(body) /\ body[at] = Delimiter
         /\ c < Len(T[i]) \/ c = Len(T[i])
         /\ c = Len(T[i]) => /\ at <= Len(body) => body[at] \in {LF, CR}
                             /\ at > Len(body) => i = Len(T)
         /\ ~started => at <= Len(body) /\ body[at] = Delimiter
<1>1. /\ i \in 1 .. Len(T) /\ c \in 1 .. Len(T[i]) /\ RecordLaid(body, T[i], P[i], E[i], p, e, q)
      /\ Reached(body, T[i][c], k, q[c], p[c], e[c], D, state, at)
      /\ started \/ (c = 1 /\ state = "FieldStart")
      /\ Printed(body, T, P, E) /\ body \in Text
  BY DEF Inside, Given, Printed
<1>2. k = Len(T[i][c]) /\ at = e[c] + 1 /\ (state = "FieldStart" => p[c] = e[c])
  BY <1>1, FieldRead
<1>3. PICK n \in Nat, L \in Nat, z \in Nat, N \in Nat : n = Len(T[i]) /\ L = Len(body) /\ z = E[i] /\ N = Len(T)
  BY <1>1, PrintedIs
<1>4. Fielded(body, p, e, c, n, z)
  BY <1>1, <1>3, FieldedIs
<1>5. PICK y \in Nat : y = e[c]
  BY <1>4 DEF Fielded
<1>6. c < n => at <= L /\ body[at] = Delimiter
  BY <1>2, <1>3, <1>4, <1>5 DEF Fielded
<1>7. c < n \/ c = n
  BY <1>1, <1>3
<1>8. c = n => /\ at <= L => body[at] \in {LF, CR}
               /\ at > L => i = N
  <2>. SUFFICES ASSUME c = n PROVE (at <= L => body[at] \in {LF, CR}) /\ (at > L => i = N)
    OBVIOUS
  <2>1. at = z + 1
    BY <1>2, <1>4 DEF Fielded
  <2>2. CASE i < N
    <3>1. /\ P[i + 1] \in Nat /\ z < P[i + 1] /\ P[i + 1] <= L
          /\ \A b \in z + 1 .. P[i + 1] : body[b] \in {LF, CR}
      BY <1>1, <1>3, <2>2, PrintedIs
    <3>2. PICK w \in Nat : w = P[i + 1]
      BY <3>1
    <3>3. at \in z + 1 .. w /\ ~(at > L)
      BY <2>1, <3>1, <3>2
    <3>. QED
      BY <3>1, <3>2, <3>3
  <2>3. CASE i = N
    <3>1. \A b \in z + 1 .. L : body[b] \in {LF, CR}
      BY <1>1, <1>3, <2>3, PrintedIs
    <3>2. at <= L => at \in z + 1 .. L
      BY <2>1
    <3>. QED
      BY <2>3, <3>1, <3>2
  <2>. QED
    BY <1>1, <1>3, <2>2, <2>3
<1>9. ~started => c < n
  BY <1>1, <1>2, <1>4 DEF Fielded
<1>. QED
  BY <1>2, <1>3, <1>6, <1>7, <1>8, <1>9

-----------------------------------------------------------------------------
(* Each action of a reader that follows what was written.                  *)
Step(body, T, P, E) ==
  /\ Csv /\ TidyInv /\ Feeding /\ Given(body, T, P, E)
  /\ Amid(body, T, P, E) \/ Idle(body, T, P, E)
  /\ Byte = body[at] /\ at <= Len(body) /\ source.format = "csv"

(* The LF of a CRLF is never data.                                         *)
LEMMA SkipRead ==
  ASSUME NEW body, NEW T, NEW P, NEW E, Step(body, T, P, E), SkipLF
  PROVE  ReadInv'
<1>1. /\ Consume /\ UNCHANGED <<held, state, started, field, fields, record, records>>
      /\ state # "Quoted" /\ afterCr /\ Byte = LF
  BY DEF SkipLF, Spoken
<1>2. CASE Idle(body, T, P, E)
  BY <1>1, <1>2, StaysBehind DEF Step
<1>3. ASSUME NEW i, NEW p, NEW e, NEW q, NEW c, NEW k, NEW D, Inside(body, T, P, E, i, p, e, q, c, k, D)
      PROVE  FALSE
  <2>1. ~started /\ body[at] = LF
    BY <1>1 DEF Step, TidyInv
  <2>2. body[at] = Delimiter
    BY <1>1, <1>3, <2>1, Follows DEF Step
  <2>. QED
    BY <2>1, <2>2 DEF LF, Delimiter
<1>. QED
  BY <1>2, <1>3 DEF Step, Amid

(* A byte that is no data moves the reader through its field.              *)
LEMMA Marching ==
  ASSUME NEW body, NEW T, NEW P, NEW E, Step(body, T, P, E),
         NEW i, NEW p, NEW e, NEW q, NEW c, NEW k, NEW D, Inside(body, T, P, E, i, p, e, q, c, k, D),
         Reached(body, T[i][c], k, q[c], p[c], e[c], D, state', at + 1),
         Consume, UNCHANGED <<field, fields, records>>, started'
  PROVE  ReadInv'
<1>1. at' = at + 1 /\ source' = source /\ outcome' = "reading"
  BY DEF Consume, Feeding, Step
<1>2. field' = First(T[i][c], k)
  BY DEF Inside
<1>3. Inside(body, T, P, E, i, p, e, q, c, k, D)'
  BY <1>1, <1>2, GoesOn
<1>4. Amid(body, T, P, E)'
  BY <1>3 DEF Amid
<1>. QED
  BY <1>1, <1>4, GoesFollowing DEF Step

(* A quote at the start of a field opens a quoted one.                     *)
LEMMA OpenRead ==
  ASSUME NEW body, NEW T, NEW P, NEW E, Step(body, T, P, E), OpenQuote
  PROVE  ReadInv'
<1>1. /\ state = "FieldStart" /\ Byte = Quote /\ Consume /\ state' = "Quoted" /\ started' = TRUE
      /\ UNCHANGED <<field, fields, records>>
  BY DEF OpenQuote
<1>2. ~Idle(body, T, P, E)
  BY <1>1 DEF Idle, Step, Quote, LF, CR
<1>3. ASSUME NEW i, NEW p, NEW e, NEW q, NEW c, NEW k, NEW D, Inside(body, T, P, E, i, p, e, q, c, k, D)
      PROVE  ReadInv'
  <2>1. Reached(body, T[i][c], k, q[c], p[c], e[c], D, "FieldStart", at)
    BY <1>1, <1>3 DEF Inside
  <2>2. body[at] = Quote /\ at <= Len(body) /\ body \in Text
    BY <1>1 DEF Step, Given, Printed
  <2>3. Reached(body, T[i][c], k, q[c], p[c], e[c], D, "Quoted", at + 1)
    BY <2>1, <2>2, OutOfQuotes
  <2>. QED
    BY <1>1, <1>3, <2>3, Marching
<1>. QED
  BY <1>2, <1>3 DEF Step, Amid

(* A quote in a quoted field is its last byte, or doubled.                 *)
LEMMA InsideRead ==
  ASSUME NEW body, NEW T, NEW P, NEW E, Step(body, T, P, E), QuoteInside
  PROVE  ReadInv'
<1>1. /\ state = "Quoted" /\ Byte = Quote /\ Consume /\ state' = "QuoteInQuoted"
      /\ UNCHANGED <<started, field, fields, records>>
  BY DEF QuoteInside
<1>2. ~Idle(body, T, P, E)
  BY <1>1 DEF Idle, Behind
<1>3. ASSUME NEW i, NEW p, NEW e, NEW q, NEW c, NEW k, NEW D, Inside(body, T, P, E, i, p, e, q, c, k, D)
      PROVE  ReadInv'
  <2>1. Reached(body, T[i][c], k, q[c], p[c], e[c], D, "Quoted", at) /\ started
    BY <1>1, <1>3 DEF Inside
  <2>2. body[at] = Quote /\ at <= Len(body) /\ body \in Text
    BY <1>1 DEF Step, Given, Printed
  <2>3. Reached(body, T[i][c], k, q[c], p[c], e[c], D, "QuoteInQuoted", at + 1)
    BY <2>1, <2>2, InQuotes
  <2>. QED
    BY <1>1, <1>3, <2>1, <2>3, Marching
<1>. QED
  BY <1>2, <1>3 DEF Step, Amid

(* Any other byte outside quotes is the next of an unquoted field.         *)
LEMMA UnquotedRead ==
  ASSUME NEW body, NEW T, NEW P, NEW E, Step(body, T, P, E), Unquoted
  PROVE  ReadInv'
<1>1. /\ state \in {"FieldStart", "Unquoted"} /\ Byte \notin {Delimiter, LF, CR}
      /\ state = "FieldStart" => Byte # Quote
      /\ Push(Byte, "Unquoted")
  BY DEF Unquoted
<1>2. ~Idle(body, T, P, E)
  BY <1>1 DEF Idle, Step
<1>3. ASSUME NEW i, NEW p, NEW e, NEW q, NEW c, NEW k, NEW D, Inside(body, T, P, E, i, p, e, q, c, k, D)
      PROVE  ReadInv'
  <2>1. Reached(body, T[i][c], k, q[c], p[c], e[c], D, state, at)
    BY <1>3 DEF Inside
  <2>2. body[at] = Byte /\ at <= Len(body) /\ body \in Text
    BY DEF Step, Given, Printed
  <2>3. k < Len(T[i][c]) /\ Byte = T[i][c][k + 1]
        /\ Reached(body, T[i][c], k + 1, q[c], p[c], e[c], D, "Unquoted", at + 1)
    BY <1>1, <2>1, <2>2, OutOfQuotes
  <2>. QED
    BY <1>1, <1>3, <2>3, PushRead DEF Step
<1>. QED
  BY <1>2, <1>3 DEF Step, Amid

(* Any byte in quotes but a quote is the next of its field.                *)
LEMMA QuotedRead ==
  ASSUME NEW body, NEW T, NEW P, NEW E, Step(body, T, P, E), QuotedData
  PROVE  ReadInv'
<1>1. state = "Quoted" /\ Byte # Quote /\ Push(Byte, "Quoted")
  BY DEF QuotedData
<1>2. ~Idle(body, T, P, E)
  BY <1>1 DEF Idle, Behind
<1>3. ASSUME NEW i, NEW p, NEW e, NEW q, NEW c, NEW k, NEW D, Inside(body, T, P, E, i, p, e, q, c, k, D)
      PROVE  ReadInv'
  <2>1. Reached(body, T[i][c], k, q[c], p[c], e[c], D, "Quoted", at)
    BY <1>1, <1>3 DEF Inside
  <2>2. body[at] = Byte /\ at <= Len(body) /\ body \in Text
    BY DEF Step, Given, Printed
  <2>3. k < Len(T[i][c]) /\ body[at] = T[i][c][k + 1]
        /\ Reached(body, T[i][c], k + 1, q[c], p[c], e[c], D, "Quoted", at + 1)
    <3>1. body[at] # Quote
      BY <1>1, <2>2
    <3>. QED
      BY <2>1, <2>2, <3>1, InQuotes
  <2>. QED
    BY <1>1, <1>3, <2>2, <2>3, PushRead DEF Step
<1>. QED
  BY <1>2, <1>3 DEF Step, Amid

(* A second quote is data, and nothing else may follow the first.          *)
LEMMA DoubledRead ==
  ASSUME NEW body, NEW T, NEW P, NEW E, Step(body, T, P, E), DoubledQuote \/ TextAfterQuote
  PROVE  ReadInv'
<1>1. state = "QuoteInQuoted"
  BY DEF DoubledQuote, TextAfterQuote
<1>2. ~Idle(body, T, P, E)
  BY <1>1 DEF Idle, Behind
<1>3. ASSUME NEW i, NEW p, NEW e, NEW q, NEW c, NEW k, NEW D, Inside(body, T, P, E, i, p, e, q, c, k, D)
      PROVE  ReadInv'
  <2>1. Reached(body, T[i][c], k, q[c], p[c], e[c], D, "QuoteInQuoted", at)
    BY <1>1, <1>3 DEF Inside
  <2>2. body[at] = Byte /\ at <= Len(body) /\ body \in Text
    BY DEF Step, Given, Printed
  <2>3. /\ Byte = Quote => /\ k < Len(T[i][c]) /\ Quote = T[i][c][k + 1]
                           /\ Reached(body, T[i][c], k + 1, q[c], p[c], e[c], D, "Quoted", at + 1)
        /\ Byte # Quote => Byte \in {Delimiter, LF, CR}
    BY <2>1, <2>2, AfterQuote
  <2>4. CASE DoubledQuote
    <3>1. Byte = Quote /\ Push(Quote, "Quoted")
      BY <2>4 DEF DoubledQuote
    <3>. QED
      BY <1>3, <2>3, <3>1, PushRead DEF Step
  <2>5. CASE TextAfterQuote
    BY <2>3, <2>5 DEF TextAfterQuote
  <2>. QED
    BY <2>4, <2>5
<1>. QED
  BY <1>2, <1>3 DEF Step, Amid

(* A delimiter outside quotes ends the field it stands behind.             *)
LEMMA FieldEndRead ==
  ASSUME NEW body, NEW T, NEW P, NEW E, Step(body, T, P, E), EndField
  PROVE  ReadInv'
<1>1. /\ state # "Quoted" /\ Byte = Delimiter
      /\ \/ CloseError # "none" /\ Fail(CloseError)
         \/ /\ Consume /\ fields' = Append(fields, field) /\ field' = <<>>
            /\ state' = "FieldStart" /\ started' = TRUE /\ records' = records
  BY DEF EndField
<1>2. ~Idle(body, T, P, E)
  BY <1>1 DEF Idle, Step, Delimiter, LF, CR
<1>3. ASSUME NEW i, NEW p, NEW e, NEW q, NEW c, NEW k, NEW D, Inside(body, T, P, E, i, p, e, q, c, k, D)
      PROVE  ReadInv'
  <2>1. body[at] = Delimiter /\ at <= Len(body) /\ Given(body, T, P, E) /\ Printed(body, T, P, E)
    BY <1>1 DEF Step, Given
  <2>2. /\ k = Len(T[i][c]) /\ at = e[c] + 1
        /\ c < Len(T[i]) \/ c = Len(T[i])
        /\ c = Len(T[i]) => body[at] \in {LF, CR}
    BY <1>1, <1>3, <2>1, Follows
  <2>3. c < Len(T[i])
    BY <2>1, <2>2 DEF Delimiter, LF, CR
  <2>4. CASE CloseError # "none" /\ Fail(CloseError)
    BY <1>3, <2>1, <2>2, <2>4, CloseRead DEF Step
  <2>5. CASE /\ Consume /\ fields' = Append(fields, field) /\ field' = <<>>
             /\ state' = "FieldStart" /\ started' = TRUE /\ records' = records
    <3>1. at' = at + 1 /\ source' = source /\ outcome' = "reading"
      BY <2>5 DEF Consume, Feeding, Step
    <3>2. \E F : Inside(body, T, P, E, i, p, e, q, c + 1, 0, F)'
      BY <1>3, <2>1, <2>2, <2>3, <2>5, <3>1, ToNextField
    <3>3. Amid(body, T, P, E)'
      BY <3>2 DEF Amid
    <3>. QED
      BY <2>1, <3>1, <3>3, GoesFollowing
  <2>. QED
    BY <1>1, <2>4, <2>5
<1>. QED
  BY <1>2, <1>3 DEF Step, Amid

(* A line end outside quotes ends the record it stands behind.             *)
LEMMA LineEndRead ==
  ASSUME NEW body, NEW T, NEW P, NEW E, Step(body, T, P, E), EndLine
  PROVE  ReadInv'
<1>1. /\ state # "Quoted" /\ Byte \in {LF, CR}
      /\ \/ /\ ~started /\ Consume
            /\ UNCHANGED <<held, state, started, field, fields, record, records>>
         \/ started /\ CloseError # "none" /\ Fail(CloseError)
         \/ started /\ Consume /\ EndRecord
  BY DEF EndLine
<1>2. CASE Idle(body, T, P, E)
  <2>1. ~started
    BY <1>2 DEF Idle, Behind
  <2>. QED
    BY <1>1, <1>2, <2>1, StaysBehind DEF Step
<1>3. ASSUME NEW i, NEW p, NEW e, NEW q, NEW c, NEW k, NEW D, Inside(body, T, P, E, i, p, e, q, c, k, D)
      PROVE  ReadInv'
  <2>1. body[at] \in {LF, CR} /\ at <= Len(body) /\ Given(body, T, P, E) /\ Printed(body, T, P, E)
    BY <1>1 DEF Step, Given
  <2>2. /\ k = Len(T[i][c]) /\ at = e[c] + 1
        /\ c < Len(T[i]) => body[at] = Delimiter
        /\ c < Len(T[i]) \/ c = Len(T[i])
        /\ ~started => body[at] = Delimiter
    BY <1>1, <1>3, <2>1, Follows
  <2>3. c = Len(T[i]) /\ started
    BY <2>1, <2>2 DEF Delimiter, LF, CR
  <2>4. CASE CloseError # "none" /\ Fail(CloseError)
    BY <1>3, <2>1, <2>2, <2>4, CloseRead DEF Step
  <2>5. CASE Consume /\ EndRecord
    <3>1. at' = at + 1 /\ source' = source /\ outcome' = "reading"
      BY <2>5 DEF Consume, Feeding, Step
    <3>2. /\ i \in 1 .. Len(T) /\ Append(records, Append(fields, field)) = First(T, i)
          /\ at = E[i] + 1
      BY <1>3, <2>1, <2>2, <2>3, RecordRead
    <3>3. /\ records' = First(T, i) /\ fields' = <<>> /\ field' = <<>>
          /\ ~started' /\ state' = "FieldStart"
      BY <2>5, <3>2 DEF EndRecord
    <3>4. Behind(body, T, P, E, i)'
      BY <2>1, <3>1, <3>2, <3>3, LineRead
    <3>5. After(body, T, P, E)'
      BY <3>4 DEF After
    <3>. QED
      BY <2>1, <3>1, <3>5, GoesFollowing
  <2>. QED
    BY <1>1, <2>3, <2>4, <2>5
<1>. QED
  BY <1>2, <1>3 DEF Step, Amid

(* At the end of the file every record has been read.                      *)
LEMMA FinishRead ==
  ASSUME NEW body, NEW T, NEW P, NEW E, Csv, Given(body, T, P, E),
         Amid(body, T, P, E) \/ After(body, T, P, E), Finish
  PROVE  ReadInv'
<1>1. /\ at > Len(body)
      /\ \/ state = "Quoted"
         \/ started /\ CloseError # "none" /\ Fail(CloseError)
         \/ /\ \/ started /\ EndRecord
               \/ ~started /\ UNCHANGED <<held, state, started, field, fields, record, records>>
            /\ state # "Quoted" /\ outcome' = "split" /\ source' = source
  BY DEF Finish, Given
<1>2. /\ Printed(body, T, P, E) /\ T \in Seq(Seq(Text)) /\ body \in Text /\ Len(body) \in Nat
      /\ T = Whole(source)
  BY DEF Given, Printed, Text
<1>3. First(T, Len(T)) = T
  <2>. DEFINE R == Seq(Text)
  <2>1. T \in Seq(R)
    BY <1>2
  <2>. HIDE DEF R
  <2>. QED
    BY <2>1, FirstIs
<1>4. ASSUME outcome' = "split", source' = source, records' = T PROVE ReadInv'
  <2>1. Whole(source)' = T
    BY <1>2, <1>4 DEF Whole
  <2>. QED
    BY <1>4, <2>1 DEF ReadInv, CsvReadsBack
<1>5. ~(at <= Len(body))
  <2>1. at \in Nat
    BY DEF Csv, ScanInv
  <2>. QED
    BY <1>1, <1>2, <2>1
<1>6. ASSUME NEW i, NEW p, NEW e, NEW q, NEW c, NEW k, NEW D, Inside(body, T, P, E, i, p, e, q, c, k, D)
      PROVE  ReadInv'
  <2>1. Reached(body, T[i][c], k, q[c], p[c], e[c], D, state, at)
    BY <1>6 DEF Inside
  <2>2. state # "Quoted"
    <3>1. SUFFICES ASSUME state = "Quoted" PROVE FALSE
      OBVIOUS
    <3>2. Reached(body, T[i][c], k, q[c], p[c], e[c], D, "Quoted", at)
      BY <2>1, <3>1
    <3>. QED
      BY <1>2, <1>5, <3>2, InQuotes
  <2>3. /\ k = Len(T[i][c]) /\ at = e[c] + 1 /\ c = Len(T[i]) /\ i = Len(T) /\ started
    BY <1>1, <1>5, <1>6, <2>2, Follows
  <2>4. CASE CloseError # "none" /\ Fail(CloseError)
    BY <1>6, <2>3, <2>4, CloseRead
  <2>5. CASE EndRecord /\ outcome' = "split" /\ source' = source
    <3>1. Append(records, Append(fields, field)) = First(T, i)
      BY <1>2, <1>6, <2>3, RecordRead
    <3>2. records' = T
      BY <1>3, <2>3, <2>5, <3>1 DEF EndRecord
    <3>. QED
      BY <1>4, <2>5, <3>2
  <2>. QED
    BY <1>1, <2>2, <2>3, <2>4, <2>5
<1>7. ASSUME NEW i, Behind(body, T, P, E, i), ~Amid(body, T, P, E) PROVE ReadInv'
  <2>1. records = First(T, i) /\ ~started /\ state = "FieldStart"
    BY <1>7 DEF Behind
  <2>2. i = Len(T)
    BY <1>2, <1>5, <1>7, BehindIs DEF Amid
  <2>3. outcome' = "split" /\ source' = source /\ records' = records
    BY <1>1, <2>1
  <2>. QED
    BY <1>3, <1>4, <2>1, <2>2, <2>3
<1>. QED
  BY <1>6, <1>7 DEF Amid, After

-----------------------------------------------------------------------------
(* Sequences are the same when their elements are.                         *)
LEMMA SameSeq ==
  ASSUME NEW S, NEW u \in Seq(S), NEW v \in Seq(S), Len(u) = Len(v), \A m \in 1 .. Len(v) : u[m] = v[m]
  PROVE  u = v
OBVIOUS

(* What was written is what is left when the mark has been taken off.      *)
LEMMA StrippedWhole ==
  ASSUME source \in Sources, Published(source), MarkIsSeen(source), records = Whole(source)
  PROVE  Stripped = source.written
<1>. PICK w \in Seq(Seq(Text)) : w = source.written /\ \A i \in 1 .. Len(w) : w[i] # <<>>
  BY PublishedIs
<1>. DEFINE T == Whole(source)
            text(i, c) == IF i = 1 /\ c = 1 /\ T[i][c] # <<>> /\ Head(T[i][c]) = Mark
                          THEN Tail(T[i][c]) ELSE T[i][c]
            row(i) == [c \in DOMAIN T[i] |-> text(i, c)]
<1>1. Stripped = [i \in DOMAIN T |-> row(i)]
  BY DEF Stripped
<1>2. /\ DOMAIN w = 1 .. Len(w) /\ \A i \in 1 .. Len(w) : w[i] \in Seq(Text)
      /\ T \in Seq(Seq(Text)) /\ Len(T) = Len(w) /\ DOMAIN T = 1 .. Len(w)
  <2>1. T \in Seq(Seq(Text)) /\ Len(T) = Len(w)
    BY WholeIs
  <2>. HIDE DEF T
  <2>. QED
    BY <2>1
<1>3. ASSUME NEW i \in 1 .. Len(w) PROVE row(i) = w[i]
  <2>1. PICK r \in Seq(Text) : r = w[i] /\ r # <<>>
    BY <1>2
  <2>2. /\ Len(T[i]) = Len(r) /\ T[i] \in Seq(Text)
        /\ i = 1 /\ source.how.mark => T[i] = WithMark(r)
        /\ ~(i = 1 /\ source.how.mark) => T[i] = r
    BY <2>1, WholeIs
  <2>. HIDE DEF T
  <2>3. DOMAIN r = 1 .. Len(r) /\ DOMAIN T[i] = 1 .. Len(r) /\ r = [c \in 1 .. Len(r) |-> r[c]]
        /\ 1 \in 1 .. Len(r) /\ \A c \in 1 .. Len(r) : r[c] \in Text
    <3>1. DOMAIN r = 1 .. Len(r) /\ \A c \in 1 .. Len(r) : r[c] \in Text
      OBVIOUS
    <3>2. 1 \in 1 .. Len(r)
      BY <2>1
    <3>3. r = [c \in 1 .. Len(r) |-> r[c]]
      OBVIOUS
    <3>4. DOMAIN T[i] = 1 .. Len(r)
      BY <2>2
    <3>. QED
      BY <3>1, <3>2, <3>3, <3>4
  <2>4. ASSUME NEW c \in 1 .. Len(r) PROVE text(i, c) = r[c]
    <3>1. CASE ~(i = 1 /\ c = 1)
      <4>1. text(i, c) = T[i][c]
        BY <3>1
      <4>2. T[i][c] = r[c]
        <5>1. CASE i = 1 /\ source.how.mark
          BY <2>1, <2>2, <3>1, <5>1, MarkedRecord
        <5>2. CASE ~(i = 1 /\ source.how.mark)
          BY <2>2, <5>2
        <5>. QED
          BY <5>1, <5>2
      <4>. QED
        BY <4>1, <4>2
    <3>2. CASE i = 1 /\ c = 1 /\ source.how.mark
      <4>1. PICK t \in Text : t = r[1]
        BY <2>3
      <4>2. T[i][c] = <<Mark>> \o t
        BY <2>1, <2>2, <3>2, <4>1, MarkedRecord
      <4>3. PICK u \in Text : u = <<Mark>> \o t
        BY MarkedText
      <4>4. u[1] = Mark /\ Len(u) = Len(t) + 1 /\ \A m \in 1 .. Len(t) : u[m + 1] = t[m]
        BY <4>3, MarkedText
      <4>5. u # <<>> /\ Head(u) = Mark /\ Tail(u) = t
        <5>1. u \in Seq(STRING) /\ t \in Seq(STRING)
          BY DEF Text
        <5>2. u # <<>> /\ Head(u) = Mark
          BY <4>4, <5>1
        <5>3. Tail(u) \in Seq(STRING) /\ Len(Tail(u)) = Len(t)
          BY <4>4, <5>1, <5>2
        <5>4. \A m \in 1 .. Len(t) : Tail(u)[m] = t[m]
          BY <4>4, <5>1, <5>2
        <5>5. Tail(u) = t
          <6>1. PICK v \in Seq(STRING) : v = Tail(u)
            BY <5>3
          <6>2. Len(v) = Len(t) /\ \A m \in 1 .. Len(t) : v[m] = t[m]
            BY <5>3, <5>4, <6>1
          <6>3. v = t
            BY <5>1, <6>2, SameSeq, Zenon
          <6>. QED
            BY <6>1, <6>3
        <5>. QED
          BY <5>2, <5>5
      <4>. QED
        BY <3>2, <4>1, <4>2, <4>3, <4>5
    <3>3. CASE i = 1 /\ c = 1 /\ ~source.how.mark
      <4>1. T[i][c] = r[1] /\ r[1] = source.written[1][1]
        BY <2>1, <2>2, <3>3
      <4>2. r[1] # <<>> => Head(r[1]) # Mark
        BY <3>3, <4>1 DEF MarkIsSeen
      <4>. QED
        BY <3>3, <4>1, <4>2
    <3>. QED
      BY <3>1, <3>2, <3>3
  <2>. HIDE DEF text
  <2>. QED
    BY <2>1, <2>3, <2>4
<1>. HIDE DEF row, T
<1>4. Stripped = [i \in 1 .. Len(w) |-> w[i]]
  BY <1>1, <1>2, <1>3
<1>. QED
  BY <1>2, <1>4

(* A split table is refused for its shape, and loaded as it was written.   *)
LEMMA RowsRead ==
  ASSUME RoomInv, Csv, TidyInv, Published(source), MarkIsSeen(source),
         records = Whole(source), Rows
  PROVE  ReadInv'
<1>1. source \in Sources /\ ceiling \in Nat /\ source.format = "csv"
  BY DEF RoomInv, SourceInv, Csv
<1>2. Stripped = Written
  BY <1>1, StrippedWhole DEF Written
<1>3. records # <<>> /\ held = RecordsCost(records) /\ held <= ceiling
  <2>1. records # <<>>
    BY <1>1, WholeIs
  <2>2. held = RecordsCost(records)
    BY DEF Csv, CsvCharged
  <2>3. held \in Nat /\ record \in Nat /\ Len(field) \in Nat /\ held + record + Len(field) <= ceiling
    BY <1>1 DEF RoomInv, CsvFits
  <2>4. held <= ceiling
    BY <1>1, <2>3
  <2>. QED
    BY <2>1, <2>2, <2>4
<1>4. Loadable <=> Fitting
  BY <1>1, <1>3, LimitsAre DEF TidyInv
<1>. DEFINE data == IF source.header THEN Tail(Stripped) ELSE Stripped
            names == IF source.names # Absent THEN source.names ELSE Head(Stripped)
<1>5. data = Data /\ names = Named
  BY <1>2 DEF Data, Named
<1>6. ASSUME NEW error \in {"empty", "namesRequired", "noNames", "malformed"}, Fail(error), ~Fitting
      PROVE  ReadInv'
  <2>1. error \notin {"reading", "split", "loaded"}
    OBVIOUS
  <2>. QED
    BY <1>4, <1>6, <2>1, Refused
<1>7. CASE ~source.header /\ source.names = Absent /\ Fail("namesRequired")
  <2>1. ~Fitting
    BY <1>7 DEF Fitting
  <2>. QED
    BY <1>6, <1>7, <2>1
<1>8. CASE names = <<>> /\ Fail("noNames")
  <2>1. ~Fitting
    BY <1>5, <1>8 DEF Fitting
  <2>. QED
    BY <1>6, <1>8, <2>1
<1>9. CASE (\E i \in DOMAIN data : Len(data[i]) # Len(names)) /\ Fail("malformed")
  <2>1. ~Fitting
    BY <1>5, <1>9 DEF Fitting
  <2>. QED
    BY <1>6, <1>9, <2>1
<1>10. CASE data = <<>> /\ Fail("empty")
  <2>1. ~Fitting
    BY <1>5, <1>10 DEF Fitting
  <2>. QED
    BY <1>6, <1>10, <2>1
<1>11. CASE /\ source.header \/ source.names # Absent
            /\ names # <<>> /\ data # <<>>
            /\ \A i \in DOMAIN data : Len(data[i]) = Len(names)
            /\ columns' = names
            /\ rows' = [i \in DOMAIN data |-> [c \in DOMAIN names |-> CellOfText(data[i][c])]]
            /\ outcome' = "loaded"
            /\ UNCHANGED <<source, ceiling, at, held, csv, taken, pending>>
  <2>. HIDE DEF data, names
  <2>1. Fitting
    BY <1>5, <1>11 DEF Fitting
  <2>2. Loadable' /\ Data' = Data /\ Named' = Named
    BY <1>4, <1>11, <2>1, Same
  <2>3. columns' = Named /\ rows' = [i \in DOMAIN Data |-> [c \in DOMAIN Named |-> CellOfText(Data[i][c])]]
    BY <1>5, <1>11
  <2>. QED
    BY <1>11, <2>2, <2>3 DEF ReadInv, CsvReadsBack
<1>12. ~(source.header /\ records = <<>> /\ Fail("empty"))
  BY <1>3
<1>. QED
  BY <1>7, <1>8, <1>9, <1>10, <1>11, <1>12 DEF Rows

-----------------------------------------------------------------------------
(* A line end that is remembered is not part of a record, and nothing      *)
(* closed is past a limit.                                                 *)
LEMMA LimitedAppend ==
  ASSUME Csv, TidyInv, CloseError = "none"
  PROVE  /\ \A c \in DOMAIN Append(fields, field) : Len(Append(fields, field)[c]) <= MaxField
         /\ Limited(Append(records, Append(fields, field)))
<1>1. /\ field \in Text /\ Len(field) <= MaxField /\ fields \in Seq(Text) /\ records \in Seq(Seq(Text))
      /\ Limited(records) /\ \A c \in DOMAIN fields : Len(fields[c]) <= MaxField
  BY DEF Csv, ScanInv, TidyInv
<1>2. PICK r \in Seq(Text) : r = Append(fields, field) /\ Len(r) <= MaxFields
  BY CloseCharged
<1>3. \A c \in DOMAIN r : Len(r[c]) <= MaxField
  <2>1. \A c \in DOMAIN r : r[c] = field \/ (c \in DOMAIN fields /\ r[c] = fields[c])
    BY <1>1, <1>2
  <2>. QED
    BY <1>1, <2>1
<1>4. PICK t \in Seq(Seq(Text)) : t = Append(records, r)
  <2>. DEFINE R == Seq(Text)
  <2>1. records \in Seq(R) /\ r \in R
    BY <1>1, <1>2
  <2>2. SUFFICES Append(records, r) \in Seq(R)
    OBVIOUS
  <2>. HIDE DEF R
  <2>. QED
    BY <2>1
<1>5. \A i \in DOMAIN t : t[i] = r \/ (i \in DOMAIN records /\ t[i] = records[i])
  BY <1>1, <1>4
<1>6. Limited(t)
  BY <1>1, <1>2, <1>3, <1>5 DEF Limited
<1>. QED
  BY <1>2, <1>3, <1>4, <1>6

(* A refusal holds what was held.                                          *)
LEMMA FailTidy ==
  ASSUME NEW error, TidyInv, Fail(error)
  PROVE  TidyInv'
BY DEF Fail, csv, TidyInv, Limited

(* Data is remembered as no line end.                                      *)
LEMMA PushTidy ==
  ASSUME TidyInv, NEW byte, NEW next, Push(byte, next), Byte # CR \/ state = "Quoted"
  PROVE  TidyInv'
<1>1. CASE /\ Consume /\ UNCHANGED <<held, fields, record, records>>
  BY <1>1 DEF Consume, TidyInv, Limited
<1>. QED
  BY <1>1, FailTidy DEF Push

(* A record that is closed is within the limits.                           *)
LEMMA RecordTidy ==
  ASSUME Csv, TidyInv, CloseError = "none", EndRecord
  PROVE  TidyInv'
<1>1. Limited(Append(records, Append(fields, field)))
  BY LimitedAppend
<1>2. records' = Append(records, Append(fields, field)) /\ fields' = <<>> /\ started' = FALSE
  BY DEF EndRecord
<1>3. Limited(records')
  BY <1>1, <1>2
<1>4. Limited(records)'
  BY <1>3 DEF Limited
<1>5. DOMAIN fields' = {}
  BY <1>2
<1>. QED
  BY <1>2, <1>4, <1>5 DEF TidyInv

(* No byte leaves a line end remembered in a record.                       *)
LEMMA FeedTidy == Csv /\ TidyInv /\ Feed => TidyInv'
<1>. SUFFICES ASSUME Csv, TidyInv, Feed PROVE TidyInv'
  OBVIOUS
<1>1. CASE SkipLF
  BY <1>1 DEF SkipLF, Spoken, Consume, TidyInv, Limited, LF, CR
<1>2. CASE OpenQuote
  BY <1>2 DEF OpenQuote, Consume, TidyInv, Limited, Quote, CR
<1>3. CASE EndField
  <2>1. CASE Fail(CloseError)
    BY <2>1, FailTidy
  <2>2. CASE CloseError = "none" /\ Consume /\ fields' = Append(fields, field) /\ records' = records
    <3>1. /\ \A c \in DOMAIN Append(fields, field) : Len(Append(fields, field)[c]) <= MaxField
      BY <2>2, LimitedAppend
    <3>2. \A c \in DOMAIN fields' : Len(fields'[c]) <= MaxField
      BY <2>2, <3>1
    <3>3. ~afterCr' /\ source' = source
      BY <1>3, <2>2 DEF EndField, Consume, Delimiter, CR
    <3>. QED
      BY <2>2, <3>2, <3>3 DEF TidyInv, Limited
  <2>. QED
    BY <1>3, <2>1, <2>2 DEF EndField
<1>4. CASE EndLine
  <2>1. CASE Fail(CloseError)
    BY <2>1, FailTidy
  <2>2. CASE /\ ~started /\ Consume
             /\ UNCHANGED <<held, state, started, field, fields, record, records>>
    BY <2>2 DEF Consume, TidyInv, Limited
  <2>3. CASE CloseError = "none" /\ EndRecord
    BY <2>3, RecordTidy
  <2>. QED
    BY <1>4, <2>1, <2>2, <2>3 DEF EndLine
<1>5. CASE Unquoted
  BY <1>5, PushTidy DEF Unquoted
<1>6. CASE QuotedData
  BY <1>6, PushTidy DEF QuotedData
<1>7. CASE QuoteInside
  BY <1>7 DEF QuoteInside, Consume, TidyInv, Limited, Quote, CR
<1>8. CASE DoubledQuote
  BY <1>8, PushTidy DEF DoubledQuote, Quote, CR
<1>9. CASE TextAfterQuote
  BY <1>9, FailTidy DEF TextAfterQuote
<1>. QED
  BY <1>1, <1>2, <1>3, <1>4, <1>5, <1>6, <1>7, <1>8, <1>9 DEF Feed

(* And no step does.                                                       *)
LEMMA StepTidy == ChargedInv /\ TidyInv /\ [Next]_vars => TidyInv'
<1>. SUFFICES ASSUME ChargedInv, TidyInv, [Next]_vars PROVE TidyInv'
  OBVIOUS
<1>1. source' = source
  BY DEF Next, vars, Feed, SkipLF, OpenQuote, EndField, EndLine, Unquoted, QuotedData, QuoteInside,
         DoubledQuote, TextAfterQuote, Push, Consume, Fail, Finish, Rows, Take, Widen, AddRow,
         EndArray
<1>2. CASE source.format # "csv"
  BY <1>1, <1>2 DEF TidyInv
<1>3. CASE source.format = "csv" /\ UNCHANGED vars
  BY <1>3 DEF vars, csv, TidyInv, Limited
<1>4. CASE source.format = "csv" /\ Next
  <2>1. Csv /\ ~Take /\ ~Widen /\ ~AddRow /\ ~EndArray
    BY <1>4 DEF ChargedInv, Csv, Take, Widen, AddRow, EndArray, Walking
  <2>2. CASE Feed
    BY <2>1, <2>2, FeedTidy
  <2>3. CASE Finish
    <3>1. CASE CloseError = "none" /\ EndRecord
      BY <2>1, <3>1, RecordTidy
    <3>2. CASE /\ UNCHANGED <<held, state, started, field, fields, record, records>>
               /\ UNCHANGED <<source, ceiling, at, parsed, afterCr, taken, pending>>
      BY <3>2 DEF TidyInv, Limited
    <3>3. ASSUME NEW error, Fail(error) PROVE TidyInv'
      BY <3>3, FailTidy
    <3>. QED
      BY <2>3, <3>1, <3>2, <3>3 DEF Finish
  <2>4. CASE Rows
    <3>1. CASE UNCHANGED <<source, ceiling, at, held, csv, taken, pending>>
      BY <3>1 DEF csv, TidyInv, Limited
    <3>2. ASSUME NEW error, Fail(error) PROVE TidyInv'
      BY <3>2, FailTidy
    <3>. QED
      BY <2>4, <3>1, <3>2 DEF Rows
  <2>. QED
    BY <1>4, <2>1, <2>2, <2>3, <2>4 DEF Next
<1>. QED
  BY <1>2, <1>3, <1>4

-----------------------------------------------------------------------------
(* The file may be published with a mark that is looked for.               *)
Seen == Published(source) => MarkIsSeen(source)

(* Nothing is read, and the reader is where the first record starts.       *)
LEMMA InitRead == Init /\ Seen => TidyInv /\ ReadInv
<1>. SUFFICES ASSUME Init, Seen PROVE TidyInv /\ ReadInv
  OBVIOUS
<1>1. /\ source \in Sources /\ at = 1 /\ outcome = "reading" /\ state = "FieldStart"
      /\ started = FALSE /\ field = <<>> /\ fields = <<>> /\ records = <<>>
  BY DEF Init
<1>2. DOMAIN fields = {} /\ DOMAIN records = {}
  BY <1>1
<1>3. TidyInv
  BY <1>1, <1>2 DEF TidyInv, Limited
<1>4. ASSUME Published(source) PROVE Following
  <2>1. MarkIsSeen(source)
    BY <1>4 DEF Seen
  <2>2. PICK P, E : Printed(source.body, Whole(source), P, E)
    BY <1>1, <1>4, <2>1, WholePrinted
  <2>. DEFINE T == Whole(source)
  <2>3. Given(source.body, T, P, E)
    BY <1>1, <1>4, <2>1, <2>2 DEF Given
  <2>4. T \in Seq(Seq(Text)) /\ T # <<>>
    BY <2>2 DEF Printed
  <2>5. 1 \in 1 .. Len(T) /\ First(T, 1 - 1) = <<>>
    <3>. HIDE DEF T
    <3>. DEFINE R == Seq(Text)
    <3>1. T \in Seq(R) /\ T # <<>>
      BY <2>4
    <3>. HIDE DEF R
    <3>. QED
      BY <3>1, FirstIs
  <2>6. P[1] = 0
    BY <2>2, <2>5, PrintedIs
  <2>7. records = First(T, 1 - 1) /\ at = P[1] + 1
    BY <1>1, <2>5, <2>6
  <2>8. PICK p, e, q, D : Inside(source.body, T, P, E, 1, p, e, q, 1, 0, D)
    BY <1>1, <2>2, <2>5, <2>7, RecordStarts
  <2>9. Amid(source.body, T, P, E)
    BY <2>8 DEF Amid
  <2>. QED
    BY <2>3, <2>9 DEF Following
<1>. QED
  BY <1>1, <1>3, <1>4 DEF ReadInv, CsvReadsBack

(* A step that leaves everything as it was.                                *)
LEMMA StutterRead == ReadInv /\ UNCHANGED vars => ReadInv'
<1>. SUFFICES ASSUME ReadInv, UNCHANGED vars PROVE ReadInv'
  OBVIOUS
<1>1. UNCHANGED <<source, ceiling, at, outcome, columns, rows, state, started, field, fields, records>>
  BY DEF vars, parsed, csv
<1>2. Published(source)' = Published(source) /\ Whole(source)' = Whole(source)
  BY <1>1
<1>3. Following => Following'
  <2>1. ASSUME NEW body, NEW T, NEW P, NEW E, Given(body, T, P, E),
               Amid(body, T, P, E) \/ After(body, T, P, E)
        PROVE  Following'
    <3>1. Given(body, T, P, E)'
      BY <1>1, <2>1 DEF Given
    <3>2. CASE Amid(body, T, P, E)
      <4>1. PICK i, p, e, q, c, k, D : Inside(body, T, P, E, i, p, e, q, c, k, D)
        BY <3>2 DEF Amid
      <4>2. Inside(body, T, P, E, i, p, e, q, c, k, D)'
        BY <1>1, <4>1 DEF Inside
      <4>3. Amid(body, T, P, E)'
        BY <4>2 DEF Amid
      <4>. QED
        BY <3>1, <4>3 DEF Following
    <3>3. CASE After(body, T, P, E)
      <4>1. After(body, T, P, E)'
        BY <1>1, <3>3 DEF After, Behind
      <4>. QED
        BY <3>1, <4>1 DEF Following
    <3>. QED
      BY <2>1, <3>2, <3>3
  <2>. QED
    BY <2>1 DEF Following
<1>4. CsvReadsBack => CsvReadsBack'
  BY <1>1, Same DEF CsvReadsBack
<1>. QED
  BY <1>1, <1>2, <1>3, <1>4 DEF ReadInv

(* Each byte of a published file is read as it was written.                *)
LEMMA FeedRead ==
  ASSUME Csv, TidyInv, Following, Feed
  PROVE  ReadInv'
<1>1. PICK body, T, P, E : Given(body, T, P, E) /\ (Amid(body, T, P, E) \/ After(body, T, P, E))
  BY DEF Following
<1>2. Feeding
  BY DEF Feed, SkipLF, OpenQuote, EndField, EndLine, Unquoted, QuotedData, QuoteInside,
         DoubledQuote, TextAfterQuote
<1>3. Step(body, T, P, E)
  <2>1. (Amid(body, T, P, E) \/ Idle(body, T, P, E)) /\ Byte = body[at] /\ at <= Len(body)
    BY <1>1, <1>2, Where
  <2>2. source.format = "csv"
    BY DEF Csv
  <2>. QED
    BY <1>1, <1>2, <2>1, <2>2 DEF Step
<1>. QED
  BY <1>3, SkipRead, OpenRead, InsideRead, UnquotedRead, QuotedRead, DoubledRead, FieldEndRead,
     LineEndRead DEF Feed

(* Every step reads a published file on, or refuses it for a limit.        *)
LEMMA StepRead ==
  ChargedInv /\ RoomInv /\ TidyInv /\ Seen /\ ReadInv /\ [Next]_vars => Seen' /\ ReadInv'
<1>. SUFFICES ASSUME ChargedInv, RoomInv, TidyInv, Seen, ReadInv, [Next]_vars
              PROVE  Seen' /\ ReadInv'
  OBVIOUS
<1>1. source' = source
  BY DEF Next, vars, Feed, SkipLF, OpenQuote, EndField, EndLine, Unquoted, QuotedData, QuoteInside,
         DoubledQuote, TextAfterQuote, Push, Consume, Fail, Finish, Rows, Take, Widen, AddRow,
         EndArray
<1>2. Seen'
  BY <1>1 DEF Seen
<1>3. CASE ~Published(source)
  <2>1. ~Published(source)'
    BY <1>1, <1>3
  <2>. QED
    BY <1>2, <2>1 DEF ReadInv
<1>4. CASE UNCHANGED vars
  BY <1>2, <1>4, StutterRead
<1>5. CASE Published(source) /\ Next
  <2>1. Csv /\ MarkIsSeen(source) /\ ~Take /\ ~Widen /\ ~AddRow /\ ~EndArray
    BY <1>5 DEF Published, Seen, ChargedInv, Csv, Take, Widen, AddRow, EndArray, Walking
  <2>2. CASE Feed
    <3>1. outcome = "reading"
      BY <2>2 DEF Feed, SkipLF, OpenQuote, EndField, EndLine, Unquoted, QuotedData, QuoteInside,
                  DoubledQuote, TextAfterQuote, Feeding
    <3>2. Following
      BY <1>5, <3>1 DEF ReadInv
    <3>. QED
      BY <1>2, <2>1, <2>2, <3>2, FeedRead
  <2>3. CASE Finish
    <3>1. Following
      BY <1>5, <2>3 DEF ReadInv, Finish
    <3>2. PICK body, T, P, E : /\ Given(body, T, P, E)
                               /\ Amid(body, T, P, E) \/ After(body, T, P, E)
      BY <3>1 DEF Following
    <3>. QED
      BY <1>2, <2>1, <2>3, <3>2, FinishRead
  <2>4. CASE Rows
    <3>1. records = Whole(source)
      BY <1>5, <2>4 DEF ReadInv, Rows
    <3>. QED
      BY <1>2, <1>5, <2>1, <2>4, <3>1, RowsRead
  <2>. QED
    BY <1>5, <2>1, <2>2, <2>3, <2>4 DEF Next
<1>. QED
  BY <1>3, <1>4, <1>5

(* A CSV of any length, published with any quoting and any line ending,    *)
(* is read back as the table it was made of, and refused only for a limit  *)
(* that table is past, a row of the wrong width or names nobody gave; and  *)
(* a JSON document's keys become its columns. Of a file with a byte-order  *)
(* mark it asks that the mark be in front of a name strip_bom finds it at, *)
(* and of one without that the first name not start with one.              *)
THEOREM TablesReadBack == Spec /\ Seen => []ReadsBack
<1>1. RoomInv /\ [Next]_vars => RoomInv'
  <2>. SUFFICES ASSUME RoomInv, [Next]_vars PROVE RoomInv'
    OBVIOUS
  <2>1. CASE UNCHANGED vars
    BY <2>1 DEF vars, csv, parsed, RoomInv, SourceInv, CsvFits, JsonFits
  <2>. QED
    BY <2>1, FeedRoom, FinishRoom, RowsRoom, ElementsRoom DEF Next
<1>2. Init => ChargedInv
  BY InitCharged, InitDocument DEF ChargedInv
<1>3. ReadInv /\ KeysBecomeColumns => ReadsBack
  BY DEF ReadInv, Published, Written, ReadsBack
<1>. QED
  BY <1>1, <1>2, <1>3, InitRoom, InitRead, StepCharged, StepTidy, StepRead, ColumnsAreTheKeys, PTL
     DEF Spec
=============================================================================
