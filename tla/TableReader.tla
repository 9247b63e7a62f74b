---------------------------- MODULE TableReader ----------------------------
(***************************************************************************)
(* Reading a source file into columns and rows: "read" of parse.rs.        *)
(*                                                                         *)
(* A CSV is taken one byte at a time by a machine of four states, and its  *)
(* records are made rows at the end; a JSON array is taken one element at  *)
(* a time, and widens the rows already read as new keys appear.  Both      *)
(* charge what they hold to a ceiling.                                     *)
(*                                                                         *)
(* Bytes are names, and the byte-order mark is one of them.  The key of a  *)
(* JSON object is a number, in the order the code sorts names in.          *)
(***************************************************************************)
EXTENDS Integers, FiniteSets, SequencesExt

CONSTANTS
  CellOverhead, RowOverhead, \* CELL_OVERHEAD, ROW_OVERHEAD
  MaxField, MaxFields,       \* MAX_FIELD, MAX_FIELDS
  Ceilings,   \* the ceilings a caller names
  Absent,     \* an absent cell; Schema::Auto; a file nobody in particular wrote
  Sources     \* the files read and what is stated of them: see SourceAssumption

ASSUME ReaderAssumption ==
  /\ CellOverhead \in Nat \ {0} /\ RowOverhead \in Nat \ {0}
  /\ MaxField \in Nat \ {0} /\ MaxFields \in Nat \ {0}
  /\ Ceilings \subseteq Nat

(* "written" is the table a publisher made the body of, when it was one;   *)
(* the text of an element is its length past the byte that announced it.   *)
ASSUME SourceAssumption ==
  \A s \in Sources :
    \/ /\ s.format = "csv" /\ s.header \in BOOLEAN
       /\ s.names \in Seq(Seq(STRING)) \cup {Absent}
       /\ s.body \in Seq(STRING)
       /\ s.written \in Seq(Seq(Seq(STRING))) \cup {Absent}
    \/ /\ s.format = "json"
       /\ s.names \in Seq(Nat) \cup {Absent}
       /\ s.body \in Seq({s.body[i] : i \in DOMAIN s.body})
       /\ \A i \in DOMAIN s.body :
            /\ s.body[i].object \in BOOLEAN /\ s.body[i].text \in Nat
            /\ DOMAIN s.body[i].cells \subseteq Nat
            /\ \A k \in DOMAIN s.body[i].cells : s.body[i].cells[k] \in Seq(STRING)

Quote == "quote"
Delimiter == "comma"
LF == "lf"
CR == "cr"
Mark == "mark"       \* BOM
NotText == "invalid" \* a byte that is not UTF-8 where it stands

(* Bytes are names, which of a name in quotes no prover knows.             *)
ASSUME BytesAssumption == {Quote, Delimiter, LF, CR, Mark, NotText} \subseteq STRING

VARIABLES
  source,   \* the file
  ceiling,
  at,       \* the byte or the element read next
  outcome,  \* "reading", "split" (all records read), "loaded", or the TableError
  columns, rows, held, \* Parsed
  \* Csv
  state, started, afterCr,
  field,    \* the bytes of the field being read
  fields,   \* the closed fields of the record being read
  record,   \* what they were charged
  records,  \* the records read
  \* Elements
  taken,    \* an element is parsed and has no row yet
  pending   \* those of its keys that were not looked at

parsed == <<columns, rows>>
csv == <<state, started, afterCr, field, fields, record, records>>
vars == <<source, ceiling, at, outcome, parsed, held, csv, taken, pending>>

-----------------------------------------------------------------------------
(* What a publisher writes: a table as CSV of RFC 4180, quoting what must  *)
(* be or everything, with one ending throughout.                           *)

Has(text, bytes) == \E i \in DOMAIN text : text[i] \in bytes

MustQuote(text, alone) ==
  \/ Has(text, {Delimiter, LF, CR})
  \/ text # <<>> /\ Head(text) = Quote
  \/ text = <<>> /\ alone

Quoted(text) ==
  <<Quote>> \o FlattenSeq([i \in DOMAIN text |->
     IF text[i] = Quote THEN <<Quote, Quote>> ELSE <<text[i]>>]) \o <<Quote>>

FieldBytes(text, how, alone) ==
  IF how.quoteAll \/ MustQuote(text, alone) THEN Quoted(text) ELSE text

RecordBytes(r, how) ==
  FlattenSeq([c \in DOMAIN r |->
     (IF c = 1 THEN <<>> ELSE <<Delimiter>>) \o FieldBytes(r[c], how, Len(r) = 1)])

Body(table, how) ==
  (IF how.mark THEN <<Mark>> ELSE <<>>)
    \o FlattenSeq([i \in DOMAIN table |->
         RecordBytes(table[i], how)
           \o (IF i = Len(table) /\ ~how.lastEnding THEN <<>> ELSE how.ending)])
    \o how.padding

How ==
  [quoteAll : BOOLEAN, mark : BOOLEAN, ending : {<<LF>>, <<CR>>, <<CR, LF>>},
   lastEnding : BOOLEAN, padding : Seq({LF, CR})]

Published(s) == s.format = "csv" /\ s.written # Absent

(* A table is of text, and has a record, and a record a field.             *)
ASSUME PublisherAssumption ==
  \A s \in Sources : Published(s) =>
    /\ s.how \in How /\ s.body = Body(s.written, s.how)
    /\ s.written # <<>>
    /\ \A i \in DOMAIN s.written :
         /\ s.written[i] # <<>>
         /\ \A c \in DOMAIN s.written[i] : ~Has(s.written[i][c], {NotText})

(* The mark in front of a name is where strip_bom looks for one: not       *)
(* before a quote, nor the name's own first byte.                          *)
MarkIsSeen(s) ==
  LET name == s.written[1][1] IN
  IF s.how.mark THEN ~s.how.quoteAll /\ ~MustQuote(name, Len(s.written[1]) = 1)
  ELSE name # <<>> => Head(name) # Mark

-----------------------------------------------------------------------------
(* What rows cost.                                                         *)

(* What a sequence of costs comes to.                                      *)
Total(costs) ==
  LET upTo[i \in 0..Len(costs)] == IF i = 0 THEN 0 ELSE upTo[i - 1] + costs[i]
  IN upTo[Len(costs)]

(* cell_of_text: an empty field is a value the source did not supply.      *)
CellOfText(text) == IF text = <<>> THEN Absent ELSE text
CellCost(cell) == CellOverhead + (IF cell = Absent THEN 0 ELSE Len(cell))
Footprint(row) == RowOverhead + Total([c \in DOMAIN row |-> CellCost(row[c])])

-----------------------------------------------------------------------------
Init ==
  /\ source \in Sources
  /\ ceiling \in Ceilings
  /\ at = 1
  /\ outcome = "reading"
  /\ columns = IF source.format = "json" /\ source.names # Absent THEN source.names ELSE <<>>
  /\ rows = <<>> /\ held = 0
  /\ state = "FieldStart" /\ started = FALSE /\ afterCr = FALSE
  /\ field = <<>> /\ fields = <<>> /\ record = 0 /\ records = <<>>
  /\ taken = FALSE /\ pending = {}

(* An error drops the reader: nothing it held is looked at again.          *)
Fail(error) ==
  /\ outcome' = error
  /\ UNCHANGED <<source, ceiling, at, parsed, held, csv, taken, pending>>

-----------------------------------------------------------------------------
(* Csv.                                                                    *)

Byte == source.body[at]
Feeding == outcome = "reading" /\ source.format = "csv" /\ at <= Len(source.body)

(* charge: the open field, what is closed, and the row they will be.       *)
Affords(closed, open) == held + closed + RowOverhead + open <= ceiling

(* What every byte that is not refused does: it is consumed, and a CR is   *)
(* remembered unless it is data.                                           *)
Consume ==
  /\ at' = at + 1
  /\ afterCr' = (Byte = CR /\ state # "Quoted")
  /\ UNCHANGED <<source, ceiling, outcome, parsed, taken, pending>>

(* The LF of a CRLF was spoken for by its CR.                              *)
Spoken == state # "Quoted" /\ afterCr /\ Byte = LF

Push(byte, next) ==
  LET open == Len(field) + 1 + CellOverhead IN
  \/ Len(field) >= MaxField /\ Fail("malformed")
  \/ Len(field) < MaxField /\ ~Affords(record, open) /\ Fail("over")
  \/ /\ Len(field) < MaxField /\ Affords(record, open)
     /\ Consume
     /\ field' = Append(field, byte)
     /\ state' = next /\ started' = TRUE
     /\ UNCHANGED <<held, fields, record, records>>

(* end_field: how it may end, and what the record then costs.              *)
Closed == record + CellOverhead + Len(field)
(* As a reader would that charged for bytes and not for empty cells.       *)
CloseErrorUncharged ==
  IF Len(fields) >= MaxFields \/ Has(field, {NotText}) THEN "malformed" ELSE "none"

CloseError ==
  IF Len(fields) >= MaxFields \/ Has(field, {NotText}) THEN "malformed"
  ELSE IF ~Affords(Closed, 0) THEN "over" ELSE "none"

SkipLF ==
  /\ Feeding /\ Spoken
  /\ Consume
  /\ UNCHANGED <<held, state, started, field, fields, record, records>>

OpenQuote ==
  /\ Feeding /\ state = "FieldStart" /\ Byte = Quote
  /\ Consume
  /\ state' = "Quoted" /\ started' = TRUE
  /\ UNCHANGED <<held, field, fields, record, records>>

EndField ==
  /\ Feeding /\ state # "Quoted" /\ Byte = Delimiter
  /\ \/ CloseError # "none" /\ Fail(CloseError)
     \/ /\ CloseError = "none"
        /\ Consume
        /\ fields' = Append(fields, field) /\ record' = Closed
        /\ field' = <<>> /\ state' = "FieldStart" /\ started' = TRUE
        /\ UNCHANGED <<held, records>>

(* end_record, of a record that has had any content.                       *)
EndRecord ==
  /\ records' = Append(records, Append(fields, field))
  /\ held' = held + Closed + RowOverhead
  /\ field' = <<>> /\ fields' = <<>> /\ record' = 0
  /\ state' = "FieldStart" /\ started' = FALSE

EndLine ==
  /\ Feeding /\ state # "Quoted" /\ Byte \in {LF, CR} /\ ~Spoken
  /\ \/ /\ ~started
        /\ Consume
        /\ UNCHANGED <<held, state, started, field, fields, record, records>>
     \/ started /\ CloseError # "none" /\ Fail(CloseError)
     \/ started /\ CloseError = "none" /\ Consume /\ EndRecord

(* A quote that did not open the field is data.                            *)
Unquoted ==
  /\ Feeding
  /\ \/ state = "FieldStart" /\ Byte \notin {Quote, Delimiter, LF, CR}
     \/ state = "Unquoted" /\ Byte \notin {Delimiter, LF, CR}
  /\ Push(Byte, "Unquoted")

QuotedData ==
  /\ Feeding /\ state = "Quoted" /\ Byte # Quote
  /\ Push(Byte, "Quoted")

QuoteInside ==
  /\ Feeding /\ state = "Quoted" /\ Byte = Quote
  /\ Consume
  /\ state' = "QuoteInQuoted"
  /\ UNCHANGED <<held, started, field, fields, record, records>>

DoubledQuote ==
  /\ Feeding /\ state = "QuoteInQuoted" /\ Byte = Quote
  /\ Push(Quote, "Quoted")

TextAfterQuote ==
  /\ Feeding /\ state = "QuoteInQuoted" /\ Byte \notin {Quote, Delimiter, LF, CR}
  /\ Fail("malformed")

Finish ==
  /\ outcome = "reading" /\ source.format = "csv" /\ at > Len(source.body)
  /\ \/ state = "Quoted" /\ Fail("malformed")
     \/ state # "Quoted" /\ started /\ CloseError # "none" /\ Fail(CloseError)
     \/ /\ state # "Quoted"
        /\ \/ started /\ CloseError = "none" /\ EndRecord
           \/ ~started /\ UNCHANGED <<held, state, started, field, fields, record, records>>
        /\ outcome' = "split"
        /\ UNCHANGED <<source, ceiling, at, parsed, afterCr, taken, pending>>

(* As a reader would that left the mark where it was.                      *)
Unstripped == records

(* strip_bom                                                               *)
Stripped ==
  [i \in DOMAIN records |-> [c \in DOMAIN records[i] |->
     LET text == records[i][c] IN
     IF i = 1 /\ c = 1 /\ text # <<>> /\ Head(text) = Mark THEN Tail(text) ELSE text]]

(* read_csv: name the columns and hold every record to their number.       *)
Rows ==
  /\ outcome = "split"
  /\ LET data == IF source.header /\ records # <<>> THEN Tail(Stripped) ELSE Stripped
         names == IF source.names # Absent THEN source.names ELSE Head(Stripped)
     IN
     \/ source.header /\ records = <<>> /\ Fail("empty")
     \/ ~source.header /\ source.names = Absent /\ Fail("namesRequired")
     \/ /\ source.header => records # <<>>
        /\ source.header \/ source.names # Absent
        /\ \/ names = <<>> /\ Fail("noNames")
           \/ /\ names # <<>> /\ \E i \in DOMAIN data : Len(data[i]) # Len(names)
              /\ Fail("malformed")
           \/ names # <<>> /\ data = <<>> /\ Fail("empty")
           \/ /\ names # <<>> /\ data # <<>>
              /\ \A i \in DOMAIN data : Len(data[i]) = Len(names)
              /\ columns' = names
              /\ rows' = [i \in DOMAIN data |-> [c \in DOMAIN names |-> CellOfText(data[i][c])]]
              /\ outcome' = "loaded"
              /\ UNCHANGED <<source, ceiling, at, held, csv, taken, pending>>

-----------------------------------------------------------------------------
(* Elements: a JSON array.                                                 *)

Walking == outcome = "reading" /\ source.format = "json"
More == at <= Len(source.body)
Element == source.body[at]
Keys == DOMAIN Element.cells

(* Element and Meter: its text may take what the rows have left.           *)
Room == IF held > ceiling THEN 0 ELSE ceiling - held

(* An element is parsed whole before it is looked at.                      *)
Take ==
  /\ Walking /\ More /\ ~taken
  /\ \/ Element.text > Room /\ Fail("over")
     \/ Element.text <= Room /\ ~Element.object /\ Fail("notAnArrayOfObjects")
     \/ /\ Element.text <= Room /\ Element.object
        /\ taken' = TRUE
        /\ pending' = IF source.names = Absent THEN Keys ELSE {}
        /\ UNCHANGED <<source, ceiling, at, outcome, parsed, held, csv>>

(* As a reader would that added new keys at the end.                       *)
PlaceLast(key) == Len(columns) + 1

Place(key) == 1 + Cardinality({c \in DOMAIN columns : columns[c] < key})

(* As a reader would that left the rows it has as they are.                *)
RowsAsTheyWere(key) == rows

RowsWidened(key) == [i \in DOMAIN rows |-> InsertAt(rows[i], Place(key), Absent)]

(* As a reader would that charged for the new row alone.                   *)
WidenedOnce == CellOverhead

Widened == Len(rows) * CellOverhead

(* One key of a document that names its columns nowhere.                   *)
Widen ==
  /\ Walking /\ taken /\ pending # {}
  /\ LET key == Min(pending) IN
     \/ /\ key \in ToSet(columns)
        /\ pending' = pending \ {key}
        /\ UNCHANGED <<source, ceiling, at, outcome, parsed, held, csv, taken>>
     \/ /\ key \notin ToSet(columns) /\ Len(columns) >= MaxFields
        /\ Fail("notAnArrayOfObjects")
     \/ /\ key \notin ToSet(columns) /\ Len(columns) < MaxFields
        /\ columns' = InsertAt(columns, Place(key), key)
        /\ rows' = RowsWidened(key)
        /\ held' = held + Widened
        /\ pending' = pending \ {key}
        /\ UNCHANGED <<source, ceiling, at, outcome, csv, taken>>

(* cell_of_value: a null, and a key the object has not got, are absent.    *)
RowOf(cells) ==
  [c \in DOMAIN columns |->
     IF columns[c] \in DOMAIN cells THEN CellOfText(cells[columns[c]]) ELSE Absent]

AddRow ==
  /\ Walking /\ taken /\ pending = {}
  /\ LET row == RowOf(Element.cells)
         cost == held + Footprint(row)
     IN
     \/ cost > ceiling /\ Fail("over")
     \/ /\ cost <= ceiling
        /\ rows' = Append(rows, row)
        /\ held' = cost
        /\ taken' = FALSE
        /\ at' = at + 1
        /\ UNCHANGED <<source, ceiling, outcome, columns, csv, pending>>

EndArray ==
  /\ Walking /\ ~More
  /\ outcome' = IF rows = <<>> THEN "empty" ELSE IF columns = <<>> THEN "noNames" ELSE "loaded"
  /\ UNCHANGED <<source, ceiling, at, parsed, held, csv, taken, pending>>

Feed ==
  \/ SkipLF \/ OpenQuote \/ EndField \/ EndLine \/ Unquoted
  \/ QuotedData \/ QuoteInside \/ DoubledQuote \/ TextAfterQuote

Next ==
  \/ Feed \/ Finish \/ Rows
  \/ Take \/ Widen \/ AddRow \/ EndArray

Spec == Init /\ [][Next]_vars

-----------------------------------------------------------------------------
(* Properties.                                                             *)

Outcome ==
  {"reading", "split", "loaded", "malformed", "notAnArrayOfObjects", "namesRequired",
   "noNames", "empty", "over"}

TypeOK ==
  /\ ceiling \in Ceilings
  /\ at \in 1..(Len(source.body) + 1)
  /\ outcome \in Outcome
  /\ held \in Nat /\ record \in Nat
  /\ state \in {"FieldStart", "Unquoted", "Quoted", "QuoteInQuoted"}
  /\ started \in BOOLEAN /\ afterCr \in BOOLEAN /\ taken \in BOOLEAN
  /\ Len(field) <= MaxField /\ Len(fields) <= MaxFields
  /\ state = "FieldStart" => field = <<>>
  /\ ~started => field = <<>> /\ fields = <<>>
  /\ \A i \in DOMAIN rows : DOMAIN rows[i] = DOMAIN columns
  /\ taken => More /\ pending \subseteq Keys

TextsCost(texts) == Total([i \in DOMAIN texts |-> CellOverhead + Len(texts[i])])
RecordsCost(table) == Total([i \in DOMAIN table |-> RowOverhead + TextsCost(table[i])])
RowsCost(table) == Total([i \in DOMAIN table |-> Footprint(table[i])])

(* What the ceiling is told is held is what is held, at every byte and     *)
(* every key: rows widened after they were charged for are charged again,  *)
(* and the rows a table ends up with cost no more than it was charged.     *)
Charged ==
  /\ source.format = "csv" => held = RecordsCost(records) /\ record = TextsCost(fields)
  /\ source.format = "json" => held = RowsCost(rows)
  /\ RowsCost(rows) <= held

(* A CSV holds no more than the ceiling at any byte, the record it is in   *)
(* the middle of included; a JSON document no more between two elements.   *)
WithinCeiling ==
  /\ source.format = "csv" => held + record + Len(field) <= ceiling
  /\ source.format = "json" /\ ~taken => held <= ceiling

Written == source.written
Marked == IF source.body # <<>> /\ Head(source.body) = Mark THEN 1 ELSE 0
Data == IF source.header THEN Tail(Written) ELSE Written
Named == IF source.names = Absent THEN Head(Written) ELSE source.names

(* A table every limit allows, as wide everywhere as it has names.         *)
Loadable ==
  /\ source.header \/ source.names # Absent
  /\ Marked + RecordsCost(Written) <= ceiling
  /\ \A i \in DOMAIN Written :
       /\ Len(Written[i]) <= MaxFields
       /\ \A c \in DOMAIN Written[i] :
            Len(Written[i][c]) + (IF i = 1 /\ c = 1 THEN Marked ELSE 0) <= MaxField
  /\ Named # <<>> /\ Data # <<>>
  /\ \A i \in DOMAIN Data : Len(Data[i]) = Len(Named)

CsvReadsBack ==
  outcome \notin {"reading", "split"} =>
    /\ outcome = "loaded" <=> Loadable
    /\ outcome = "loaded" =>
         /\ columns = Named
         /\ rows = [i \in DOMAIN Data |-> [c \in DOMAIN Named |-> CellOfText(Data[i][c])]]

(* The columns of a JSON document that names none are all its keys, once   *)
(* each and sorted, wherever in it each first appeared; and every row has  *)
(* each of its object's values under that value's key.                     *)
KeysBecomeColumns ==
  source.format = "json" /\ outcome = "loaded" =>
    /\ IF source.names # Absent THEN columns = source.names
       ELSE /\ ToSet(columns) = UNION {DOMAIN element.cells : element \in ToSet(source.body)}
            /\ \A c, d \in DOMAIN columns : c < d => columns[c] < columns[d]
    /\ Len(rows) = Len(source.body)
    /\ \A i \in DOMAIN rows : rows[i] = RowOf(source.body[i].cells)

(* What a publisher wrote is what is read, however it quoted and ended its *)
(* lines, and it is refused only for a limit it is past or a row of the    *)
(* wrong width; and a JSON document's keys become its columns.             *)
ReadsBack ==
  /\ source.format = "csv" => Written = Absent \/ CsvReadsBack
  /\ KeysBecomeColumns
=============================================================================
