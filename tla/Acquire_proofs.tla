--------------------------- MODULE Acquire_proofs ---------------------------
(***************************************************************************)
(* What a host is handed, for any processes, any configurations they are   *)
(* started and started again with, and any bodies publishers hand out.     *)
(***************************************************************************)
EXTENDS Acquire, TLAPS

Products == {row.name : row \in Sources} \cup {None} \cup STRING

Result ==
  [status : {"unasked", "none", "theirs", "refused"}]
    \cup [status : {"served"}, of : Products, body : Body]

(* A configuration whose table, if it has one, is in a file of its own.    *)
Known(c) ==
  /\ c \in GeoIpConfig
  /\ c.source # None => c.source.file \in File /\ \A row \in Sources : c.source.file # row.file

TypeInv ==
  /\ config \in [Process -> GeoIpConfig] /\ \A p \in Process : Known(config[p])
  /\ call \in [Process -> [what : Asked, step : {"check", "ask", "missed", "read"}] \cup {Idle}]
  /\ answer \in [Process -> [Asked -> Result]]
  /\ fault \in [Process -> {None, "InvalidSetting", "UnsupportedTier", "MissingCredential"}]
  /\ disk \in [File -> {None} \cup Download]
  /\ own \in [Process -> [File -> 0 .. Old \cup {None}]]
  /\ early \in BOOLEAN /\ mixed \in BOOLEAN
  /\ waits \in 0 .. MaxWaits /\ restarts \in 0 .. MaxRestarts

(* What a call has found of its configuration by the time it asks.         *)
CallInv(p) ==
  /\ What(p) = "table" => config[p].source # None
  /\ What(p) \in Kind => config[p].enabled
  /\ What(p) \in Kind /\ call[p].step \in {"ask", "missed"} =>
       config[p].auto.enabled /\ ~config[p].path[What(p)] /\ Row(p) # None

(* A database's file holds the one product its name stands for.            *)
DirectoryInv == \A row \in Sources : disk[row.file] # None => disk[row.file].of = row.name

(* What was handed out is of the source its configuration still selects.   *)
ServedFrom(p, kind) ==
  LET row == Find(config[p].provider[kind], kind) IN row # None /\ answer[p][kind].of = row.name

ServedInv ==
  \A p \in Process, kind \in Kind : answer[p][kind].status = "served" => ServedFrom(p, kind)

FaultInv == \A p \in Process : fault[p] # None => ~Valid(config[p])

(* What a process downloaded is there still, or something newer is; and it *)
(* asks for a database only once its own download is past the interval.    *)
PaceInv ==
  /\ ~early
  /\ \A p \in Process, f \in File :
       own[p][f] # None => disk[f] # None /\ disk[f].age <= own[p][f]
  /\ \A p \in Process :
       What(p) \in Kind /\ Asking(p) /\ own[p][FileOf(p)] # None =>
         own[p][FileOf(p)] >= Row(p).interval

Inv ==
  /\ TypeInv /\ \A p \in Process : CallInv(p)
  /\ DirectoryInv /\ ServedInv /\ FaultInv /\ PaceInv

-----------------------------------------------------------------------------
(* The table of sources.                                                   *)

LEMMA PublishedIs ==
  ASSUME NEW row
  PROVE  /\ row.endpoint # "maxmind" => Published(UrlOf(row)) = row.endpoint
         /\ row.endpoint = "maxmind" /\ row.url = "edition" => Published(UrlOf(row)) = row.file
<1>1. UrlOf(row).endpoint = row.endpoint
  BY DEF UrlOf
<1>2. row.url = "edition" => UrlOf(row).part = row.file
  BY DEF UrlOf
<1>. QED
  BY <1>1, <1>2 DEF Published

(* A source's file is named after its one product, so that a file of the   *)
(* directory tells what is in it whoever put it there.                     *)
LEMMA RowFacts ==
  ASSUME NEW row \in Sources
  PROVE  /\ row.kind \in Kind /\ row.file = row.name
         /\ Published(UrlOf(row)) = row.name
         /\ row.cadence \in 0 .. Old /\ row.interval \in 0 .. Old
<1>1. CASE row \in MaxMindRows
  <2>1. /\ row.kind \in Kind /\ row.file = row.name
        /\ row.endpoint = "maxmind" /\ row.url = "edition"
    BY <1>1 DEF MaxMindRows, MaxMindRow, Kind
  <2>2. row.cadence = TwiceWeekly /\ row.interval = Day
    BY <1>1 DEF MaxMindRows, MaxMindRow
  <2>. QED
    BY <2>1, <2>2, PublishedIs DEF Old, Monthly, TwiceWeekly, Day
<1>2. CASE row \in DbIpRows
  <2>1. /\ row.kind \in Kind /\ row.file = row.name
        /\ row.endpoint = row.name /\ row.endpoint # "maxmind"
    BY <1>2 DEF DbIpRows, DbIpRow, Kind
  <2>2. row.cadence = Monthly /\ row.interval = 0
    BY <1>2 DEF DbIpRows, DbIpRow
  <2>. QED
    BY <2>1, <2>2, PublishedIs DEF Old, Monthly
<1>3. CASE row \in IpInfoRows
  <2>1. /\ row.kind \in Kind /\ row.file = row.name
        /\ row.endpoint = row.name /\ row.endpoint # "maxmind"
    BY <1>3 DEF IpInfoRows, Kind
  <2>2. row.cadence = Day /\ row.interval = Day
    BY <1>3 DEF IpInfoRows
  <2>. QED
    BY <2>1, <2>2, PublishedIs DEF Old, Monthly, Day
<1>4. CASE row \in SapicsRows
  <2>1. /\ row.kind \in Kind /\ row.file = row.name
        /\ row.endpoint = row.name /\ row.endpoint # "maxmind"
    BY <1>4 DEF SapicsRows, SapicsRow, Kind
  <2>2. row.cadence = Day /\ row.interval = 0
    BY <1>4 DEF SapicsRows, SapicsRow
  <2>. QED
    BY <2>1, <2>2, PublishedIs DEF Old, Monthly, Day
<1>. QED
  BY <1>1, <1>2, <1>3, <1>4 DEF Sources

LEMMA FindIs ==
  ASSUME NEW choice, NEW kind, Find(choice, kind) # None
  PROVE  Find(choice, kind) \in Rows(choice) /\ Find(choice, kind) \in Sources
         /\ Find(choice, kind).kind = kind
<1>. DEFINE rows == {row \in Rows(choice) : row.kind = kind}
<1>1. Find(choice, kind) = IF rows = {} THEN None ELSE CHOOSE row \in rows : TRUE
  BY DEF Find
<1>2. Find(choice, kind) \in rows
  BY <1>1
<1>. QED
  BY <1>2 DEF Rows

LEMMA RowFile == \A row \in Sources : row.file \in File
BY DEF File

LEMMA WindowIs ==
  ASSUME NEW row \in Sources, NEW auto \in AutoDownloadConfig
  PROVE  Window(row, auto) \in Nat /\ Window(row, auto) >= row.interval
BY RowFacts DEF Window, AutoDownloadConfig

-----------------------------------------------------------------------------
(* A configuration written out and read again.                             *)

LEMMA ChoiceReadsBack == ASSUME NEW choice \in Choice PROVE ReadChoice(WriteChoice(choice)) = choice
<1>1. CASE choice.tier = "free"
  <2>1. WriteChoice(choice) = [form |-> "bare", provider |-> choice.provider]
    BY <1>1 DEF WriteChoice
  <2>2. ReadChoice(WriteChoice(choice)) = [provider |-> choice.provider, tier |-> "free"]
    BY <2>1 DEF ReadChoice
  <2>. QED
    BY <1>1, <2>2 DEF Choice
<1>2. CASE choice.tier = "paid"
  <2>1. WriteChoice(choice) = [form |-> "tiered", provider |-> choice.provider, tier |-> choice.tier]
    BY <1>2 DEF WriteChoice
  <2>2. ReadChoice(WriteChoice(choice)) = [provider |-> choice.provider, tier |-> choice.tier]
    BY <2>1 DEF ReadChoice
  <2>. QED
    BY <2>2 DEF Choice
<1>. QED
  BY <1>1, <1>2 DEF Choice, Tier

LEMMA SelectionReadsBack ==
  ASSUME NEW selection \in Choices PROVE ReadSelection(WriteSelection(selection)) = selection
<1>. DEFINE wire == WriteSelection(selection)
<1>1. \A kind \in Kind : selection[kind] \in Choice /\ ReadChoice(WriteChoice(selection[kind])) = selection[kind]
  BY ChoiceReadsBack DEF Choices
<1>2. CASE selection["city"] = selection["asn"]
  <2>1. wire.form = "uniform" /\ wire.choice = WriteChoice(selection["city"])
    BY <1>2 DEF WriteSelection
  <2>2. \A kind \in Kind : selection[kind] = selection["city"]
    BY <1>2 DEF Kind
  <2>. HIDE DEF wire
  <2>3. ReadSelection(wire) = [kind \in Kind |-> ReadChoice(wire.choice)]
    BY <2>1 DEF ReadSelection
  <2>4. \A kind \in Kind : ReadChoice(wire.choice) = selection[kind]
    BY <1>1, <2>1, <2>2
  <2>. QED
    BY <2>3, <2>4 DEF Choices, wire
<1>3. CASE selection["city"] # selection["asn"]
  <2>1. wire.form = "per kind" /\ wire.kinds = [kind \in Kind |-> WriteChoice(selection[kind])]
    BY <1>3 DEF WriteSelection
  <2>. HIDE DEF wire
  <2>2. ReadSelection(wire) = [kind \in Kind |-> ReadChoice(wire.kinds[kind])]
    BY <2>1 DEF ReadSelection
  <2>3. \A kind \in Kind : ReadChoice(wire.kinds[kind]) = selection[kind]
    BY <1>1, <2>1
  <2>. QED
    BY <2>2, <2>3 DEF Choices, wire
<1>. QED
  BY <1>2, <1>3

LEMMA FormatReadsBack ==
  ASSUME NEW format \in {"csv", "csv headerless", "json"} PROVE ReadFormat(WriteFormat(format)) = format
<1>1. CASE format = "csv headerless"
  <2>1. WriteFormat(format) = [form |-> "full", tag |-> "csv", header |-> FALSE]
    BY <1>1 DEF WriteFormat
  <2>2. ReadFormat([form |-> "full", tag |-> "csv", header |-> FALSE]) = "csv headerless"
    BY DEF ReadFormat
  <2>. QED
    BY <1>1, <2>1, <2>2
<1>2. CASE format \in {"csv", "json"}
  <2>1. WriteFormat(format) = [form |-> "bare", tag |-> format]
    BY <1>2 DEF WriteFormat
  <2>2. ReadFormat([form |-> "bare", tag |-> format]) = format
    BY <1>2 DEF ReadFormat
  <2>. QED
    BY <1>2, <2>1, <2>2
<1>. QED
  BY <1>1, <1>2

(* What a process writes of its configuration selects the same sources, and *)
(* reads a table of the same file in the same encoding.                     *)
LEMMA RereadIs ==
  ASSUME NEW c \in GeoIpConfig
  PROVE  /\ Reread(c) \in GeoIpConfig
         /\ Reread(c).provider = c.provider
         /\ c.source = None => Reread(c).source = None
         /\ c.source # None => Reread(c).source.file = c.source.file
                               /\ Reread(c).source.format = c.source.format
<1>. DEFINE auto == [c.auto EXCEPT !.secrets = Redacted(@)]
            source == IF c.source = None THEN None ELSE RereadSource(c.source)
            provider == ReadSelection(WriteSelection(c.provider))
<1>1. auto \in AutoDownloadConfig
  <2>1. c.auto \in AutoDownloadConfig /\ c.auto.secrets \in [Credential -> {None, "blank", "set", "redacted"}]
    BY DEF GeoIpConfig, AutoDownloadConfig
  <2>2. Redacted(c.auto.secrets) \in [Credential -> {None, "blank", "set", "redacted"}]
    BY <2>1 DEF Redacted
  <2>. QED
    BY <2>1, <2>2 DEF AutoDownloadConfig
<1>2. provider = c.provider
  BY SelectionReadsBack DEF GeoIpConfig
<1>3. /\ source \in {None} \cup TableSource
      /\ c.source # None => source.file = c.source.file /\ source.format = c.source.format
  <2>1. CASE c.source # None
    <3>1. c.source \in TableSource /\ ReadFormat(WriteFormat(c.source.format)) = c.source.format
      BY <2>1, FormatReadsBack DEF GeoIpConfig, TableSource
    <3>. QED
      BY <2>1, <3>1 DEF TableSource, RereadSource
  <2>. QED
    BY <2>1
<1>4. Reread(c) = [c EXCEPT !.provider = provider, !.auto = auto, !.client = FALSE, !.source = source]
  BY DEF Reread, GeoIpConfig, AutoDownloadConfig
<1>5. c.source = None => source = None
  OBVIOUS
<1>. HIDE DEF auto, source, provider
<1>6. /\ Reread(c) \in GeoIpConfig
      /\ Reread(c).provider = provider /\ Reread(c).source = source
  BY <1>1, <1>2, <1>3, <1>4 DEF GeoIpConfig
<1>. QED
  BY <1>2, <1>3, <1>5, <1>6

LEMMA ConfigsKnown == \A c \in Configs : Known(c)
<1>. SUFFICES ASSUME NEW c \in Configs PROVE Known(c)
  OBVIOUS
<1>1. c \in GeoIpConfig
  BY AcquireAssumption DEF Configs
<1>2. c.source # None => c.source.file \in File /\ \A row \in Sources : c.source.file # row.file
  BY FilesApart DEF Configs, File
<1>. QED
  BY <1>1, <1>2 DEF Known

LEMMA RereadKnown == ASSUME NEW c, Known(c) PROVE Known(Reread(c))
BY RereadIs DEF Known


-----------------------------------------------------------------------------
(* Type correctness, and what a call knows.                                *)

Calls == [what : Asked, step : {"check", "ask", "missed", "read"}] \cup {Idle}

LEMMA CallIs ==
  ASSUME NEW local \in Calls
  PROVE  /\ local.what \in Asked => local \in [what : Asked, step : {"check", "ask", "missed", "read"}]
         /\ local = Idle => local.what = "nothing" /\ local.step = "idle"
         /\ local.what \in Asked \cup {"nothing"}
         /\ local # Idle => local.what \in Asked
BY DEF Calls, Idle, Asked, Kind

LEMMA InitType == Init => TypeInv /\ \A p \in Process : CallInv(p)
<1>. SUFFICES ASSUME Init PROVE TypeInv /\ \A p \in Process : CallInv(p)
  OBVIOUS
<1>1. config \in [Process -> GeoIpConfig] /\ \A p \in Process : Known(config[p])
  <2>1. config \in [Process -> GeoIpConfig] /\ \A p \in Process : config[p] \in Configs
    BY AcquireAssumption DEF Init, Configs
  <2>. QED
    BY <2>1, ConfigsKnown
<1>2. call \in [Process -> Calls] /\ \A p \in Process : call[p] = Idle
  BY DEF Init, Calls
<1>3. [status |-> "unasked"] \in Result
  BY DEF Result
<1>4. answer \in [Process -> [Asked -> Result]]
  BY <1>3 DEF Init
<1>5. own \in [Process -> [File -> 0 .. Old \cup {None}]]
  BY DEF Init
<1>6. disk \in [File -> {None} \cup Download] /\ mixed \in BOOLEAN /\ early \in BOOLEAN
  BY DEF Init
<1>7. waits \in 0 .. MaxWaits /\ restarts \in 0 .. MaxRestarts
  BY AcquireAssumption DEF Init
<1>8. TypeInv
  BY <1>1, <1>2, <1>4, <1>5, <1>6, <1>7 DEF Init, TypeInv, Calls
<1>9. \A p \in Process : CallInv(p)
  BY <1>2 DEF Idle, CallInv, What, Kind
<1>. QED
  BY <1>8, <1>9

(* The file a call is about, and what is there.                            *)
LEMMA FileOfIs ==
  ASSUME TypeInv, NEW p \in Process, CallInv(p), What(p) \in Asked,
         What(p) \in Kind => Row(p) # None
  PROVE  /\ FileOf(p) \in File /\ Copy(p) \in {None} \cup Download
         /\ What(p) \in Kind => Row(p) \in Sources /\ Row(p).kind = What(p) /\ FileOf(p) = Row(p).file
         /\ What(p) = "table" => \A row \in Sources : FileOf(p) # row.file
<1>1. What(p) = "table" => What(p) \notin Kind
  BY DEF Kind
<1>2. CASE What(p) \in Kind
  <2>1. Row(p) \in Sources /\ Row(p).kind = What(p)
    BY <1>2, FindIs DEF Row
  <2>2. FileOf(p) = Row(p).file
    BY <1>1, <1>2 DEF FileOf
  <2>. QED
    BY <1>1, <1>2, <2>1, <2>2, RowFile DEF TypeInv, Copy
<1>3. CASE What(p) = "table"
  <2>1. Known(config[p]) /\ config[p].source # None
    BY <1>3 DEF TypeInv, CallInv
  <2>. QED
    BY <1>1, <1>3, <2>1 DEF Known, FileOf, Copy, TypeInv
<1>. QED
  BY <1>2, <1>3 DEF Asked

LEMMA ServedType ==
  ASSUME TypeInv, NEW p \in Process, Copy(p) \in {None} \cup Download
  PROVE  (IF Copy(p) = None THEN [status |-> "none"]
          ELSE [status |-> "served", of |-> Copy(p).of, body |-> Copy(p).body]) \in Result
BY DEF Result, Download, Products

LEMMA PlainResults ==
  \A status \in {"unasked", "none", "theirs", "refused"} : [status |-> status] \in Result
BY DEF Result

LEMMA HandType ==
  ASSUME TypeInv, NEW p \in Process, What(p) \in Asked, NEW result \in Result, Hand(p, result)
  PROVE  /\ answer' \in [Process -> [Asked -> Result]]
         /\ answer'[p][What(p)] = result
         /\ \A q \in Process, w \in Asked :
              q # p \/ w # What(p) => answer'[q][w] = answer[q][w]
BY DEF TypeInv, Hand

LEMMA GoType ==
  ASSUME TypeInv, NEW p \in Process, What(p) \in Asked,
         NEW step \in {"check", "ask", "missed", "read"}, Go(p, step)
  PROVE  /\ call' \in [Process -> Calls]
         /\ call'[p].what = What(p) /\ call'[p].step = step
         /\ \A q \in Process \ {p} : call'[q] = call[q]
<1>1. call \in [Process -> Calls] /\ call[p] \in [what : Asked, step : {"check", "ask", "missed", "read"}]
  BY CallIs DEF TypeInv, Calls, What
<1>2. [call[p] EXCEPT !.step = step] \in [what : Asked, step : {"check", "ask", "missed", "read"}]
  BY <1>1
<1>3. call' = [call EXCEPT ![p] = [call[p] EXCEPT !.step = step]]
  BY DEF Go
<1>. QED
  BY <1>1, <1>2, <1>3 DEF Calls, What

LEMMA ReturnType ==
  ASSUME TypeInv, NEW p \in Process, Return(p)
  PROVE  /\ call' \in [Process -> Calls]
         /\ \/ What(p) = "city" /\ call'[p].what = "asn" /\ call'[p].step = "check"
            \/ call'[p] = Idle
         /\ \A q \in Process \ {p} : call'[q] = call[q]
<1>. DEFINE next == IF What(p) = "city" THEN [what |-> "asn", step |-> "check"] ELSE Idle
<1>1. call \in [Process -> Calls]
  BY DEF TypeInv, Calls
<1>2. next \in Calls
  BY DEF Calls, Asked, Kind
<1>3. call' = [call EXCEPT ![p] = next]
  BY DEF Return
<1>4. \/ What(p) = "city" /\ next.what = "asn" /\ next.step = "check"
      \/ next = Idle
  OBVIOUS
<1>. HIDE DEF next
<1>. QED
  BY <1>1, <1>2, <1>3, <1>4

(* A call that is where it was, over, or on its way to the other database, *)
(* knows what it knew.                                                     *)
LEMMA SameCall ==
  ASSUME NEW q \in Process, CallInv(q), call'[q] = call[q], config'[q] = config[q] PROVE CallInv(q)'
BY DEF CallInv, What, Row

LEMMA ReturnKnows ==
  ASSUME TypeInv, \A q \in Process : CallInv(q), NEW p \in Process, Return(p), UNCHANGED config
  PROVE  \A q \in Process : CallInv(q)'
<1>1. CallInv(p)'
  <2>1. CASE What(p) = "city" /\ call'[p].what = "asn" /\ call'[p].step = "check"
    BY <2>1 DEF CallInv, What, Kind
  <2>2. CASE call'[p] = Idle
    BY <2>2 DEF CallInv, What, Kind, Idle
  <2>. QED
    BY <2>1, <2>2, ReturnType
<1>. QED
  BY <1>1, ReturnType, SameCall

LEMMA GoKnows ==
  ASSUME TypeInv, \A q \in Process : CallInv(q), NEW p \in Process, What(p) \in Asked,
         NEW step \in {"check", "ask", "missed", "read"}, Go(p, step), UNCHANGED config,
         What(p) \in Kind /\ step \in {"ask", "missed"} =>
           config[p].auto.enabled /\ ~config[p].path[What(p)] /\ Row(p) # None
  PROVE  \A q \in Process : CallInv(q)'
<1>1. What(p)' = What(p) /\ call'[p].step = step /\ Row(p)' = Row(p)
  BY GoType DEF What, Row
<1>2. CallInv(p)'
  BY <1>1 DEF CallInv
<1>. QED
  BY <1>2, GoType, SameCall


(* What a step that downloads nothing hands out: what was in the file.     *)
Handed(p) ==
  /\ answer' \in [Process -> [Asked -> Result]]
  /\ \A q \in Process, w \in Asked :
       \/ answer'[q][w] = answer[q][w]
       \/ /\ q = p /\ w = What(p)
          /\ answer'[q][w].status = "served" =>
               /\ What(p) \in Kind => Row(p) # None
               /\ Copy(p) # None /\ answer'[q][w].of = Copy(p).of

LEMMA ServeHands ==
  ASSUME TypeInv, NEW p \in Process, CallInv(p), What(p) \in Asked,
         What(p) \in Kind => Row(p) # None, Serve(p)
  PROVE  Handed(p)
<1>. DEFINE result == IF Copy(p) = None THEN [status |-> "none"]
                      ELSE [status |-> "served", of |-> Copy(p).of, body |-> Copy(p).body]
<1>1. result \in Result
  BY FileOfIs, ServedType
<1>2. result.status = "served" => Copy(p) # None /\ result.of = Copy(p).of
  OBVIOUS
<1>3. Hand(p, result)
  BY DEF Serve
<1>. HIDE DEF result
<1>. QED
  BY <1>1, <1>2, <1>3, HandType DEF Handed

LEMMA PlainHands ==
  ASSUME TypeInv, NEW p \in Process, What(p) \in Asked,
         NEW status \in {"none", "theirs", "refused"}, Hand(p, [status |-> status])
  PROVE  Handed(p)
<1>. DEFINE result == [status |-> status]
<1>1. result \in Result /\ result.status # "served" /\ Hand(p, result)
  BY PlainResults
<1>. HIDE DEF result
<1>. QED
  BY <1>1, HandType DEF Handed

LEMMA NoneHanded == ASSUME TypeInv, NEW p \in Process, UNCHANGED answer PROVE Handed(p)
BY DEF TypeInv, Handed

Local(p) ==
  \/ Begin(p) \/ Explicit(p) \/ Unselected(p) \/ AsItIs(p) \/ Attempt(p) \/ FallBack(p)
  \/ CheckTable(p) \/ FallBackTable(p) \/ Read(p) \/ Miss(p)

Knows == call' \in [Process -> Calls] /\ \A q \in Process : CallInv(q)'

LEMMA BeginStep ==
  ASSUME TypeInv, \A q \in Process : CallInv(q), NEW p \in Process, Begin(p) PROVE Knows /\ Handed(p)
<1>1. UNCHANGED <<answer, config>> /\ call \in [Process -> Calls]
  BY DEF Begin, Elsewhere, TypeInv, Calls
<1>2. PICK what \in {"city", "table"} :
        /\ call' = [call EXCEPT ![p] = [what |-> what, step |-> "check"]]
        /\ what = "city" => config[p].enabled
        /\ what = "table" => config[p].source # None
  BY DEF Begin
<1>3. [what |-> what, step |-> "check"] \in Calls
  BY DEF Calls, Asked, Kind
<1>4. call'[p].what = what /\ call'[p].step = "check" /\ \A q \in Process \ {p} : call'[q] = call[q]
  BY <1>1, <1>2
<1>5. CallInv(p)'
  BY <1>1, <1>2, <1>4 DEF CallInv, What, Kind
<1>6. \A q \in Process : CallInv(q)'
  BY <1>1, <1>4, <1>5, SameCall
<1>. QED
  BY <1>1, <1>2, <1>3, <1>6, NoneHanded DEF Knows

(* resolve, for a database.                                                *)
LEMMA DatabaseStep ==
  ASSUME TypeInv, \A q \in Process : CallInv(q), NEW p \in Process,
         Explicit(p) \/ Unselected(p) \/ AsItIs(p) \/ Attempt(p) \/ FallBack(p)
  PROVE  Knows /\ Handed(p)
<1>1. UNCHANGED config /\ What(p) \in Asked /\ What(p) \in Kind
  BY DEF Explicit, Unselected, AsItIs, Attempt, FallBack, Selected, Checking, Elsewhere, Asked
<1>2. CASE Return(p)
  <2>1. Knows
    BY <1>1, <1>2, ReturnType, ReturnKnows DEF Knows
  <2>2. CASE Explicit(p) \/ Unselected(p)
    BY <1>1, <2>1, <2>2, PlainHands DEF Explicit, Unselected
  <2>3. CASE AsItIs(p) \/ FallBack(p)
    <3>1. Row(p) # None /\ Serve(p)
      BY <2>3 DEF AsItIs, Selected, FallBack, CallInv
    <3>. QED
      BY <1>1, <2>1, <3>1, ServeHands
  <2>4. CASE Attempt(p)
    BY <2>1, <2>4, NoneHanded DEF Attempt
  <2>. QED
    BY <2>2, <2>3, <2>4
<1>3. CASE Attempt(p)
  <2>1. Go(p, "ask") /\ config[p].auto.enabled /\ ~config[p].path[What(p)] /\ Row(p) # None
    BY <1>3 DEF Attempt, Selected
  <2>. QED
    BY <1>1, <1>3, <2>1, GoType, GoKnows, NoneHanded DEF Knows, Attempt
<1>. QED
  BY <1>2, <1>3 DEF Explicit, Unselected, AsItIs, FallBack

LEMMA TableStep ==
  ASSUME TypeInv, \A q \in Process : CallInv(q), NEW p \in Process,
         CheckTable(p) \/ FallBackTable(p) \/ Read(p)
  PROVE  Knows /\ Handed(p)
<1>1. UNCHANGED config /\ What(p) \in Asked /\ What(p) \notin Kind
  BY DEF CheckTable, FallBackTable, Read, Elsewhere, Asked, Kind
<1>2. Knows
  <2>1. CASE Return(p)
    BY <1>1, <2>1, ReturnType, ReturnKnows DEF Knows
  <2>2. CASE Go(p, "read") \/ Go(p, "ask")
    BY <1>1, <2>2, GoType, GoKnows DEF Knows
  <2>. QED
    BY <2>1, <2>2 DEF CheckTable, FallBackTable, Read
<1>3. CASE Hand(p, [status |-> "refused"])
  BY <1>1, <1>2, <1>3, PlainHands
<1>4. CASE Serve(p)
  BY <1>1, <1>2, <1>4, ServeHands
<1>5. CASE UNCHANGED answer
  BY <1>2, <1>5, NoneHanded
<1>. QED
  BY <1>2, <1>3, <1>4, <1>5 DEF CheckTable, FallBackTable, Read

(* An attempt is asked for by a call of a database or of a table.          *)
LEMMA AskingIs == ASSUME TypeInv, NEW p \in Process, Asking(p) PROVE What(p) \in Asked
BY CallIs DEF TypeInv, Calls, Asking, What, Idle

LEMMA MissStep ==
  ASSUME TypeInv, \A q \in Process : CallInv(q), NEW p \in Process, Miss(p) PROVE Knows /\ Handed(p)
<1>1. UNCHANGED <<config, answer>> /\ Go(p, "missed") /\ Asking(p) /\ What(p) \in Asked
  BY AskingIs DEF Miss, Elsewhere
<1>2. What(p) \in Kind =>
        config[p].auto.enabled /\ ~config[p].path[What(p)] /\ Row(p) # None
  BY <1>1 DEF CallInv, Asking
<1>. QED
  BY <1>1, <1>2, GoType, GoKnows, NoneHanded DEF Knows

LEMMA LocalStep ==
  ASSUME TypeInv, \A q \in Process : CallInv(q), NEW p \in Process, Local(p) PROVE Knows /\ Handed(p)
BY BeginStep, DatabaseStep, TableStep, MissStep DEF Local


LEMMA ProductIs ==
  ASSUME TypeInv, NEW p \in Process, CallInv(p), What(p) \in Asked,
         What(p) \in Kind => Row(p) # None
  PROVE  Product(p) \in Products /\ (What(p) \in Kind => Product(p) = Row(p).name)
<1>1. CASE What(p) \in Kind
  <2>1. Row(p) \in Sources
    BY <1>1, FileOfIs
  <2>2. Product(p) = Row(p).name
    BY <1>1, <2>1, RowFacts DEF Product, Kind
  <2>. QED
    BY <2>1, <2>2 DEF Products
<1>2. CASE What(p) = "table"
  <2>1. config[p] \in GeoIpConfig /\ config[p].source # None
    BY <1>2 DEF TypeInv, CallInv
  <2>2. config[p].source.url \in {None} \cup STRING
    BY <2>1 DEF GeoIpConfig, TableSource
  <2>. QED
    BY <1>2, <2>2 DEF Product, Products, Kind
<1>. QED
  BY <1>1, <1>2 DEF Asked

(* What a download puts in the directory, and hands out of a database.     *)
Brought(p) ==
  /\ What(p) \in Asked /\ (What(p) \in Kind => Row(p) # None) /\ FileOf(p) \in File
  /\ \E copy \in Download :
       /\ copy.of = Product(p) /\ copy.age = 0
       /\ disk' = [disk EXCEPT ![FileOf(p)] = copy]
  /\ answer' \in [Process -> [Asked -> Result]]
  /\ \A q \in Process, w \in Asked :
       \/ answer'[q][w] = answer[q][w]
       \/ q = p /\ w = What(p) /\ w \in Kind /\ answer'[q][w].of = Product(p)

LEMMA FetchStep ==
  ASSUME TypeInv, \A q \in Process : CallInv(q), NEW p \in Process, Fetch(p) PROVE Knows /\ Brought(p)
<1>1. /\ What(p) \in Asked /\ CallInv(p) /\ UNCHANGED config
      /\ What(p) \in Kind => Row(p) # None
  BY AskingIs DEF Fetch, Asking, CallInv
<1>2. FileOf(p) \in File /\ Product(p) \in Products
  BY <1>1, FileOfIs, ProductIs
<1>3. PICK body \in Body :
        /\ disk' = [disk EXCEPT ![FileOf(p)] = [of |-> Product(p), age |-> 0, body |-> body]]
        /\ IF What(p) = "table"
             THEN Go(p, "read") /\ UNCHANGED answer
             ELSE /\ Hand(p, [status |-> "served", of |-> Product(p), body |-> body])
                  /\ Return(p)
  BY DEF Fetch
<1>. DEFINE copy == [of |-> Product(p), age |-> 0, body |-> body]
            result == [status |-> "served", of |-> Product(p), body |-> body]
<1>4. copy \in Download /\ copy.of = Product(p) /\ copy.age = 0
  BY <1>2 DEF Download, Products, Monthly
<1>5. result \in Result /\ result.of = Product(p)
  BY <1>2 DEF Result
<1>6. disk' = [disk EXCEPT ![FileOf(p)] = copy]
  BY <1>3
<1>7. CASE What(p) = "table"
  <2>1. What(p) \notin Kind
    BY <1>7 DEF Kind
  <2>2. Go(p, "read") /\ UNCHANGED answer
    BY <1>3, <1>7
  <2>3. Knows
    BY <1>1, <2>1, <2>2, GoType, GoKnows DEF Knows
  <2>. HIDE DEF copy, result
  <2>. QED
    BY <1>1, <1>2, <1>4, <1>6, <2>2, <2>3 DEF Brought, TypeInv
<1>8. CASE What(p) # "table"
  <2>1. What(p) \in Kind
    BY <1>1, <1>8 DEF Asked
  <2>2. Hand(p, result) /\ Return(p)
    BY <1>3, <1>8
  <2>3. Knows
    BY <1>1, <2>2, ReturnType, ReturnKnows DEF Knows
  <2>. HIDE DEF copy, result
  <2>4. /\ answer' \in [Process -> [Asked -> Result]]
        /\ answer'[p][What(p)] = result
        /\ \A q \in Process, w \in Asked :
             q # p \/ w # What(p) => answer'[q][w] = answer[q][w]
    BY <1>1, <1>5, <2>2, HandType
  <2>. QED
    BY <1>1, <1>2, <1>4, <1>5, <1>6, <2>1, <2>3, <2>4 DEF Brought
<1>. QED
  BY <1>7, <1>8

LEMMA RestartStep ==
  ASSUME TypeInv, \A q \in Process : CallInv(q), NEW p \in Process, Restart(p)
  PROVE  /\ Knows
         /\ config' \in [Process -> GeoIpConfig] /\ \A q \in Process : Known(config'[q])
         /\ answer' \in [Process -> [Asked -> Result]]
         /\ \A w \in Asked : answer'[p][w].status = "unasked"
         /\ \A q \in Process \ {p} : answer'[q] = answer[q] /\ config'[q] = config[q]
<1>1. PICK c \in Later \cup {config[p], Reread(config[p])} : config' = [config EXCEPT ![p] = c]
  BY DEF Restart
<1>2. Known(c)
  BY <1>1, ConfigsKnown, RereadKnown DEF TypeInv, Configs
<1>3. config' \in [Process -> GeoIpConfig] /\ \A q \in Process : Known(config'[q])
  BY <1>1, <1>2 DEF TypeInv, Known
<1>4. /\ call' \in [Process -> Calls] /\ call'[p] = Idle
      /\ \A q \in Process \ {p} : call'[q] = call[q] /\ config'[q] = config[q]
  BY <1>1 DEF TypeInv, Calls, Restart
<1>5. CallInv(p)'
  BY <1>4 DEF CallInv, What, Kind, Idle
<1>6. Knows
  BY <1>4, <1>5, SameCall DEF Knows
<1>. DEFINE none == [w \in Asked |-> [status |-> "unasked"]]
<1>7. none \in [Asked -> Result] /\ \A w \in Asked : none[w].status = "unasked"
  BY PlainResults
<1>8. answer' = [answer EXCEPT ![p] = none]
  BY DEF Restart
<1>. HIDE DEF none
<1>9. /\ answer' \in [Process -> [Asked -> Result]] /\ answer'[p] = none
      /\ \A q \in Process \ {p} : answer'[q] = answer[q]
  BY <1>7, <1>8 DEF TypeInv
<1>. QED
  BY <1>3, <1>4, <1>6, <1>7, <1>9


(* Time passes for a file and for a process's memory of it alike.          *)
LEMMA OlderIs ==
  ASSUME NEW n \in 0 .. Old \cup {None}, NEW d \in Nat
  PROVE  /\ Older(n, d) \in 0 .. Old \cup {None}
         /\ n = None <=> Older(n, d) = None
         /\ n # None => n \in 0 .. Old /\ Older(n, d) \in 0 .. Old /\ Older(n, d) >= n
         /\ \A m \in 0 .. Old : n # None /\ m <= n => Older(m, d) <= Older(n, d)
BY AcquireAssumption DEF Older, Old, Monthly

LEMMA DiskIs ==
  ASSUME TypeInv, NEW f \in File, disk[f] # None
  PROVE  disk[f] \in Download /\ disk[f].age \in 0 .. Old
BY DEF TypeInv, Download, Old

LEMMA WaitStep ==
  ASSUME TypeInv, \A q \in Process : CallInv(q), Wait
  PROVE  /\ Knows
         /\ disk' \in [File -> {None} \cup Download]
         /\ own' \in [Process -> [File -> 0 .. Old \cup {None}]]
         /\ \E d \in Jumps : \A f \in File :
              /\ disk[f] = None <=> disk'[f] = None
              /\ disk[f] # None =>
                   /\ disk'[f].of = disk[f].of
                   /\ disk'[f].age = Older(disk[f].age, d)
              /\ \A p \in Process : own'[p][f] = Older(own[p][f], d)
<1>1. PICK d \in Jumps :
        /\ disk' = [f \in File |-> IF disk[f] = None THEN None
                                   ELSE [disk[f] EXCEPT !.age = Older(@, d)]]
        /\ own' = [p \in Process |-> [f \in File |-> Older(own[p][f], d)]]
  BY DEF Wait
<1>2. d \in Nat
  BY AcquireAssumption
<1>3. ASSUME NEW f \in File, disk[f] # None
      PROVE  /\ [disk[f] EXCEPT !.age = Older(@, d)] \in Download
             /\ [disk[f] EXCEPT !.age = Older(@, d)].of = disk[f].of
             /\ [disk[f] EXCEPT !.age = Older(@, d)].age = Older(disk[f].age, d)
  <2>1. disk[f] \in Download /\ disk[f].age \in 0 .. Old
    BY <1>3, DiskIs
  <2>2. disk[f].age # None /\ disk[f].age \in 0 .. Old \cup {None}
    BY <2>1, AcquireAssumption
  <2>3. Older(disk[f].age, d) \in 0 .. Old
    BY <1>2, <2>1, <2>2, OlderIs
  <2>. QED
    BY <2>1, <2>3 DEF Download, Old
<1>4. ASSUME NEW f \in File
      PROVE  disk'[f] = IF disk[f] = None THEN None ELSE [disk[f] EXCEPT !.age = Older(@, d)]
  BY <1>1
<1>5. disk' \in [File -> {None} \cup Download]
  BY <1>1, <1>3
<1>6. ASSUME NEW p \in Process, NEW f \in File
      PROVE  Older(own[p][f], d) \in 0 .. Old \cup {None}
  <2>1. own[p][f] \in 0 .. Old \cup {None}
    BY DEF TypeInv
  <2>. QED
    BY <1>2, <2>1, OlderIs
<1>7. own' \in [Process -> [File -> 0 .. Old \cup {None}]]
  BY <1>1, <1>6
<1>8. \A p \in Process, f \in File : own'[p][f] = Older(own[p][f], d)
  BY <1>1
<1>9. None \notin Download
  BY AcquireAssumption
<1>10. Knows
  <2>1. call \in [Process -> Calls] /\ UNCHANGED <<call, config>>
    BY DEF TypeInv, Calls, Wait
  <2>. QED
    BY <2>1, SameCall DEF Knows
<1>11. ASSUME NEW f \in File
       PROVE  /\ disk[f] = None <=> disk'[f] = None
              /\ disk[f] # None =>
                   /\ disk'[f].of = disk[f].of
                   /\ disk'[f].age = Older(disk[f].age, d)
  BY <1>3, <1>4, <1>9
<1>. QED
  BY <1>5, <1>7, <1>8, <1>10, <1>11

(* A database that is asked for has a row, so what is at fault is a        *)
(* setting, a tier or a credential.                                        *)
LEMMA FaultType ==
  ASSUME TypeInv, NEW p \in Process, CallInv(p), Asking(p)
  PROVE  FaultOf(p) \in {None, "InvalidSetting", "UnsupportedTier", "MissingCredential"}
<1>1. CASE What(p) = "table"
  BY <1>1 DEF FaultOf
<1>2. CASE What(p) \in Kind
  <2>1. Find(config[p].provider[What(p)], What(p)) # None
    BY <1>2 DEF CallInv, Asking, Row
  <2>. QED
    BY <1>2, <2>1 DEF FaultOf, DownloadFault, SettingsFault, PlanFault, Kind
<1>. QED
  BY <1>1, <1>2, AskingIs DEF Asked

LEMMA LocalFrame ==
  ASSUME TypeInv, NEW p \in Process, Local(p)
  PROVE  /\ UNCHANGED <<config, disk, own, early, mixed, waits, restarts>>
         /\ \/ UNCHANGED fault
            \/ fault' = [fault EXCEPT ![p] = None]
            \/ Miss(p)
BY DEF Local, Begin, Explicit, Unselected, AsItIs, Attempt, FallBack, CheckTable, FallBackTable,
       Read, Miss, Elsewhere

LEMMA StepType ==
  ASSUME TypeInv, \A q \in Process : CallInv(q), [Next]_vars
  PROVE  TypeInv' /\ \A q \in Process : CallInv(q)'
<1>1. ASSUME NEW p \in Process, Local(p) PROVE TypeInv' /\ \A q \in Process : CallInv(q)'
  <2>1. fault' \in [Process -> {None, "InvalidSetting", "UnsupportedTier", "MissingCredential"}]
    BY <1>1, LocalFrame, FaultType DEF TypeInv, Miss
  <2>2. call' \in [Process -> Calls] /\ \A q \in Process : CallInv(q)'
    BY <1>1, LocalStep DEF Knows
  <2>3. answer' \in [Process -> [Asked -> Result]]
    BY <1>1, LocalStep DEF Handed
  <2>4. UNCHANGED <<config, disk, own, early, mixed, waits, restarts>>
    BY <1>1, LocalFrame
  <2>. QED
    BY <2>1, <2>2, <2>3, <2>4 DEF TypeInv, Calls, Known
<1>2. ASSUME NEW p \in Process, Fetch(p) PROVE TypeInv' /\ \A q \in Process : CallInv(q)'
  <2>1. Knows /\ Brought(p)
    BY <1>2, FetchStep
  <2>2. disk' \in [File -> {None} \cup Download]
    BY <2>1 DEF TypeInv, Brought
  <2>3. own' \in [Process -> [File -> 0 .. Old \cup {None}]]
    <3>1. own' = [own EXCEPT ![p] = [own[p] EXCEPT ![FileOf(p)] = 0]]
      BY <1>2 DEF Fetch
    <3>2. 0 \in 0 .. Old
      BY DEF Old, Monthly
    <3>3. own[p] \in [File -> 0 .. Old \cup {None}]
      BY DEF TypeInv
    <3>4. [own[p] EXCEPT ![FileOf(p)] = 0] \in [File -> 0 .. Old \cup {None}]
      BY <3>2, <3>3
    <3>. QED
      BY <3>1, <3>4 DEF TypeInv
  <2>4. early' \in BOOLEAN
    BY <1>2 DEF TypeInv, Fetch
  <2>5. UNCHANGED <<config, fault, mixed, waits, restarts>>
    BY <1>2 DEF Fetch
  <2>. QED
    BY <2>1, <2>2, <2>3, <2>4, <2>5 DEF TypeInv, Brought, Knows, Calls, Known
<1>3. CASE Wait
  <2>1. Knows /\ disk' \in [File -> {None} \cup Download]
        /\ own' \in [Process -> [File -> 0 .. Old \cup {None}]]
    BY <1>3, WaitStep
  <2>2. waits' \in 0 .. MaxWaits
    BY <1>3, AcquireAssumption DEF TypeInv, Wait
  <2>3. UNCHANGED <<config, call, answer, fault, early, mixed, restarts>>
    BY <1>3 DEF Wait
  <2>. QED
    BY <2>1, <2>2, <2>3 DEF TypeInv, Knows, Calls, Known
<1>4. ASSUME NEW p \in Process, Restart(p) PROVE TypeInv' /\ \A q \in Process : CallInv(q)'
  <2>1. Knows /\ answer' \in [Process -> [Asked -> Result]]
        /\ config' \in [Process -> GeoIpConfig] /\ \A q \in Process : Known(config'[q])
    BY <1>4, RestartStep
  <2>2. restarts' \in 0 .. MaxRestarts
    BY <1>4, AcquireAssumption DEF TypeInv, Restart
  <2>3. fault' \in [Process -> {None, "InvalidSetting", "UnsupportedTier", "MissingCredential"}]
    BY <1>4 DEF TypeInv, Restart
  <2>4. mixed' \in BOOLEAN
    BY <1>4 DEF TypeInv, Restart
  <2>5. UNCHANGED <<disk, own, early, waits>>
    BY <1>4 DEF Restart
  <2>. QED
    BY <2>1, <2>2, <2>3, <2>4, <2>5 DEF TypeInv, Knows, Calls, Known
<1>5. CASE UNCHANGED vars
  <2>1. TypeInv'
    BY <1>5 DEF vars, TypeInv, Known
  <2>. QED
    BY <1>5, <2>1, SameCall DEF vars
<1>. QED
  BY <1>1, <1>2, <1>3, <1>4, <1>5 DEF Next, Local


-----------------------------------------------------------------------------
(* What is in the directory, and what is handed out of it.                 *)

LEMMA StepDirectory ==
  ASSUME TypeInv, \A q \in Process : CallInv(q), DirectoryInv, [Next]_vars PROVE DirectoryInv'
<1>1. CASE UNCHANGED disk
  BY <1>1 DEF DirectoryInv
<1>2. ASSUME NEW p \in Process, Fetch(p) PROVE DirectoryInv'
  <2>1. PICK copy \in Download :
          copy.of = Product(p) /\ disk' = [disk EXCEPT ![FileOf(p)] = copy]
    BY <1>2, FetchStep DEF Brought
  <2>2. What(p) \in Asked /\ CallInv(p) /\ (What(p) \in Kind => Row(p) # None)
    BY <1>2, FetchStep DEF Brought
  <2>3. SUFFICES ASSUME NEW row \in Sources, disk'[row.file] # None
                 PROVE  disk'[row.file].of = row.name
    BY DEF DirectoryInv
  <2>4. disk \in [File -> {None} \cup Download] /\ row.file \in File
    BY RowFile DEF TypeInv
  <2>5. CASE row.file # FileOf(p)
    <3>1. disk'[row.file] = disk[row.file]
      BY <2>1, <2>4, <2>5
    <3>. QED
      BY <2>3, <3>1 DEF DirectoryInv
  <2>6. CASE row.file = FileOf(p)
    <3>1. What(p) \in Kind
      BY <2>2, <2>6, FileOfIs DEF Asked
    <3>2. Row(p) \in Sources /\ FileOf(p) = Row(p).file /\ Product(p) = Row(p).name
      BY <2>2, <3>1, FileOfIs, ProductIs
    <3>3. row.name = Row(p).name
      BY <2>6, <3>2, RowFacts
    <3>. QED
      BY <2>1, <2>4, <2>6, <3>2, <3>3
  <2>. QED
    BY <2>5, <2>6
<1>3. CASE Wait
  <2>1. SUFFICES ASSUME NEW row \in Sources, disk'[row.file] # None
                 PROVE  disk'[row.file].of = row.name
    BY DEF DirectoryInv
  <2>2. disk[row.file] # None /\ disk'[row.file].of = disk[row.file].of
    BY <1>3, <2>1, WaitStep, RowFile
  <2>. QED
    BY <2>2 DEF DirectoryInv
<1>4. ASSUME NEW p \in Process, Local(p) PROVE UNCHANGED disk
  BY <1>4, LocalFrame
<1>. QED
  BY <1>1, <1>2, <1>3, <1>4 DEF Next, Local, Restart, vars

LEMMA StepServes ==
  ASSUME TypeInv, \A q \in Process : CallInv(q), DirectoryInv, ServedInv, [Next]_vars
  PROVE  ServedInv'
<1>1. SUFFICES ASSUME NEW q \in Process, NEW kind \in Kind, answer'[q][kind].status = "served"
               PROVE  ServedFrom(q, kind)'
  BY DEF ServedInv
<1>2. kind \in Asked
  BY DEF Asked
<1>3. CASE answer'[q][kind] = answer[q][kind] /\ config'[q] = config[q]
  BY <1>1, <1>3 DEF ServedInv, ServedFrom
<1>4. ASSUME NEW p \in Process, Local(p)
      PROVE  ServedFrom(q, kind)'
  <2>1. UNCHANGED config /\ Handed(p)
    BY <1>4, LocalFrame, LocalStep
  <2>2. CASE answer'[q][kind] # answer[q][kind]
    <3>1. q = p /\ kind = What(p) /\ Row(p) # None
          /\ Copy(p) # None /\ answer'[q][kind].of = Copy(p).of
      BY <1>1, <1>2, <2>1, <2>2 DEF Handed
    <3>2. Row(p) \in Sources /\ Copy(p) = disk[Row(p).file]
      BY <1>2, <3>1, FileOfIs DEF Copy
    <3>3. Copy(p).of = Row(p).name
      BY <3>1, <3>2 DEF DirectoryInv
    <3>. QED
      BY <2>1, <3>1, <3>3 DEF Row, ServedFrom
  <2>. QED
    BY <1>3, <2>1, <2>2
<1>5. ASSUME NEW p \in Process, Fetch(p)
      PROVE  ServedFrom(q, kind)'
  <2>1. UNCHANGED config /\ Brought(p)
    BY <1>5, FetchStep DEF Fetch
  <2>2. CASE answer'[q][kind] # answer[q][kind]
    <3>1. q = p /\ kind = What(p) /\ Row(p) # None /\ answer'[q][kind].of = Product(p)
      BY <1>2, <2>1, <2>2 DEF Brought
    <3>2. Product(p) = Row(p).name
      BY <1>2, <3>1, ProductIs
    <3>. QED
      BY <2>1, <3>1, <3>2 DEF Row, ServedFrom
  <2>. QED
    BY <1>3, <2>1, <2>2
<1>6. ASSUME NEW p \in Process, Restart(p)
      PROVE  ServedFrom(q, kind)'
  BY <1>1, <1>2, <1>3, <1>6, RestartStep
<1>. QED
  BY <1>3, <1>4, <1>5, <1>6 DEF Next, Local, Wait, vars

-----------------------------------------------------------------------------
(* Faults, and the pace of downloads.                                      *)

(* What validate accepts, download finds nothing wrong with.               *)
LEMMA ValidHasNoFault ==
  ASSUME TypeInv, NEW p \in Process, CallInv(p), Asking(p), FaultOf(p) # None
  PROVE  ~Valid(config[p])
<1>1. What(p) \in Kind
  BY AskingIs DEF Asked, FaultOf
<1>2. /\ config[p].enabled /\ config[p].auto.enabled /\ ~config[p].path[What(p)]
      /\ Find(config[p].provider[What(p)], What(p)) # None
  BY <1>1 DEF CallInv, Asking, Row
<1>3. FaultOf(p) = DownloadFault(config[p], What(p))
  BY <1>1 DEF FaultOf, Kind
<1>4. CASE SettingsFault(config[p].auto, config[p].client) # None
  BY <1>2, <1>4 DEF Valid
<1>5. CASE SettingsFault(config[p].auto, config[p].client) = None
  <2>1. PlanFault(config[p], What(p)) # None
    BY <1>3, <1>5 DEF DownloadFault
  <2>2. PlanFault(config[p], What(p)) # "NoDatabases"
    BY <1>2, <2>1 DEF PlanFault
  <2>. QED
    BY <1>1, <1>2, <2>1, <2>2 DEF Valid
<1>. QED
  BY <1>4, <1>5

LEMMA StepFault ==
  ASSUME TypeInv, \A q \in Process : CallInv(q), FaultInv, [Next]_vars PROVE FaultInv'
<1>1. CASE UNCHANGED <<fault, config>>
  BY <1>1 DEF FaultInv
<1>2. ASSUME NEW p \in Process, UNCHANGED config, fault' = [fault EXCEPT ![p] = None] PROVE FaultInv'
  BY <1>2 DEF TypeInv, FaultInv
<1>3. ASSUME NEW p \in Process, Miss(p) PROVE FaultInv'
  <2>1. fault' = [fault EXCEPT ![p] = FaultOf(p)] /\ UNCHANGED config /\ Asking(p)
    BY <1>3 DEF Miss, Elsewhere
  <2>2. FaultOf(p) # None => ~Valid(config[p])
    BY <2>1, ValidHasNoFault
  <2>. QED
    BY <2>1, <2>2 DEF TypeInv, FaultInv
<1>4. ASSUME NEW p \in Process, Restart(p) PROVE FaultInv'
  <2>1. fault' = [fault EXCEPT ![p] = None] /\ \A q \in Process \ {p} : config'[q] = config[q]
    BY <1>4, RestartStep DEF Restart
  <2>. QED
    BY <2>1 DEF TypeInv, FaultInv
<1>5. ASSUME NEW p \in Process, Local(p) PROVE FaultInv'
  BY <1>1, <1>2, <1>3, <1>5, LocalFrame
<1>. QED
  BY <1>1, <1>4, <1>5 DEF Next, Local, Fetch, Wait, vars


(* A process that asks for a database has been through the freshness check. *)
LEMMA AsksByAttempt ==
  ASSUME TypeInv, NEW p \in Process, Local(p), What(p)' \in Kind, Asking(p)' PROVE Attempt(p)
<1>1. call'[p] # Idle /\ call'[p].step = "ask" /\ call'[p].what \in Kind
  BY DEF Asking, What, Idle
<1>2. ~Begin(p)
  <2>1. SUFFICES ASSUME Begin(p) PROVE FALSE
    OBVIOUS
  <2>2. PICK what \in {"city", "table"} : call' = [call EXCEPT ![p] = [what |-> what, step |-> "check"]]
    BY <2>1 DEF Begin
  <2>3. call'[p].step = "check"
    BY <2>2 DEF TypeInv
  <2>. QED
    BY <1>1, <2>3
<1>3. ~Return(p)
  BY <1>1, ReturnType
<1>4. ~Miss(p)
  <2>1. SUFFICES ASSUME Miss(p) PROVE FALSE
    OBVIOUS
  <2>2. What(p) \in Asked /\ Go(p, "missed")
    BY <2>1, AskingIs DEF Miss
  <2>. QED
    BY <1>1, <2>2, GoType
<1>5. ~(CheckTable(p) \/ FallBackTable(p) \/ Read(p))
  <2>1. SUFFICES ASSUME CheckTable(p) \/ FallBackTable(p) \/ Read(p) PROVE FALSE
    OBVIOUS
  <2>2. What(p) = "table" /\ (Go(p, "read") \/ Go(p, "ask"))
    BY <1>3, <2>1 DEF CheckTable, FallBackTable, Read
  <2>3. call'[p].what = "table"
    BY <2>2, GoType DEF Asked
  <2>. QED
    BY <1>1, <2>3 DEF Kind
<1>. QED
  BY <1>2, <1>3, <1>4, <1>5 DEF Local, Explicit, Unselected, AsItIs, FallBack

LEMMA SamePace ==
  ASSUME PaceInv, NEW q \in Process, call'[q] = call[q], config'[q] = config[q], own'[q] = own[q]
  PROVE  What(q)' \in Kind /\ Asking(q)' /\ own'[q][FileOf(q)'] # None =>
           own'[q][FileOf(q)'] >= Row(q)'.interval
BY DEF PaceInv, What, Asking, FileOf, Row

(* A copy past its window was downloaded no later than a source allows.    *)
LEMMA AttemptPaced ==
  ASSUME TypeInv, \A q \in Process : CallInv(q), PaceInv, NEW p \in Process, Attempt(p),
         own[p][FileOf(p)] # None
  PROVE  own[p][FileOf(p)] >= Row(p).interval
<1>1. What(p) \in Kind /\ What(p) \in Asked /\ What(p) # "table" /\ Row(p) # None
  BY DEF Attempt, Selected, Checking, Asked, Kind
<1>2. Row(p) \in Sources /\ FileOf(p) \in File
  BY <1>1, FileOfIs
<1>3. Copy(p) # None /\ Copy(p).age <= own[p][FileOf(p)]
  BY <1>2 DEF PaceInv, Copy
<1>4. Copy(p).age \in Nat /\ own[p][FileOf(p)] \in Nat
  BY <1>2, <1>3, DiskIs DEF Copy, TypeInv
<1>5. config[p].auto \in AutoDownloadConfig
  BY DEF TypeInv, GeoIpConfig
<1>6. Window(Row(p), config[p].auto) \in Nat /\ Window(Row(p), config[p].auto) >= Row(p).interval
  BY <1>2, <1>5, WindowIs
<1>7. ~(Copy(p).age < Window(Row(p), config[p].auto))
  BY <1>1, <1>3 DEF Attempt, Fresh
<1>8. Row(p).interval \in Nat
  BY <1>2, RowFacts
<1>. QED
  BY <1>3, <1>4, <1>6, <1>7, <1>8

LEMMA LocalPace ==
  ASSUME TypeInv, \A q \in Process : CallInv(q), PaceInv, NEW p \in Process, Local(p) PROVE PaceInv'
<1>1. UNCHANGED <<config, disk, own, early>>
  BY LocalFrame
<1>2. ASSUME NEW q \in Process, What(q)' \in Kind, Asking(q)', own'[q][FileOf(q)'] # None
      PROVE  own'[q][FileOf(q)'] >= Row(q)'.interval
  <2>1. CASE call'[q] = call[q]
    BY <1>1, <1>2, <2>1, SamePace
  <2>2. CASE q = p
    <3>1. Attempt(p) /\ What(p) \in Asked
      BY <1>2, <2>2, AsksByAttempt DEF Attempt, Selected, Checking, Asked
    <3>2. What(p)' = What(p)
      BY <3>1, GoType DEF Attempt, What
    <3>3. Row(p)' = Row(p) /\ FileOf(p)' = FileOf(p)
      BY <1>1, <3>2 DEF Row, FileOf
    <3>. QED
      BY <1>1, <1>2, <2>2, <3>1, <3>3, AttemptPaced
  <2>3. CASE q # p
    <3>1. call'[q] = call[q]
      BY <2>3 DEF TypeInv, Local, Begin, Explicit, Unselected, AsItIs, Attempt, FallBack,
                  CheckTable, FallBackTable, Read, Miss, Return, Go
    <3>. QED
      BY <2>1, <3>1
  <2>. QED
    BY <2>2, <2>3
<1>. QED
  BY <1>1, <1>2 DEF PaceInv

LEMMA FetchPace ==
  ASSUME TypeInv, \A q \in Process : CallInv(q), PaceInv, NEW p \in Process, Fetch(p) PROVE PaceInv'
<1>. DEFINE f == FileOf(p)
<1>1. /\ What(p) \in Asked /\ (What(p) \in Kind => Row(p) # None) /\ f \in File /\ CallInv(p)
      /\ \E copy \in Download : copy.age = 0 /\ disk' = [disk EXCEPT ![f] = copy]
  BY FetchStep DEF Brought
<1>2. UNCHANGED config /\ own' = [own EXCEPT ![p][f] = 0] /\ Asking(p)
  BY DEF Fetch
<1>. HIDE DEF f
<1>3. ~early'
  <2>1. SUFFICES ASSUME own[p][f] # None PROVE ~(own[p][f] < Interval(p))
    BY DEF Fetch, PaceInv, f
  <2>2. own[p][f] \in 0 .. Old
    BY <1>1, <2>1 DEF TypeInv
  <2>3. CASE What(p) = "table"
    BY <2>2, <2>3 DEF Interval
  <2>4. CASE What(p) \in Kind
    <3>1. own[p][f] >= Row(p).interval /\ Interval(p) = Row(p).interval
      BY <1>2, <2>1, <2>4 DEF PaceInv, Interval, Kind, f
    <3>2. Row(p).interval \in Nat
      BY <1>1, <2>4, FileOfIs, RowFacts
    <3>. QED
      BY <2>2, <3>1, <3>2
  <2>. QED
    BY <1>1, <2>3, <2>4 DEF Asked
<1>4. /\ own'[p][f] = 0 /\ disk'[f] # None /\ disk'[f].age = 0
      /\ \A g \in File : g # f => disk'[g] = disk[g]
      /\ \A q \in Process, g \in File : q # p \/ g # f => own'[q][g] = own[q][g]
  BY <1>1, <1>2, AcquireAssumption DEF TypeInv
<1>5. ASSUME NEW q \in Process, NEW g \in File, own'[q][g] # None
      PROVE  disk'[g] # None /\ disk'[g].age <= own'[q][g]
  <2>1. CASE g # f
    BY <1>4, <1>5, <2>1 DEF PaceInv
  <2>2. CASE g = f /\ q = p
    BY <1>4, <2>2
  <2>3. CASE g = f /\ q # p
    <3>1. own'[q][g] = own[q][g] /\ own[q][g] \in 0 .. Old
      BY <1>4, <1>5, <2>3 DEF TypeInv
    <3>. QED
      BY <1>4, <2>3, <3>1
  <2>. QED
    BY <2>1, <2>2, <2>3
<1>6. ASSUME NEW q \in Process, What(q)' \in Kind, Asking(q)', own'[q][FileOf(q)'] # None
      PROVE  own'[q][FileOf(q)'] >= Row(q)'.interval
  <2>1. q # p
    <3>1. SUFFICES ASSUME q = p PROVE FALSE
      OBVIOUS
    <3>2. call'[p].step = "ask"
      BY <1>6, <3>1 DEF Asking
    <3>3. Return(p) \/ Go(p, "read")
      BY DEF Fetch
    <3>4. CASE Return(p)
      BY <3>2, <3>4, ReturnType DEF Idle
    <3>5. CASE Go(p, "read")
      BY <1>1, <3>2, <3>5, GoType
    <3>. QED
      BY <3>3, <3>4, <3>5
  <2>2. call'[q] = call[q] /\ own'[q] = own[q]
    BY <1>2, <2>1 DEF TypeInv, Fetch, Return, Go
  <2>. QED
    BY <1>2, <1>6, <2>2, SamePace
<1>. QED
  BY <1>3, <1>5, <1>6 DEF PaceInv

LEMMA WaitPace ==
  ASSUME TypeInv, \A q \in Process : CallInv(q), PaceInv, Wait PROVE PaceInv'
<1>1. PICK d \in Jumps : \A f \in File :
        /\ disk[f] = None <=> disk'[f] = None
        /\ disk[f] # None =>
             /\ disk'[f].of = disk[f].of
             /\ disk'[f].age = Older(disk[f].age, d)
        /\ \A p \in Process : own'[p][f] = Older(own[p][f], d)
  BY WaitStep
<1>2. d \in Nat /\ UNCHANGED <<config, call, early>>
  BY AcquireAssumption DEF Wait
<1>3. ASSUME NEW p \in Process, NEW f \in File, own'[p][f] # None
      PROVE  /\ own[p][f] # None /\ own[p][f] \in 0 .. Old /\ own'[p][f] \in 0 .. Old
             /\ own'[p][f] >= own[p][f]
             /\ \A m \in 0 .. Old : m <= own[p][f] => Older(m, d) <= own'[p][f]
  <2>1. own[p][f] \in 0 .. Old \cup {None} /\ own'[p][f] = Older(own[p][f], d)
    BY <1>1 DEF TypeInv
  <2>2. PICK n \in 0 .. Old \cup {None} : n = own[p][f]
    BY <2>1
  <2>3. own'[p][f] = Older(n, d)
    BY <2>1, <2>2
  <2>4. n # None
    BY <1>2, <1>3, <2>3, OlderIs
  <2>5. /\ n \in 0 .. Old /\ Older(n, d) \in 0 .. Old /\ Older(n, d) >= n
        /\ \A m \in 0 .. Old : m <= n => Older(m, d) <= Older(n, d)
    BY <1>2, <2>4, OlderIs
  <2>. QED
    BY <2>2, <2>3, <2>4, <2>5
<1>4. ASSUME NEW p \in Process, NEW f \in File, own'[p][f] # None
      PROVE  disk'[f] # None /\ disk'[f].age <= own'[p][f]
  <2>1. own[p][f] # None /\ disk[f] # None /\ disk[f].age <= own[p][f]
    BY <1>3, <1>4 DEF PaceInv
  <2>2. disk[f].age \in 0 .. Old
    BY <2>1, DiskIs
  <2>. QED
    BY <1>1, <1>3, <1>4, <2>1, <2>2
<1>5. ASSUME NEW q \in Process, What(q)' \in Kind, Asking(q)', own'[q][FileOf(q)'] # None
      PROVE  own'[q][FileOf(q)'] >= Row(q)'.interval
  <2>1. What(q)' = What(q) /\ Row(q)' = Row(q) /\ FileOf(q)' = FileOf(q) /\ Asking(q)
    BY <1>2, <1>5 DEF What, Row, FileOf, Asking
  <2>2. What(q) \in Asked /\ Row(q) # None /\ CallInv(q)
    BY <1>5, <2>1 DEF Asked, CallInv, Asking
  <2>3. FileOf(q) \in File /\ Row(q) \in Sources
    BY <1>5, <2>1, <2>2, FileOfIs
  <2>4. own[q][FileOf(q)] # None /\ own'[q][FileOf(q)] >= own[q][FileOf(q)]
        /\ own[q][FileOf(q)] \in 0 .. Old /\ own'[q][FileOf(q)] \in 0 .. Old
    BY <1>3, <1>5, <2>1, <2>3
  <2>5. own[q][FileOf(q)] >= Row(q).interval
    BY <1>5, <2>1, <2>4 DEF PaceInv
  <2>6. Row(q).interval \in Nat
    BY <2>3, RowFacts
  <2>. QED
    BY <2>1, <2>4, <2>5, <2>6
<1>. QED
  BY <1>2, <1>4, <1>5 DEF PaceInv

LEMMA StepPace ==
  ASSUME TypeInv, \A q \in Process : CallInv(q), PaceInv, [Next]_vars PROVE PaceInv'
<1>1. ASSUME NEW p \in Process, Restart(p) PROVE PaceInv'
  <2>1. UNCHANGED <<disk, own, early>> /\ call'[p] = Idle
    BY <1>1 DEF TypeInv, Restart
  <2>2. ~Asking(p)'
    BY <2>1 DEF Asking, Idle
  <2>3. \A q \in Process \ {p} : call'[q] = call[q] /\ config'[q] = config[q]
    BY <1>1, RestartStep DEF TypeInv, Restart
  <2>. QED
    BY <2>1, <2>2, <2>3, SamePace DEF PaceInv
<1>2. CASE UNCHANGED vars
  BY <1>2, SamePace DEF vars, PaceInv
<1>. QED
  BY <1>1, <1>2, LocalPace, FetchPace, WaitPace DEF Next, Local

-----------------------------------------------------------------------------
(* The theorems.                                                           *)

LEMMA InitInv == Init => Inv
<1>. SUFFICES ASSUME Init PROVE Inv
  OBVIOUS
<1>1. TypeInv /\ \A p \in Process : CallInv(p)
  BY InitType
<1>2. DirectoryInv
  BY RowFile DEF Init, DirectoryInv
<1>3. ServedInv
  <2>1. \A p \in Process, kind \in Kind : answer[p][kind] = [status |-> "unasked"]
    BY DEF Init, Asked
  <2>. QED
    BY <2>1 DEF ServedInv
<1>4. FaultInv
  BY DEF Init, FaultInv
<1>5. PaceInv
  <2>1. \A p \in Process, f \in File : own[p][f] = None
    BY DEF Init
  <2>2. \A p \in Process : ~Asking(p)
    BY DEF Init, Asking, Idle
  <2>. QED
    BY <2>1, <2>2 DEF Init, PaceInv
<1>. QED
  BY <1>1, <1>2, <1>3, <1>4, <1>5 DEF Inv

LEMMA StepInv == Inv /\ [Next]_vars => Inv'
<1>. SUFFICES ASSUME Inv, [Next]_vars PROVE Inv'
  OBVIOUS
<1>1. TypeInv' /\ \A p \in Process : CallInv(p)'
  BY StepType DEF Inv
<1>2. DirectoryInv' /\ ServedInv' /\ FaultInv' /\ PaceInv'
  BY StepDirectory, StepServes, StepFault, StepPace DEF Inv
<1>. QED
  BY <1>1, <1>2 DEF Inv

LEMMA InvariantHolds == Spec => []Inv
BY InitInv, StepInv, PTL DEF Spec

-----------------------------------------------------------------------------
(* Service.  What a call asks of the file it is about, and what there is.  *)

FileFor(c, w) == IF w = "table" THEN c.source.file ELSE Find(c.provider[w], w).file

Selects(c, w) == IF w = "table" THEN c.source # None ELSE Find(c.provider[w], w) # None

Suits(c, w, body) ==
  IF w = "table" THEN Loads(body, c.source, c.auto) ELSE c.auto.verify => Populated(body, w)

(* Where every process has one configuration, every file it asks for holds *)
(* what it accepts.                                                        *)
Alike == \A p, q \in Process : config[p] = config[q]

StoredInv ==
  \A p \in Process, w \in Asked :
    Selects(config[p], w) /\ disk[FileFor(config[p], w)] # None =>
      Suits(config[p], w, disk[FileFor(config[p], w)].body)

(* What an answer says of the configuration it was given under: what was   *)
(* served once is there still.                                             *)
HandedInv ==
  \A p \in Process, w \in Asked :
    /\ answer[p][w].status = "theirs" => w \in Kind /\ config[p].path[w]
    /\ answer[p][w].status = "served" =>
         /\ Selects(config[p], w) /\ disk[FileFor(config[p], w)] # None
         /\ w \in Kind => ~config[p].path[w]
         /\ w = "table" => SourceValid(config[p].source)

TableInv ==
  \A p \in Process :
    What(p) = "table" /\ call[p].step # "check" => SourceValid(config[p].source)

KeptInv == HandedInv /\ TableInv /\ (~mixed => Alike /\ StoredInv)

(* The rows of one name are of one kind.                                   *)
LEMMA RowKinds ==
  ASSUME NEW a \in Sources, NEW b \in Sources, a.file = b.file PROVE a.kind = b.kind
BY DEF Sources, MaxMindRows, MaxMindRow, DbIpRows, DbIpRow, IpInfoRows, SapicsRows, SapicsRow

(* A configuration asks for each thing in a file of its own.               *)
LEMMA FilesDiffer ==
  ASSUME NEW c, Known(c), NEW v \in Asked, NEW w \in Asked, Selects(c, v), Selects(c, w)
  PROVE  /\ FileFor(c, v) \in File
         /\ FileFor(c, v) = FileFor(c, w) => v = w
<1>1. ASSUME NEW kind \in Kind, Selects(c, kind)
      PROVE  FileFor(c, kind) \in File /\
             \E row \in Sources : FileFor(c, kind) = row.file /\ row.kind = kind
  <2>1. Find(c.provider[kind], kind) # None /\ FileFor(c, kind) = Find(c.provider[kind], kind).file
    BY <1>1 DEF Selects, FileFor, Kind
  <2>. QED
    BY <2>1, FindIs, RowFile
<1>2. ASSUME Selects(c, "table")
      PROVE  FileFor(c, "table") \in File /\ \A row \in Sources : FileFor(c, "table") # row.file
  BY <1>2 DEF Selects, FileFor, Known
<1>3. FileFor(c, v) \in File
  BY <1>1, <1>2 DEF Asked
<1>4. ASSUME FileFor(c, v) = FileFor(c, w) PROVE v = w
  <2>1. CASE v = "table" \/ w = "table"
    BY <1>1, <1>2, <1>4, <2>1 DEF Asked
  <2>2. CASE v \in Kind /\ w \in Kind
    BY <1>1, <1>4, <2>2, RowKinds
  <2>. QED
    BY <2>1, <2>2 DEF Asked
<1>. QED
  BY <1>3, <1>4

(* The file a call is about is the one its configuration has for it.       *)
LEMMA FileOfCall ==
  ASSUME TypeInv, NEW p \in Process, CallInv(p), What(p) \in Asked,
         What(p) \in Kind => Row(p) # None
  PROVE  Selects(config[p], What(p)) /\ FileOf(p) = FileFor(config[p], What(p))
<1>1. CASE What(p) = "table"
  BY <1>1 DEF CallInv, Selects, FileOf, FileFor
<1>2. CASE What(p) \in Kind
  BY <1>2 DEF Row, Selects, FileOf, FileFor, Kind
<1>. QED
  BY <1>1, <1>2 DEF Asked

LEMMA InitKept == Init => KeptInv
<1>. SUFFICES ASSUME Init PROVE KeptInv
  OBVIOUS
<1>1. TypeInv
  BY InitType
<1>2. HandedInv
  <2>1. \A p \in Process, w \in Asked : answer[p][w].status = "unasked"
    BY DEF Init
  <2>. QED
    BY <2>1 DEF HandedInv
<1>3. TableInv
  BY DEF Init, TableInv, What, Idle
<1>4. ~mixed => Alike
  BY DEF Init, Alike
<1>5. StoredInv
  <2>1. ASSUME NEW p \in Process, NEW w \in Asked, Selects(config[p], w)
        PROVE  disk[FileFor(config[p], w)] = None
    BY <1>1, <2>1, FilesDiffer DEF Init, TypeInv
  <2>. QED
    BY <2>1 DEF StoredInv
<1>. QED
  BY <1>2, <1>3, <1>4, <1>5 DEF KeptInv

(* No file is ever taken away, and only a download changes what is in one. *)
LEMMA FilesStay ==
  ASSUME TypeInv, \A q \in Process : CallInv(q), [Next]_vars
  PROVE  \A f \in File : disk[f] # None => disk'[f] # None
<1>1. CASE UNCHANGED disk
  BY <1>1
<1>2. ASSUME NEW p \in Process, Fetch(p) PROVE \A f \in File : disk[f] # None => disk'[f] # None
  <2>1. PICK copy \in Download : disk' = [disk EXCEPT ![FileOf(p)] = copy]
    BY <1>2, FetchStep DEF Brought
  <2>2. copy # None
    BY AcquireAssumption
  <2>. QED
    BY <2>1, <2>2 DEF TypeInv
<1>3. CASE Wait
  BY <1>3, WaitStep
<1>4. ASSUME NEW p \in Process, Local(p) PROVE UNCHANGED disk
  BY <1>4, LocalFrame
<1>. QED
  BY <1>1, <1>2, <1>3, <1>4 DEF Next, Local, Restart, vars

LEMMA WaitKeepsBodies ==
  ASSUME TypeInv, \A q \in Process : CallInv(q), Wait
  PROVE  \A f \in File : disk'[f] # None => disk[f] # None /\ disk'[f].body = disk[f].body
<1>1. \A f \in File : disk[f] = None <=> disk'[f] = None
  BY WaitStep
<1>2. PICK d \in Jumps :
        disk' = [f \in File |-> IF disk[f] = None THEN None
                                ELSE [disk[f] EXCEPT !.age = Older(@, d)]]
  BY DEF Wait
<1>3. ASSUME NEW f \in File, disk[f] # None PROVE disk'[f].body = disk[f].body
  <2>1. disk[f] \in Download
    BY <1>3 DEF TypeInv
  <2>2. [disk[f] EXCEPT !.age = Older(@, d)].body = disk[f].body
    BY <2>1 DEF Download
  <2>. QED
    BY <1>2, <1>3, <2>2
<1>. QED
  BY <1>1, <1>3

(* A call reads, or asks for, a table once the table's settings are valid. *)
LEMMA StepTable ==
  ASSUME TypeInv, \A q \in Process : CallInv(q), TableInv, [Next]_vars PROVE TableInv'
<1>1. SUFFICES ASSUME NEW q \in Process, What(q)' = "table", (call[q].step # "check")'
               PROVE  SourceValid(config[q].source)'
  BY DEF TableInv
<1>2. CASE call'[q] = call[q] /\ config'[q] = config[q]
  BY <1>1, <1>2 DEF TableInv, What
<1>3. ASSUME NEW p \in Process, Local(p) PROVE SourceValid(config[q].source)'
  <2>1. UNCHANGED config
    BY <1>3, LocalFrame
  <2>2. CASE q # p
    <3>1. call' = [call EXCEPT ![p] = call'[p]] \/ UNCHANGED call
      BY <1>3 DEF Local, Begin, Explicit, Unselected, AsItIs, Attempt, FallBack, CheckTable,
                  FallBackTable, Read, Miss, Return, Go, TypeInv
    <3>. QED
      BY <1>2, <2>1, <2>2, <3>1 DEF TypeInv
  <2>3. CASE q = p /\ Return(p)
    BY <1>1, <2>3, ReturnType DEF What, Idle
  <2>4. CASE q = p /\ Begin(p)
    <3>1. PICK what \in {"city", "table"} :
            call' = [call EXCEPT ![p] = [what |-> what, step |-> "check"]]
      BY <2>4 DEF Begin
    <3>2. call'[p].step = "check"
      BY <3>1 DEF TypeInv
    <3>. QED
      BY <1>1, <2>4, <3>2
  <2>5. CASE q = p /\ Attempt(p)
    <3>1. What(p) \in Asked /\ What(p) # "table" /\ Go(p, "ask")
      BY <2>5 DEF Attempt, Selected, Checking, Asked, Kind
    <3>. QED
      BY <1>1, <2>5, <3>1, GoType DEF What
  <2>6. CASE q = p /\ CheckTable(p) /\ ~Return(p)
    BY <2>1, <2>6 DEF CheckTable
  <2>7. CASE q = p /\ (FallBackTable(p) \/ Miss(p)) /\ ~Return(p)
    <3>1. What(p) \in Asked /\ call[p].step # "check"
          /\ (Go(p, "read") \/ Go(p, "missed"))
      BY <2>7, AskingIs DEF FallBackTable, Miss, Asking, Asked
    <3>2. What(p) = "table"
      BY <1>1, <2>7, <3>1, GoType DEF What
    <3>. QED
      BY <2>1, <2>7, <3>1, <3>2 DEF TableInv
  <2>. QED
    BY <1>3, <2>2, <2>3, <2>4, <2>5, <2>6, <2>7
       DEF Local, Explicit, Unselected, AsItIs, FallBack, Read
<1>4. ASSUME NEW p \in Process, Fetch(p) PROVE SourceValid(config[q].source)'
  <2>1. UNCHANGED config /\ What(p) \in Asked /\ call[p].step # "check"
        /\ (Go(p, "read") \/ Return(p))
    BY <1>4, AskingIs DEF Fetch, Asking
  <2>2. CASE q # p
    BY <1>2, <2>1, <2>2, GoType, ReturnType
  <2>3. CASE q = p /\ Return(p)
    BY <1>1, <2>3, ReturnType DEF What, Idle
  <2>4. CASE q = p /\ Go(p, "read")
    <3>1. What(p) = "table"
      BY <1>1, <2>1, <2>4, GoType DEF What
    <3>. QED
      BY <2>1, <2>4, <3>1 DEF TableInv
  <2>. QED
    BY <2>1, <2>2, <2>3, <2>4
<1>5. ASSUME NEW p \in Process, Restart(p) PROVE SourceValid(config[q].source)'
  <2>1. CASE q # p
    <3>1. call'[q] = call[q] /\ config'[q] = config[q]
      BY <1>5, <2>1, RestartStep DEF Restart, TypeInv
    <3>. QED
      BY <1>2, <3>1
  <2>2. CASE q = p
    BY <1>1, <1>5, <2>2 DEF Restart, TypeInv, What, Idle
  <2>. QED
    BY <2>1, <2>2
<1>. QED
  BY <1>2, <1>3, <1>4, <1>5 DEF Next, Local, Wait, vars

(* What an answer's status says of how it was given.                       *)
GivenBy(p, status) ==
  /\ status = "theirs" => What(p) \in Kind /\ config[p].path[What(p)]
  /\ status = "served" =>
       /\ Selects(config[p], What(p)) /\ disk'[FileFor(config[p], What(p))] # None
       /\ What(p) \in Kind => ~config[p].path[What(p)]
       /\ What(p) = "table" => SourceValid(config[p].source)

(* An answer is handed to the call under way only.                         *)
LEMMA OwnAnswer ==
  ASSUME TypeInv, \A q \in Process : CallInv(q), NEW p \in Process, Local(p) \/ Fetch(p),
         NEW q \in Process, NEW w \in Asked, answer'[q][w] # answer[q][w]
  PROVE  q = p /\ w = What(p)
BY LocalStep, FetchStep DEF Handed, Brought

(* What a call that downloads nothing answers, given what Serve hands out. *)
LEMMA HandsOne ==
  ASSUME TypeInv, NEW p \in Process, What(p) \in Asked, NEW result, Hand(p, result)
  PROVE  answer'[p][What(p)] = result
BY DEF TypeInv, Hand

LEMMA ServeIs ==
  ASSUME TypeInv, NEW p \in Process, What(p) \in Asked, Serve(p)
  PROVE  /\ Copy(p) = None => answer'[p][What(p)].status = "none"
         /\ Copy(p) # None => /\ answer'[p][What(p)].status = "served"
                              /\ answer'[p][What(p)].body = Copy(p).body
<1>. DEFINE result == IF Copy(p) = None THEN [status |-> "none"]
                      ELSE [status |-> "served", of |-> Copy(p).of, body |-> Copy(p).body]
<1>1. /\ Copy(p) = None => result.status = "none"
      /\ Copy(p) # None => result.status = "served" /\ result.body = Copy(p).body
  OBVIOUS
<1>2. Hand(p, result)
  BY DEF Serve
<1>. HIDE DEF result
<1>. QED
  BY <1>1, <1>2, HandsOne

LEMMA LocalGives ==
  ASSUME TypeInv, \A q \in Process : CallInv(q), TableInv, NEW p \in Process, Local(p),
         What(p) \in Asked, answer'[p][What(p)] # answer[p][What(p)]
  PROVE  GivenBy(p, answer'[p][What(p)].status)
<1>. DEFINE status == answer'[p][What(p)].status
<1>1. ~UNCHANGED answer
  OBVIOUS
<1>2. CASE status \notin {"theirs", "served"}
  BY <1>2 DEF GivenBy
<1>3. CASE Explicit(p)
  <2>1. status = "theirs"
    BY <1>3, HandsOne DEF Explicit
  <2>2. What(p) \in Kind /\ config[p].path[What(p)]
    BY <1>3 DEF Explicit, Checking
  <2>. HIDE DEF status
  <2>. QED
    BY <2>1, <2>2 DEF GivenBy, status
<1>4. CASE Unselected(p)
  <2>1. status = "none"
    BY <1>4, HandsOne DEF Unselected
  <2>. QED
    BY <1>2, <2>1
<1>5. CASE Serve(p) /\ (AsItIs(p) \/ FallBack(p) \/ Read(p))
  <2>1. What(p) \in Kind => Row(p) # None /\ ~config[p].path[What(p)]
    BY <1>5 DEF AsItIs, Selected, FallBack, Read, CallInv, Kind
  <2>2. What(p) = "table" => SourceValid(config[p].source)
    BY <1>5 DEF AsItIs, Selected, Checking, FallBack, Read, TableInv, Kind
  <2>3. CASE Copy(p) = None
    BY <1>2, <1>5, <2>3, ServeIs
  <2>4. CASE Copy(p) # None
    <3>1. status = "served"
      BY <1>5, <2>4, ServeIs
    <3>2. Selects(config[p], What(p)) /\ FileOf(p) = FileFor(config[p], What(p))
      BY <2>1, FileOfCall
    <3>3. disk'[FileFor(config[p], What(p))] # None
      BY <2>4, <3>2, LocalFrame DEF Copy
    <3>. HIDE DEF status
    <3>. QED
      BY <2>1, <2>2, <3>1, <3>2, <3>3 DEF GivenBy, status
  <2>. QED
    BY <2>3, <2>4
<1>6. CASE Hand(p, [status |-> "refused"])
  <2>1. status = "refused"
    BY <1>6, HandsOne
  <2>. QED
    BY <1>2, <2>1
<1>. QED
  BY <1>1, <1>3, <1>4, <1>5, <1>6
     DEF Local, Begin, AsItIs, Attempt, FallBack, CheckTable, FallBackTable, Read, Miss

LEMMA FetchGives ==
  ASSUME TypeInv, \A q \in Process : CallInv(q), NEW p \in Process, Fetch(p),
         What(p) \in Asked, answer'[p][What(p)] # answer[p][What(p)]
  PROVE  /\ GivenBy(p, answer'[p][What(p)].status)
         /\ Answers(p, What(p), answer'[p][What(p)])
<1>1. PICK body \in Body :
        /\ Admits(body, Copy(p), What(p), config[p])
        /\ disk' = [disk EXCEPT ![FileOf(p)] = [of |-> Product(p), age |-> 0, body |-> body]]
        /\ IF What(p) = "table"
             THEN Go(p, "read") /\ UNCHANGED answer
             ELSE /\ Hand(p, [status |-> "served", of |-> Product(p), body |-> body])
                  /\ Return(p)
  BY DEF Fetch
<1>2. What(p) \in Kind /\ What(p) # "table"
  BY <1>1 DEF Asked, Kind
<1>3. ~config[p].path[What(p)] /\ Row(p) # None
  BY <1>2 DEF CallInv, Fetch, Asking
<1>4. answer'[p][What(p)] = [status |-> "served", of |-> Product(p), body |-> body]
  BY <1>1, <1>2, HandsOne
<1>5. Selects(config[p], What(p)) /\ FileOf(p) = FileFor(config[p], What(p))
  BY <1>3, FileOfCall
<1>6. disk'[FileOf(p)] # None
  <2>1. PICK copy \in Download : disk' = [disk EXCEPT ![FileOf(p)] = copy]
    BY FetchStep DEF Brought
  <2>2. copy # None /\ FileOf(p) \in File
    BY FetchStep, AcquireAssumption DEF Brought
  <2>. QED
    BY <2>1, <2>2 DEF TypeInv
<1>7. config[p].auto.verify => Populated(body, What(p))
  BY <1>1, <1>2 DEF Admits
<1>8. answer'[p][What(p)].status = "served" /\ answer'[p][What(p)].body = body
  BY <1>4
<1>9. Answers(p, What(p), answer'[p][What(p)])
  BY <1>7, <1>8 DEF Answers
<1>10. GivenBy(p, answer'[p][What(p)].status)
  BY <1>2, <1>3, <1>5, <1>6, <1>8 DEF GivenBy
<1>. QED
  BY <1>9, <1>10

LEMMA StepHanded ==
  ASSUME TypeInv, \A q \in Process : CallInv(q), HandedInv, TableInv, [Next]_vars
  PROVE  HandedInv'
<1>1. ASSUME NEW q \in Process, NEW w \in Asked, answer'[q][w] = answer[q][w],
             config'[q] = config[q]
      PROVE  /\ answer'[q][w].status = "theirs" => w \in Kind /\ config'[q].path[w]
             /\ answer'[q][w].status = "served" =>
                  /\ Selects(config'[q], w) /\ disk'[FileFor(config'[q], w)] # None
                  /\ w \in Kind => ~config'[q].path[w]
                  /\ w = "table" => SourceValid(config'[q].source)
  <2>1. Known(config[q])
    BY DEF TypeInv
  <2>2. Selects(config[q], w) => FileFor(config[q], w) \in File
    BY <2>1, FilesDiffer
  <2>. QED
    BY <1>1, <2>2, FilesStay DEF HandedInv
<1>2. ASSUME NEW q \in Process, NEW w \in Asked, answer'[q][w] # answer[q][w],
             NEW p \in Process, Local(p) \/ Fetch(p)
      PROVE  /\ answer'[q][w].status = "theirs" => w \in Kind /\ config'[q].path[w]
             /\ answer'[q][w].status = "served" =>
                  /\ Selects(config'[q], w) /\ disk'[FileFor(config'[q], w)] # None
                  /\ w \in Kind => ~config'[q].path[w]
                  /\ w = "table" => SourceValid(config'[q].source)
  <2>1. q = p /\ w = What(p)
    BY <1>2, OwnAnswer
  <2>2. GivenBy(p, answer'[p][What(p)].status)
    BY <1>2, <2>1, LocalGives, FetchGives
  <2>3. UNCHANGED config
    BY <1>2, LocalFrame DEF Fetch
  <2>. QED
    BY <2>1, <2>2, <2>3 DEF GivenBy
<1>3. ASSUME NEW p \in Process, Local(p) \/ Fetch(p) PROVE HandedInv'
  <2>1. UNCHANGED config
    BY <1>3, LocalFrame DEF Fetch
  <2>. QED
    BY <1>1, <1>2, <1>3, <2>1 DEF HandedInv
<1>4. ASSUME NEW p \in Process, Restart(p) PROVE HandedInv'
  <2>1. /\ \A w \in Asked : answer'[p][w].status = "unasked"
        /\ \A q \in Process \ {p} : answer'[q] = answer[q] /\ config'[q] = config[q]
    BY <1>4, RestartStep
  <2>. QED
    BY <1>1, <2>1 DEF HandedInv
<1>5. CASE Wait \/ UNCHANGED vars
  <2>1. UNCHANGED <<answer, config>>
    BY <1>5 DEF Wait, vars
  <2>. QED
    BY <1>1, <2>1 DEF HandedInv
<1>. QED
  BY <1>3, <1>4, <1>5 DEF Next, Local

(* A download is accepted by the configuration that asked for it, and where *)
(* all are alike, by all.                                                  *)
LEMMA FetchStores ==
  ASSUME TypeInv, \A q \in Process : CallInv(q), Alike, StoredInv, NEW p \in Process, Fetch(p)
  PROVE  StoredInv'
<1>1. PICK body \in Body :
        /\ Admits(body, Copy(p), What(p), config[p])
        /\ disk' = [disk EXCEPT ![FileOf(p)] = [of |-> Product(p), age |-> 0, body |-> body]]
  BY DEF Fetch
<1>2. What(p) \in Asked /\ (What(p) \in Kind => Row(p) # None) /\ UNCHANGED config
  BY FetchStep DEF Brought, Fetch
<1>3. Selects(config[p], What(p)) /\ FileOf(p) = FileFor(config[p], What(p))
  BY <1>2, FileOfCall
<1>4. Suits(config[p], What(p), body)
  BY <1>1 DEF Admits, Suits
<1>5. SUFFICES ASSUME NEW q \in Process, NEW w \in Asked, Selects(config[q], w),
                      disk'[FileFor(config[q], w)] # None
               PROVE  Suits(config[q], w, disk'[FileFor(config[q], w)].body)
  BY <1>2 DEF StoredInv
<1>6. config[q] = config[p] /\ Known(config[p])
  BY DEF Alike, TypeInv
<1>7. FileFor(config[q], w) \in File /\ FileOf(p) \in File
  BY <1>2, <1>3, <1>5, <1>6, FilesDiffer
<1>8. CASE w = What(p)
  <2>1. disk'[FileOf(p)] = [of |-> Product(p), age |-> 0, body |-> body]
    BY <1>1, <1>7 DEF TypeInv
  <2>2. disk'[FileOf(p)].body = body
    BY <2>1
  <2>. QED
    BY <1>3, <1>4, <1>6, <1>8, <2>2
<1>9. CASE w # What(p)
  <2>1. FileFor(config[q], w) # FileOf(p)
    BY <1>2, <1>3, <1>5, <1>6, <1>9, FilesDiffer
  <2>2. disk'[FileFor(config[q], w)] = disk[FileFor(config[q], w)]
    BY <1>1, <1>7, <2>1 DEF TypeInv
  <2>. QED
    BY <1>5, <2>2 DEF StoredInv
<1>. QED
  BY <1>8, <1>9

LEMMA StepStored ==
  ASSUME TypeInv, \A q \in Process : CallInv(q), ~mixed => Alike /\ StoredInv, [Next]_vars
  PROVE  ~mixed' => (Alike /\ StoredInv)'
<1>1. SUFFICES ASSUME ~mixed' PROVE (Alike /\ StoredInv)'
  OBVIOUS
<1>2. CASE UNCHANGED <<config, disk, mixed>>
  BY <1>1, <1>2 DEF Alike, StoredInv
<1>3. ASSUME NEW p \in Process, Local(p) PROVE UNCHANGED <<config, disk, mixed>>
  BY <1>3, LocalFrame
<1>4. ASSUME NEW p \in Process, Fetch(p) PROVE (Alike /\ StoredInv)'
  <2>1. UNCHANGED <<config, mixed>>
    BY <1>4 DEF Fetch
  <2>2. Alike /\ StoredInv
    BY <1>1, <2>1
  <2>. QED
    BY <1>4, <2>1, <2>2, FetchStores DEF Alike
<1>5. ASSUME NEW p \in Process, Restart(p) PROVE UNCHANGED <<config, disk, mixed>>
  BY <1>1, <1>5 DEF Restart, TypeInv
<1>6. CASE Wait
  <2>1. UNCHANGED <<config, mixed>>
    BY <1>6 DEF Wait
  <2>2. ASSUME NEW q \in Process, NEW w \in Asked, Selects(config[q], w),
               disk'[FileFor(config[q], w)] # None
        PROVE  Suits(config[q], w, disk'[FileFor(config[q], w)].body)
    <3>1. FileFor(config[q], w) \in File
      BY <2>2, FilesDiffer DEF TypeInv
    <3>2. /\ disk[FileFor(config[q], w)] # None
          /\ disk'[FileFor(config[q], w)].body = disk[FileFor(config[q], w)].body
      BY <1>6, <2>2, <3>1, WaitKeepsBodies
    <3>. QED
      BY <1>1, <2>1, <2>2, <3>2 DEF StoredInv
  <2>. QED
    BY <1>1, <2>1, <2>2 DEF Alike, StoredInv
<1>. QED
  BY <1>2, <1>3, <1>4, <1>5, <1>6 DEF Next, Local, vars

LEMMA KeptHolds == Spec => [](Inv /\ KeptInv)
<1>1. ASSUME Inv, KeptInv, [Next]_vars PROVE KeptInv'
  <2>1. TypeInv /\ (\A q \in Process : CallInv(q)) /\ HandedInv /\ TableInv
        /\ (~mixed => Alike /\ StoredInv)
    BY <1>1 DEF Inv, KeptInv
  <2>2. HandedInv' /\ TableInv'
    BY <1>1, <2>1, StepHanded, StepTable
  <2>3. ~mixed' => (Alike /\ StoredInv)'
    BY <1>1, <2>1, StepStored
  <2>. QED
    BY <2>2, <2>3 DEF KeptInv
<1>. QED
  BY <1>1, InitInv, StepInv, InitKept, PTL DEF Spec

(* A call that answers answers well, where another under the same          *)
(* configuration was answered so before.                                   *)
LEMMA LocalKeeps ==
  ASSUME Inv, KeptInv, NEW p \in Process, Local(p), NEW w \in Asked, NEW q \in Process,
         config[q] = config[p], StoredInv, Answers(q, w, answer[q][w]),
         w = "table" => SettingsFault(config[p].auto, config[p].source.client) = None,
         w = What(p), answer'[p][w] # answer[p][w]
  PROVE  Answers(p, w, answer'[p][w])
<1>1. TypeInv /\ (\A r \in Process : CallInv(r)) /\ HandedInv /\ TableInv
  BY DEF Inv, KeptInv
<1>2. \/ w \in Kind /\ config[p].path[w]
      \/ /\ Selects(config[p], w) /\ disk[FileFor(config[p], w)] # None
         /\ w \in Kind => ~config[p].path[w]
         /\ w = "table" => SourceValid(config[p].source)
  BY <1>1 DEF Answers, HandedInv
<1>3. w \in Kind => w # "table"
  BY DEF Kind
<1>4. CASE Explicit(p)
  <2>1. answer'[p][w].status = "theirs"
    BY <1>1, <1>4, HandsOne DEF Explicit
  <2>. QED
    BY <2>1 DEF Answers
<1>5. ~Unselected(p)
  BY <1>2, <1>3 DEF Unselected, Checking, Selects, Row
<1>6. CASE Serve(p) /\ (AsItIs(p) \/ FallBack(p) \/ Read(p))
  <2>1. w \in Kind => Row(p) # None /\ ~config[p].path[w]
    BY <1>1, <1>6 DEF AsItIs, Selected, FallBack, Read, CallInv, Kind
  <2>2. FileOf(p) = FileFor(config[p], w) /\ Selects(config[p], w)
    BY <1>1, <2>1, FileOfCall
  <2>3. Copy(p) # None
    BY <1>2, <2>1, <2>2 DEF Copy
  <2>4. Suits(config[p], w, Copy(p).body)
    BY <2>2, <2>3 DEF StoredInv, Copy
  <2>5. answer'[p][w].status = "served" /\ answer'[p][w].body = Copy(p).body
    BY <1>1, <1>6, <2>3, ServeIs
  <2>. QED
    BY <1>3, <2>4, <2>5 DEF Answers, Suits
<1>7. CASE CheckTable(p) \/ FallBackTable(p) \/ Read(p)
  <2>1. What(p) = "table" /\ w \notin Kind
    BY <1>3, <1>7 DEF CheckTable, FallBackTable, Read
  <2>2. /\ Selects(config[p], w) /\ disk[FileFor(config[p], w)] # None
        /\ SourceValid(config[p].source)
    BY <1>2, <2>1
  <2>3. FileOf(p) = FileFor(config[p], w)
    BY <1>1, <2>1, FileOfCall
  <2>4. Copy(p) # None /\ Loads(Copy(p).body, config[p].source, config[p].auto)
    <3>1. Suits(config[p], w, disk[FileFor(config[p], w)].body)
      BY <2>2 DEF StoredInv
    <3>. QED
      BY <2>1, <2>2, <2>3, <3>1 DEF Suits, Copy
  <2>5. ~CheckTable(p) /\ ~FallBackTable(p)
    BY <2>1, <2>2, <2>4 DEF CheckTable, FallBackTable
  <2>. QED
    BY <1>6, <1>7, <2>4, <2>5 DEF Read
<1>8. ~UNCHANGED answer
  OBVIOUS
<1>. QED
  BY <1>4, <1>5, <1>6, <1>7, <1>8 DEF Local, Begin, AsItIs, Attempt, FallBack, Miss

LEMMA StepKeepsService ==
  ASSUME Inv, KeptInv, [Next]_vars, NEW w \in Asked, ~mixed',
         NEW q \in Process, Answers(q, w, answer[q][w]),
         w = "table" => \A r \in Process :
           config[r].source # None /\ SettingsFault(config[r].auto, config[r].source.client) = None,
         NEW p \in Process, answer'[p][w] # answer[p][w], answer'[p][w].status # "unasked"
  PROVE  Answers(p, w, answer'[p][w])
<1>1. TypeInv /\ (\A r \in Process : CallInv(r)) /\ (~mixed => Alike /\ StoredInv)
  BY DEF Inv, KeptInv
<1>2. ASSUME NEW r \in Process, Local(r) \/ Fetch(r) PROVE Answers(p, w, answer'[p][w])
  <2>1. p = r /\ w = What(p)
    BY <1>1, <1>2, OwnAnswer
  <2>2. UNCHANGED mixed
    BY <1>1, <1>2, LocalFrame DEF Fetch
  <2>3. Alike /\ StoredInv
    BY <1>1, <2>2
  <2>4. CASE Local(p)
    BY <2>1, <2>3, <2>4, LocalKeeps DEF Alike
  <2>5. CASE Fetch(p)
    BY <1>1, <2>1, <2>5, FetchGives
  <2>. QED
    BY <1>2, <2>1, <2>4, <2>5
<1>3. ASSUME NEW r \in Process, Restart(r) PROVE FALSE
  BY <1>1, <1>3, RestartStep
<1>4. ~(Wait \/ UNCHANGED vars)
  BY DEF Wait, vars
<1>. QED
  BY <1>2, <1>3, <1>4 DEF Next, Local

(* Every variable keeps its type, a configuration that was written out and *)
(* read again included: it names a provider and a tier of each kind.       *)
THEOREM TypeCorrect == Spec => []TypeOK
<1>1. Inv => TypeOK
  <2>. SUFFICES ASSUME Inv PROVE TypeOK
    OBVIOUS
  <2>1. ASSUME NEW p \in Process
        PROVE  /\ config[p].provider \in Choices
               /\ call[p] \in [what : Asked, step : {"check", "ask", "missed", "read"}] \cup {Idle}
               /\ \A w \in Asked :
                    answer[p][w].status \in {"unasked", "none", "theirs", "served", "refused"}
               /\ fault[p] \in {None, "InvalidSetting", "UnsupportedTier", "MissingCredential"}
    BY DEF Inv, TypeInv, GeoIpConfig, Result
  <2>2. \A f \in File : disk[f] # None => disk[f].age \in 0..Old /\ disk[f].body \in Body
    BY DEF Inv, TypeInv, Download, Old
  <2>. QED
    BY <2>1, <2>2 DEF Inv, TypeInv, TypeOK
<1>. QED
  BY <1>1, InvariantHolds, PTL

(* What validate accepts when a configuration is loaded, no attempt of any *)
(* later call finds at fault: not its settings, its tiers, its credentials. *)
THEOREM ValidatedIsEnough == Spec => []ValidatedNeverFaults
<1>1. Inv => ValidatedNeverFaults
  BY DEF Inv, FaultInv, ValidatedNeverFaults
<1>. QED
  BY <1>1, InvariantHolds, PTL

(* A database handed out is a build of the source its configuration        *)
(* selects, whatever others left in the directory or put there meanwhile.  *)
THEOREM ServedIsSelected == Spec => []ServesItsOwnSource
<1>1. Inv => ServesItsOwnSource
  BY DEF Inv, ServedInv, ServedFrom, ServesItsOwnSource
<1>. QED
  BY <1>1, InvariantHolds, PTL

(* Every database a process serves is among the sources whose terms its    *)
(* configuration reports, so nothing it serves is under terms unseen.      *)
THEOREM TermsAreStated == Spec => []TermsCoverWhatIsServed
<1>1. ASSUME Inv PROVE TermsCoverWhatIsServed
  <2>1. SUFFICES ASSUME NEW p \in Process, NEW kind \in Kind, answer[p][kind].status = "served"
                 PROVE  \E row \in SourceTerms(config[p].provider) :
                          row.kind = kind /\ row.name = answer[p][kind].of
    BY DEF TermsCoverWhatIsServed
  <2>. DEFINE row == Find(config[p].provider[kind], kind)
  <2>2. row # None /\ answer[p][kind].of = row.name
    BY <1>1, <2>1 DEF Inv, ServedInv, ServedFrom
  <2>3. row \in Sources /\ row.kind = kind
    BY <2>2, FindIs
  <2>4. row \in SourceTerms(config[p].provider)
    BY <2>3 DEF SourceTerms
  <2>. HIDE DEF row
  <2>. QED
    BY <2>2, <2>3, <2>4
<1>. QED
  BY <1>1, InvariantHolds, PTL

(* No process downloads a file twice within the interval its source's      *)
(* terms impose, restarted and reconfigured however often.                 *)
THEOREM DownloadsArePaced == Spec => []PacedByItself
<1>1. Inv => PacedByItself
  BY DEF Inv, PaceInv, PacedByItself
<1>. QED
  BY <1>1, InvariantHolds, PTL

(* A restart with what the process wrote of its own configuration selects  *)
(* the same sources, and reads its table in the same encoding.             *)
THEOREM WrittenIsRead == Spec => []StatedIsRead
<1>1. Inv => StatedIsRead
  BY RereadIs DEF Inv, TypeInv, StatedIsRead
<1>. QED
  BY <1>1, InvariantHolds, PTL

(* Where every process has one configuration, what one was answered with   *)
(* no later call of any is refused: ensure_databases and Table::ensure     *)
(* never leave less than was there, whatever fails or races.               *)
THEOREM ServiceIsKept == Spec => ServiceKept
<1>1. Inv /\ KeptInv /\ [Next]_vars =>
  [\A w \in Asked :
       (/\ ~mixed'
        /\ \E q \in Process : Answers(q, w, answer[q][w])
        /\ \A q \in Process : w = "table" =>
             config[q].source # None /\ SettingsFault(config[q].auto, config[q].source.client) = None)
       => \A p \in Process :
            answer'[p][w] # answer[p][w] /\ answer'[p][w].status # "unasked" =>
              Answers(p, w, answer'[p][w])]_vars
  <2>. SUFFICES ASSUME Inv, KeptInv, [Next]_vars,
                       NEW w \in Asked, ~mixed',
                       \E q \in Process : Answers(q, w, answer[q][w]),
                       \A q \in Process : w = "table" =>
                         config[q].source # None /\ SettingsFault(config[q].auto, config[q].source.client) = None,
                       NEW p \in Process,
                       answer'[p][w] # answer[p][w], answer'[p][w].status # "unasked"
                PROVE  Answers(p, w, answer'[p][w])
    OBVIOUS
  <2>1. PICK q \in Process : Answers(q, w, answer[q][w])
    OBVIOUS
  <2>. QED
    BY <2>1, StepKeepsService
<1>. QED
  BY <1>1, KeptHolds, PTL DEF Spec, ServiceKept
=============================================================================
