----------------------------- MODULE Selection -----------------------------
(***************************************************************************)
(* What a configuration selects: the table of sources and the questions    *)
(* asked of it, the credentials and settings a download needs, and the     *)
(* form a selection takes in a config file.                                *)
(*                                                                         *)
(* Time is in half-days: a publisher that publishes on two fixed days a    *)
(* week does so every seven of them.                                       *)
(***************************************************************************)
EXTENDS Integers, FiniteSets

CONSTANTS None  \* nothing: no row, no credential, no fault

Provider == {"DbIp", "MaxMind", "IpInfo", "SapicsOriginAsn", "SapicsIpToAsn", "Custom"}
Tier == {"free", "paid"}
Kind == {"city", "asn"}
Choice == [provider : Provider, tier : Tier]
Choices == [Kind -> Choice]

Day == 2
TwiceWeekly == 7
Monthly == 60

-----------------------------------------------------------------------------
(* SOURCES.  An endpoint serves one product, but for MaxMind's, which      *)
(* serves the edition the file is named by.                                *)

MaxMindCredential == <<"maxmind_account_id", "maxmind_license_key">>

MaxMindRow(tier, kind, edition) ==
  [provider |-> "MaxMind", tier |-> tier, kind |-> kind, name |-> edition, file |-> edition,
   url |-> "edition", endpoint |-> "maxmind", credential |-> MaxMindCredential,
   cadence |-> TwiceWeekly, interval |-> Day]

MaxMindRows ==
  {MaxMindRow("free", "city", "GeoLite2-City"), MaxMindRow("free", "asn", "GeoLite2-ASN"),
   MaxMindRow("paid", "city", "GeoIP2-City"), MaxMindRow("paid", "asn", "GeoIP2-ISP")}

DbIpRow(kind, name, file) ==
  [provider |-> "DbIp", tier |-> "free", kind |-> kind, name |-> name, file |-> file,
   url |-> "dated", endpoint |-> name, credential |-> <<>>,
   cadence |-> Monthly, interval |-> 0]

(* As a table would that wrote both of a publisher's databases under one   *)
(* name.                                                                   *)
DbIpRowsOneFile ==
  {DbIpRow("city", "dbip-city-lite", "dbip-lite"), DbIpRow("asn", "dbip-asn-lite", "dbip-lite")}

DbIpRows ==
  {DbIpRow("city", "dbip-city-lite", "dbip-city-lite"),
   DbIpRow("asn", "dbip-asn-lite", "dbip-asn-lite")}

IpInfoRows ==
  {[provider |-> "IpInfo", tier |-> "free", kind |-> "city", name |-> "ipinfo-lite",
    file |-> "ipinfo-lite", url |-> "static", endpoint |-> "ipinfo-lite",
    credential |-> <<"ipinfo_token">>, cadence |-> Day, interval |-> Day]}

SapicsRow(provider, name) ==
  [provider |-> provider, tier |-> "free", kind |-> "asn", name |-> name, file |-> name,
   url |-> "static", endpoint |-> name, credential |-> <<>>, cadence |-> Day, interval |-> 0]

SapicsRows == {SapicsRow("SapicsOriginAsn", "origin-asn"), SapicsRow("SapicsIpToAsn", "iptoasn-asn")}

Sources == MaxMindRows \cup DbIpRows \cup IpInfoRows \cup SapicsRows

(* UrlStrategy::resolve, the first of the two it returns.                  *)
UrlOf(row) ==
  [endpoint |-> row.endpoint,
   part |-> CASE row.url = "static" -> None
              [] row.url = "dated" -> "this month"
              [] row.url = "edition" -> row.file]

(* What a publisher has at an address: the edition asked for, or the one   *)
(* product of the endpoint.                                                *)
Published(url) == IF url.endpoint = "maxmind" THEN url.part ELSE url.endpoint

-----------------------------------------------------------------------------
(* SourceSpec::find and select: the row, None when the provider supplies   *)
(* its files some other way or does not publish the kind.                  *)

Rows(choice) == {row \in Sources : row.provider = choice.provider /\ row.tier = choice.tier}

Find(choice, kind) ==
  LET rows == {row \in Rows(choice) : row.kind = kind}
  IN IF rows = {} THEN None ELSE CHOOSE row \in rows : TRUE

(* The provider publishes at some other tier.                              *)
TierUnsupported(choice) ==
  /\ Rows(choice) = {}
  /\ \E row \in Sources : row.provider = choice.provider

(* The databases a selection fetches: as a list would give them that took  *)
(* every provider's free line, and as it is.                               *)
SourceTermsOfFree(selection) ==
  {row \in Sources : \E kind \in Kind : row = Find([selection[kind] EXCEPT !.tier = "free"], kind)}

SourceTerms(selection) ==
  {row \in Sources : \E kind \in Kind : row = Find(selection[kind], kind)}

-----------------------------------------------------------------------------
(* A configuration: AutoDownloadConfig under auto, and the table source a  *)
(* host keeps beside it.                                                   *)

Credential == {"maxmind_account_id", "maxmind_license_key", "ipinfo_token"}

AutoDownloadConfig ==
  [enabled : BOOLEAN, maxAge : Nat, connect : Nat, read : Nat, verify : BOOLEAN, minSize : Nat,
   ceiling : Nat, secrets : [Credential -> {None, "blank", "set", "redacted"}]]

(* A blank URL is None, a plain file a name and no path, and a schema that *)
(* names no column "no names".                                             *)
TableSource ==
  [url : {None} \cup STRING, plain : BOOLEAN, file : STRING,
   format : {"csv", "csv headerless", "json"}, schema : STRING, index : STRING, client : BOOLEAN]

GeoIpConfig ==
  [enabled : BOOLEAN, provider : Choices, path : [Kind -> BOOLEAN], client : BOOLEAN,
   source : {None} \cup TableSource, auto : AutoDownloadConfig]

(* A blank credential is one that is not set.                              *)
Unset(auto, field) == auto.secrets[field] \in {None, "blank"}

MissingCredential(row, auto) == \E i \in DOMAIN row.credential : Unset(auto, row.credential[i])

(* How old a copy may be: the cadence, tightened by the operator's ceiling *)
(* and never below what the terms impose.  The first leaves the terms out. *)
WindowUnfloored(row, auto) == IF row.cadence < auto.maxAge THEN row.cadence ELSE auto.maxAge

Window(row, auto) ==
  LET tightened == IF row.cadence < auto.maxAge THEN row.cadence ELSE auto.maxAge
  IN IF tightened < row.interval THEN row.interval ELSE tightened

(* A zero timeout matters to the client the crate builds, not to one it is *)
(* given.                                                                  *)
SettingsFault(auto, injected) ==
  IF (~injected /\ (auto.connect = 0 \/ auto.read = 0)) \/ auto.minSize > 100
    THEN "InvalidSetting" ELSE None

(* plan: the faults that cost no request.                                  *)
PlanFault(config, kind) ==
  LET choice == config.provider[kind] IN
  IF TierUnsupported(choice) THEN "UnsupportedTier"
  ELSE IF Find(choice, kind) = None THEN "NoDatabases"
  ELSE IF MissingCredential(Find(choice, kind), config.auto) THEN "MissingCredential"
  ELSE None

(* What download finds wrong before it asks for anything.                  *)
DownloadFault(config, kind) ==
  IF SettingsFault(config.auto, config.client) # None
    THEN SettingsFault(config.auto, config.client)
    ELSE PlanFault(config, kind)

(* validate, as one would be that stopped at the first kind with a path.   *)
ValidUnlessExplicit(config) ==
  \/ ~config.enabled \/ ~config.auto.enabled
  \/ /\ SettingsFault(config.auto, config.client) = None
     /\ \/ \E kind \in Kind : config.path[kind]
        \/ \A kind \in Kind : PlanFault(config, kind) \in {None, "NoDatabases"}

Valid(config) ==
  \/ ~config.enabled \/ ~config.auto.enabled
  \/ /\ SettingsFault(config.auto, config.client) = None
     /\ \A kind \in Kind :
          config.path[kind] \/ PlanFault(config, kind) \in {None, "NoDatabases"}

(* TableSource::validate.                                                  *)
SourceValid(source) ==
  /\ source.url # None
  /\ source.plain
  /\ ~(source.format = "csv headerless" /\ source.schema = "auto")
  /\ source.schema # "no names"

-----------------------------------------------------------------------------
(* A selection and a table's format as a config file holds them: the free  *)
(* tier and a header are left unsaid, and one choice stands for both kinds *)
(* where they agree.                                                       *)

DefaultChoice ==
  [city |-> [provider |-> "DbIp", tier |-> "free"],
   asn |-> [provider |-> "SapicsOriginAsn", tier |-> "free"]]

WriteChoice(choice) ==
  IF choice.tier = "free" THEN [form |-> "bare", provider |-> choice.provider]
  ELSE [form |-> "tiered", provider |-> choice.provider, tier |-> choice.tier]

(* As a reader would that left a tier unsaid when the file does.           *)
ReadChoiceUnsaid(wire) ==
  [provider |-> wire.provider,
   tier |-> IF "tier" \in DOMAIN wire THEN wire.tier ELSE None]

ReadChoice(wire) ==
  [provider |-> wire.provider,
   tier |-> IF "tier" \in DOMAIN wire THEN wire.tier ELSE "free"]

(* As a writer would that asked whether the providers agree.               *)
WriteSelectionByProvider(selection) ==
  IF selection["city"].provider = selection["asn"].provider
    THEN [form |-> "uniform", choice |-> WriteChoice(selection["city"])]
    ELSE [form |-> "per kind", kinds |-> [kind \in Kind |-> WriteChoice(selection[kind])]]

WriteSelection(selection) ==
  IF selection["city"] = selection["asn"]
    THEN [form |-> "uniform", choice |-> WriteChoice(selection["city"])]
    ELSE [form |-> "per kind", kinds |-> [kind \in Kind |-> WriteChoice(selection[kind])]]

(* A kind the map leaves out takes that kind's default.                    *)
ReadSelection(wire) ==
  [kind \in Kind |->
     IF wire.form = "uniform" THEN ReadChoice(wire.choice)
     ELSE IF kind \in DOMAIN wire.kinds THEN ReadChoice(wire.kinds[kind])
     ELSE DefaultChoice[kind]]

WriteFormat(format) ==
  CASE format = "json" -> [form |-> "bare", tag |-> "json"]
    [] format = "csv" -> [form |-> "bare", tag |-> "csv"]
    [] format = "csv headerless" -> [form |-> "full", tag |-> "csv", header |-> FALSE]

ReadFormat(wire) ==
  IF wire.tag = "json" THEN "json"
  ELSE IF "header" \in DOMAIN wire /\ ~wire.header THEN "csv headerless" ELSE "csv"

(* Secret's Serialize writes the redaction; an HTTP client is not written. *)
Redacted(secrets) ==
  [field \in DOMAIN secrets |-> IF secrets[field] = None THEN None ELSE "redacted"]

RereadSource(source) ==
  [source EXCEPT !.format = ReadFormat(WriteFormat(@)), !.client = FALSE]

Reread(config) ==
  [config EXCEPT
     !.provider = ReadSelection(WriteSelection(@)),
     !.auto.secrets = Redacted(@),
     !.client = FALSE,
     !.source = IF @ = None THEN None ELSE RereadSource(@)]
=============================================================================
