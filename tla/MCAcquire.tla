----------------------------- MODULE MCAcquire -----------------------------
EXTENDS Acquire, TLC

CONSTANTS p1, p2

Free(provider) == [provider |-> provider, tier |-> "free"]
Paid(provider) == [provider |-> provider, tier |-> "paid"]
Both(choice) == [kind \in Kind |-> choice]

NoSecrets == [f \in {"maxmind_account_id", "maxmind_license_key", "ipinfo_token"} |-> None]
AllSecrets == [f \in DOMAIN NoSecrets |-> "set"]

Networks == [url |-> "networks", plain |-> TRUE, file |-> "networks", format |-> "csv",
             schema |-> "auto", index |-> "asn", client |-> FALSE]
Headerless == [Networks EXCEPT !.format = "csv headerless", !.schema = "named"]

(* GeoIpConfig's defaults, and the configurations an operator may write.   *)
Default ==
  [enabled |-> TRUE, provider |-> DefaultChoice, path |-> [kind \in Kind |-> FALSE],
   client |-> FALSE, source |-> None,
   auto |-> [enabled |-> TRUE, maxAge |-> 60, connect |-> 30, read |-> 60, verify |-> TRUE,
             minSize |-> 50, ceiling |-> 10, secrets |-> NoSecrets]]

OnlyCity == [Default EXCEPT !.provider =
  ReadSelection([form |-> "per kind", kinds |-> [city |-> WriteChoice(Paid("MaxMind"))]])]
Licensed == [OnlyCity EXCEPT !.auto.secrets = AllSecrets, !.auto.maxAge = 0]
Unlicensed == [OnlyCity EXCEPT !.auto.secrets["maxmind_account_id"] = "set",
                               !.auto.secrets["maxmind_license_key"] = "blank",
                               !.path["asn"] = TRUE]
OneFile == [Default EXCEPT !.provider = Both(Free("IpInfo")), !.auto.secrets = AllSecrets]
TwoTiers == [Licensed EXCEPT !.provider = [city |-> Free("MaxMind"), asn |-> Paid("MaxMind")]]
DbIpOnly == [Default EXCEPT !.provider = Both(Free("DbIp"))]
NoTier == [Default EXCEPT !.provider["asn"] = Paid("SapicsIpToAsn")]
Handmade == [Default EXCEPT !.provider = Both(Free("Custom")), !.path["city"] = TRUE,
                            !.auto.connect = 0, !.client = TRUE]
Unchecked == [Default EXCEPT !.auto.verify = FALSE, !.auto.minSize = 101]
Offline == [Default EXCEPT !.auto.enabled = FALSE]

(* A host of tables alone, one without room for the larger of them, one    *)
(* whose columns have no names, and a process that calls nothing.          *)
Tables == [Default EXCEPT !.enabled = FALSE, !.source = Networks]
Cramped == [Tables EXCEPT !.auto.ceiling = 4, !.source = Headerless]
Impatient == [Tables EXCEPT !.source = Headerless, !.auto.read = 0, !.source.client = TRUE]
Unnamed == [Tables EXCEPT !.source.format = "csv headerless"]
Still == [Default EXCEPT !.enabled = FALSE]

Alone(c) == p1 :> c @@ p2 :> Still
Shared(c) == [p \in Process |-> [c EXCEPT !.path["asn"] = TRUE]]
SomeStarts ==
  {Alone(c) : c \in {Default, Licensed, DbIpOnly, Handmade}}
    \cup {Shared(Default), Shared(Licensed), [p \in Process |-> Tables]}
    \cup {p1 :> Tables @@ p2 :> Impatient, p1 :> [Default EXCEPT !.path["asn"] = TRUE] @@ p2 :> DbIpOnly}
SomeLater == {Unlicensed, NoTier, OneFile, Offline, Unchecked, TwoTiers, Cramped, Unnamed}

Csv == [format |-> "csv", schema |-> "auto", index |-> "asn"]
Named == [format |-> "csv headerless", schema |-> "named", index |-> "asn"]
ByAddress == [Csv EXCEPT !.index = "ip"]
City == <<"country", "iso_code">>
Isp == <<"isp">>
Bodies ==
  {[size |-> 10, filled |-> {City, Isp}, reads |-> {Csv, Named}, cost |-> 10],
   [size |-> 4, filled |-> {City, Isp}, reads |-> {Csv, Named}, cost |-> 4],
   [size |-> 9, filled |-> {}, reads |-> {Named, ByAddress}, cost |-> 9]}
=============================================================================
