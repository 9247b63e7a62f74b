---------------------------- MODULE MCGeoRecord ----------------------------
EXTENDS GeoRecord

Names == <<"0", "1", "2">>

Says(kind, n, bytesOf) == [kind |-> kind, says |-> n, size |-> bytesOf]
Record(keys, nodes) ==
  [kind |-> "map", entries |-> [i \in DOMAIN keys |-> [key |-> keys[i], node |-> nodes[i]]]]
List(nodes) ==
  [kind |-> "array", entries |-> [i \in DOMAIN nodes |-> [key |-> Names[i], node |-> nodes[i]]]]

(* The shared leaves and maps, then the records of each schema.            *)
Section ==
  [en |-> Says("Str", 1, 1), de |-> Says("Str", 2, 1), long |-> Says("Str", 3, 9),
   as |-> Says("Str", 4, 1), geoname |-> Says("U64", 5, 0), less |-> Says("I64", -2, 0),
   small |-> Says("I64", 4, 0), wide |-> Says("U128", 9, 0), narrow |-> Says("U128", 3, 0),
   flag |-> Says("Bool", 1, 0), degrees |-> Says("F64", 8, 0), raw |-> Says("Bytes", 6, 2),
   notFinite |-> Says("F64", 10, 0), most |-> Says("U64", 7, 0),
   names |-> Record(<<"en", "de">>, <<"en", "de">>),
   city |-> Record(<<"names", "geoname_id">>, <<"names", "geoname">>),
   england |-> Record(<<"iso_code">>, <<"en">>),
   berkshire |-> Record(<<"names", "iso_code">>, <<"names", "de">>),
   regions |-> List(<<"england", "berkshire">>),
   noRegions |-> List(<<>>),
   place |-> Record(<<"latitude", "accuracy_radius">>, <<"degrees", "geoname">>),
   nowhere |-> Record(<<"latitude", "longitude">>, <<"notFinite", "geoname">>),
   tooWide |-> Record(<<"accuracy_radius">>, <<"most">>),
   country |-> Record(<<"iso_code">>, <<"de">>),
   traits |-> Record(<<"a", "b", "c", "d", "e", "f">>,
                     <<"less", "small", "wide", "narrow", "raw", "flag">>),
   empty |-> Record(<<>>, <<>>),
   cityWhole |-> Record(<<"city", "country">>, <<"city", "country">>),
   cityRegions |-> Record(<<"subdivisions", "flag">>, <<"regions", "flag">>),
   cityTraits |-> Record(<<"traits">>, <<"traits">>),
   cityPlace |-> Record(<<"location", "subdivisions", "city">>, <<"place", "noRegions", "empty">>),
   cityNowhere |-> Record(<<"location">>, <<"nowhere">>),
   cityNotFinite |-> Record(<<"a", "b">>, <<"degrees", "notFinite">>),
   cityTooWide |-> Record(<<"location">>, <<"tooWide">>),
   cityLong |-> Record(<<"a", "b", "c", "d">>, <<"long", "long", "long", "long">>),
   cityShared |-> Record(<<"a", "b", "c", "d">>, <<"names", "names", "names", "names">>),
   cityRefused |-> Record(<<"city", "isp">>, <<"en", "en">>),
   asnWhole |-> Record(<<"autonomous_system_number", "autonomous_system_organization">>,
                       <<"geoname", "en">>),
   asnIsp |-> Record(<<"autonomous_system_number", "isp", "country">>, <<"geoname", "en", "en">>),
   asnRefused |-> Record(<<"autonomous_system_number">>, <<"en">>),
   asnTooWide |-> Record(<<"autonomous_system_number">>, <<"most">>),
   ipinfoWhole |-> Record(<<"country_code", "country", "asn", "as_name", "as_domain">>,
                          <<"en", "de", "as", "en", "de">>),
   ipinfoLean |-> Record(<<"country", "asn", "carrier">>, <<"en", "en", "names">>)]

Nodes == DOMAIN Section

Heights ==
  LET to[d \in 0..4] ==
        [n \in Nodes |->
           IF Section[n].kind \notin {"map", "array"} THEN 0
           ELSE 1 + Max({0} \cup {to[d - 1][Section[n].entries[i].node] : i \in DOMAIN Section[n].entries})]
  IN to[4]

Open(root, net) == [ipinfo |-> FALSE, root |-> root, network |-> net]
Flat(net) == {[ipinfo |-> TRUE, root |-> r, network |-> net] :
                r \in {"ipinfoWhole", "ipinfoLean", "asnIsp"}}

SomeCities ==
  {None, Open(None, 20)} \cup Flat(20) \cup
  {Open(r, 20) : r \in {"cityWhole", "cityRegions", "cityTraits", "cityPlace", "cityNowhere",
                        "cityNotFinite", "cityTooWide", "cityLong", "cityShared", "cityRefused"}}
SomeAsns ==
  {None, Open(None, 21)} \cup Flat(21) \cup
  {Open(r, 21) : r \in {"asnWhole", "asnIsp", "asnRefused", "asnTooWide"}}

(* IPinfo's one file for the location and the default, or the one a        *)
(* configuration names, for the network.                                   *)
IpInfoCity == {[ipinfo |-> TRUE, root |-> "ipinfoWhole", network |-> 20]}
NetworkAsns == {Open(r, 21) : r \in {"asnWhole", "asnIsp"}}

(* One double's text is read as the double below it, and one is not finite. *)
DoubleOf == [d \in -2..9 |-> IF d = 8 THEN 7 ELSE d] @@ (10 :> None)

NumberOf == [t \in 0..10 |-> IF t = 4 THEN 5 ELSE None]
=============================================================================
