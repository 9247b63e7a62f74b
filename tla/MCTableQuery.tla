---------------------------- MODULE MCTableQuery ----------------------------
EXTENDS TableQuery, TLC

(* "x" and "X" are one range spelt twice, "z" the same with host bits set,  *)
(* "h" and "H" an address in it spelt twice, and "-" none of these.        *)
Texts == {"x", "X", "z", "h", "H", "-"}
Keys == {"net", "netWithHostBits", "host", "other"}
ParsedTo == [kind \in {"address", "prefix"} |-> [t \in Texts |->
  CASE t \in {"h", "H"} -> "host"
    [] kind = "prefix" /\ t \in {"x", "X"} -> "net"
    [] kind = "prefix" /\ t = "z" -> "netWithHostBits"
    [] OTHER -> Absent]]
IsNet(k) == k \in {"net", "netWithHostBits"}
MaskedTo == [k \in Keys |-> IF IsNet(k) THEN "net" ELSE k]
FreeBits == [k \in Keys |-> IF IsNet(k) THEN 8 ELSE 0]
Holding == [k \in Keys |-> IF IsNet(k) THEN {"host", "other"} ELSE {k}]
LikelyNames == [kind \in {"address", "prefix"} |-> {"ip"}]
FoldedTo == [t \in Texts |-> CASE t = "X" -> "x" [] t = "H" -> "h" [] OTHER -> t]
DatedAt == [t \in Texts |-> CASE t = "z" -> 1 [] t = "-" -> 2 [] OTHER -> Absent]

Names == <<"tag", "ip">>

(* A second column of any text, a first of three.                          *)
SomeRows == {r \in [1..2 -> Texts \cup {Absent}] : r[1] \in {"z", "-", Absent}}
SomeTables == UNION {[1..n -> SomeRows] : n \in 1..2}
                \cup {[i \in 1..3 |-> [c \in 1..2 |-> IF c = 1 THEN "z" ELSE s[i]]] :
                        s \in [1..3 -> Texts \cup {Absent}]}

SomeIndexes ==
  {[kind |-> "text", column |-> "ip"], [kind |-> "text", column |-> "none"]} \cup
  {[kind |-> k, column |-> ""] : k \in {"address", "prefix"}}

Is(name, text) == [test |-> "equals", column |-> name, value |-> text, from |-> 0, to |-> 0]
Dated(name, how, from, to) ==
  [test |-> how, column |-> name, value |-> "-", from |-> from, to |-> to]

(* No condition, one on the key column or another, two, a misspelt one,    *)
(* and one of each kind of date.                                           *)
Asked ==
  { <<>>,
    <<Is("ip", "x")>>,
    <<Is("ip", "-")>>,
    <<Is("ip", "h")>>,
    <<Is("tag", "z"), Is("ip", "x")>>,
    <<Is("ip", "z"), Is("ip", "X")>>,
    <<Is("ip", "x"), Is("none", "x")>>,
    <<Is("ip", "z"), Dated("tag", "fromDate", 2, 0)>>,
    <<Dated("ip", "toDate", 0, 1)>>,
    <<Dated("tag", "betweenDates", 1, 2)>> }

SomeQueries ==
  [conditions : Asked, exact : BOOLEAN, wildcard : {Absent, "-", "z"}]
=============================================================================
