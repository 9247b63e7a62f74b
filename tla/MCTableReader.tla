--------------------------- MODULE MCTableReader ---------------------------
EXTENDS TableReader

A == <<"a">>
B == <<"b", "b">>

(* Texts that need quoting, that may hold a quote without, and that are    *)
(* longer than a field may be.                                             *)
Texts ==
  {<<>>, A, <<"a", Quote>>, <<Quote>>, <<Delimiter, "a">>, <<CR, LF>>, <<"a", "a", "a", "a">>}

Tables ==
  {<<<<A, B>>, <<t, u>>>> : t, u \in Texts} \cup
  {<<<<A>>, <<t>>, <<u>>>> : t, u \in Texts} \cup
  {<<<<t, u>>, <<u, t>>>> : t, u \in {A, <<Quote>>, <<LF>>}} \cup
  {<<<<A, B>>>>, <<<<A, B>>, <<A>>>>, <<<<A, B, A>>, <<<<>>, <<>>, <<>>>>>>,
   <<<<A, B, A, B>>, <<A, B, A, B>>>>}

Hows ==
  [quoteAll : BOOLEAN, mark : BOOLEAN, ending : {<<LF>>, <<CR>>, <<CR, LF>>},
   lastEnding : BOOLEAN, padding : {<<>>}]
    \cup [quoteAll : BOOLEAN, mark : {FALSE}, ending : {<<CR, LF>>},
          lastEnding : {TRUE}, padding : {<<CR, LF, CR, LF>>, <<LF>>, <<CR, CR>>}]

Stated == {[header |-> TRUE, names |-> Absent]}
StatedNames ==
  {[header |-> h, names |-> n] : h \in BOOLEAN, n \in {Absent, <<>>, <<B, A>>}}

Csv(stated, table, how) ==
  [format |-> "csv", header |-> stated.header, names |-> stated.names,
   body |-> Body(table, how), written |-> table, how |-> how]

Publishers ==
  {Csv(s, t, h) : s \in Stated, t \in Tables, h \in {g \in Hows : ~g.mark}} \cup
  (* A mark only in front of a name that is not quoted.                    *)
  {Csv(s, t, h) : s \in Stated, t \in {u \in Tables : ~MustQuote(u[1][1], FALSE)},
                  h \in {g \in Hows : g.mark /\ ~g.quoteAll}} \cup
  {Csv(s, t, h) : s \in StatedNames, t \in {<<<<A, B>>, <<B, A>>>>, <<<<A, B>>>>, <<<<A>>, <<B>>>>},
                  h \in {g \in Hows : g.ending = <<LF>> /\ ~g.quoteAll}}

(* All that the theorem about published tables asks of them.               *)
ASSUME PublishersMark == \A s \in Publishers : MarkIsSeen(s)

(* Any bytes at all, and rows of nothing but delimiters.                   *)
Anything ==
  {[format |-> "csv", header |-> TRUE, names |-> Absent, body |-> b, written |-> Absent] :
     b \in BoundedSeq({"a", Quote, Delimiter, LF, CR, NotText}, 4)
           \cup {[i \in 1..n |-> Delimiter] : n \in 5..8}}

Elements ==
  [object : {TRUE}, text : {1, 3},
   cells : UNION {[K -> {<<>>, A}] : K \in SUBSET {1, 2}} \cup {[k \in 2..4 |-> A], [k \in 1..4 |-> A]}]
    \cup {[object |-> FALSE, text |-> 1, cells |-> <<>>]}

Documents ==
  {[format |-> "json", names |-> n, body |-> b] :
     n \in {Absent, <<2, 1>>, <<>>}, b \in BoundedSeq(Elements, 2)} \cup
  {[format |-> "json", names |-> Absent, body |-> <<e, f, g>>] :
     e \in {[object |-> TRUE, text |-> 1, cells |-> [k \in {2} |-> A]]},
     f \in {d \in Elements : d.object /\ d.text = 1 /\ DOMAIN d.cells \subseteq 1..2},
     g \in Elements}

Everything == Publishers \cup Anything \cup Documents

(* A quoted name behind a mark.                                            *)
MarkedQuoted ==
  {Csv([header |-> TRUE, names |-> Absent], <<<<A>>, <<B>>>>,
       [quoteAll |-> TRUE, mark |-> TRUE, ending |-> <<LF>>, lastEnding |-> TRUE, padding |-> <<>>])}
=============================================================================
