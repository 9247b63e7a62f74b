----------------------------- MODULE MCTransfer -----------------------------
EXTENDS Transfer, TLC

(* Three builds of unlike length, so a part file of one may be longer than, *)
(* as long as, or a proper prefix of another.                              *)
Lengths == <<2, 3, 2>>

(* The rows of the source table, and of a table source, told apart.        *)
Plain == [archive |-> "raw", digest |-> FALSE, dated |-> FALSE]
Zipped == [archive |-> "gzip", digest |-> FALSE, dated |-> FALSE]
Dated == [archive |-> "gzip", digest |-> FALSE, dated |-> TRUE]
Checked == [archive |-> "gzip", digest |-> TRUE, dated |-> FALSE]
RawChecked == [archive |-> "raw", digest |-> TRUE, dated |-> FALSE]

EverySource == {Plain, Zipped, Dated, Checked, RawChecked}
=============================================================================
