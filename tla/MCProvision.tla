---------------------------- MODULE MCProvision ----------------------------
EXTENDS Provision, TLC

CONSTANTS t1, t2, t3, p1, p2

OneProcess == [t \in Task |-> p1]

(* Two calls of one process, whose memory they share, and a replica.       *)
TwoProcesses == [t \in Task |-> IF t = t3 THEN p2 ELSE p1]
=============================================================================
