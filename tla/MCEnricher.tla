---------------------------- MODULE MCEnricher ----------------------------
EXTENDS Enricher, TLC

(* Threads, refreshers and addresses are each interchangeable.  Symmetry is *)
(* used by the runs that check safety alone.                                *)
Symmetry ==
  Permutations(Thread) \cup Permutations(Refresher) \cup Permutations(Ip \ Reserved)
=============================================================================
