----------------------------- MODULE GeoAnswers -----------------------------
(***************************************************************************)
(* What a caller of GeoIp is promised, with no cache, no guard and no file *)
(* in sight.  The databases are a history of reader sets; a lookup answers *)
(* from exactly one of them, and from none older than the one the last     *)
(* finished swap had installed when the lookup began.  While a swap is in  *)
(* progress both sets may answer: the history is a regular register, not   *)
(* an atomic one.                                                          *)
(***************************************************************************)
EXTENDS Integers, Sequences

CONSTANTS
  Thread,     \* callers of lookup and lookup_async
  ReaderSet,  \* what one set of readers answers
  NoAnswer    \* the answer of a call that has not answered

VARIABLES
  sets,       \* every reader set installed so far, oldest first
  committed,  \* how many of them a swap has finished publishing
  call        \* per thread: the stage of its lookup, its floor, its answer

vars == <<sets, committed, call>>

Call == [at: {"idle", "asked", "answered"}, floor: Nat, answer: ReaderSet \cup {NoAnswer}]

TypeOK ==
  /\ sets \in Seq(ReaderSet)
  /\ committed \in 0 .. Len(sets)
  /\ call \in [Thread -> Call]

Idle == [at |-> "idle", floor |-> 0, answer |-> NoAnswer]

Init ==
  /\ sets = <<>>
  /\ committed = 0
  /\ call = [t \in Thread |-> Idle]

(* The databases are opened: the first set, published as it is built.      *)
Open(s) ==
  /\ sets = <<>>
  /\ sets' = <<s>>
  /\ committed' = 1
  /\ UNCHANGED call

(* A refresh stores a new set; one swap is in progress at a time.          *)
Install(s) ==
  /\ sets # <<>>
  /\ committed = Len(sets)
  /\ sets' = Append(sets, s)
  /\ UNCHANGED <<committed, call>>

(* The swap is finished: from here no answer of an older set is given to a *)
(* lookup that starts.                                                     *)
Commit ==
  /\ committed < Len(sets)
  /\ committed' = Len(sets)
  /\ UNCHANGED <<sets, call>>

Ask(t) ==
  /\ call[t].at = "idle"
  /\ committed > 0
  /\ call' = [call EXCEPT ![t] = [at |-> "asked", floor |-> committed, answer |-> NoAnswer]]
  /\ UNCHANGED <<sets, committed>>

Answer(t) ==
  /\ call[t].at = "asked"
  /\ \E g \in call[t].floor .. Len(sets) :
       call' = [call EXCEPT ![t] = [at |-> "answered", floor |-> @.floor, answer |-> sets[g]]]
  /\ UNCHANGED <<sets, committed>>

(* The caller takes its answer, or drops the future of an unanswered call. *)
Leave(t) ==
  /\ call[t].at # "idle"
  /\ call' = [call EXCEPT ![t] = Idle]
  /\ UNCHANGED <<sets, committed>>

Next ==
  \/ \E s \in ReaderSet : Open(s) \/ Install(s)
  \/ Commit
  \/ \E t \in Thread : Ask(t) \/ Answer(t) \/ Leave(t)

Spec == Init /\ [][Next]_vars
=============================================================================
