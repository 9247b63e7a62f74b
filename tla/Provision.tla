------------------------------ MODULE Provision ------------------------------
(***************************************************************************)
(* When one database is asked for: the freshness check of resolve and      *)
(* Table::ensure, attempt around the fetch, and the two cool-downs of      *)
(* cooldown.rs: a stamp file beside the lock for a refusal or a rate       *)
(* limit, an entry in the process's memory for a permanent failure.        *)
(*                                                                         *)
(* Several tasks, of one process or of several sharing a data directory,   *)
(* look after the same database.  Every time is kept as its distance from  *)
(* the wall clock now: what a stamp or an entry has left, how old a file   *)
(* is.  A transfer is one request and its outcome (Transfer has the rest). *)
(***************************************************************************)
EXTENDS Integers

CONSTANTS
  Task,        \* callers of resolve or Table::ensure for one database
  Process,     \* the processes they run in
  Home,        \* which task runs in which
  Config,      \* what a configuration's fingerprint tells apart
  Rejected,    \* configurations the provider answers with a permanent error
  Unplannable, \* configurations no request can be planned for
  Outcomes,    \* how a transfer may end: see Outcome
  RetryAfter,  \* the waits a rate limit may ask for; 0 for none stated
  Floor,       \* FLOOR_SECS
  Ceiling,     \* CEILING_SECS
  Window,      \* the staleness window
  Back,        \* how far the wall clock may be set back, at most once; 0: never
  MaxKills,    \* bound: process deaths
  NoFile,      \* no copy on disk
  Nobody       \* no task, no configuration

(* "digestLimited" is a 429 from the digest's endpoint, "undecodable" a     *)
(* body whose container does not decode; the other errors are "failed".    *)
Outcome == {"ok", "refused", "limited", "permanent", "failed", "digestLimited", "undecodable"}

ASSUME ProvisionAssumption ==
  /\ Home \in [Task -> Process]
  /\ Rejected \subseteq Config /\ Unplannable \subseteq Config
  /\ Outcomes \subseteq Outcome
  /\ RetryAfter \subseteq Nat
  /\ Floor \in Nat \ {0} /\ Ceiling \in Nat /\ Ceiling >= Floor
  /\ Window \in Nat /\ Back \in Nat /\ MaxKills \in Nat
  /\ Nobody \notin Task /\ Nobody \notin Config /\ NoFile \notin Int

VARIABLES
  age,      \* of the copy on disk, NoFile when there is none
  stamp,    \* what the .retry file has left; 0 for no file, or a past one
  held,     \* each process's entry in SUPPRESSED
  lock,     \* the task whose transfer holds the lock
  call,     \* each task's call
  setBack,  \* whether the clock has been set back
  kills,    \* how many processes have died
  owed,     \* history: how long the provider is yet to be left alone
  since     \* history: time since a cool-down was last recorded

vars == <<age, stamp, held, lock, call, setBack, kills, owed, since>>

NotHeld == [config |-> Nobody, left |-> 0]
IdleCall == [at |-> "idle", config |-> Nobody, outcome |-> "ok", after |-> 0]

Call == [at: {"idle", "look", "ask", "fetch", "settle", "waiting"},
         config: Config \cup {Nobody}, outcome: Outcome \cup {"busy"}, after: Nat]

(* Every variable holds a value of its type; a transfer under way holds    *)
(* the lock, and no two are under way (Busy).                              *)
TypeOK ==
  /\ age \in Int \cup {NoFile}
  /\ stamp \in Nat
  /\ held \in [Process -> [config: Config \cup {Nobody}, left: Nat]]
  /\ lock \in Task \cup {Nobody}
  /\ call \in [Task -> Call]
  /\ \A t \in Task : call[t].at = "fetch" <=> lock = t
  /\ setBack \in BOOLEAN
  /\ kills \in 0 .. MaxKills
  /\ owed \in Nat
  /\ since \in 0 .. Ceiling + Back

Least(m, n) == IF m < n THEN m ELSE n
Less(n) == IF n = 0 THEN 0 ELSE n - 1

-----------------------------------------------------------------------------
(* The clock.                                                              *)

Tick ==
  /\ age' = IF age = NoFile THEN age ELSE Least(age + 1, Window)
  /\ stamp' = Less(stamp)
  /\ held' = [p \in Process |-> IF held[p].left <= 1 THEN NotHeld
                                ELSE [held[p] EXCEPT !.left = @ - 1]]
  /\ owed' = Less(owed)
  /\ since' = Least(since + 1, Ceiling + Back)
  /\ UNCHANGED <<lock, call, setBack, kills>>

(* The wall clock is set back: what was ahead is further ahead, a file     *)
(* written since has a time in the future.  No time has passed.            *)
SetBack ==
  /\ Back > 0 /\ ~setBack
  /\ setBack' = TRUE
  /\ age' = IF age = NoFile THEN age ELSE age - Back
  /\ stamp' = IF stamp = 0 THEN 0 ELSE stamp + Back
  /\ held' = [p \in Process |-> IF held[p] = NotHeld THEN NotHeld
                                ELSE [held[p] EXCEPT !.left = @ + Back]]
  /\ UNCHANGED <<lock, call, kills, owed, since>>

-----------------------------------------------------------------------------
Goes(t, local) == call' = [call EXCEPT ![t] = local]

(* Variant: a copy is called stale a moment early.                         *)
FreshEarly == age # NoFile /\ age >= 0 /\ age + 1 < Window

(* is_fresh: a time in the future is not trusted.                          *)
IsFresh == age # NoFile /\ age >= 0 /\ age < Window

(* A fresh copy is served with nothing asked.                              *)
Check(t) ==
  /\ call[t].at = "idle"
  /\ ~IsFresh
  /\ \E config \in Config :
       Goes(t, [IdleCall EXCEPT !.at = "look", !.config = config])
  /\ UNCHANGED <<age, stamp, held, lock, setBack, kills, owed, since>>

(* The entry of this process, and whether it was made for this request.    *)
Suppression(t) == held[Home[t]]
HeldBack(t) == Suppression(t).left > 0 /\ Suppression(t).config = call[t].config

(* The stamp is cut to the ceiling from now, each time it is read.         *)
Waits(t) == HeldBack(t) \/ Least(stamp, Ceiling) > 0

(* Variant: a suppression that still applies is extended.                  *)
LookRearming(t) ==
  /\ call[t].at = "look"
  /\ held' = [held EXCEPT ![Home[t]] =
       IF HeldBack(t) THEN [@ EXCEPT !.left = Ceiling] ELSE NotHeld]
  /\ Goes(t, [call[t] EXCEPT !.at = IF Waits(t) THEN "waiting" ELSE "ask"])
  /\ UNCHANGED <<age, stamp, lock, setBack, kills, owed, since>>

(* wait_for: the memory first, where an entry made for another             *)
(* configuration is dropped, then the stamp.                               *)
Look(t) ==
  /\ call[t].at = "look"
  /\ held' = IF HeldBack(t) THEN held ELSE [held EXCEPT ![Home[t]] = NotHeld]
  /\ Goes(t, [call[t] EXCEPT !.at = IF Waits(t) THEN "waiting" ELSE "ask"])
  /\ UNCHANGED <<age, stamp, lock, setBack, kills, owed, since>>

(* The caller is told to wait, and serves what it has.                     *)
Told(t) ==
  /\ call[t].at = "waiting"
  /\ Goes(t, IdleCall)
  /\ UNCHANGED <<age, stamp, held, lock, setBack, kills, owed, since>>

(* The transfer is planned and the lock tried; only then is anything       *)
(* asked.  Neither the freshness nor the wait is looked at again.          *)
Ask(t) ==
  /\ call[t].at = "ask"
  /\ \/ /\ call[t].config \in Unplannable
        /\ Goes(t, [call[t] EXCEPT !.at = "settle", !.outcome = "permanent"])
        /\ UNCHANGED lock
     \/ /\ call[t].config \notin Unplannable
        /\ lock # Nobody
        /\ Goes(t, [call[t] EXCEPT !.at = "settle", !.outcome = "busy"])
        /\ UNCHANGED lock
     \/ /\ call[t].config \notin Unplannable
        /\ lock = Nobody
        /\ lock' = t
        /\ Goes(t, [call[t] EXCEPT !.at = "fetch"])
  /\ UNCHANGED <<age, stamp, held, setBack, kills, owed, since>>

(* The transfer ends, and with it the hold on the lock.  A request the     *)
(* provider rejects ends permanently each time; so may any other, as one   *)
(* for a file not published yet does.                                      *)
Answer(t) ==
  /\ call[t].at = "fetch"
  /\ \E outcome \in Outcomes :
       /\ call[t].config \in Rejected => outcome = "permanent"
       /\ \E after \in IF outcome \in {"limited", "digestLimited"} THEN RetryAfter ELSE {0} :
            Goes(t, [call[t] EXCEPT !.at = "settle", !.outcome = outcome, !.after = after])
       /\ age' = IF outcome = "ok" THEN 0 ELSE age
  /\ lock' = Nobody
  /\ UNCHANGED <<stamp, held, setBack, kills, owed, since>>

(* Variant: a dropped future leaves its lock behind.                       *)
CancelLeaking(t) ==
  /\ call[t].at = "fetch"
  /\ Goes(t, IdleCall)
  /\ UNCHANGED <<age, stamp, held, lock, setBack, kills, owed, since>>

(* The caller drops the future while it waits for the provider: nothing is *)
(* recorded.                                                               *)
Cancel(t) ==
  /\ call[t].at = "fetch"
  /\ lock' = Nobody
  /\ Goes(t, IdleCall)
  /\ UNCHANGED <<age, stamp, held, setBack, kills, owed, since>>

(* What the provider, or this crate for it, means by an outcome: the wait  *)
(* before the next request.  No more than a day is ever owed.              *)
Owed(outcome, after) ==
  CASE outcome \in {"limited", "digestLimited"} ->
         Least(IF after = 0 THEN Floor ELSE after, Ceiling)
    [] outcome \in {"refused", "undecodable"} -> Floor
    [] OTHER -> 0

(* Variant: a provider's wait is taken as it comes.                        *)
StampUncapped(outcome, after) ==
  CASE outcome = "limited" -> IF after = 0 THEN Floor ELSE after
    [] outcome = "refused" -> Floor
    [] OTHER -> 0

(* Variant: a rate limit is stamped with the floor, whatever it asked for.  *)
StampFloor(outcome, after) == IF outcome \in {"limited", "refused"} THEN Floor ELSE 0

(* What begin writes: a digest's 429 is an UnexpectedStatus and a body     *)
(* that does not decode an Io error, so neither is stamped.                *)
StampOf(outcome, after) ==
  CASE outcome = "limited" -> Least(IF after = 0 THEN Floor ELSE after, Ceiling)
    [] outcome = "refused" -> Floor
    [] OTHER -> 0

IsPermanent(outcome) == outcome \in {"permanent", "digestLimited"}

(* begin and clear.                                                        *)
Settle(t) ==
  LET local == call[t]
      wait == StampOf(local.outcome, local.after) IN
  /\ local.at = "settle"
  /\ IF local.outcome = "ok" THEN stamp' = 0
     ELSE IF wait > 0 THEN stamp' = wait
     ELSE UNCHANGED stamp
  /\ held' = IF local.outcome = "ok" THEN [held EXCEPT ![Home[t]] = NotHeld]
             ELSE IF IsPermanent(local.outcome)
               THEN [held EXCEPT ![Home[t]] = [config |-> local.config, left |-> Ceiling]]
             ELSE held
  /\ owed' = IF Owed(local.outcome, local.after) > owed
               THEN Owed(local.outcome, local.after) ELSE owed
  /\ since' = IF wait > 0 \/ IsPermanent(local.outcome) THEN 0 ELSE since
  /\ Goes(t, IdleCall)
  /\ UNCHANGED <<age, lock, setBack, kills>>

(* A process dies: its memory and its hold on the lock go.                 *)
Kill(p) ==
  /\ kills < MaxKills
  /\ kills' = kills + 1
  /\ held' = [held EXCEPT ![p] = NotHeld]
  /\ call' = [t \in Task |-> IF Home[t] = p THEN IdleCall ELSE call[t]]
  /\ lock' = IF lock # Nobody /\ Home[lock] = p THEN Nobody ELSE lock
  /\ UNCHANGED <<age, stamp, setBack, owed, since>>

-----------------------------------------------------------------------------
Init ==
  /\ age = NoFile
  /\ stamp = 0
  /\ held = [p \in Process |-> NotHeld]
  /\ lock = Nobody
  /\ call = [t \in Task |-> IdleCall]
  /\ setBack = FALSE
  /\ kills = 0
  /\ owed = 0
  /\ since = 0

Calling(t) == Look(t) \/ Told(t) \/ Ask(t) \/ Answer(t) \/ Settle(t)

Next ==
  \/ Tick \/ SetBack
  \/ \E t \in Task : Check(t) \/ Calling(t) \/ Cancel(t)
  \/ \E p \in Process : Kill(p)

Spec == Init /\ [][Next]_vars

(* Time passes, calls go on, and some caller always comes back.            *)
Fairness ==
  /\ WF_vars(Tick)
  /\ \A t \in Task : WF_vars(Calling(t))
  /\ WF_vars(\E t \in Task : Check(t))

FairSpec == Spec /\ Fairness

-----------------------------------------------------------------------------
(* Properties.                                                             *)

Asks(t) == call[t].at = "ask" /\ call'[t].at = "fetch"

(* No request is sent before the time a recorded refusal gave as the       *)
(* earliest to try again, whichever configuration it is sent under and     *)
(* whatever restarts came between (cooldown.rs: begin, wait_for).          *)
HonoursWait == [][\A t \in Task : Asks(t) => owed = 0]_vars

IsYoung == age # NoFile /\ age < Window

(* No request is sent while the copy on disk is younger than the window: a *)
(* source with a fetch ceiling is fetched once in it (min_interval).       *)
OncePerWindow == [][\A t \in Task : Asks(t) => ~IsYoung]_vars

(* No call is told to wait beyond the ceiling after the last refusal or     *)
(* permanent failure, but for what the clock was set back by: a provider's  *)
(* Retry-After, a memory kept by one process and a stamp shared by all      *)
(* never add up to more (wait_for, suppressed, begin).                      *)
WaitBounded ==
  [][\A t \in Task : call[t].at = "look" /\ call'[t].at = "waiting" =>
       since < Ceiling + (IF setBack THEN Back ELSE 0)]_vars

(* A stale database is asked for again in the end: no refusal, permanent   *)
(* failure, restart or busy lock keeps the callers waiting for ever.       *)
EventuallyAskedAgain ==
  ~IsFresh ~> (IsFresh \/ \E t \in Task : call[t].at = "fetch")
=============================================================================
