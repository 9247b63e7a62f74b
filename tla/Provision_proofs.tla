-------------------------- MODULE Provision_proofs --------------------------
(***************************************************************************)
(* The cool-downs of Provision, for any number of tasks and processes, any *)
(* configurations and any lengths of time.                                 *)
(***************************************************************************)
EXTENDS Provision, TLAPS

LEMMA Lengths == Floor \in Nat /\ Ceiling \in Nat /\ Ceiling > 0 /\ Window \in Nat /\ Back \in Nat
BY ProvisionAssumption

LEMMA LeastIs ==
  ASSUME NEW m \in Int, NEW n \in Int
  PROVE  /\ Least(m, n) = m \/ Least(m, n) = n
         /\ Least(m, n) <= m /\ Least(m, n) <= n
         /\ Least(m, n) \in Int
BY DEF Least

LEMMA LessIs == ASSUME NEW n \in Nat PROVE Less(n) \in Nat /\ (n > 0 => Less(n) = n - 1)
BY DEF Less

(* A wait is a length of time within the ceiling, and no stamp is written  *)
(* for less than is owed but where the code records the answer otherwise.  *)
LEMMA StampBounds ==
  ASSUME NEW outcome, NEW after \in Nat
  PROVE  /\ StampOf(outcome, after) \in 0 .. Ceiling
         /\ Owed(outcome, after) \in 0 .. Ceiling
         /\ outcome \notin {"digestLimited", "undecodable"} =>
              Owed(outcome, after) = StampOf(outcome, after)
         /\ outcome = "ok" => Owed(outcome, after) = 0
<1>. DEFINE asked == IF after = 0 THEN Floor ELSE after
<1>1. Floor \in Nat /\ Ceiling \in Nat /\ Floor <= Ceiling
  BY ProvisionAssumption
<1>2. Least(asked, Ceiling) \in 0 .. Ceiling
  BY <1>1 DEF Least
<1>. QED
  BY <1>1, <1>2 DEF StampOf, Owed

-----------------------------------------------------------------------------
(* Type correctness, with the entry that holds nothing told from one that  *)
(* does.                                                                   *)

Entry == [config: Config \cup {Nobody}, left: Nat]

HeldOK == \A p \in Process : held[p] = NotHeld \/ held[p].left > 0

LEMMA InitType == Init => TypeOK
<1>. SUFFICES ASSUME Init PROVE TypeOK
  OBVIOUS
<1>1. NotHeld \in Entry /\ IdleCall \in Call
  BY DEF NotHeld, IdleCall, Entry, Call, Outcome
<1>2. \A t \in Task : call[t].at = "fetch" <=> lock = t
  BY ProvisionAssumption DEF Init, IdleCall
<1>3. kills \in 0 .. MaxKills /\ since \in 0 .. Ceiling + Back
  BY ProvisionAssumption DEF Init
<1>4. held \in [Process -> Entry] /\ call \in [Task -> Call]
  BY <1>1 DEF Init
<1>. QED
  BY <1>2, <1>3, <1>4 DEF Init, TypeOK, Entry

(* A call that goes elsewhere than into a fetch leaves the lock to others, *)
(* and the others where they were.                                         *)
LEMMA GoesType ==
  ASSUME TypeOK, NEW t \in Task, NEW local \in Call, Goes(t, local),
         local.at = "fetch" <=> lock' = t,
         \/ lock' = lock
         \/ lock = t /\ lock' = Nobody
         \/ lock = Nobody /\ lock' = t
  PROVE  /\ call' \in [Task -> Call]
         /\ lock' \in Task \cup {Nobody}
         /\ \A u \in Task : call'[u].at = "fetch" <=> lock' = u
<1>1. call \in [Task -> Call] /\ lock \in Task \cup {Nobody} /\ Nobody \notin Task
  BY ProvisionAssumption DEF TypeOK
<1>2. call' = [call EXCEPT ![t] = local]
  BY DEF Goes
<1>3. ASSUME NEW u \in Task PROVE call'[u].at = "fetch" <=> lock' = u
  <2>1. CASE u = t
    BY <1>1, <1>2, <2>1
  <2>2. CASE u # t
    <3>1. call'[u] = call[u]
      BY <1>1, <1>2, <2>2
    <3>2. call[u].at = "fetch" <=> lock = u
      BY DEF TypeOK
    <3>3. lock = u <=> lock' = u
      BY <1>1, <2>2
    <3>. QED
      BY <3>1, <3>2, <3>3
  <2>. QED
    BY <2>1, <2>2
<1>. QED
  BY <1>1, <1>2, <1>3

LEMMA TickType == ASSUME TypeOK, Tick PROVE TypeOK'
<1>1. age' \in Int \cup {NoFile}
  BY Lengths DEF TypeOK, Tick, Least
<1>2. stamp' \in Nat /\ owed' \in Nat
  BY LessIs DEF TypeOK, Tick
<1>3. held' \in [Process -> Entry]
  <2>1. ASSUME NEW p \in Process, held[p].left > 1
        PROVE  [held[p] EXCEPT !.left = @ - 1] \in Entry
    BY <2>1 DEF TypeOK, Entry
  <2>2. NotHeld \in Entry
    BY DEF NotHeld, Entry
  <2>3. \A p \in Process : held[p].left \in Nat
    BY DEF TypeOK
  <2>. QED
    BY <2>1, <2>2, <2>3 DEF Tick
<1>4. since' \in 0 .. Ceiling + Back
  BY Lengths DEF TypeOK, Tick, Least
<1>. QED
  BY <1>1, <1>2, <1>3, <1>4 DEF TypeOK, Tick, Entry

LEMMA SetBackType == ASSUME TypeOK, SetBack PROVE TypeOK'
<1>1. age' \in Int \cup {NoFile} /\ stamp' \in Nat
  BY Lengths DEF TypeOK, SetBack
<1>2. held' \in [Process -> Entry]
  <2>1. ASSUME NEW p \in Process PROVE [held[p] EXCEPT !.left = @ + Back] \in Entry
    BY Lengths DEF TypeOK, Entry
  <2>2. NotHeld \in Entry
    BY DEF NotHeld, Entry
  <2>. QED
    BY <2>1, <2>2 DEF SetBack
<1>. QED
  BY <1>1, <1>2 DEF TypeOK, SetBack, Entry

LEMMA CheckType == ASSUME TypeOK, NEW t \in Task, Check(t) PROVE TypeOK'
<1>1. PICK config \in Config : Goes(t, [IdleCall EXCEPT !.at = "look", !.config = config])
  BY DEF Check
<1>. DEFINE local == [IdleCall EXCEPT !.at = "look", !.config = config]
<1>2. local \in Call /\ local.at # "fetch"
  BY DEF IdleCall, Call, Outcome
<1>3. lock # t
  BY DEF TypeOK, Check
<1>. QED
  BY <1>1, <1>2, <1>3, GoesType DEF TypeOK, Check

LEMMA LookType == ASSUME TypeOK, NEW t \in Task, Look(t) PROVE TypeOK'
<1>. DEFINE local == [call[t] EXCEPT !.at = IF Waits(t) THEN "waiting" ELSE "ask"]
<1>1. local \in Call /\ local.at # "fetch"
  BY DEF TypeOK, Call
<1>2. lock # t
  BY DEF TypeOK, Look
<1>3. held' \in [Process -> Entry]
  <2>1. NotHeld \in Entry
    BY DEF NotHeld, Entry
  <2>. QED
    BY <2>1 DEF TypeOK, Look, Entry
<1>. QED
  BY <1>1, <1>2, <1>3, GoesType DEF TypeOK, Look, Entry

LEMMA IdleIsCall == IdleCall \in Call /\ IdleCall.at # "fetch"
BY DEF IdleCall, Call, Outcome

LEMMA ToldType == ASSUME TypeOK, NEW t \in Task, Told(t) PROVE TypeOK'
<1>1. lock # t
  BY DEF TypeOK, Told
<1>. QED
  BY <1>1, IdleIsCall, GoesType DEF TypeOK, Told

LEMMA AskType == ASSUME TypeOK, NEW t \in Task, Ask(t) PROVE TypeOK'
<1>1. lock # t /\ Nobody # t
  BY ProvisionAssumption DEF TypeOK, Ask
<1>2. ASSUME NEW outcome \in {"permanent", "busy"}
      PROVE  [call[t] EXCEPT !.at = "settle", !.outcome = outcome] \in Call
  BY <1>2 DEF TypeOK, Call, Outcome
<1>3. [call[t] EXCEPT !.at = "fetch"] \in Call /\ [call[t] EXCEPT !.at = "fetch"].at = "fetch"
  BY DEF TypeOK, Call
<1>4. \A outcome \in {"permanent", "busy"} :
        [call[t] EXCEPT !.at = "settle", !.outcome = outcome].at = "settle"
  BY DEF TypeOK, Call
<1>5. CASE Goes(t, [call[t] EXCEPT !.at = "settle", !.outcome = "permanent"]) /\ UNCHANGED lock
  BY <1>1, <1>2, <1>4, <1>5, GoesType DEF TypeOK, Ask
<1>6. CASE Goes(t, [call[t] EXCEPT !.at = "settle", !.outcome = "busy"]) /\ UNCHANGED lock
  BY <1>1, <1>2, <1>4, <1>6, GoesType DEF TypeOK, Ask
<1>7. CASE lock = Nobody /\ lock' = t /\ Goes(t, [call[t] EXCEPT !.at = "fetch"])
  BY <1>3, <1>7, GoesType DEF TypeOK, Ask
<1>. QED
  BY <1>5, <1>6, <1>7 DEF Ask

LEMMA AnswerType == ASSUME TypeOK, NEW t \in Task, Answer(t) PROVE TypeOK'
<1>1. PICK outcome \in Outcomes :
        /\ \E after \in IF outcome \in {"limited", "digestLimited"} THEN RetryAfter ELSE {0} :
             Goes(t, [call[t] EXCEPT !.at = "settle", !.outcome = outcome, !.after = after])
        /\ age' = IF outcome = "ok" THEN 0 ELSE age
  BY DEF Answer
<1>2. PICK after \in IF outcome \in {"limited", "digestLimited"} THEN RetryAfter ELSE {0} :
        Goes(t, [call[t] EXCEPT !.at = "settle", !.outcome = outcome, !.after = after])
  BY <1>1
<1>. DEFINE local == [call[t] EXCEPT !.at = "settle", !.outcome = outcome, !.after = after]
<1>3. after \in Nat /\ outcome \in Outcome
  BY <1>1, <1>2, ProvisionAssumption
<1>4. local \in Call /\ local.at # "fetch"
  BY <1>3 DEF TypeOK, Call
<1>5. lock = t /\ lock' = Nobody /\ Nobody # t
  BY ProvisionAssumption DEF TypeOK, Answer
<1>6. age' \in Int \cup {NoFile}
  BY <1>1 DEF TypeOK
<1>7. /\ call' \in [Task -> Call]
      /\ lock' \in Task \cup {Nobody}
      /\ \A u \in Task : call'[u].at = "fetch" <=> lock' = u
  <2>. HIDE DEF local
  <2>. QED
    BY <1>2, <1>4, <1>5, GoesType DEF local
<1>. QED
  BY <1>6, <1>7 DEF TypeOK, Answer

LEMMA CancelType == ASSUME TypeOK, NEW t \in Task, Cancel(t) PROVE TypeOK'
<1>1. lock = t /\ lock' = Nobody /\ Nobody # t
  BY ProvisionAssumption DEF TypeOK, Cancel
<1>. QED
  BY <1>1, IdleIsCall, GoesType DEF TypeOK, Cancel

LEMMA SettleType == ASSUME TypeOK, NEW t \in Task, Settle(t) PROVE TypeOK'
<1>1. lock # t
  BY DEF TypeOK, Settle
<1>2. call[t].after \in Nat /\ call[t].config \in Config \cup {Nobody}
  BY DEF TypeOK, Call
<1>. DEFINE wait == StampOf(call[t].outcome, call[t].after)
            due == Owed(call[t].outcome, call[t].after)
<1>3. wait \in Nat /\ due \in Nat
  BY <1>2, StampBounds, Lengths
<1>4. stamp' \in Nat /\ owed' \in Nat /\ since' \in 0 .. Ceiling + Back
  <2>. HIDE DEF wait, due
  <2>1. /\ stamp' \in {0, wait, stamp}
        /\ owed' \in {due, owed}
        /\ since' \in {0, since}
    BY DEF Settle, wait, due
  <2>. QED
    BY <1>3, <2>1, Lengths DEF TypeOK
<1>5. held' \in [Process -> Entry]
  <2>1. NotHeld \in Entry /\ [config |-> call[t].config, left |-> Ceiling] \in Entry
    BY <1>2, Lengths DEF NotHeld, Entry
  <2>2. \E entry \in Entry : held' = held \/ held' = [held EXCEPT ![Home[t]] = entry]
    BY <2>1 DEF Settle
  <2>. QED
    BY <2>2 DEF TypeOK, Entry
<1>. QED
  BY <1>1, <1>4, <1>5, IdleIsCall, GoesType DEF TypeOK, Settle, Entry

LEMMA KillType == ASSUME TypeOK, NEW p \in Process, Kill(p) PROVE TypeOK'
<1>1. held' \in [Process -> Entry]
  <2>1. NotHeld \in Entry
    BY DEF NotHeld, Entry
  <2>. QED
    BY <2>1 DEF TypeOK, Kill, Entry
<1>2. kills' \in 0 .. MaxKills
  BY ProvisionAssumption DEF TypeOK, Kill
<1>3. lock' \in Task \cup {Nobody} /\ call' \in [Task -> Call]
  BY IdleIsCall DEF TypeOK, Kill
<1>4. ASSUME NEW t \in Task PROVE call'[t].at = "fetch" <=> lock' = t
  <2>0. Nobody # t /\ (call[t].at = "fetch" <=> lock = t)
    BY ProvisionAssumption DEF TypeOK
  <2>1. CASE Home[t] = p
    BY <2>0, <2>1, IdleIsCall DEF Kill
  <2>2. CASE Home[t] # p
    BY <2>0, <2>2 DEF Kill
  <2>. QED
    BY <2>1, <2>2
<1>. QED
  BY <1>1, <1>2, <1>3, <1>4 DEF TypeOK, Kill, Entry

LEMMA StepType == ASSUME TypeOK, [Next]_vars PROVE TypeOK'
<1>1. CASE UNCHANGED vars
  BY <1>1 DEF TypeOK, vars
<1>2. CASE Next
  BY <1>2, TickType, SetBackType, CheckType, LookType, ToldType, AskType, AnswerType,
     SettleType, CancelType, KillType DEF Next, Calling
<1>. QED
  BY <1>1, <1>2

(* Every variable keeps its type, a transfer under way holds the lock, and *)
(* two calls never fetch at once, in any number of processes and through   *)
(* cancellations and deaths.                                               *)
THEOREM TypeCorrect == Spec => []TypeOK
BY InitType, StepType, PTL DEF Spec

-----------------------------------------------------------------------------
(* What a call may be told to wait: a stamp and an entry end within the    *)
(* ceiling of the last one recorded, but for the hours the clock was set   *)
(* back by, which lengthen both.                                           *)

Allowance == Ceiling + (IF setBack THEN Back ELSE 0)

WaitInv ==
  /\ stamp > 0 => stamp + since <= Allowance
  /\ \A p \in Process : held[p] = NotHeld \/ (held[p].left > 0 /\ held[p].left + since <= Allowance)

LEMMA InitWait == Init => WaitInv
BY DEF Init, WaitInv

LEMMA NothingHeld == NotHeld.left = 0
BY DEF NotHeld

(* As one tick takes from what is left, it adds no more to what has been.  *)
LEMMA Elapsed ==
  ASSUME NEW left \in Int, NEW passed \in Int, NEW after \in Int, NEW bound \in Int,
         left + passed <= bound, after <= passed + 1
  PROVE  (left - 1) + after <= bound
OBVIOUS

LEMMA TickWait == ASSUME TypeOK, WaitInv, Tick PROVE WaitInv'
<1>1. since' <= since + 1 /\ Allowance' = Allowance /\ since \in Nat /\ since' \in Nat
  <2>1. since' = Least(since + 1, Ceiling + Back) /\ setBack' = setBack
    BY DEF Tick
  <2>2. since \in Nat /\ since + 1 \in Int /\ Ceiling + Back \in Nat
    BY Lengths DEF TypeOK
  <2>. QED
    BY <2>1, <2>2 DEF Least, Allowance
<1>2. Allowance \in Nat
  BY Lengths DEF Allowance
<1>3. stamp' > 0 => stamp' + since' <= Allowance'
  <2>1. stamp \in Nat /\ stamp' = Less(stamp)
    BY DEF TypeOK, Tick
  <2>2. \/ stamp = 0 /\ stamp' = 0
        \/ stamp > 0 /\ stamp' = stamp - 1
    BY <2>1 DEF Less
  <2>3. stamp > 0 => stamp + since <= Allowance
    BY DEF WaitInv
  <2>. QED
    BY <1>1, <1>2, <2>1, <2>2, <2>3, Elapsed
<1>4. ASSUME NEW p \in Process
      PROVE  \/ held'[p] = NotHeld
             \/ held'[p].left > 0 /\ held'[p].left + since' <= Allowance'
  <2>1. CASE held[p].left <= 1
    BY <2>1 DEF Tick
  <2>2. CASE ~(held[p].left <= 1)
    <3>1. held'[p] = [held[p] EXCEPT !.left = @ - 1] /\ held[p] \in Entry
      BY <2>2 DEF Tick, TypeOK, Entry
    <3>2. held'[p].left = held[p].left - 1 /\ held[p].left \in Nat
      BY <3>1 DEF Entry
    <3>3. held[p].left + since <= Allowance
      BY <2>2, NothingHeld DEF WaitInv
    <3>. QED
      BY <2>2, <3>2, <3>3, <1>1, <1>2
  <2>. QED
    BY <2>1, <2>2
<1>. QED
  BY <1>3, <1>4 DEF WaitInv

LEMMA SetBackWait == ASSUME TypeOK, WaitInv, SetBack PROVE WaitInv'
<1>1. Allowance' = Allowance + Back /\ Allowance \in Nat /\ Back \in Nat /\ since \in Nat
  BY Lengths DEF TypeOK, SetBack, Allowance
<1>2. stamp' > 0 => stamp' + since' <= Allowance'
  BY <1>1 DEF TypeOK, WaitInv, SetBack
<1>3. ASSUME NEW p \in Process
      PROVE  \/ held'[p] = NotHeld
             \/ held'[p].left > 0 /\ held'[p].left + since' <= Allowance'
  <2>1. CASE held[p] = NotHeld
    BY <2>1 DEF SetBack
  <2>2. CASE held[p] # NotHeld
    <3>1. held'[p] = [held[p] EXCEPT !.left = @ + Back] /\ held[p] \in Entry
      BY <2>2 DEF SetBack, TypeOK, Entry
    <3>2. held'[p].left = held[p].left + Back /\ held[p].left \in Nat
      BY <3>1 DEF Entry
    <3>. QED
      BY <1>1, <2>2, <3>2 DEF WaitInv, SetBack
  <2>. QED
    BY <2>1, <2>2
<1>. QED
  BY <1>2, <1>3 DEF WaitInv

LEMMA SettleWait == ASSUME TypeOK, WaitInv, NEW t \in Task, Settle(t) PROVE WaitInv'
<1>. DEFINE wait == StampOf(call[t].outcome, call[t].after)
<1>1. wait \in 0 .. Ceiling
  BY StampBounds DEF TypeOK, Call
<1>2. Allowance' = Allowance /\ Allowance \in Nat /\ Ceiling <= Allowance /\ Ceiling \in Nat
  BY Lengths DEF Settle, Allowance
<1>3. since \in Nat /\ since' \in {0, since}
  BY Lengths DEF TypeOK, Settle
<1>4. stamp' > 0 => stamp' + since' <= Allowance'
  <2>. HIDE DEF wait
  <2>1. \/ stamp' = 0
        \/ wait > 0 /\ stamp' = wait /\ since' = 0
        \/ stamp' = stamp
    BY DEF Settle, wait
  <2>. QED
    BY <1>1, <1>2, <1>3, <2>1 DEF TypeOK, WaitInv
<1>5. ASSUME NEW p \in Process
      PROVE  \/ held'[p] = NotHeld
             \/ held'[p].left > 0 /\ held'[p].left + since' <= Allowance'
  <2>1. \/ held'[p] = NotHeld
        \/ held'[p] = held[p]
        \/ IsPermanent(call[t].outcome)
             /\ held'[p] = [config |-> call[t].config, left |-> Ceiling]
    BY DEF TypeOK, Settle
  <2>2. held[p].left \in Nat
    BY DEF TypeOK
  <2>3. IsPermanent(call[t].outcome) => since' = 0
    BY DEF Settle
  <2>4. CASE held'[p] = held[p]
    BY <1>2, <1>3, <2>2, <2>4 DEF WaitInv
  <2>5. CASE IsPermanent(call[t].outcome)
             /\ held'[p] = [config |-> call[t].config, left |-> Ceiling]
    BY <1>2, <2>3, <2>5, Lengths
  <2>. QED
    BY <2>1, <2>4, <2>5
<1>. QED
  BY <1>4, <1>5 DEF WaitInv

(* A step that records nothing at most drops entries.                      *)
LEMMA QuietWait ==
  ASSUME WaitInv, stamp' = stamp, since' = since, setBack' = setBack,
         \A p \in Process : held'[p] \in {held[p], NotHeld}
  PROVE  WaitInv'
BY DEF WaitInv, Allowance

LEMMA LookWait == ASSUME TypeOK, WaitInv, NEW t \in Task, Look(t) PROVE WaitInv'
<1>1. \A p \in Process : held'[p] \in {held[p], NotHeld}
  BY DEF TypeOK, Look
<1>. QED
  BY <1>1, QuietWait DEF Look

LEMMA KillWait == ASSUME TypeOK, WaitInv, NEW p \in Process, Kill(p) PROVE WaitInv'
<1>1. \A q \in Process : held'[q] \in {held[q], NotHeld}
  BY DEF TypeOK, Kill
<1>. QED
  BY <1>1, QuietWait DEF Kill

LEMMA StepWait == ASSUME TypeOK, WaitInv, [Next]_vars PROVE WaitInv'
<1>1. ASSUME UNCHANGED <<stamp, held, since, setBack>> PROVE WaitInv'
  BY <1>1, QuietWait
<1>2. CASE UNCHANGED vars
  BY <1>1, <1>2 DEF vars
<1>3. CASE Tick
  BY <1>3, TickWait
<1>4. CASE SetBack
  BY <1>4, SetBackWait
<1>5. ASSUME NEW t \in Task, Check(t) \/ Told(t) \/ Ask(t) \/ Answer(t) \/ Cancel(t)
      PROVE  WaitInv'
  BY <1>1, <1>5 DEF Check, Told, Ask, Answer, Cancel
<1>6. ASSUME NEW t \in Task, Look(t) PROVE WaitInv'
  BY <1>6, LookWait
<1>7. ASSUME NEW t \in Task, Settle(t) PROVE WaitInv'
  BY <1>7, SettleWait
<1>8. ASSUME NEW p \in Process, Kill(p) PROVE WaitInv'
  BY <1>8, KillWait
<1>. QED
  BY <1>2, <1>3, <1>4, <1>5, <1>6, <1>7, <1>8 DEF Next, Calling

(* Where a call goes: only Look ends in a wait, only Check starts a look.  *)
LEMMA Where ==
  ASSUME TypeOK, [Next]_vars, NEW t \in Task
  PROVE  /\ call[t].at = "look" /\ call'[t].at = "waiting" => Look(t) /\ Waits(t)
         /\ call[t].at = "ask" /\ call'[t].at = "fetch" => Ask(t)
<1>1. ASSUME NEW u \in Task, NEW local, Goes(u, local), u # t PROVE call'[t] = call[t]
  BY <1>1 DEF TypeOK, Goes
<1>2. ASSUME NEW local, Goes(t, local) PROVE call'[t] = local
  BY <1>2 DEF TypeOK, Goes
<1>3. CASE UNCHANGED call
  BY <1>3
<1>4. ASSUME NEW u \in Task, Check(u) \/ Told(u) \/ Answer(u) \/ Settle(u) \/ Cancel(u),
             call[t].at \in {"look", "ask"}
      PROVE  call'[t].at \notin {"waiting", "fetch"}
  <2>1. u = t => Check(u) \/ call[t].at \notin {"look", "ask"}
    BY <1>4 DEF Told, Answer, Settle, Cancel
  <2>2. ~(Check(u) /\ u = t)
    BY <1>4 DEF Check
  <2>3. u # t
    BY <1>4, <2>1, <2>2
  <2>4. \E local : Goes(u, local)
    BY <1>4 DEF Check, Told, Answer, Settle, Cancel
  <2>. QED
    BY <1>1, <1>4, <2>3, <2>4
<1>5. ASSUME NEW u \in Task, Look(u), call[t].at \in {"look", "ask"}
      PROVE  /\ call'[t].at # "fetch"
             /\ call'[t].at = "waiting" => u = t /\ Waits(t)
  <2>1. CASE u = t
    BY <1>2, <1>5, <2>1 DEF Look, TypeOK, Call
  <2>2. CASE u # t
    BY <1>1, <1>5, <2>2 DEF Look
  <2>. QED
    BY <2>1, <2>2
<1>6. ASSUME NEW u \in Task, Ask(u), call[t].at \in {"look", "ask"}
      PROVE  /\ call'[t].at # "waiting"
             /\ call'[t].at = "fetch" => u = t
  <2>1. CASE u = t
    BY <1>2, <1>6, <2>1 DEF Ask, TypeOK, Call
  <2>2. CASE u # t
    <3>1. \E local : Goes(u, local)
      BY <1>6 DEF Ask
    <3>. QED
      BY <1>1, <1>6, <2>2, <3>1
  <2>. QED
    BY <2>1, <2>2
<1>7. ASSUME NEW p \in Process, Kill(p) PROVE call'[t] \in {call[t], IdleCall}
  BY <1>7 DEF Kill
<1>8. IdleCall.at = "idle"
  BY DEF IdleCall
<1>. QED
  BY <1>3, <1>4, <1>5, <1>6, <1>7, <1>8 DEF Next, Calling, Tick, SetBack, vars

(* No call is told to wait beyond the ceiling after the last refusal or     *)
(* permanent failure, but for what the clock was set back by, however many *)
(* calls and processes share the stamp and the memories.                   *)
THEOREM WaitsAreBounded == Spec => WaitBounded
<1>1. TypeOK /\ WaitInv /\ [Next]_vars =>
        [\A t \in Task : call[t].at = "look" /\ call'[t].at = "waiting" =>
           since < Ceiling + (IF setBack THEN Back ELSE 0)]_vars
  <2>. SUFFICES ASSUME TypeOK, WaitInv, [Next]_vars, NEW t \in Task,
                       call[t].at = "look", call'[t].at = "waiting"
                PROVE  since < Allowance
    BY DEF Allowance
  <2>1. Waits(t)
    BY Where
  <2>2. since \in Nat /\ Allowance \in Nat /\ stamp \in Nat /\ held[Home[t]].left \in Nat
        /\ Home[t] \in Process
    BY ProvisionAssumption, Lengths DEF TypeOK, Allowance
  <2>3. CASE held[Home[t]].left > 0
    BY <2>2, <2>3, NothingHeld DEF WaitInv
  <2>4. CASE Least(stamp, Ceiling) > 0
    BY <2>2, <2>4, Lengths, LeastIs DEF WaitInv
  <2>. QED
    BY <2>1, <2>3, <2>4 DEF Waits, HeldBack, Suppression
<1>. QED
  BY <1>1, InitType, InitWait, StepType, StepWait, PTL DEF Spec, WaitBounded

-----------------------------------------------------------------------------
(* One caller: what it found when it looked still holds when it asks.      *)

(* Its wait is over, and it owes none until its answer is settled.         *)
OwedInv ==
  /\ owed <= stamp
  /\ \A t \in Task : call[t].at \in {"ask", "fetch", "settle"} => owed = 0

(* The answers that are recorded as what they are.                         *)
Recorded == Outcomes \cap {"digestLimited", "undecodable"} = {}

RecordedInv == \A t \in Task : call[t].outcome \notin {"digestLimited", "undecodable"}

LEMMA RecordedStep ==
  ASSUME Recorded, TypeOK, RecordedInv, [Next]_vars PROVE RecordedInv'
<1>. SUFFICES ASSUME NEW t \in Task PROVE call'[t].outcome \notin {"digestLimited", "undecodable"}
  BY DEF RecordedInv
<1>. DEFINE Good == {"ok", "refused", "limited", "permanent", "failed", "busy"}
<1>1. call[t].outcome \in Good /\ call[t] \in Call
  BY DEF RecordedInv, TypeOK, Call, Outcome
<1>2. IdleCall.outcome \in Good
  BY DEF IdleCall
<1>3. ASSUME NEW u \in Task, NEW local, Goes(u, local), u = t => local.outcome \in Good
      PROVE  call'[t].outcome \in Good
  BY <1>1, <1>3 DEF TypeOK, Goes
<1>4. ASSUME NEW u \in Task, Check(u) PROVE call'[t].outcome \in Good
  <2>1. \A config \in Config :
          [IdleCall EXCEPT !.at = "look", !.config = config].outcome \in Good
    BY DEF IdleCall
  <2>. QED
    BY <1>3, <1>4, <2>1 DEF Check
<1>5. ASSUME NEW u \in Task, Look(u) PROVE call'[t].outcome \in Good
  <2>1. [call[t] EXCEPT !.at = IF Waits(t) THEN "waiting" ELSE "ask"].outcome \in Good
    BY <1>1 DEF Call
  <2>. QED
    BY <1>3, <1>5, <2>1 DEF Look
<1>6. ASSUME NEW u \in Task, Told(u) \/ Settle(u) \/ Cancel(u) PROVE call'[t].outcome \in Good
  BY <1>2, <1>3, <1>6 DEF Told, Settle, Cancel
<1>7. ASSUME NEW u \in Task, Ask(u) PROVE call'[t].outcome \in Good
  <2>1. /\ [call[t] EXCEPT !.at = "fetch"].outcome \in Good
        /\ [call[t] EXCEPT !.at = "settle", !.outcome = "permanent"].outcome \in Good
        /\ [call[t] EXCEPT !.at = "settle", !.outcome = "busy"].outcome \in Good
    BY <1>1 DEF Call
  <2>. QED
    BY <1>3, <1>7, <2>1 DEF Ask
<1>8. ASSUME NEW u \in Task, Answer(u) PROVE call'[t].outcome \in Good
  <2>1. PICK outcome \in Outcomes :
          \E after \in IF outcome \in {"limited", "digestLimited"} THEN RetryAfter ELSE {0} :
            Goes(u, [call[u] EXCEPT !.at = "settle", !.outcome = outcome, !.after = after])
    BY <1>8 DEF Answer
  <2>2. outcome \in Good
    BY ProvisionAssumption DEF Recorded, Outcome
  <2>3. \A after :
          [call[t] EXCEPT !.at = "settle", !.outcome = outcome, !.after = after].outcome \in Good
    BY <1>1, <2>2 DEF Call
  <2>. QED
    BY <1>3, <2>1, <2>3
<1>9. ASSUME NEW p \in Process, Kill(p) PROVE call'[t].outcome \in Good
  BY <1>1, <1>2, <1>9 DEF Kill
<1>10. CASE UNCHANGED call
  BY <1>1, <1>10
<1>. QED
  BY <1>4, <1>5, <1>6, <1>7, <1>8, <1>9, <1>10 DEF Next, Calling, Tick, SetBack, vars

LEMMA OwedStep ==
  ASSUME NEW caller \in Task, Task = {caller}, Back = 0,
         TypeOK, RecordedInv, OwedInv, [Next]_vars
  PROVE  OwedInv'
<1>. DEFINE Busy(at) == at \in {"ask", "fetch", "settle"}
<1>1. owed \in Nat /\ stamp \in Nat /\ call[caller] \in Call
  BY DEF TypeOK
<1>2. SUFFICES owed' <= stamp' /\ (Busy(call'[caller].at) => owed' = 0)
  BY DEF OwedInv
<1>3. owed <= stamp /\ (Busy(call[caller].at) => owed = 0)
  BY DEF OwedInv
<1>4. ASSUME NEW local, Goes(caller, local) PROVE call'[caller] = local
  BY <1>4 DEF TypeOK, Goes
<1>5. ~Busy(IdleCall.at)
  BY DEF IdleCall
<1>6. CASE UNCHANGED vars
  BY <1>3, <1>6 DEF vars
<1>7. CASE Tick
  BY <1>1, <1>3, <1>7 DEF Tick, Less
<1>8. CASE SetBack
  BY <1>8 DEF SetBack
<1>9. CASE Check(caller)
  <2>1. \A config : [IdleCall EXCEPT !.at = "look", !.config = config].at = "look"
    BY DEF IdleCall
  <2>. QED
    BY <1>3, <1>4, <1>9, <2>1 DEF Check
<1>10. CASE Look(caller)
  <2>1. call'[caller].at = IF Waits(caller) THEN "waiting" ELSE "ask"
    BY <1>1, <1>4, <1>10 DEF Look, Call
  <2>2. ~Waits(caller) => stamp = 0
    BY <1>1, Lengths DEF Waits, Least
  <2>. QED
    BY <1>1, <1>3, <1>10, <2>1, <2>2 DEF Look
<1>11. CASE Told(caller) \/ Cancel(caller)
  BY <1>3, <1>4, <1>5, <1>11 DEF Told, Cancel
<1>12. CASE Ask(caller) \/ Answer(caller)
  <2>1. Busy(call[caller].at)
    BY <1>12 DEF Ask, Answer
  <2>. QED
    BY <1>3, <1>12, <2>1 DEF Ask, Answer
<1>13. CASE Settle(caller)
  <2>. DEFINE wait == StampOf(call[caller].outcome, call[caller].after)
              due == Owed(call[caller].outcome, call[caller].after)
  <2>1. due = wait /\ wait \in Nat /\ (call[caller].outcome = "ok" => due = 0)
    BY <1>1, StampBounds, Lengths DEF RecordedInv, Call
  <2>2. owed = 0
    BY <1>3, <1>13 DEF Settle
  <2>. HIDE DEF wait, due
  <2>3. /\ owed' = IF due > owed THEN due ELSE owed
        /\ \/ call[caller].outcome = "ok" /\ stamp' = 0
           \/ wait > 0 /\ stamp' = wait
           \/ ~(wait > 0) /\ stamp' = stamp
    BY <1>13 DEF Settle, wait, due
  <2>4. owed' <= stamp'
    BY <1>1, <2>1, <2>2, <2>3
  <2>. QED
    BY <1>4, <1>5, <1>13, <2>4 DEF Settle
<1>14. ASSUME NEW p \in Process, Kill(p) PROVE owed' <= stamp' /\ (Busy(call'[caller].at) => owed' = 0)
  BY <1>3, <1>5, <1>14 DEF Kill
<1>. QED
  BY <1>6, <1>7, <1>8, <1>9, <1>10, <1>11, <1>12, <1>13, <1>14 DEF Next, Calling

(* A caller alone on its database, under a clock that is not set back,     *)
(* sends no request before the time the last refusal gave, through any     *)
(* number of restarts and whatever configuration each request is sent      *)
(* under.  (With others the wait is read before the lock is taken, and two *)
(* kinds of answer are not recorded: both are model-checked and findings.) *)
THEOREM AloneHonoursWait ==
  ASSUME NEW caller, Task = {caller}, Back = 0, Recorded
  PROVE  Spec => HonoursWait
<1>1. Init => RecordedInv /\ OwedInv
  BY DEF Init, RecordedInv, OwedInv, IdleCall
<1>2. TypeOK /\ RecordedInv /\ OwedInv /\ [Next]_vars => RecordedInv' /\ OwedInv'
  BY RecordedStep, OwedStep
<1>3. OwedInv /\ [Next]_vars => [\A t \in Task : Asks(t) => owed = 0]_vars
  BY DEF OwedInv, Asks
<1>. QED
  BY <1>1, <1>2, <1>3, InitType, StepType, PTL DEF Spec, HonoursWait

-----------------------------------------------------------------------------
(* The same of the copy it has: nobody else replaces it.                   *)

YoungInv ==
  /\ age # NoFile => age \in Nat
  /\ \A t \in Task : call[t].at \in {"look", "ask"} => ~IsYoung

LEMMA YoungStep ==
  ASSUME NEW caller \in Task, Task = {caller}, Back = 0, TypeOK, YoungInv, [Next]_vars
  PROVE  YoungInv'
<1>. DEFINE Asking(at) == at \in {"look", "ask"}
<1>1. SUFFICES (age' # NoFile => age' \in Nat) /\ (Asking(call'[caller].at) => ~IsYoung')
  BY DEF YoungInv
<1>2. (age # NoFile => age \in Nat) /\ (Asking(call[caller].at) => ~IsYoung)
  BY DEF YoungInv
<1>3. call[caller] \in Call
  BY DEF TypeOK
<1>4. ASSUME NEW local, Goes(caller, local) PROVE call'[caller] = local
  BY <1>4 DEF TypeOK, Goes
<1>5. ~Asking(IdleCall.at)
  BY DEF IdleCall
<1>6. CASE UNCHANGED vars
  BY <1>2, <1>6 DEF vars, IsYoung
<1>7. CASE Tick
  <2>1. CASE age = NoFile
    BY <1>2, <1>7, <2>1 DEF Tick, IsYoung
  <2>2. CASE age # NoFile
    <3>1. age \in Nat /\ age' = Least(age + 1, Window)
      BY <1>2, <1>7, <2>2 DEF Tick
    <3>2. age' \in Nat /\ (age >= Window => age' >= Window)
      BY <3>1, Lengths DEF Least
    <3>. QED
      BY <1>2, <1>7, <2>2, <3>1, <3>2, Lengths DEF Tick, IsYoung
  <2>. QED
    BY <2>1, <2>2
<1>8. CASE SetBack
  BY <1>8 DEF SetBack
<1>9. CASE Check(caller)
  BY <1>2, <1>9 DEF Check, IsFresh, IsYoung
<1>10. CASE Look(caller)
  BY <1>2, <1>10 DEF Look, IsYoung
<1>11. CASE Told(caller) \/ Cancel(caller) \/ Settle(caller)
  BY <1>2, <1>4, <1>5, <1>11 DEF Told, Cancel, Settle
<1>12. CASE Ask(caller)
  <2>1. Asking(call[caller].at)
    BY <1>12 DEF Ask
  <2>. QED
    BY <1>2, <1>12, <2>1 DEF Ask, IsYoung
<1>13. CASE Answer(caller)
  <2>1. call'[caller].at = "settle"
    <3>1. \A outcome, after :
            [call[caller] EXCEPT !.at = "settle", !.outcome = outcome, !.after = after].at = "settle"
      BY <1>3 DEF Call
    <3>2. \E outcome, after :
            Goes(caller, [call[caller] EXCEPT !.at = "settle", !.outcome = outcome,
                                              !.after = after])
      BY <1>13 DEF Answer
    <3>. QED
      BY <1>4, <3>1, <3>2
  <2>2. age' \in {0, age}
    BY <1>13 DEF Answer
  <2>. QED
    BY <1>2, <2>1, <2>2
<1>14. ASSUME NEW p \in Process, Kill(p)
       PROVE  (age' # NoFile => age' \in Nat) /\ (Asking(call'[caller].at) => ~IsYoung')
  BY <1>2, <1>5, <1>14 DEF Kill, IsYoung
<1>. QED
  BY <1>6, <1>7, <1>8, <1>9, <1>10, <1>11, <1>12, <1>13, <1>14 DEF Next, Calling

(* A caller alone on its database, under a clock that is not set back,     *)
(* fetches a source with a ceiling on fetches at most once in its window,  *)
(* through any number of restarts, refusals and changes of configuration.  *)
THEOREM AloneOncePerWindow ==
  ASSUME NEW caller, Task = {caller}, Back = 0
  PROVE  Spec => OncePerWindow
<1>1. Init => YoungInv
  BY DEF Init, YoungInv, IdleCall
<1>2. TypeOK /\ YoungInv /\ [Next]_vars => YoungInv'
  BY YoungStep
<1>3. YoungInv /\ [Next]_vars => [\A t \in Task : Asks(t) => ~IsYoung]_vars
  BY DEF YoungInv, Asks
<1>. QED
  BY <1>1, <1>2, <1>3, InitType, StepType, PTL DEF Spec, OncePerWindow
=============================================================================
