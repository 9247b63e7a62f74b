------------------------------ MODULE Acquire ------------------------------
(***************************************************************************)
(* Acquisition as a host sees it: ensure_databases and Table::ensure, each *)
(* call step by step, by several processes over one data directory, from   *)
(* what their configurations select to what they are handed.               *)
(*                                                                         *)
(* A transfer is one step: what happens inside one is Transfer's, how long *)
(* an attempt is held back is Provision's.  Here it may always not happen. *)
(***************************************************************************)
EXTENDS Selection, Sequences

CONSTANTS
  Process,     \* processes of one deployment
  Starts,      \* the configurations they may be started with, [Process -> config]
  Later,       \* those one of them may be started again with
  Body,        \* what publishers may hand out: see BodyType
  Jumps,       \* by how much time passes
  MaxWaits,    \* how often it passes
  MaxRestarts  \* how often a process is started again

(* What the guard and the load ask of a file: its size, the paths that     *)
(* carry text for at least one of the probed addresses, the tables it      *)
(* reads as, and the bytes they cost.                                      *)
Reading == [format : {"csv", "csv headerless", "json"}, schema : STRING, index : STRING]
BodyType == [size : Nat, filled : SUBSET Seq(STRING), reads : SUBSET Reading, cost : Nat]

(* A download: a source's product or what is at a table's URL, its age.    *)
Download ==
  [of : {row.name : row \in Sources} \cup {None} \cup STRING, age : 0 .. Monthly, body : Body]

ASSUME AcquireAssumption ==
  /\ Starts \subseteq [Process -> GeoIpConfig] /\ Later \subseteq GeoIpConfig
  /\ Body \subseteq BodyType
  /\ None \notin Download \cup Int
  /\ Jumps \subseteq Nat /\ MaxWaits \in Nat /\ MaxRestarts \in Nat

(* A host keeps its tables' files apart from the databases'.               *)
ASSUME FilesApart ==
  \A c \in {s[p] : s \in Starts, p \in Process} \cup Later :
    c.source # None => \A row \in Sources : c.source.file # row.file

Asked == Kind \cup {"table"}

VARIABLES
  config,    \* what each process was started with
  call,      \* its call: what it asks for and how far it is, or Idle
  answer,    \* what it was handed last
  fault,     \* the configuration fault its last attempt ended in
  disk,      \* the data directory
  own,       \* history: how long ago a process last downloaded a file
  early,     \* history: one did so sooner than the source allows
  mixed,     \* history: configurations differ, or did
  waits, restarts

vars == <<config, call, answer, fault, disk, own, early, mixed, waits, restarts>>

Configs == {s[p] : s \in Starts, p \in Process} \cup Later
File == {row.file : row \in Sources}
          \cup {c.source.file : c \in {d \in Configs : d.source # None}}

Idle == [what |-> "nothing", step |-> "idle"]
Old == Monthly
Older(age, d) == IF age = None THEN None ELSE IF age + d > Old THEN Old ELSE age + d

-----------------------------------------------------------------------------
(* Guard: what a staged file has to satisfy.                               *)

PathsOf(kind) ==
  IF kind = "city"
    THEN {<<"country", "iso_code">>, <<"registered_country", "iso_code">>, <<"country_code">>}
    ELSE {<<"autonomous_system_organization">>, <<"isp">>, <<"as_name">>}

Populated(body, kind) == PathsOf(kind) \cap body.filled # {}

(* A missing or empty copy leaves nothing to be smaller than.              *)
BigEnough(body, copy, auto) ==
  copy # None => body.size * 100 >= copy.body.size * auto.minSize

(* Table::read_file, which the guard's check runs as well.                 *)
Loads(body, source, auto) ==
  /\ [format |-> source.format, schema |-> source.schema, index |-> source.index] \in body.reads
  /\ body.cost <= auto.ceiling

(* As a guard would that checked a table's encoding and not its schema.    *)
AdmitsByFormat(body, copy, what, c) ==
  /\ BigEnough(body, copy, c.auto)
  /\ what # "table" /\ c.auto.verify => Populated(body, what)
  /\ what = "table" => \E r \in body.reads : r.format = c.source.format

Admits(body, copy, what, c) ==
  /\ BigEnough(body, copy, c.auto)
  /\ what # "table" /\ c.auto.verify => Populated(body, what)
  /\ what = "table" => Loads(body, c.source, c.auto)

-----------------------------------------------------------------------------
Init ==
  /\ config \in Starts
  /\ call = [p \in Process |-> Idle]
  /\ answer = [p \in Process |-> [w \in Asked |-> [status |-> "unasked"]]]
  /\ fault = [p \in Process |-> None]
  /\ disk = [f \in File |-> None]
  /\ own = [p \in Process |-> [f \in File |-> None]]
  /\ early = FALSE
  /\ mixed = \E p, q \in Process : config[p] # config[q]
  /\ waits = 0 /\ restarts = 0

What(p) == call[p].what
Row(p) == Find(config[p].provider[What(p)], What(p))
FileOf(p) == IF What(p) = "table" THEN config[p].source.file ELSE Row(p).file
Copy(p) == disk[FileOf(p)]

(* What a transfer brings: a build of what the publisher has at the        *)
(* address asked for.                                                      *)
Product(p) ==
  IF What(p) = "table" THEN config[p].source.url ELSE Published(UrlOf(Row(p)))

Interval(p) == IF What(p) = "table" THEN 0 ELSE Row(p).interval

Fresh(p) ==
  /\ Copy(p) # None
  /\ Copy(p).age < IF What(p) = "table" THEN config[p].auto.maxAge ELSE Window(Row(p), config[p].auto)

Hand(p, result) == answer' = [answer EXCEPT ![p][What(p)] = result]
Serve(p) ==
  Hand(p, IF Copy(p) = None THEN [status |-> "none"]
          ELSE [status |-> "served", of |-> Copy(p).of, body |-> Copy(p).body])

(* The call goes on to the other database, or returns.                     *)
Return(p) ==
  call' = [call EXCEPT ![p] = IF What(p) = "city" THEN [what |-> "asn", step |-> "check"] ELSE Idle]
Go(p, step) == call' = [call EXCEPT ![p].step = step]

Elsewhere == UNCHANGED <<config, disk, own, early, mixed, waits, restarts>>

(* ensure_databases, and Table::ensure.                                    *)
Begin(p) ==
  /\ call[p] = Idle
  /\ \/ /\ config[p].enabled
        /\ call' = [call EXCEPT ![p] = [what |-> "city", step |-> "check"]]
     \/ /\ config[p].source # None
        /\ call' = [call EXCEPT ![p] = [what |-> "table", step |-> "check"]]
  /\ fault' = [fault EXCEPT ![p] = None]
  /\ UNCHANGED answer /\ Elsewhere

-----------------------------------------------------------------------------
(* resolve, for one kind: the operator's own file, nothing that can be     *)
(* selected, what is there, what is fresh, or an attempt.                  *)

Checking(p) == What(p) \in Kind /\ call[p].step = "check"
Selected(p) == Checking(p) /\ ~config[p].path[What(p)] /\ Row(p) # None

Explicit(p) ==
  /\ Checking(p) /\ config[p].path[What(p)]
  /\ Hand(p, [status |-> "theirs"]) /\ Return(p)
  /\ UNCHANGED fault /\ Elsewhere

Unselected(p) ==
  /\ Checking(p) /\ ~config[p].path[What(p)] /\ Row(p) = None
  /\ Hand(p, [status |-> "none"]) /\ Return(p)
  /\ UNCHANGED fault /\ Elsewhere

AsItIs(p) ==
  /\ Selected(p)
  /\ ~config[p].auto.enabled \/ Fresh(p)
  /\ Serve(p) /\ Return(p)
  /\ UNCHANGED fault /\ Elsewhere

Attempt(p) ==
  /\ Selected(p) /\ config[p].auto.enabled /\ ~Fresh(p)
  /\ Go(p, "ask")
  /\ UNCHANGED <<answer, fault>> /\ Elsewhere

(* The attempt failed or is held back: a stale copy serves.                *)
FallBack(p) ==
  /\ What(p) \in Kind /\ call[p].step = "missed"
  /\ Serve(p) /\ Return(p)
  /\ UNCHANGED fault /\ Elsewhere

-----------------------------------------------------------------------------
(* Table::ensure: its settings are checked here, before the attempt.       *)

CheckTable(p) ==
  LET c == config[p] IN
  /\ What(p) = "table" /\ call[p].step = "check"
  /\ \/ /\ SourceValid(c.source) /\ (~c.auto.enabled \/ Fresh(p))
        /\ Go(p, "read") /\ UNCHANGED answer
     \/ /\ SourceValid(c.source) /\ c.auto.enabled /\ ~Fresh(p)
        /\ SettingsFault(c.auto, c.source.client) = None
        /\ Go(p, "ask") /\ UNCHANGED answer
     \/ /\ \/ ~SourceValid(c.source)
           \/ c.auto.enabled /\ ~Fresh(p) /\ SettingsFault(c.auto, c.source.client) # None
        /\ Hand(p, [status |-> "refused"]) /\ Return(p)
  /\ UNCHANGED fault /\ Elsewhere

FallBackTable(p) ==
  /\ What(p) = "table" /\ call[p].step = "missed"
  /\ IF Copy(p) # None
       THEN Go(p, "read") /\ UNCHANGED answer
       ELSE Hand(p, [status |-> "refused"]) /\ Return(p)
  /\ UNCHANGED fault /\ Elsewhere

(* The load, of whatever is there by now.                                  *)
Read(p) ==
  /\ What(p) = "table" /\ call[p].step = "read"
  /\ IF Copy(p) # None /\ Loads(Copy(p).body, config[p].source, config[p].auto)
       THEN Serve(p) ELSE Hand(p, [status |-> "refused"])
  /\ Return(p)
  /\ UNCHANGED fault /\ Elsewhere

-----------------------------------------------------------------------------
(* attempt and download.                                                   *)

Asking(p) == call[p].step = "ask"
FaultOf(p) == IF What(p) = "table" THEN None ELSE DownloadFault(config[p], What(p))

(* A credential read back from a dump is the redaction, and is rejected.   *)
Accepted(p) ==
  What(p) \in Kind => \A i \in DOMAIN Row(p).credential :
                        config[p].auto.secrets[Row(p).credential[i]] = "set"

(* Held back, refused the request, broken off, or refused by the guard.    *)
Miss(p) ==
  /\ Asking(p)
  /\ fault' = [fault EXCEPT ![p] = FaultOf(p)]
  /\ Go(p, "missed")
  /\ UNCHANGED answer /\ Elsewhere

Fetch(p) ==
  /\ Asking(p) /\ FaultOf(p) = None /\ Accepted(p)
  /\ \E body \in Body :
       /\ Admits(body, Copy(p), What(p), config[p])
       /\ disk' = [disk EXCEPT ![FileOf(p)] = [of |-> Product(p), age |-> 0, body |-> body]]
       /\ IF What(p) = "table"
            THEN Go(p, "read") /\ UNCHANGED answer
            ELSE /\ Hand(p, [status |-> "served", of |-> Product(p), body |-> body])
                 /\ Return(p)
  /\ own' = [own EXCEPT ![p][FileOf(p)] = 0]
  /\ early' = (early \/ (own[p][FileOf(p)] # None /\ own[p][FileOf(p)] < Interval(p)))
  /\ UNCHANGED <<config, fault, mixed, waits, restarts>>

-----------------------------------------------------------------------------
Wait ==
  /\ waits < MaxWaits
  /\ \E d \in Jumps :
       /\ disk' = [f \in File |-> IF disk[f] = None THEN None
                                  ELSE [disk[f] EXCEPT !.age = Older(@, d)]]
       /\ own' = [p \in Process |-> [f \in File |-> Older(own[p][f], d)]]
  /\ waits' = waits + 1
  /\ UNCHANGED <<config, call, answer, fault, early, mixed, restarts>>

(* A process ends anywhere in a call, and is started with its own          *)
(* configuration, with it written out and read again, or with another.     *)
Restart(p) ==
  /\ restarts < MaxRestarts
  /\ \E c \in Later \cup {config[p], Reread(config[p])} :
       /\ config' = [config EXCEPT ![p] = c]
       /\ mixed' = (mixed \/ c # config[p])
  /\ call' = [call EXCEPT ![p] = Idle]
  /\ answer' = [answer EXCEPT ![p] = [w \in Asked |-> [status |-> "unasked"]]]
  /\ fault' = [fault EXCEPT ![p] = None]
  /\ restarts' = restarts + 1
  /\ UNCHANGED <<disk, own, early, waits>>

Next ==
  \/ Wait
  \/ \E p \in Process :
       \/ Begin(p) \/ Explicit(p) \/ Unselected(p) \/ AsItIs(p) \/ Attempt(p) \/ FallBack(p)
       \/ CheckTable(p) \/ FallBackTable(p) \/ Read(p) \/ Miss(p) \/ Fetch(p) \/ Restart(p)

Spec == Init /\ [][Next]_vars

-----------------------------------------------------------------------------
(* Properties.                                                             *)

TypeOK ==
  /\ \A p \in Process :
       /\ config[p].provider \in Choices
       /\ call[p] \in [what : Asked, step : {"check", "ask", "missed", "read"}] \cup {Idle}
       /\ \A w \in Asked :
            answer[p][w].status \in {"unasked", "none", "theirs", "served", "refused"}
       /\ fault[p] \in {None, "InvalidSetting", "UnsupportedTier", "MissingCredential"}
  /\ \A f \in File : disk[f] # None => disk[f].age \in 0..Old /\ disk[f].body \in Body
  /\ own \in [Process -> [File -> 0..Old \cup {None}]]
  /\ early \in BOOLEAN /\ mixed \in BOOLEAN
  /\ waits \in 0..MaxWaits /\ restarts \in 0..MaxRestarts

(* What validate accepts, no attempt finds at fault: a setting, a tier and *)
(* a credential are reported when the configuration is loaded or never.    *)
ValidatedNeverFaults ==
  \A p \in Process : Valid(config[p]) /\ What(p) # "table" => fault[p] = None

(* Whatever other selections have left in the directory, or put there      *)
(* meanwhile, a database handed out is a build of the source its           *)
(* configuration selects for that kind.                                    *)
ServesItsOwnSource ==
  \A p \in Process, kind \in Kind :
    answer[p][kind].status = "served" =>
      answer[p][kind].of = Find(config[p].provider[kind], kind).name

(* The terms a deployment is pointed at are those of everything it serves. *)
TermsCoverWhatIsServed ==
  \A p \in Process, kind \in Kind :
    answer[p][kind].status = "served" =>
      \E row \in SourceTerms(config[p].provider) :
        row.kind = kind /\ row.name = answer[p][kind].of

(* No process downloads a file twice within the interval its source allows,*)
(* however low the age ceiling is set and however often it is started.     *)
PacedByItself == ~early

Answers(p, w, result) ==
  \/ result.status = "theirs"
  \/ /\ result.status = "served"
     /\ w \in Kind /\ config[p].auto.verify => Populated(result.body, w)

(* Where every process has one configuration, what one was answered with   *)
(* no later call of any is refused: a download, a failed one or a race     *)
(* with another never leaves less than was there.                          *)
ServiceKept ==
  [][\A w \in Asked :
       (/\ ~mixed'
        /\ \E q \in Process : Answers(q, w, answer[q][w])
        /\ \A q \in Process : w = "table" =>
             config[q].source # None /\ SettingsFault(config[q].auto, config[q].source.client) = None)
       => \A p \in Process :
            answer'[p][w] # answer[p][w] /\ answer'[p][w].status # "unasked" =>
              Answers(p, w, answer'[p][w])]_vars

(* A restart with the configuration as the process itself wrote it selects *)
(* the sources, and reads tables, as before.                               *)
StatedIsRead ==
  \A p \in Process :
    LET again == Reread(config[p]) IN
    /\ again.provider = config[p].provider
    /\ config[p].source # None => again.source.format = config[p].source.format
=============================================================================
