------------------------------ MODULE Transfer ------------------------------
(***************************************************************************)
(* One database's transfer: Transfer::run_guarded, its part file, its lock,*)
(* its writes on the blocking pool and the step that decodes, checks,      *)
(* syncs and renames what arrived.                                         *)
(*                                                                         *)
(* Any number of tasks, of one process or of several sharing a volume,     *)
(* fetch the same database.  A caller may drop its future at any await and *)
(* a task's process may be killed at any step; the machine may lose power. *)
(* A body is a sequence of units, one write batch each; a unit is the      *)
(* build it belongs to, or 0 when power was lost before it reached disk.   *)
(* What is no whole body is content 0.                                     *)
(***************************************************************************)
EXTENDS Integers, Sequences

CONSTANTS
  Task,        \* callers of Transfer::run_guarded for one destination
  Sources,    \* the sources the database may come from: see Source
  Length,     \* units in the body of each build
  Unfit,      \* builds the format check or the guard refuses
  Faults,     \* what may go wrong besides the network: "kill", "power",
              \* "cancel", "disk", "age"
  MaxFaults,  \* bound: how often anything goes wrong
  NoFile      \* nothing at a path

(* How the body is packed, a tar.gz decoding or failing as a gzip does;    *)
(* whether its publisher publishes a digest; whether its URL names a month *)
(* and has the month before for a fallback.                                *)
Source == [archive: {"raw", "gzip"}, digest: BOOLEAN, dated: BOOLEAN]

Build == DOMAIN Length
Unit == {0} \cup Build
Content == {0} \cup Build
File == [build: Content, synced: BOOLEAN]
Part == [body: Seq(Unit), old: BOOLEAN]

ASSUME TransferAssumption ==
  /\ Sources \subseteq Source /\ Sources # {}
  /\ \A s \in Sources : ~(s.digest /\ s.dated)   \* as in the source table
  /\ Length \in Seq(Nat \ {0}) /\ Length # <<>>
  /\ Unfit \subseteq Build /\ 1 \notin Unfit
  /\ Faults \subseteq {"kill", "power", "cancel", "disk", "age"}
  /\ MaxFaults \in Nat
  /\ NoFile \notin File /\ NoFile \notin Part

VARIABLES
  source,     \* where the database comes from
  published,  \* the newest build the provider serves
  month,      \* the build a dated URL names today
  part,       \* <dest>.part
  staged,     \* <dest>.staged
  dest,       \* the destination
  held,       \* the clones of the lock's Arc: whose, and held by what
  call,       \* each task's call
  write,      \* each task's batch on the blocking pool
  job,        \* each task's materialise step on the blocking pool
  faults,     \* how often something has gone wrong
  crashed     \* history: whether a process died or the power went

vars == <<source, published, month, part, staged, dest, held, call, write, job, faults,
          crashed>>
world == <<source, crashed, published, month>>
paths == <<part, staged, dest>>

NoWrite == [unit |-> 0, linked |-> FALSE, at |-> "none"]
IdleCall == [at |-> "idle", url |-> "primary", month |-> 0, from |-> 0, build |-> 0, sent |-> 0]

Call == [at: {"idle", "ask", "wait", "body", "digest", "hash", "staging"},
         url: {"primary", "fallback"}, month: Nat, from: Nat, build: Content, sent: Nat]
Write == [unit: Unit, linked: BOOLEAN, at: {"none", "flying", "failed"}]
Job == {"none", "stage", "decode", "check", "sync", "rename", "tidy"}

(* Every variable holds a value of its type, and a task whose call goes on  *)
(* holds the lock.                                                         *)
TypeOK ==
  /\ source \in Sources
  /\ published \in Build
  /\ month \in Build
  /\ part \in Part \cup {NoFile}
  /\ staged \in File \cup {NoFile}
  /\ dest \in File \cup {NoFile}
  /\ held \subseteq Task \X {"call", "write", "job"}
  /\ call \in [Task -> Call]
  /\ write \in [Task -> Write]
  /\ job \in [Task -> Job]
  /\ faults \in 0 .. MaxFaults
  /\ crashed \in BOOLEAN
  /\ \A t \in Task : call[t].at \notin {"idle", "staging"} => <<t, "call">> \in held

Whole(b) == [i \in 1 .. Length[b] |-> b]

(* What a body decodes to, or is: the build it is whole of.                *)
ContentOf(body) ==
  IF \E b \in Build : body = Whole(b) THEN CHOOSE b \in Build : body = Whole(b) ELSE 0

(* The build a path holds whole, 0 when none.                              *)
Holds(path) == IF path = NoFile THEN 0 ELSE path.build

PartBody == IF part = NoFile THEN <<>> ELSE part.body
PartLen == Len(PartBody)

(* Something goes wrong once more.                                         *)
Faulty == faults < MaxFaults /\ faults' = faults + 1

-----------------------------------------------------------------------------
(* The provider and the clock.                                             *)

Publish ==
  /\ published + 1 \in Build
  /\ source.dated => published < month
  /\ published' = published + 1
  /\ month' = IF source.dated THEN month ELSE published + 1
  /\ UNCHANGED <<source, crashed, paths, held, call, write, job, faults>>

(* A new month: a dated URL names a file that is not published yet, nor,   *)
(* once the provider is two months late, is its fallback.                  *)
NewMonth ==
  /\ source.dated
  /\ month <= published + 1 /\ month + 1 \in Build
  /\ month' = month + 1
  /\ UNCHANGED <<source, crashed, published, paths, held, call, write, job, faults>>

(* The part file passes the resume window.                                 *)
Age ==
  /\ "age" \in Faults /\ part # NoFile /\ ~part.old
  /\ Faulty
  /\ part' = [part EXCEPT !.old = TRUE]
  /\ UNCHANGED <<world, staged, dest, held, call, write, job>>

(* What a URL serves: a dated one its own month's build, once published.   *)
Serves(local) ==
  IF ~source.dated THEN published
  ELSE LET b == IF local.url = "primary" THEN local.month ELSE local.month - 1
       IN IF b \in 1 .. published THEN b ELSE 0

-----------------------------------------------------------------------------
(* The caller's future.                                                    *)

Goes(t, local) == call' = [call EXCEPT ![t] = local]

(* A call's own clone of the lock goes with its future.                    *)
Released(t) == held' = held \ {<<t, "call">>}

(* A path is unlinked: a write still in flight lands in no file.           *)
Unlinked == [t \in Task |-> [write[t] EXCEPT !.linked = FALSE]]

RemovePart == part' = NoFile /\ write' = Unlinked

(* The transfer failed before the body was complete: a part file of no     *)
(* length is removed, any other kept.                                      *)
StreamFails(t) ==
  /\ Goes(t, IdleCall)
  /\ Released(t)
  /\ IF part # NoFile /\ PartLen = 0 THEN RemovePart ELSE UNCHANGED <<part, write>>

(* The lock is tried before anything is asked of the provider; a holder of *)
(* any kind makes the call Busy, which changes nothing.                    *)
Start(t) ==
  /\ call[t].at = "idle" /\ write[t] = NoWrite /\ job[t] = "none"
  /\ held = {}
  /\ held' = {<<t, "call">>}
  /\ Goes(t, [IdleCall EXCEPT !.at = "ask", !.month = IF source.dated THEN month ELSE 0])
  /\ UNCHANGED <<world, paths, write, job, faults>>

(* Variant: any prefix is continued from, though nothing can check a seam. *)
AlwaysCheckable == TRUE

ResumeIsCheckable == source.digest \/ source.archive # "raw"

(* resumable_offset, then the request: a part file past the window is      *)
(* removed whether or not it would have been continued.                    *)
Ask(t) ==
  /\ call[t].at = "ask"
  /\ IF part # NoFile /\ part.old
       THEN /\ RemovePart
            /\ Goes(t, [call[t] EXCEPT !.at = "wait", !.from = 0])
       ELSE /\ Goes(t, [call[t] EXCEPT !.at = "wait",
                         !.from = IF ResumeIsCheckable THEN PartLen ELSE 0])
            /\ UNCHANGED <<part, write>>
  /\ UNCHANGED <<world, staged, dest, held, job, faults>>

(* No answer, a refusal, or a server error: the provider's word is final.  *)
AnswerRefused(t) ==
  /\ call[t].at = "wait"
  /\ Faulty
  /\ StreamFails(t)
  /\ UNCHANGED <<world, staged, dest, job>>

(* A 404: the fallback is another file, so nothing kept belongs to it.     *)
AnswerMissing(t) ==
  /\ call[t].at = "wait"
  /\ Serves(call[t]) = 0
  /\ IF source.dated /\ call[t].url = "primary"
       THEN /\ RemovePart
            /\ Goes(t, [call[t] EXCEPT !.at = "ask", !.url = "fallback"])
            /\ UNCHANGED held
       ELSE StreamFails(t)
  /\ UNCHANGED <<world, staged, dest, job, faults>>

(* Variant: a range past the end of the body fails like any other status.  *)
AnswerUnsatisfiableFails(t) ==
  /\ call[t].at = "wait"
  /\ Serves(call[t]) # 0 /\ call[t].from >= Length[Serves(call[t])]
  /\ StreamFails(t)
  /\ UNCHANGED <<world, staged, dest, job, faults>>

(* A 416: the prefix goes and the whole body is asked for.                 *)
AnswerUnsatisfiable(t) ==
  /\ call[t].at = "wait"
  /\ Serves(call[t]) # 0 /\ call[t].from >= Length[Serves(call[t])]
  /\ RemovePart
  /\ Goes(t, [call[t] EXCEPT !.from = 0])
  /\ UNCHANGED <<world, staged, dest, held, job, faults>>

(* A 206: the body goes on where the part file ends, in today's build.     *)
AnswerPartial(t) ==
  /\ call[t].at = "wait"
  /\ Serves(call[t]) # 0
  /\ call[t].from > 0 /\ call[t].from < Length[Serves(call[t])]
  /\ Goes(t, [call[t] EXCEPT !.at = "body", !.build = Serves(call[t]), !.sent = call[t].from])
  /\ UNCHANGED <<world, paths, held, write, job, faults>>

(* A 200: the whole body, so File::create discards what the part held.     *)
(* A server that honours ranges sends it only when none was asked for.     *)
AnswerWhole(t) ==
  /\ call[t].at = "wait"
  /\ Serves(call[t]) # 0
  /\ IF call[t].from > 0 THEN Faulty ELSE UNCHANGED faults
  /\ part' = [body |-> <<>>, old |-> FALSE]
  /\ Goes(t, [call[t] EXCEPT !.at = "body", !.build = Serves(call[t]), !.sent = 0])
  /\ UNCHANGED <<world, staged, dest, held, write, job>>

(* Variant: the write is handed over without a clone of the lock.          *)
SendUnlocked(t) ==
  /\ call[t].at = "body" /\ write[t] = NoWrite
  /\ call[t].sent < Length[call[t].build]
  /\ write' = [write EXCEPT ![t] = [unit |-> call[t].build, linked |-> TRUE, at |-> "flying"]]
  /\ Goes(t, [call[t] EXCEPT !.sent = @ + 1])
  /\ UNCHANGED <<world, paths, held, job, faults>>

(* Variant: the write takes the call's lock instead of a clone of it.      *)
SendMovesLock(t) ==
  /\ call[t].at = "body" /\ write[t] = NoWrite
  /\ call[t].sent < Length[call[t].build]
  /\ write' = [write EXCEPT ![t] = [unit |-> call[t].build, linked |-> TRUE, at |-> "flying"]]
  /\ held' = (held \ {<<t, "call">>}) \cup {<<t, "write">>}
  /\ Goes(t, [call[t] EXCEPT !.sent = @ + 1])
  /\ UNCHANGED <<world, paths, job, faults>>

(* PartWriter::send: the next batch goes to the blocking pool, with a clone *)
(* of the lock, once the last one has landed.                              *)
Send(t) ==
  /\ call[t].at = "body" /\ write[t] = NoWrite
  /\ call[t].sent < Length[call[t].build]
  /\ write' = [write EXCEPT ![t] = [unit |-> call[t].build, linked |-> TRUE, at |-> "flying"]]
  /\ held' = held \cup {<<t, "write">>}
  /\ Goes(t, [call[t] EXCEPT !.sent = @ + 1])
  /\ UNCHANGED <<world, paths, job, faults>>

(* The body breaks off, or ends short of its declared length: what arrived *)
(* is landed and kept.                                                     *)
BodyBreaks(t) ==
  /\ call[t].at = "body" /\ write[t] = NoWrite
  /\ Faulty
  /\ StreamFails(t)
  /\ UNCHANGED <<world, staged, dest, job>>

(* The body runs past the ceiling, declared or not: the part file goes, a  *)
(* write still in flight with it.                                          *)
BodyTooLarge(t) ==
  /\ call[t].at \in {"wait", "body"}
  /\ Faulty
  /\ part' = NoFile
  /\ write' = [Unlinked EXCEPT ![t] = IF @.at = "failed" THEN NoWrite ELSE @]
  /\ Goes(t, IdleCall)
  /\ Released(t)
  /\ UNCHANGED <<world, staged, dest, job>>

(* A failed write leaves a file this process cannot describe.              *)
BodyWriteFailed(t) ==
  /\ call[t].at = "body" /\ write[t].at = "failed"
  /\ part' = NoFile
  /\ write' = [Unlinked EXCEPT ![t] = NoWrite]
  /\ Goes(t, IdleCall)
  /\ Released(t)
  /\ UNCHANGED <<world, staged, dest, job, faults>>

(* Variant: the lock is let go as the blocking step is handed over.        *)
SpawnedUnlocked(t) ==
  /\ job' = [job EXCEPT ![t] = "stage"]
  /\ Goes(t, [call[t] EXCEPT !.at = "staging"])
  /\ held' = held \ {<<t, "call">>}

(* The lock moves into the blocking step, which no dropped future stops.   *)
Spawned(t) ==
  /\ job' = [job EXCEPT ![t] = "stage"]
  /\ Goes(t, [call[t] EXCEPT !.at = "staging"])
  /\ held' = (held \ {<<t, "call">>}) \cup {<<t, "job">>}

BodyEnds(t) ==
  /\ call[t].at = "body" /\ write[t] = NoWrite
  /\ call[t].sent = Length[call[t].build]
  /\ IF source.digest
       THEN Goes(t, [call[t] EXCEPT !.at = "digest"]) /\ UNCHANGED <<job, held>>
       ELSE Spawned(t)
  /\ UNCHANGED <<world, paths, write, faults>>

(* fetch_checksum: a digest that cannot be had keeps the part file, and so *)
(* does a part file that cannot be read to be compared.                    *)
DigestFails(t) ==
  /\ call[t].at \in {"digest", "hash"}
  /\ Faulty
  /\ Goes(t, IdleCall)
  /\ Released(t)
  /\ UNCHANGED <<world, paths, write, job>>

DigestArrives(t) ==
  /\ call[t].at = "digest"
  /\ Goes(t, [call[t] EXCEPT !.at = "hash", !.build = published])
  /\ UNCHANGED <<world, paths, held, write, job, faults>>

(* Variant: the digest is fetched and not compared.                        *)
HashUnchecked(t) ==
  /\ call[t].at = "hash"
  /\ Spawned(t)
  /\ UNCHANGED <<world, paths, write, faults>>

(* sha256_of, and the comparison: bytes known to be bad are not kept.      *)
Hash(t) ==
  /\ call[t].at = "hash"
  /\ IF PartBody = Whole(call[t].build)
       THEN Spawned(t) /\ UNCHANGED <<part, write>>
       ELSE /\ RemovePart
            /\ Goes(t, IdleCall)
            /\ Released(t)
            /\ UNCHANGED job
  /\ UNCHANGED <<world, staged, dest, faults>>

(* The caller drops the future at one of its awaits.                       *)
Cancel(t) ==
  /\ "cancel" \in Faults
  /\ call[t].at \in {"wait", "body", "digest", "hash", "staging"}
  /\ Faulty
  /\ Goes(t, IdleCall)
  /\ Released(t)
  /\ write' = IF write[t].at = "failed" THEN [write EXCEPT ![t] = NoWrite] ELSE write
  /\ UNCHANGED <<world, paths, job>>

-----------------------------------------------------------------------------
(* The blocking pool.                                                      *)

(* The batch is on the file, if the file is still the one at the path, and *)
(* the clone of the lock is dropped.                                       *)
WriteLands(t) ==
  /\ write[t].at = "flying"
  /\ part' = IF write[t].linked /\ part # NoFile
               THEN [body |-> Append(part.body, write[t].unit), old |-> FALSE]
               ELSE part
  /\ write' = [write EXCEPT ![t] = NoWrite]
  /\ held' = held \ {<<t, "write">>}
  /\ UNCHANGED <<world, staged, dest, call, job, faults>>

(* A write that fails is told to the writer, if there is one still.        *)
WriteFails(t) ==
  /\ "disk" \in Faults
  /\ write[t].at = "flying"
  /\ Faulty
  /\ write' = [write EXCEPT ![t] = IF call[t].at = "body" THEN [@ EXCEPT !.at = "failed"]
                                                         ELSE NoWrite]
  /\ held' = held \ {<<t, "write">>}
  /\ UNCHANGED <<world, paths, call, job>>

JobFrame == UNCHANGED <<world, held, call, write, faults>>

(* A raw body is renamed into place; a container's decode begins by        *)
(* creating the staged file.                                               *)
JobStage(t) ==
  /\ job[t] = "stage"
  /\ part # NoFile
  /\ IF source.archive = "raw"
       THEN /\ staged' = [build |-> ContentOf(PartBody), synced |-> FALSE]
            /\ part' = NoFile
            /\ job' = [job EXCEPT ![t] = "check"]
       ELSE /\ staged' = [build |-> 0, synced |-> FALSE]
            /\ job' = [job EXCEPT ![t] = "decode"]
            /\ UNCHANGED part
  /\ UNCHANGED dest
  /\ JobFrame

(* A container that is not one whole body fails its own integrity check.   *)
JobDecode(t) ==
  /\ job[t] = "decode"
  /\ ContentOf(PartBody) # 0
  /\ staged' = [build |-> ContentOf(PartBody), synced |-> FALSE]
  /\ job' = [job EXCEPT ![t] = "check"]
  /\ UNCHANGED <<part, dest>>
  /\ JobFrame

(* holds_a_database and Guard::admit.  Nothing but a digest or a           *)
(* container's own check can be relied on to refuse a raw body with a seam *)
(* or a hole in it: it may pass.                                           *)
JobCheck(t) ==
  /\ job[t] = "check"
  /\ Holds(staged) \notin Unfit
  /\ job' = [job EXCEPT ![t] = "sync"]
  /\ UNCHANGED paths
  /\ JobFrame

(* Variant: the staged file is not forced to disk.                         *)
JobSkipsSync(t) ==
  /\ job[t] = "sync"
  /\ job' = [job EXCEPT ![t] = "rename"]
  /\ UNCHANGED paths
  /\ JobFrame

JobSync(t) ==
  /\ job[t] = "sync"
  /\ staged' = [build |-> Holds(staged), synced |-> TRUE]
  /\ job' = [job EXCEPT ![t] = "rename"]
  /\ UNCHANGED <<part, dest>>
  /\ JobFrame

JobRename(t) ==
  /\ job[t] = "rename"
  /\ dest' = staged
  /\ staged' = NoFile
  /\ job' = [job EXCEPT ![t] = "tidy"]
  /\ UNCHANGED part
  /\ JobFrame

(* The call, if it still waits, returns; the lock's last clone goes.       *)
JobReturns(t) ==
  /\ job' = [job EXCEPT ![t] = "none"]
  /\ held' = held \ {<<t, "job">>}
  /\ IF call[t].at = "staging" THEN Goes(t, IdleCall) ELSE UNCHANGED call
  /\ UNCHANGED <<world, dest>>

JobDone(t) ==
  /\ job[t] = "tidy"
  /\ RemovePart
  /\ JobReturns(t)
  /\ UNCHANGED <<staged, faults>>

(* What materialise_guarded refuses: no part file, a container that does   *)
(* not decode, a database the checks turn away.                            *)
Refused(t) ==
  \/ job[t] = "stage" /\ part = NoFile
  \/ job[t] = "decode" /\ ContentOf(PartBody) = 0
  \/ job[t] = "check" /\ Holds(staged) \in Unfit \cup {0}

(* It returns an error then, and on a local fault at any of its steps.     *)
JobErrs(t) ==
  \/ Refused(t) /\ UNCHANGED faults
  \/ "disk" \in Faults /\ job[t] \notin {"none", "tidy"} /\ Faulty

(* Variant: only the part file is removed when the step fails.             *)
JobRejectsPartAlone(t) ==
  /\ JobErrs(t)
  /\ RemovePart
  /\ JobReturns(t)
  /\ UNCHANGED staged

(* Either way the part file goes, and on an error the staged file too.     *)
JobRejects(t) ==
  /\ JobErrs(t)
  /\ RemovePart
  /\ staged' = NoFile
  /\ JobReturns(t)

-----------------------------------------------------------------------------
(* Crashes.                                                                *)

(* A process dies: its futures and its blocking steps with it, and the     *)
(* kernel drops its locks.                                                 *)
Dead(T) ==
  /\ call' = [t \in Task |-> IF t \in T THEN IdleCall ELSE call[t]]
  /\ job' = [t \in Task |-> IF t \in T THEN "none" ELSE job[t]]
  /\ held' = {h \in held : h[1] \notin T}
  /\ crashed' = TRUE

Kill(t) ==
  /\ "kill" \in Faults
  /\ call[t].at # "idle" \/ write[t] # NoWrite \/ job[t] # "none"
  /\ Faulty
  /\ Dead({t})
  /\ write' = [write EXCEPT ![t] = NoWrite]
  /\ UNCHANGED <<source, published, month, paths>>

(* What was not forced to disk may be a hole of the same length, or gone.  *)
Torn(file) ==
  IF file = NoFile THEN {NoFile}
  ELSE IF file.synced THEN {file}
  ELSE {file, [file EXCEPT !.build = 0]}

TornPart ==
  IF part = NoFile THEN {NoFile}
  ELSE {NoFile, part, [part EXCEPT !.body = [i \in DOMAIN part.body |-> 0]]}

PowerLoss ==
  /\ "power" \in Faults
  /\ Faulty
  /\ Dead(Task)
  /\ write' = [t \in Task |-> NoWrite]
  /\ part' \in TornPart
  /\ staged' \in Torn(staged)
  /\ dest' \in Torn(dest)
  /\ UNCHANGED <<source, published, month>>

-----------------------------------------------------------------------------
Init ==
  /\ source \in Sources
  /\ published = 1 /\ month = 1
  /\ part = NoFile /\ staged = NoFile /\ dest = NoFile
  /\ held = {}
  /\ call = [t \in Task |-> IdleCall]
  /\ write = [t \in Task |-> NoWrite]
  /\ job = [t \in Task |-> "none"]
  /\ faults = 0
  /\ crashed = FALSE

(* What a call does while nothing goes wrong.                              *)
Calling(t) ==
  \/ Ask(t) \/ AnswerMissing(t) \/ AnswerUnsatisfiable(t) \/ AnswerPartial(t)
  \/ AnswerWhole(t) \/ Send(t) \/ BodyWriteFailed(t) \/ BodyEnds(t)
  \/ DigestArrives(t) \/ Hash(t)

Blocking(t) ==
  \/ WriteLands(t)
  \/ JobStage(t) \/ JobDecode(t) \/ JobCheck(t) \/ JobSync(t) \/ JobRename(t)
  \/ JobDone(t) \/ JobRejects(t)

GoesWrong(t) ==
  \/ AnswerRefused(t) \/ BodyBreaks(t) \/ BodyTooLarge(t) \/ DigestFails(t)
  \/ Cancel(t) \/ WriteFails(t) \/ Kill(t)

Next ==
  \/ Publish \/ NewMonth \/ Age \/ PowerLoss
  \/ \E t \in Task : Start(t) \/ Calling(t) \/ Blocking(t) \/ GoesWrong(t)

Spec == Init /\ [][Next]_vars

(* The callers come back, as a freshness check does on its schedule, and   *)
(* the provider and the blocking pool answer.  A new month's build is      *)
(* published in the end only if the provider does so.                      *)
Fairness ==
  /\ WF_vars(\E t \in Task : Start(t))
  /\ \A t \in Task : WF_vars(Calling(t)) /\ WF_vars(Blocking(t))

FairSpec == Spec /\ Fairness

-----------------------------------------------------------------------------
(* Properties.                                                             *)

(* A task at work: its call is past the lock, or something it put on the   *)
(* blocking pool is not finished.                                          *)
AtWork(t) ==
  call[t].at \notin {"idle", "staging"} \/ write[t].at = "flying" \/ job[t] # "none"

(* One task at a time touches the part and the staged file, a write or a   *)
(* materialise step that outlived its caller included: no two transfers    *)
(* interleave in one file (fetch's lock, PartWriter::lock).                *)
LoneWriter == \A t, u \in Task : AtWork(t) /\ AtWork(u) => t = u

(* Whatever broke off, was resumed in another build, was killed or lost    *)
(* power, the destination holds a whole build the checks admit, on disk.   *)
DestIntact == dest # NoFile => Holds(dest) \in Build \ Unfit /\ dest.synced

(* Once no transfer runs, a failed or a cancelled one has left no staged   *)
(* file behind; only a process that died may (materialise's cleanup).      *)
NothingStagedAtRest ==
  ~crashed /\ held = {} => staged = NoFile

(* The path goes from one admitted build to another, never back to an      *)
(* older one: one transfer's late rename does not undo another's.          *)
Promise == INSTANCE DatabaseFile WITH
  file <- Holds(dest)

ImplementsDatabaseFile == Promise!Spec

(* The provider of a dated source is two months late: no URL names a build. *)
Overdue == source.dated /\ month > published + 1

(* No finite run of faults wedges a database out: with callers that come   *)
(* back, the newest build the checks admit is fetched in the end, as long  *)
(* as a URL names it.                                                      *)
EventuallyFetched ==
  \A b \in Build \ Unfit :
    (published = b) ~> (published # b \/ Overdue \/ Holds(dest) = b)
=============================================================================
