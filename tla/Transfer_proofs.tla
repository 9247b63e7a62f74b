--------------------------- MODULE Transfer_proofs ---------------------------
(***************************************************************************)
(* The transfer's lock, its staged file and its destination, for any       *)
(* number of tasks, any builds and any number of faults.                   *)
(***************************************************************************)
EXTENDS Transfer, TLAPS

(* The types of the variables: TypeOK but for what it says of the lock.    *)
TypeInv ==
  /\ source \in Sources
  /\ published \in Build
  /\ month \in Build
  /\ part \in Part \cup {NoFile}
  /\ staged \in File \cup {NoFile}
  /\ dest \in File \cup {NoFile}
  /\ held \subseteq Task \X {"call", "write", "job"}
  /\ call \in [Task -> Call]
  /\ write \in [Task -> Write]
  /\ job \in [Task -> Job]
  /\ faults \in 0 .. MaxFaults
  /\ crashed \in BOOLEAN

(* Every clone of the lock is one task's.                                  *)
OneHolder == \A h, k \in held : h[1] = k[1]

(* What a task has under way is covered by a clone of its own, and a step  *)
(* that outlived its call keeps the task from starting another.            *)
Covered(t) ==
  /\ call[t].at \notin {"idle", "staging"} => <<t, "call">> \in held
  /\ write[t].at = "flying" => <<t, "write">> \in held
  /\ job[t] # "none" => <<t, "job">> \in held
  /\ job[t] # "none" => call[t].at \in {"idle", "staging"}
  /\ call[t].at \notin {"idle", "body"} \/ job[t] # "none" => write[t] = NoWrite

LockInv == OneHolder /\ \A t \in Task : Covered(t)

Repeats(b, n) == [i \in 1 .. n |-> b]

(* A body that no digest and no container checks is one build's from its   *)
(* first unit on, but for the unit in flight.                              *)
FromTheStart(t) ==
  /\ part # NoFile
  /\ write[t] = NoWrite => part.body = Repeats(call[t].build, call[t].sent)
  /\ write[t].at = "flying" =>
       /\ write[t].linked /\ write[t].unit = call[t].build
       /\ call[t].sent > 0
       /\ part.body = Repeats(call[t].build, call[t].sent - 1)

(* What each stage of a transfer knows of the part and the staged file.    *)
Sound(t) ==
  /\ ~ResumeIsCheckable => call[t].from = 0
  /\ call[t].at = "body" =>
       call[t].build \in Build /\ (~ResumeIsCheckable => FromTheStart(t))
  /\ call[t].at = "hash" => call[t].build \in Build
  /\ job[t] = "stage" /\ source.archive = "raw" /\ part # NoFile =>
       \E b \in Build : part.body = Whole(b)
  /\ job[t] \in {"check", "sync", "rename"} => staged # NoFile /\ staged.build \in Build
  /\ job[t] \in {"sync", "rename"} => staged.build \notin Unfit
  /\ job[t] = "rename" => staged.synced

MidJob == {"decode", "check", "sync", "rename"}

StagedInv == ~crashed /\ staged # NoFile => \E t \in Task : job[t] \in MidJob

Inv == TypeInv /\ LockInv /\ (\A t \in Task : Sound(t)) /\ StagedInv /\ DestIntact
-----------------------------------------------------------------------------
(* The constants and the helpers.                                          *)

LEMMA Builds ==
  /\ Build = 1 .. Len(Length) /\ Len(Length) \in Nat /\ 1 \in Build
  /\ \A b \in Build : Length[b] \in Nat \ {0}
BY TransferAssumption DEF Build

LEMMA ContentIs ==
  ASSUME NEW body
  PROVE  /\ ContentOf(body) \in Content
         /\ (\E b \in Build : body = Whole(b)) => ContentOf(body) \in Build
BY DEF ContentOf, Content

LEMMA RepeatsType == ASSUME NEW b, NEW n \in Nat PROVE Repeats(b, n) \in Seq({b}) /\ Len(Repeats(b, n)) = n
BY DEF Repeats

LEMMA RepeatsNone == ASSUME NEW b PROVE Repeats(b, 0) = <<>>
BY DEF Repeats

LEMMA RepeatsOneMore ==
  ASSUME NEW b, NEW n \in Nat PROVE Append(Repeats(b, n), b) = Repeats(b, n + 1)
BY RepeatsType DEF Repeats

LEMMA WholeIs == ASSUME NEW b \in Build PROVE Whole(b) = Repeats(b, Length[b])
BY DEF Whole, Repeats

LEMMA ServesType == ASSUME TypeInv, NEW local \in Call PROVE Serves(local) \in {0} \cup Build
BY Builds DEF TypeInv, Serves, Call

LEMMA GoesIs ==
  ASSUME TypeInv, NEW t \in Task, NEW local \in Call, Goes(t, local)
  PROVE  /\ call' \in [Task -> Call]
         /\ call'[t] = local
         /\ \A u \in Task \ {t} : call'[u] = call[u]
BY DEF TypeInv, Goes

LEMMA IdleIs ==
  /\ IdleCall \in Call /\ IdleCall.at = "idle" /\ IdleCall.from = 0
  /\ NoWrite \in Write /\ NoWrite.at = "none"
BY DEF IdleCall, NoWrite, Call, Write, Content, Unit

LEMMA UnlinkedIs ==
  ASSUME TypeInv
  PROVE  /\ Unlinked \in [Task -> Write]
         /\ \A t \in Task : Unlinked[t].at = write[t].at
         /\ \A t \in Task : write[t] = NoWrite => Unlinked[t] = NoWrite
<1>1. ASSUME NEW t \in Task
      PROVE  /\ [write[t] EXCEPT !.linked = FALSE] \in Write
             /\ [write[t] EXCEPT !.linked = FALSE].at = write[t].at
             /\ write[t] = NoWrite => [write[t] EXCEPT !.linked = FALSE] = NoWrite
  <2>1. [NoWrite EXCEPT !.linked = FALSE] = NoWrite
    <3>1. ASSUME NEW batch \in Write, batch.linked = FALSE
          PROVE  [batch EXCEPT !.linked = FALSE] = batch
      BY <3>1 DEF Write
    <3>2. NoWrite.linked = FALSE
      BY DEF NoWrite
    <3>. QED
      BY <3>1, <3>2, IdleIs
  <2>2. /\ [write[t] EXCEPT !.linked = FALSE] \in Write
        /\ [write[t] EXCEPT !.linked = FALSE].at = write[t].at
    BY DEF TypeInv, Write
  <2>. QED
    BY <2>1, <2>2
<1>2. \A t \in Task : Unlinked[t] = [write[t] EXCEPT !.linked = FALSE]
  BY DEF Unlinked
<1>3. Unlinked \in [Task -> Write]
  BY <1>1 DEF Unlinked
<1>. QED
  BY <1>1, <1>2, <1>3
-----------------------------------------------------------------------------
(* Type correctness.                                                       *)

LEMMA InitTypes == Init => TypeInv
<1>. SUFFICES ASSUME Init PROVE TypeInv
  OBVIOUS
<1>1. published \in Build /\ month \in Build /\ faults \in 0 .. MaxFaults
  BY Builds, TransferAssumption DEF Init
<1>2. call \in [Task -> Call] /\ write \in [Task -> Write] /\ job \in [Task -> Job]
  BY IdleIs DEF Init, Job
<1>. QED
  BY <1>1, <1>2 DEF Init, TypeInv

(* What happens to a part file keeps it one, or leaves none.               *)
LEMMA BodyType ==
  ASSUME TypeInv
  PROVE  /\ PartBody \in Seq(Unit) /\ PartLen \in Nat
         /\ part # NoFile => part \in Part /\ part.body \in Seq(Unit) /\ PartBody = part.body
BY DEF TypeInv, Part, PartBody, PartLen

LEMMA StagedType ==
  ASSUME TypeInv
  PROVE  /\ Holds(staged) \in Content
         /\ staged # NoFile => staged \in File /\ Holds(staged) = staged.build
BY DEF TypeInv, File, Holds, Content

LEMMA FaultyType == ASSUME TypeInv, Faulty \/ UNCHANGED faults PROVE faults' \in 0 .. MaxFaults
BY TransferAssumption DEF TypeInv, Faulty

LEMMA ReleasedType ==
  ASSUME TypeInv, NEW t \in Task, Released(t) PROVE held' \subseteq Task \X {"call", "write", "job"}
BY DEF TypeInv, Released

LEMMA RemovePartType ==
  ASSUME TypeInv, RemovePart PROVE part' \in Part \cup {NoFile} /\ write' \in [Task -> Write]
BY UnlinkedIs DEF RemovePart

LEMMA StreamFailsType ==
  ASSUME TypeInv, NEW t \in Task, StreamFails(t)
  PROVE  /\ part' \in Part \cup {NoFile} /\ write' \in [Task -> Write]
         /\ call' \in [Task -> Call] /\ held' \subseteq Task \X {"call", "write", "job"}
<1>1. call' \in [Task -> Call] /\ held' \subseteq Task \X {"call", "write", "job"}
  BY GoesIs, IdleIs, ReleasedType DEF StreamFails
<1>2. CASE RemovePart
  BY <1>1, <1>2, RemovePartType
<1>3. CASE UNCHANGED <<part, write>>
  BY <1>1, <1>3 DEF TypeInv
<1>. QED
  BY <1>2, <1>3 DEF StreamFails

LEMMA WorldTypes ==
  ASSUME TypeInv, Publish \/ NewMonth \/ Age PROVE TypeInv'
<1>1. CASE Publish
  <2>1. month' \in Build
    BY <1>1 DEF TypeInv, Publish
  <2>. QED
    BY <1>1, <2>1 DEF TypeInv, Publish, paths
<1>2. CASE NewMonth
  BY <1>2 DEF TypeInv, NewMonth, paths
<1>3. CASE Age
  <2>1. part' \in Part
    BY <1>3, BodyType DEF Age, Part
  <2>. QED
    BY <1>3, <2>1, FaultyType DEF TypeInv, Age, world
<1>. QED
  BY <1>1, <1>2, <1>3

LEMMA StartTypes == ASSUME TypeInv, NEW t \in Task, Start(t) PROVE TypeInv'
<1>. DEFINE local == [IdleCall EXCEPT !.at = "ask", !.month = IF source.dated THEN month ELSE 0]
<1>1. (IF source.dated THEN month ELSE 0) \in Nat
  BY Builds DEF TypeInv
<1>2. local \in Call
  BY <1>1, IdleIs DEF Call
<1>3. call' \in [Task -> Call]
  BY <1>2, GoesIs DEF Start
<1>. QED
  BY <1>3 DEF TypeInv, Start, world, paths

LEMMA AskTypes == ASSUME TypeInv, NEW t \in Task, Ask(t) PROVE TypeInv'
<1>1. call[t] \in Call
  BY DEF TypeInv
<1>2. \A n \in Nat : [call[t] EXCEPT !.at = "wait", !.from = n] \in Call
  BY <1>1 DEF Call
<1>3. call' \in [Task -> Call]
  <2>1. \E n \in Nat : Goes(t, [call[t] EXCEPT !.at = "wait", !.from = n])
    BY BodyType DEF Ask
  <2>. QED
    BY <1>2, <2>1, GoesIs
<1>4. part' \in Part \cup {NoFile} /\ write' \in [Task -> Write]
  <2>1. CASE RemovePart
    BY <2>1, RemovePartType
  <2>2. CASE UNCHANGED <<part, write>>
    BY <2>2 DEF TypeInv
  <2>. QED
    BY <2>1, <2>2 DEF Ask
<1>. QED
  BY <1>3, <1>4 DEF TypeInv, Ask, world

LEMMA AnswerTypes ==
  ASSUME TypeInv, NEW t \in Task,
         AnswerRefused(t) \/ AnswerMissing(t) \/ AnswerUnsatisfiable(t) \/ AnswerPartial(t)
           \/ AnswerWhole(t)
  PROVE  TypeInv'
<1>1. call[t] \in Call
  BY DEF TypeInv
<1>2. CASE AnswerRefused(t)
  BY <1>2, StreamFailsType, FaultyType DEF TypeInv, AnswerRefused, world
<1>3. CASE AnswerMissing(t)
  <2>1. CASE StreamFails(t)
    BY <1>3, <2>1, StreamFailsType DEF TypeInv, AnswerMissing, world
  <2>2. CASE /\ RemovePart
             /\ Goes(t, [call[t] EXCEPT !.at = "ask", !.url = "fallback"])
             /\ UNCHANGED held
    <3>1. [call[t] EXCEPT !.at = "ask", !.url = "fallback"] \in Call
      BY <1>1 DEF Call
    <3>2. call' \in [Task -> Call]
      BY <2>2, <3>1, GoesIs
    <3>. QED
      BY <1>3, <2>2, <3>2, RemovePartType DEF TypeInv, AnswerMissing, world
  <2>. QED
    BY <1>3, <2>1, <2>2 DEF AnswerMissing
<1>4. CASE AnswerUnsatisfiable(t)
  <2>1. [call[t] EXCEPT !.from = 0] \in Call
    BY <1>1 DEF Call
  <2>2. call' \in [Task -> Call]
    BY <1>4, <2>1, GoesIs DEF AnswerUnsatisfiable
  <2>. QED
    BY <1>4, <2>2, RemovePartType DEF TypeInv, AnswerUnsatisfiable, world
<1>5. CASE AnswerPartial(t)
  <2>1. Serves(call[t]) \in Content
    BY <1>1, ServesType DEF Content
  <2>2. [call[t] EXCEPT !.at = "body", !.build = Serves(call[t]), !.sent = call[t].from] \in Call
    BY <1>1, <2>1 DEF Call
  <2>3. call' \in [Task -> Call]
    BY <1>5, <2>2, GoesIs DEF AnswerPartial
  <2>. QED
    BY <1>5, <2>3 DEF TypeInv, AnswerPartial, world, paths
<1>6. CASE AnswerWhole(t)
  <2>1. Serves(call[t]) \in Content
    BY <1>1, ServesType DEF Content
  <2>2. [call[t] EXCEPT !.at = "body", !.build = Serves(call[t]), !.sent = 0] \in Call
    BY <1>1, <2>1 DEF Call
  <2>3. call' \in [Task -> Call]
    BY <1>6, <2>2, GoesIs DEF AnswerWhole
  <2>4. part' \in Part
    BY <1>6 DEF AnswerWhole, Part
  <2>5. faults' \in 0 .. MaxFaults
    BY <1>6, FaultyType DEF AnswerWhole
  <2>. QED
    BY <1>6, <2>3, <2>4, <2>5 DEF TypeInv, AnswerWhole, world
<1>. QED
  BY <1>2, <1>3, <1>4, <1>5, <1>6

LEMMA BodyTypes ==
  ASSUME TypeInv, NEW t \in Task,
         Send(t) \/ BodyBreaks(t) \/ BodyTooLarge(t) \/ BodyWriteFailed(t)
  PROVE  TypeInv'
<1>1. call[t] \in Call /\ write[t] \in Write
  BY DEF TypeInv
<1>2. CASE Send(t)
  <2>1. [call[t] EXCEPT !.sent = @ + 1] \in Call
    BY <1>1 DEF Call
  <2>2. call' \in [Task -> Call]
    BY <1>2, <2>1, GoesIs DEF Send
  <2>3. [unit |-> call[t].build, linked |-> TRUE, at |-> "flying"] \in Write
    BY <1>1 DEF Call, Write, Content, Unit
  <2>4. write' \in [Task -> Write] /\ held' \subseteq Task \X {"call", "write", "job"}
    BY <1>2, <2>3 DEF TypeInv, Send
  <2>. QED
    BY <1>2, <2>2, <2>4 DEF TypeInv, Send, world, paths
<1>3. CASE BodyBreaks(t)
  BY <1>3, StreamFailsType, FaultyType DEF TypeInv, BodyBreaks, world
<1>4. ASSUME NEW batch \in Write PROVE [Unlinked EXCEPT ![t] = batch] \in [Task -> Write]
  BY <1>4, UnlinkedIs
<1>5. (IF Unlinked[t].at = "failed" THEN NoWrite ELSE Unlinked[t]) \in Write
  BY UnlinkedIs, IdleIs
<1>6. CASE BodyTooLarge(t)
  <2>1. write' \in [Task -> Write]
    BY <1>4, <1>5, <1>6 DEF BodyTooLarge
  <2>2. call' \in [Task -> Call] /\ held' \subseteq Task \X {"call", "write", "job"}
    BY <1>6, GoesIs, IdleIs, ReleasedType DEF BodyTooLarge
  <2>. QED
    BY <1>6, <2>1, <2>2, FaultyType DEF TypeInv, BodyTooLarge, world
<1>7. CASE BodyWriteFailed(t)
  <2>1. write' \in [Task -> Write]
    BY <1>4, <1>7, IdleIs DEF BodyWriteFailed
  <2>2. call' \in [Task -> Call] /\ held' \subseteq Task \X {"call", "write", "job"}
    BY <1>7, GoesIs, IdleIs, ReleasedType DEF BodyWriteFailed
  <2>. QED
    BY <1>7, <2>1, <2>2 DEF TypeInv, BodyWriteFailed, world
<1>. QED
  BY <1>2, <1>3, <1>6, <1>7

LEMMA SpawnedType ==
  ASSUME TypeInv, NEW t \in Task, Spawned(t)
  PROVE  /\ call' \in [Task -> Call] /\ job' \in [Task -> Job]
         /\ held' \subseteq Task \X {"call", "write", "job"}
<1>1. [call[t] EXCEPT !.at = "staging"] \in Call
  BY DEF TypeInv, Call
<1>2. call' \in [Task -> Call]
  BY <1>1, GoesIs DEF Spawned
<1>3. job' \in [Task -> Job]
  BY DEF TypeInv, Spawned, Job
<1>4. held' \subseteq Task \X {"call", "write", "job"}
  BY DEF TypeInv, Spawned
<1>. QED
  BY <1>2, <1>3, <1>4

LEMMA DigestTypes ==
  ASSUME TypeInv, NEW t \in Task,
         BodyEnds(t) \/ DigestFails(t) \/ DigestArrives(t) \/ Hash(t) \/ Cancel(t)
  PROVE  TypeInv'
<1>1. call[t] \in Call
  BY DEF TypeInv
<1>2. CASE BodyEnds(t)
  <2>1. CASE Spawned(t)
    BY <1>2, <2>1, SpawnedType DEF TypeInv, BodyEnds, world, paths
  <2>2. CASE Goes(t, [call[t] EXCEPT !.at = "digest"]) /\ UNCHANGED <<job, held>>
    <3>1. [call[t] EXCEPT !.at = "digest"] \in Call
      BY <1>1 DEF Call
    <3>2. call' \in [Task -> Call]
      BY <2>2, <3>1, GoesIs
    <3>. QED
      BY <1>2, <2>2, <3>2 DEF TypeInv, BodyEnds, world, paths
  <2>. QED
    BY <1>2, <2>1, <2>2 DEF BodyEnds
<1>3. CASE DigestFails(t)
  BY <1>3, GoesIs, IdleIs, ReleasedType, FaultyType DEF TypeInv, DigestFails, world, paths
<1>4. CASE DigestArrives(t)
  <2>1. [call[t] EXCEPT !.at = "hash", !.build = published] \in Call
    BY <1>1 DEF TypeInv, Call, Content
  <2>2. call' \in [Task -> Call]
    BY <1>4, <2>1, GoesIs DEF DigestArrives
  <2>. QED
    BY <1>4, <2>2 DEF TypeInv, DigestArrives, world, paths
<1>5. CASE Hash(t)
  <2>1. CASE Spawned(t) /\ UNCHANGED <<part, write>>
    BY <1>5, <2>1, SpawnedType DEF TypeInv, Hash, world
  <2>2. CASE RemovePart /\ Goes(t, IdleCall) /\ Released(t) /\ UNCHANGED job
    BY <1>5, <2>2, RemovePartType, GoesIs, IdleIs, ReleasedType DEF TypeInv, Hash, world
  <2>. QED
    BY <1>5, <2>1, <2>2 DEF Hash
<1>6. CASE Cancel(t)
  <2>1. write' \in [Task -> Write]
    BY <1>6, IdleIs DEF TypeInv, Cancel
  <2>. QED
    BY <1>6, <2>1, GoesIs, IdleIs, ReleasedType, FaultyType DEF TypeInv, Cancel, world, paths
<1>. QED
  BY <1>2, <1>3, <1>4, <1>5, <1>6

LEMMA WriteTypes ==
  ASSUME TypeInv, NEW t \in Task, WriteLands(t) \/ WriteFails(t) PROVE TypeInv'
<1>1. held \ {<<t, "write">>} \subseteq Task \X {"call", "write", "job"} /\ write[t] \in Write
  BY DEF TypeInv
<1>2. CASE WriteLands(t)
  <2>1. part' \in Part \cup {NoFile}
    <3>1. part # NoFile => [body |-> Append(part.body, write[t].unit), old |-> FALSE] \in Part
      BY <1>1, BodyType DEF Part, Write
    <3>. QED
      BY <1>2, <3>1 DEF TypeInv, WriteLands
  <2>2. write' \in [Task -> Write]
    BY <1>2, IdleIs DEF TypeInv, WriteLands
  <2>. QED
    BY <1>1, <1>2, <2>1, <2>2 DEF TypeInv, WriteLands, world
<1>3. CASE WriteFails(t)
  <2>1. [write[t] EXCEPT !.at = "failed"] \in Write
    BY <1>1 DEF Write
  <2>2. write' \in [Task -> Write]
    BY <1>3, <2>1, IdleIs DEF TypeInv, WriteFails
  <2>. QED
    BY <1>1, <1>3, <2>2, FaultyType DEF TypeInv, WriteFails, world, paths
<1>. QED
  BY <1>2, <1>3

LEMMA JobReturnsType ==
  ASSUME TypeInv, NEW t \in Task, JobReturns(t)
  PROVE  /\ call' \in [Task -> Call] /\ job' \in [Task -> Job]
         /\ held' \subseteq Task \X {"call", "write", "job"}
         /\ UNCHANGED <<world, dest>>
<1>1. call' \in [Task -> Call]
  BY GoesIs, IdleIs DEF TypeInv, JobReturns
<1>. QED
  BY <1>1 DEF TypeInv, JobReturns, Job

LEMMA JobTypes ==
  ASSUME TypeInv, NEW t \in Task,
         JobStage(t) \/ JobDecode(t) \/ JobCheck(t) \/ JobSync(t) \/ JobRename(t)
           \/ JobDone(t) \/ JobRejects(t)
  PROVE  TypeInv'
<1>1. CASE JobStage(t) \/ JobDecode(t) \/ JobCheck(t) \/ JobSync(t) \/ JobRename(t)
  <2>1. job' \in [Task -> Job]
    BY <1>1 DEF TypeInv, JobStage, JobDecode, JobCheck, JobSync, JobRename, Job
  <2>2. part' \in {part, NoFile}
    BY <1>1 DEF JobStage, JobDecode, JobCheck, JobSync, JobRename, paths
  <2>3. staged' \in File \cup {NoFile}
    <3>1. \A b \in Content, synced \in BOOLEAN : [build |-> b, synced |-> synced] \in File
      BY DEF File
    <3>2. ContentOf(PartBody) \in Content /\ Holds(staged) \in Content /\ 0 \in Content
      BY ContentIs, StagedType DEF Content
    <3>. QED
      BY <1>1, <3>1, <3>2 DEF TypeInv, JobStage, JobDecode, JobCheck, JobSync, JobRename, paths
  <2>4. dest' \in {dest, staged}
    BY <1>1 DEF JobStage, JobDecode, JobCheck, JobSync, JobRename, paths
  <2>5. JobFrame
    BY <1>1 DEF JobStage, JobDecode, JobCheck, JobSync, JobRename
  <2>. QED
    BY <2>1, <2>2, <2>3, <2>4, <2>5 DEF TypeInv, JobFrame, world
<1>2. CASE JobDone(t)
  BY <1>2, RemovePartType, JobReturnsType DEF TypeInv, JobDone, world
<1>3. CASE JobRejects(t)
  <2>1. faults' \in 0 .. MaxFaults
    BY <1>3, FaultyType DEF JobRejects, JobErrs
  <2>. QED
    BY <1>3, <2>1, RemovePartType, JobReturnsType DEF TypeInv, JobRejects, world
<1>. QED
  BY <1>1, <1>2, <1>3

LEMMA DeadType ==
  ASSUME TypeInv, NEW T, Dead(T)
  PROVE  /\ call' \in [Task -> Call] /\ job' \in [Task -> Job]
         /\ held' \subseteq Task \X {"call", "write", "job"}
         /\ crashed' \in BOOLEAN
BY IdleIs DEF TypeInv, Dead, Job

LEMMA CrashTypes ==
  ASSUME TypeInv, PowerLoss \/ \E t \in Task : Kill(t) PROVE TypeInv'
<1>1. ASSUME NEW t \in Task, Kill(t) PROVE TypeInv'
  <2>1. write' \in [Task -> Write]
    BY <1>1, IdleIs DEF TypeInv, Kill
  <2>. QED
    BY <1>1, <2>1, DeadType, FaultyType DEF TypeInv, Kill, paths
<1>2. CASE PowerLoss
  <2>1. write' \in [Task -> Write]
    BY <1>2, IdleIs DEF PowerLoss
  <2>2. part' \in Part \cup {NoFile}
    <3>1. part # NoFile => [part EXCEPT !.body = [i \in DOMAIN part.body |-> 0]] \in Part
      <4>1. part # NoFile => [i \in DOMAIN part.body |-> 0] \in Seq(Unit)
        BY BodyType DEF Unit
      <4>. QED
        BY <4>1, BodyType DEF Part
    <3>. QED
      BY <1>2, <3>1, BodyType DEF TypeInv, PowerLoss, TornPart
  <2>3. ASSUME NEW file \in File \cup {NoFile} PROVE Torn(file) \subseteq File \cup {NoFile}
    BY <2>3 DEF Torn, File, Content
  <2>. QED
    BY <1>2, <2>1, <2>2, <2>3, DeadType, FaultyType DEF TypeInv, PowerLoss
<1>. QED
  BY <1>1, <1>2

LEMMA StepTypes == ASSUME TypeInv, [Next]_vars PROVE TypeInv'
<1>1. CASE UNCHANGED vars
  BY <1>1 DEF TypeInv, vars
<1>2. ASSUME NEW t \in Task, Start(t) \/ Calling(t) \/ Blocking(t) \/ GoesWrong(t) PROVE TypeInv'
  <2>1. ASSUME Kill(t) PROVE TypeInv'
    BY <2>1, CrashTypes
  <2>. QED
    BY <1>2, <2>1, StartTypes, AskTypes, AnswerTypes, BodyTypes, DigestTypes, WriteTypes,
       JobTypes DEF Calling, Blocking, GoesWrong
<1>. QED
  BY <1>1, <1>2, WorldTypes, CrashTypes DEF Next
-----------------------------------------------------------------------------
(* The lock.                                                               *)

(* What a step of one task leaves of another's.                            *)
Spared(u) ==
  /\ call'[u] = call[u] /\ job'[u] = job[u]
  /\ write'[u].at = write[u].at
  /\ write[u] = NoWrite => write'[u] = NoWrite

LEMMA BatchKept ==
  ASSUME TypeInv, NEW u \in Task, write'[u] \in {write[u], Unlinked[u]}
  PROVE  /\ write'[u].at = write[u].at
         /\ write[u] = NoWrite => write'[u] = NoWrite
<1>1. Unlinked[u].at = write[u].at /\ (write[u] = NoWrite => Unlinked[u] = NoWrite)
  BY UnlinkedIs
<1>. QED
  BY <1>1

LEMMA SparedIs ==
  ASSUME TypeInv, NEW t \in Task, NEW u \in Task \ {t},
         call' = call \/ \E local : Goes(t, local),
         job' = job \/ \E stage : job' = [job EXCEPT ![t] = stage],
         \/ write' \in {write, Unlinked}
         \/ \E batch : write' = [write EXCEPT ![t] = batch]
         \/ \E batch : write' = [Unlinked EXCEPT ![t] = batch]
  PROVE  Spared(u)
<1>1. call'[u] = call[u]
  BY DEF TypeInv, Goes
<1>2. job'[u] = job[u]
  BY DEF TypeInv
<1>3. write'[u] \in {write[u], Unlinked[u]}
  BY UnlinkedIs DEF TypeInv
<1>. QED
  BY <1>1, <1>2, <1>3, BatchKept DEF Spared

LEMMA OthersCovered ==
  ASSUME LockInv, NEW u \in Task, Spared(u), \A k : <<u, k>> \in held => <<u, k>> \in held'
  PROVE  Covered(u)'
BY DEF LockInv, Covered, Spared

(* A task that holds a clone is alone: no other has anything under way.    *)
LEMMA Alone ==
  ASSUME LockInv, NEW t \in Task, NEW u \in Task \ {t}, \E k : <<t, k>> \in held
  PROVE  /\ call[u].at \in {"idle", "staging"} /\ write[u].at # "flying" /\ job[u] = "none"
         /\ \A k : <<u, k>> \notin held
<1>1. \A k : <<u, k>> \notin held
  BY DEF LockInv, OneHolder
<1>. QED
  BY <1>1 DEF LockInv, Covered

LEMMA AtWorkHolds ==
  ASSUME LockInv, NEW t \in Task, AtWork(t) PROVE \E k : <<t, k>> \in held
BY DEF LockInv, Covered, AtWork

(* The clones stay one task's when the holder, or anyone while there is    *)
(* none, takes another.                                                    *)
LEMMA OneHolderStays ==
  ASSUME TypeInv, OneHolder, NEW t \in Task,
         \A h \in held' : h \in held \/ h[1] = t,
         held' \subseteq held \/ held = {} \/ \E k : <<t, k>> \in held
  PROVE  OneHolder'
<1>1. CASE held' \subseteq held
  BY <1>1 DEF OneHolder
<1>2. CASE held = {} \/ \E k : <<t, k>> \in held
  <2>1. \A h \in held : h[1] = t
    BY <1>2 DEF OneHolder
  <2>. QED
    BY <2>1 DEF OneHolder
<1>. QED
  BY <1>1, <1>2

(* A call ends: its clone goes with it, what is on the pool keeps its own. *)
LEMMA EndedLock ==
  ASSUME TypeInv, LockInv, NEW t \in Task, Goes(t, IdleCall), Released(t), UNCHANGED job,
         write'[t].at = "flying" => write[t].at = "flying",
         write[t] = NoWrite => write'[t] = NoWrite,
         \/ write' \in {write, Unlinked}
         \/ \E batch : write' = [write EXCEPT ![t] = batch]
         \/ \E batch : write' = [Unlinked EXCEPT ![t] = batch]
  PROVE  LockInv'
<1>1. call'[t] = IdleCall
  BY GoesIs, IdleIs
<1>2. Covered(t)'
  BY <1>1, IdleIs DEF LockInv, Covered, Released
<1>3. ASSUME NEW u \in Task \ {t} PROVE Covered(u)'
  BY SparedIs, OthersCovered DEF Released
<1>4. OneHolder'
  BY OneHolderStays DEF LockInv, Released
<1>. QED
  BY <1>2, <1>3, <1>4 DEF LockInv

LEMMA StreamFailsLock ==
  ASSUME TypeInv, LockInv, NEW t \in Task, StreamFails(t), UNCHANGED job PROVE LockInv'
<1>1. write' \in {write, Unlinked}
  BY DEF StreamFails, RemovePart
<1>2. write'[t].at = write[t].at /\ (write[t] = NoWrite => write'[t] = NoWrite)
  BY <1>1, BatchKept
<1>. QED
  BY <1>1, <1>2, EndedLock DEF StreamFails

(* A call goes on from one await to the next, nothing of it in flight.     *)
LEMMA GoesOnLock ==
  ASSUME TypeInv, LockInv, NEW t \in Task, NEW local \in Call, Goes(t, local),
         call[t].at \notin {"idle", "staging"}, local.at \notin {"idle", "staging"},
         write[t] = NoWrite, write' \in {write, Unlinked}, UNCHANGED <<job, held>>
  PROVE  LockInv'
<1>1. call'[t] = local /\ write'[t] = NoWrite
  BY GoesIs, BatchKept
<1>2. Covered(t)'
  BY <1>1, IdleIs DEF LockInv, Covered
<1>3. ASSUME NEW u \in Task \ {t} PROVE Covered(u)'
  BY SparedIs, OthersCovered
<1>4. OneHolder'
  BY DEF LockInv, OneHolder
<1>. QED
  BY <1>2, <1>3, <1>4 DEF LockInv

LEMMA StartLock == ASSUME TypeInv, LockInv, NEW t \in Task, Start(t) PROVE LockInv'
<1>. DEFINE local == [IdleCall EXCEPT !.at = "ask", !.month = IF source.dated THEN month ELSE 0]
<1>1. (IF source.dated THEN month ELSE 0) \in Nat
  BY Builds DEF TypeInv
<1>2. local \in Call /\ local.at = "ask"
  BY <1>1, IdleIs DEF Call
<1>3. call'[t] = local
  BY <1>2, GoesIs DEF Start
<1>4. Covered(t)'
  BY <1>2, <1>3, IdleIs DEF Covered, Start
<1>5. ASSUME NEW u \in Task \ {t} PROVE Covered(u)'
  <2>1. Spared(u)
    BY SparedIs DEF Start
  <2>. QED
    BY <2>1, OthersCovered DEF Start
<1>6. OneHolder'
  BY DEF OneHolder, Start
<1>. QED
  BY <1>4, <1>5, <1>6 DEF LockInv

LEMMA AskLock == ASSUME TypeInv, LockInv, NEW t \in Task, Ask(t) PROVE LockInv'
<1>1. call[t] \in Call
  BY DEF TypeInv
<1>2. \A n \in Nat : /\ [call[t] EXCEPT !.at = "wait", !.from = n] \in Call
                     /\ [call[t] EXCEPT !.at = "wait", !.from = n].at = "wait"
  BY <1>1 DEF Call
<1>3. \E n \in Nat : Goes(t, [call[t] EXCEPT !.at = "wait", !.from = n])
  BY BodyType DEF Ask
<1>4. write' \in {write, Unlinked}
  BY DEF Ask, RemovePart
<1>5. write[t] = NoWrite
  BY DEF LockInv, Covered, Ask
<1>. QED
  BY <1>2, <1>3, <1>4, <1>5, GoesOnLock DEF Ask

LEMMA AnswerLock ==
  ASSUME TypeInv, LockInv, NEW t \in Task,
         AnswerRefused(t) \/ AnswerMissing(t) \/ AnswerUnsatisfiable(t) \/ AnswerPartial(t)
           \/ AnswerWhole(t)
  PROVE  LockInv'
<1>1. call[t] \in Call /\ call[t].at = "wait"
  BY DEF TypeInv, AnswerRefused, AnswerMissing, AnswerUnsatisfiable, AnswerPartial, AnswerWhole
<1>2. write[t] = NoWrite
  BY <1>1 DEF LockInv, Covered
<1>3. CASE StreamFails(t) /\ UNCHANGED job
  BY <1>3, StreamFailsLock
<1>4. ASSUME NEW local \in Call, Goes(t, local), local.at \in {"ask", "wait", "body"},
             RemovePart \/ UNCHANGED write, UNCHANGED <<job, held>>
      PROVE  LockInv'
  BY <1>1, <1>2, <1>4, GoesOnLock DEF RemovePart
<1>5. CASE AnswerMissing(t) /\ ~StreamFails(t)
  <2>1. /\ [call[t] EXCEPT !.at = "ask", !.url = "fallback"] \in Call
        /\ [call[t] EXCEPT !.at = "ask", !.url = "fallback"].at = "ask"
    BY <1>1 DEF Call
  <2>. QED
    BY <1>4, <1>5, <2>1 DEF AnswerMissing
<1>6. CASE AnswerUnsatisfiable(t)
  <2>1. /\ [call[t] EXCEPT !.from = 0] \in Call
        /\ [call[t] EXCEPT !.from = 0].at = "wait"
    BY <1>1 DEF Call
  <2>. QED
    BY <1>4, <1>6, <2>1 DEF AnswerUnsatisfiable
<1>7. \A n \in Nat :
        LET local == [call[t] EXCEPT !.at = "body", !.build = Serves(call[t]), !.sent = n]
        IN local \in Call /\ local.at = "body"
  <2>1. Serves(call[t]) \in Content
    BY <1>1, ServesType DEF Content
  <2>. QED
    BY <1>1, <2>1 DEF Call
<1>8. CASE AnswerPartial(t)
  <2>1. call[t].from \in Nat
    BY <1>1 DEF Call
  <2>. QED
    BY <1>4, <1>7, <1>8, <2>1 DEF AnswerPartial
<1>9. CASE AnswerWhole(t)
  BY <1>4, <1>7, <1>9 DEF AnswerWhole
<1>. QED
  BY <1>3, <1>5, <1>6, <1>8, <1>9 DEF AnswerRefused, AnswerMissing

LEMMA SendLock == ASSUME TypeInv, LockInv, NEW t \in Task, Send(t) PROVE LockInv'
<1>1. call[t] \in Call /\ call[t].at = "body"
  BY DEF TypeInv, Send
<1>2. [call[t] EXCEPT !.sent = @ + 1] \in Call /\ [call[t] EXCEPT !.sent = @ + 1].at = "body"
  BY <1>1 DEF Call
<1>3. call'[t].at = "body"
  BY <1>2, GoesIs DEF Send
<1>4. Covered(t)'
  BY <1>1, <1>3 DEF LockInv, Covered, Send
<1>5. ASSUME NEW u \in Task \ {t} PROVE Covered(u)'
  <2>1. Spared(u)
    BY SparedIs DEF Send
  <2>. QED
    BY <2>1, OthersCovered DEF Send
<1>6. OneHolder'
  <2>1. <<t, "call">> \in held
    BY <1>1 DEF LockInv, Covered
  <2>2. \A h \in held' : h \in held \/ h[1] = t
    BY DEF Send
  <2>. QED
    BY <2>1, <2>2, OneHolderStays DEF LockInv
<1>. QED
  BY <1>4, <1>5, <1>6 DEF LockInv

LEMMA SpawnedLock ==
  ASSUME TypeInv, LockInv, NEW t \in Task, Spawned(t), call[t].at \in {"body", "hash"},
         write[t] = NoWrite, UNCHANGED write
  PROVE  LockInv'
<1>1. [call[t] EXCEPT !.at = "staging"] \in Call /\ [call[t] EXCEPT !.at = "staging"].at = "staging"
  BY DEF TypeInv, Call
<1>2. call'[t].at = "staging"
  BY <1>1, GoesIs DEF Spawned
<1>3. Covered(t)'
  BY <1>2, IdleIs DEF TypeInv, Covered, Spawned
<1>4. ASSUME NEW u \in Task \ {t} PROVE Covered(u)'
  <2>1. Spared(u)
    BY SparedIs DEF Spawned
  <2>. QED
    BY <2>1, OthersCovered DEF Spawned
<1>5. OneHolder'
  <2>1. <<t, "call">> \in held
    BY DEF LockInv, Covered
  <2>2. \A h \in held' : h \in held \/ h[1] = t
    BY DEF Spawned
  <2>. QED
    BY <2>1, <2>2, OneHolderStays DEF LockInv
<1>. QED
  BY <1>3, <1>4, <1>5 DEF LockInv

LEMMA BodyLock ==
  ASSUME TypeInv, LockInv, NEW t \in Task,
         BodyBreaks(t) \/ BodyTooLarge(t) \/ BodyWriteFailed(t) \/ BodyEnds(t)
  PROVE  LockInv'
<1>1. CASE BodyBreaks(t)
  BY <1>1, StreamFailsLock DEF BodyBreaks
<1>2. ASSUME NEW batch, write' = [Unlinked EXCEPT ![t] = batch]
      PROVE  write'[t] = batch
  BY <1>2, UnlinkedIs
<1>3. CASE BodyTooLarge(t)
  <2>. DEFINE batch == IF Unlinked[t].at = "failed" THEN NoWrite ELSE Unlinked[t]
  <2>1. write' = [Unlinked EXCEPT ![t] = batch]
    BY <1>3 DEF BodyTooLarge
  <2>2. batch.at = "flying" => write[t].at = "flying"
    BY UnlinkedIs, IdleIs
  <2>3. write[t] = NoWrite => batch = NoWrite
    BY UnlinkedIs
  <2>4. /\ write'[t].at = "flying" => write[t].at = "flying"
        /\ write[t] = NoWrite => write'[t] = NoWrite
    BY <1>2, <2>1, <2>2, <2>3
  <2>. HIDE DEF batch
  <2>. QED
    BY <1>3, <2>1, <2>4, EndedLock DEF BodyTooLarge
<1>4. CASE BodyWriteFailed(t)
  <2>1. write'[t] = NoWrite /\ write'[t].at = "none"
    BY <1>2, <1>4, IdleIs DEF BodyWriteFailed
  <2>. QED
    BY <1>4, <2>1, EndedLock DEF BodyWriteFailed
<1>5. CASE BodyEnds(t)
  <2>1. call[t] \in Call
    BY DEF TypeInv
  <2>2. CASE Spawned(t)
    BY <1>5, <2>2, SpawnedLock DEF BodyEnds
  <2>3. CASE Goes(t, [call[t] EXCEPT !.at = "digest"]) /\ UNCHANGED <<job, held>>
    <3>1. [call[t] EXCEPT !.at = "digest"] \in Call /\ [call[t] EXCEPT !.at = "digest"].at = "digest"
      BY <2>1 DEF Call
    <3>. QED
      BY <1>5, <2>3, <3>1, GoesOnLock DEF BodyEnds
  <2>. QED
    BY <1>5, <2>2, <2>3 DEF BodyEnds
<1>. QED
  BY <1>1, <1>3, <1>4, <1>5

LEMMA DigestLock ==
  ASSUME TypeInv, LockInv, NEW t \in Task,
         DigestFails(t) \/ DigestArrives(t) \/ Hash(t) \/ Cancel(t)
  PROVE  LockInv'
<1>1. call[t] \in Call
  BY DEF TypeInv
<1>2. CASE DigestFails(t)
  BY <1>2, EndedLock DEF DigestFails
<1>3. CASE DigestArrives(t)
  <2>. DEFINE local == [call[t] EXCEPT !.at = "hash", !.build = published]
  <2>1. local \in Call /\ local.at = "hash"
    BY <1>1 DEF TypeInv, Call, Content
  <2>2. write[t] = NoWrite
    BY <1>3 DEF LockInv, Covered, DigestArrives
  <2>. QED
    BY <1>3, <2>1, <2>2, GoesOnLock DEF DigestArrives
<1>4. CASE Hash(t)
  <2>1. write[t] = NoWrite
    BY <1>4 DEF LockInv, Covered, Hash
  <2>2. CASE Spawned(t) /\ UNCHANGED <<part, write>>
    BY <1>4, <2>1, <2>2, SpawnedLock DEF Hash
  <2>3. CASE RemovePart /\ Goes(t, IdleCall) /\ Released(t) /\ UNCHANGED job
    <3>1. write' = Unlinked
      BY <2>3 DEF RemovePart
    <3>2. write'[t].at = write[t].at /\ (write[t] = NoWrite => write'[t] = NoWrite)
      BY <3>1, BatchKept
    <3>. QED
      BY <2>3, <3>1, <3>2, EndedLock
  <2>. QED
    BY <1>4, <2>2, <2>3 DEF Hash
<1>5. CASE Cancel(t)
  <2>1. write' = write \/ write' = [write EXCEPT ![t] = NoWrite]
    BY <1>5 DEF Cancel
  <2>2. /\ write'[t].at = "flying" => write[t].at = "flying"
        /\ write[t] = NoWrite => write'[t] = NoWrite
    BY <2>1, IdleIs DEF TypeInv
  <2>. QED
    BY <1>5, <2>1, <2>2, EndedLock DEF Cancel
<1>. QED
  BY <1>2, <1>3, <1>4, <1>5

LEMMA WriteLock ==
  ASSUME TypeInv, LockInv, NEW t \in Task, WriteLands(t) \/ WriteFails(t) PROVE LockInv'
<1>1. /\ UNCHANGED <<call, job>> /\ held' = held \ {<<t, "write">>}
      /\ \E batch : write' = [write EXCEPT ![t] = batch]
  BY DEF WriteLands, WriteFails
<1>2. /\ write'[t].at # "flying"
      /\ write'[t] = NoWrite \/ call[t].at = "body"
  <2>1. CASE WriteLands(t)
    BY <2>1, IdleIs DEF TypeInv, WriteLands
  <2>2. CASE WriteFails(t)
    <3>1. [write[t] EXCEPT !.at = "failed"].at = "failed"
      BY DEF TypeInv, Write
    <3>2. CASE call[t].at = "body"
      BY <2>2, <3>1, <3>2 DEF TypeInv, WriteFails
    <3>3. CASE call[t].at # "body"
      BY <2>2, <3>3, IdleIs DEF TypeInv, WriteFails
    <3>. QED
      BY <3>2, <3>3
  <2>. QED
    BY <2>1, <2>2
<1>3. Covered(t)'
  BY <1>1, <1>2 DEF LockInv, Covered
<1>4. ASSUME NEW u \in Task \ {t} PROVE Covered(u)'
  <2>1. Spared(u)
    BY <1>1, SparedIs
  <2>. QED
    BY <1>1, <2>1, OthersCovered
<1>5. OneHolder'
  BY <1>1, OneHolderStays DEF LockInv
<1>. QED
  BY <1>3, <1>4, <1>5 DEF LockInv

(* The step goes on, under the clone it holds.                             *)
LEMMA JobGoesOnLock ==
  ASSUME TypeInv, LockInv, NEW t \in Task, NEW stage, job[t] # "none",
         job' = [job EXCEPT ![t] = stage], UNCHANGED <<held, call, write>>
  PROVE  LockInv'
<1>1. Covered(t)'
  BY DEF LockInv, Covered
<1>2. ASSUME NEW u \in Task \ {t} PROVE Covered(u)'
  BY SparedIs, OthersCovered
<1>. QED
  BY <1>1, <1>2 DEF LockInv, OneHolder

LEMMA JobReturnsLock ==
  ASSUME TypeInv, LockInv, NEW t \in Task, job[t] # "none", JobReturns(t), RemovePart
  PROVE  LockInv'
<1>1. call[t].at \in {"idle", "staging"}
  BY DEF LockInv, Covered
<1>2. call'[t].at = "idle" /\ job'[t] = "none"
  <2>1. CASE call[t].at = "staging"
    BY <2>1, GoesIs, IdleIs DEF TypeInv, JobReturns
  <2>2. CASE call[t].at = "idle"
    BY <2>2 DEF TypeInv, JobReturns
  <2>. QED
    BY <1>1, <2>1, <2>2
<1>3. write' = Unlinked
  BY DEF RemovePart
<1>4. write'[t].at = write[t].at
  BY <1>3, BatchKept
<1>5. Covered(t)'
  BY <1>2, <1>4 DEF LockInv, Covered, JobReturns
<1>6. ASSUME NEW u \in Task \ {t} PROVE Covered(u)'
  <2>1. call' = call \/ \E local : Goes(t, local)
    BY DEF JobReturns
  <2>2. Spared(u)
    BY <1>3, <2>1, SparedIs DEF JobReturns
  <2>. QED
    BY <2>2, OthersCovered DEF JobReturns
<1>7. OneHolder'
  BY OneHolderStays DEF LockInv, JobReturns
<1>. QED
  BY <1>5, <1>6, <1>7 DEF LockInv

LEMMA JobLock ==
  ASSUME TypeInv, LockInv, NEW t \in Task,
         JobStage(t) \/ JobDecode(t) \/ JobCheck(t) \/ JobSync(t) \/ JobRename(t)
           \/ JobDone(t) \/ JobRejects(t)
  PROVE  LockInv'
<1>1. CASE JobStage(t) \/ JobDecode(t) \/ JobCheck(t) \/ JobSync(t) \/ JobRename(t)
  <2>1. job[t] # "none" /\ UNCHANGED <<held, call, write>>
    BY <1>1 DEF JobStage, JobDecode, JobCheck, JobSync, JobRename, JobFrame
  <2>2. \E stage : job' = [job EXCEPT ![t] = stage]
    BY <1>1 DEF JobStage, JobDecode, JobCheck, JobSync, JobRename
  <2>. QED
    BY <2>1, <2>2, JobGoesOnLock
<1>2. CASE JobDone(t)
  BY <1>2, JobReturnsLock DEF JobDone
<1>3. CASE JobRejects(t)
  BY <1>3, JobReturnsLock DEF JobRejects, JobErrs, Refused
<1>. QED
  BY <1>1, <1>2, <1>3

LEMMA DeadLock ==
  ASSUME TypeInv, LockInv, NEW T, Dead(T),
         \A t \in Task \cap T : write'[t] = NoWrite,
         \A t \in Task \ T : write'[t] = write[t]
  PROVE  LockInv'
<1>1. ASSUME NEW t \in Task \cap T PROVE Covered(t)'
  BY <1>1, IdleIs DEF Covered, Dead
<1>2. ASSUME NEW t \in Task \ T PROVE Covered(t)'
  <2>1. call'[t] = call[t] /\ job'[t] = job[t] /\ write'[t] = write[t]
    BY <1>2 DEF Dead
  <2>2. \A k : <<t, k>> \in held => <<t, k>> \in held'
    BY <1>2 DEF Dead
  <2>. QED
    BY <2>1, <2>2, OthersCovered DEF Spared
<1>3. OneHolder'
  BY DEF LockInv, OneHolder, Dead
<1>. QED
  BY <1>1, <1>2, <1>3 DEF LockInv

LEMMA CrashLock ==
  ASSUME TypeInv, LockInv, PowerLoss \/ \E t \in Task : Kill(t) PROVE LockInv'
<1>1. CASE PowerLoss
  BY <1>1, DeadLock DEF PowerLoss
<1>2. ASSUME NEW t \in Task, Kill(t) PROVE LockInv'
  BY <1>2, DeadLock DEF TypeInv, Kill
<1>. QED
  BY <1>1, <1>2

LEMMA SameLock ==
  ASSUME LockInv, UNCHANGED <<held, call, write, job>> PROVE LockInv'
BY DEF LockInv, OneHolder, Covered

LEMMA StepLock == ASSUME TypeInv, LockInv, [Next]_vars PROVE LockInv'
<1>1. CASE UNCHANGED vars \/ Publish \/ NewMonth \/ Age
  BY <1>1, SameLock DEF vars, Publish, NewMonth, Age
<1>2. ASSUME NEW t \in Task, Start(t) \/ Calling(t) \/ Blocking(t) \/ GoesWrong(t) PROVE LockInv'
  <2>1. ASSUME Kill(t) PROVE LockInv'
    BY <2>1, CrashLock
  <2>. QED
    BY <1>2, <2>1, StartLock, AskLock, AnswerLock, SendLock, BodyLock, DigestLock, WriteLock,
       JobLock DEF Calling, Blocking, GoesWrong
<1>. QED
  BY <1>1, <1>2, CrashLock DEF Next

LEMMA InitLock == Init => LockInv
BY IdleIs DEF Init, LockInv, OneHolder, Covered

LEMMA TypeAndLock == Spec => [](TypeInv /\ LockInv)
<1>1. Init => TypeInv /\ LockInv
  BY InitTypes, InitLock
<1>2. TypeInv /\ LockInv /\ [Next]_vars => TypeInv' /\ LockInv'
  BY StepTypes, StepLock
<1>. QED
  BY <1>1, <1>2, PTL DEF Spec

(* Every variable keeps its type, and a call past the lock holds it, for   *)
(* any number of tasks and through any number of faults.                   *)
THEOREM TypeCorrect == Spec => []TypeOK
<1>1. TypeInv /\ LockInv => TypeOK
  BY DEF TypeInv, LockInv, Covered, TypeOK
<1>. QED
  BY <1>1, TypeAndLock, PTL

(* One task at a time touches the part and the staged file, a write or a   *)
(* blocking step that outlived its caller included.                        *)
THEOREM WritersAreAlone == Spec => []LoneWriter
<1>1. TypeInv /\ LockInv => LoneWriter
  BY AtWorkHolds, Alone DEF LoneWriter, AtWork
<1>. QED
  BY <1>1, TypeAndLock, PTL
-----------------------------------------------------------------------------
(* What the part and the staged file hold.                                 *)

(* The files a step leaves alone, it leaves as sound.                      *)
LEMMA SameSound ==
  ASSUME NEW u \in Task, Sound(u), call'[u] = call[u], job'[u] = job[u], write'[u] = write[u],
         UNCHANGED <<source, part, staged>>
  PROVE  Sound(u)'
BY DEF Sound, FromTheStart, ResumeIsCheckable, Whole, Repeats

(* Another's step, by a holder, finds nothing of this task's under way.    *)
LEMMA OthersSound ==
  ASSUME LockInv, NEW t \in Task, \E k : <<t, k>> \in held, NEW u \in Task \ {t},
         Sound(u), call'[u] = call[u], job'[u] = job[u], UNCHANGED source
  PROVE  Sound(u)'
<1>1. call[u].at \in {"idle", "staging"} /\ job[u] = "none"
  BY Alone
<1>. QED
  BY <1>1 DEF Sound, ResumeIsCheckable

LEMMA EndedSound ==
  ASSUME TypeInv, LockInv, NEW t \in Task, call[t].at \notin {"idle", "staging"},
         Goes(t, IdleCall), UNCHANGED job
  PROVE  Sound(t)'
<1>1. call'[t] = IdleCall
  BY GoesIs, IdleIs
<1>2. job'[t] = "none"
  BY DEF LockInv, Covered
<1>. QED
  BY <1>1, <1>2, IdleIs DEF Sound

(* A task with a call under way has no step on the pool.                   *)
LEMMA CallHasNoJob ==
  ASSUME LockInv, NEW t \in Task, call[t].at \notin {"idle", "staging"}
  PROVE  job[t] = "none" /\ <<t, "call">> \in held
BY DEF LockInv, Covered

LEMMA StartSound ==
  ASSUME TypeInv, LockInv, NEW t \in Task, Start(t) PROVE Sound(t)'
<1>. DEFINE local == [IdleCall EXCEPT !.at = "ask", !.month = IF source.dated THEN month ELSE 0]
<1>1. (IF source.dated THEN month ELSE 0) \in Nat
  BY Builds DEF TypeInv
<1>2. local \in Call /\ local.at = "ask" /\ local.from = 0
  BY <1>1, IdleIs DEF Call
<1>3. call'[t] = local /\ job'[t] = "none"
  BY <1>2, GoesIs DEF Start
<1>. QED
  BY <1>2, <1>3 DEF Sound

LEMMA AskSound ==
  ASSUME TypeInv, LockInv, NEW t \in Task, Sound(t), Ask(t) PROVE Sound(t)'
<1>1. call[t] \in Call /\ source' = source
  BY DEF TypeInv, Ask, world
<1>2. \A n \in Nat : LET local == [call[t] EXCEPT !.at = "wait", !.from = n]
                     IN local \in Call /\ local.at = "wait" /\ local.from = n
  BY <1>1 DEF Call
<1>3. \E n \in Nat : /\ Goes(t, [call[t] EXCEPT !.at = "wait", !.from = n])
                     /\ ~ResumeIsCheckable => n = 0
  BY BodyType DEF Ask
<1>4. call'[t].at = "wait" /\ (~ResumeIsCheckable => call'[t].from = 0)
  BY <1>2, <1>3, GoesIs
<1>5. job'[t] = "none"
  BY CallHasNoJob DEF Ask
<1>. QED
  BY <1>1, <1>4, <1>5 DEF Sound, ResumeIsCheckable

LEMMA AnswerSound ==
  ASSUME TypeInv, LockInv, NEW t \in Task, Sound(t),
         AnswerRefused(t) \/ AnswerMissing(t) \/ AnswerUnsatisfiable(t) \/ AnswerPartial(t)
           \/ AnswerWhole(t)
  PROVE  Sound(t)'
<1>1. call[t] \in Call /\ call[t].at = "wait" /\ UNCHANGED <<source, job>>
  BY DEF TypeInv, AnswerRefused, AnswerMissing, AnswerUnsatisfiable, AnswerPartial, AnswerWhole,
         world
<1>2. job'[t] = "none" /\ write[t] = NoWrite
  BY <1>1, CallHasNoJob DEF LockInv, Covered
<1>3. ~ResumeIsCheckable => call[t].from = 0
  BY DEF Sound
<1>4. CASE StreamFails(t)
  BY <1>1, <1>4, EndedSound DEF StreamFails
<1>5. CASE AnswerMissing(t) /\ ~StreamFails(t)
  <2>. DEFINE local == [call[t] EXCEPT !.at = "ask", !.url = "fallback"]
  <2>1. local \in Call /\ local.at = "ask" /\ local.from = call[t].from
    BY <1>1 DEF Call
  <2>2. call'[t] = local
    BY <1>5, <2>1, GoesIs DEF AnswerMissing
  <2>. HIDE DEF local
  <2>. QED
    BY <1>1, <1>2, <1>3, <2>1, <2>2 DEF Sound, ResumeIsCheckable
<1>6. CASE AnswerUnsatisfiable(t)
  <2>. DEFINE local == [call[t] EXCEPT !.from = 0]
  <2>1. local \in Call /\ local.at = "wait" /\ local.from = 0
    BY <1>1 DEF Call
  <2>2. call'[t] = local
    BY <1>6, <2>1, GoesIs DEF AnswerUnsatisfiable
  <2>. HIDE DEF local
  <2>. QED
    BY <1>1, <1>2, <2>1, <2>2 DEF Sound
<1>7. Serves(call[t]) \in Content
  BY <1>1, ServesType DEF Content
<1>8. \A n \in Nat :
        LET local == [call[t] EXCEPT !.at = "body", !.build = Serves(call[t]), !.sent = n]
        IN /\ local \in Call /\ local.at = "body" /\ local.from = call[t].from
           /\ local.build = Serves(call[t]) /\ local.sent = n
  BY <1>1, <1>7 DEF Call
<1>9. CASE AnswerPartial(t)
  <2>. DEFINE local == [call[t] EXCEPT !.at = "body", !.build = Serves(call[t]),
                                       !.sent = call[t].from]
  <2>1. call[t].from \in Nat
    BY <1>1 DEF Call
  <2>2. /\ local \in Call /\ local.at = "body" /\ local.from = call[t].from
        /\ local.build = Serves(call[t])
    BY <1>8, <2>1
  <2>3. call'[t] = local
    BY <1>9, <2>2, GoesIs DEF AnswerPartial
  <2>4. ResumeIsCheckable /\ Serves(call[t]) \in Build
    BY <1>3, <1>7, <1>9 DEF AnswerPartial, Content
  <2>. HIDE DEF local
  <2>. QED
    BY <1>1, <1>2, <2>2, <2>3, <2>4 DEF Sound, ResumeIsCheckable
<1>10. CASE AnswerWhole(t)
  <2>. DEFINE local == [call[t] EXCEPT !.at = "body", !.build = Serves(call[t]), !.sent = 0]
  <2>1. /\ local \in Call /\ local.at = "body" /\ local.from = call[t].from
        /\ local.build = Serves(call[t]) /\ local.sent = 0
    BY <1>8
  <2>2. call'[t] = local
    BY <1>10, <2>1, GoesIs DEF AnswerWhole
  <2>3. Serves(call[t]) \in Build
    BY <1>7, <1>10 DEF AnswerWhole, Content
  <2>4. part' # NoFile /\ part'.body = <<>> /\ write'[t] = NoWrite
    <3>1. [body |-> <<>>, old |-> FALSE] \in Part
      BY DEF Part
    <3>. QED
      BY <1>2, <1>10, <3>1, TransferAssumption DEF AnswerWhole
  <2>. HIDE DEF local
  <2>5. FromTheStart(t)'
    BY <2>1, <2>2, <2>4, RepeatsNone, IdleIs DEF FromTheStart
  <2>. QED
    BY <1>1, <1>2, <1>3, <2>1, <2>2, <2>3, <2>5 DEF Sound, ResumeIsCheckable
<1>. QED
  BY <1>4, <1>5, <1>6, <1>9, <1>10 DEF AnswerRefused, AnswerMissing

LEMMA SendSound ==
  ASSUME TypeInv, LockInv, NEW t \in Task, Sound(t), Send(t) PROVE Sound(t)'
<1>. DEFINE local == [call[t] EXCEPT !.sent = @ + 1]
            batch == [unit |-> call[t].build, linked |-> TRUE, at |-> "flying"]
<1>1. call[t] \in Call /\ call[t].at = "body" /\ call[t].sent \in Nat
      /\ UNCHANGED <<source, part, staged, job>>
  BY DEF TypeInv, Send, Call, world, paths
<1>2. /\ local \in Call /\ local.at = "body" /\ local.from = call[t].from
      /\ local.build = call[t].build /\ local.sent = call[t].sent + 1
  BY <1>1 DEF Call
<1>3. call'[t] = local /\ write'[t] = batch /\ write[t] = NoWrite
  BY <1>2, GoesIs DEF TypeInv, Send
<1>4. job'[t] = "none"
  BY <1>1, CallHasNoJob
<1>5. FromTheStart(t) => FromTheStart(t)'
  <2>1. batch # NoWrite /\ batch.linked /\ batch.unit = call[t].build
    BY DEF NoWrite
  <2>2. (call[t].sent + 1) - 1 = call[t].sent /\ call[t].sent + 1 > 0
    BY <1>1
  <2>. HIDE DEF local, batch
  <2>. QED
    BY <1>1, <1>2, <1>3, <2>1, <2>2 DEF FromTheStart, Repeats
<1>. HIDE DEF local, batch
<1>. QED
  BY <1>1, <1>2, <1>3, <1>4, <1>5 DEF Sound, ResumeIsCheckable

(* A raw body that goes on to be staged is whole.                          *)
LEMMA SpawnedSound ==
  ASSUME TypeInv, LockInv, NEW t \in Task, Sound(t), Spawned(t), UNCHANGED <<source, part>>,
         source.archive = "raw" /\ part # NoFile => \E b \in Build : part.body = Whole(b)
  PROVE  Sound(t)'
<1>. DEFINE local == [call[t] EXCEPT !.at = "staging"]
<1>1. local \in Call /\ local.at = "staging" /\ local.from = call[t].from
  BY DEF TypeInv, Call
<1>2. call'[t] = local /\ job'[t] = "stage"
  BY <1>1, GoesIs DEF TypeInv, Spawned
<1>. HIDE DEF local
<1>. QED
  BY <1>1, <1>2 DEF Sound, ResumeIsCheckable, Whole

LEMMA BodySound ==
  ASSUME TypeInv, LockInv, NEW t \in Task, Sound(t),
         BodyBreaks(t) \/ BodyTooLarge(t) \/ BodyWriteFailed(t) \/ BodyEnds(t)
  PROVE  Sound(t)'
<1>1. CASE BodyBreaks(t) \/ BodyTooLarge(t) \/ BodyWriteFailed(t)
  BY <1>1, EndedSound DEF BodyBreaks, BodyTooLarge, BodyWriteFailed, StreamFails
<1>2. CASE BodyEnds(t) /\ source.digest
  <2>. DEFINE local == [call[t] EXCEPT !.at = "digest"]
  <2>1. local \in Call /\ local.at = "digest" /\ local.from = call[t].from
    BY DEF TypeInv, Call
  <2>2. call'[t] = local /\ UNCHANGED <<source, job>>
    BY <1>2, <2>1, GoesIs DEF BodyEnds, world
  <2>3. job'[t] = "none"
    BY <1>2, <2>2, CallHasNoJob DEF BodyEnds
  <2>. HIDE DEF local
  <2>. QED
    BY <2>1, <2>2, <2>3 DEF Sound, ResumeIsCheckable
<1>3. CASE BodyEnds(t) /\ ~source.digest
  <2>1. Spawned(t) /\ UNCHANGED <<source, part>>
    BY <1>3 DEF BodyEnds, world, paths
  <2>2. ASSUME source.archive = "raw" PROVE part.body = Whole(call[t].build) /\ call[t].build \in Build
    <3>1. ~ResumeIsCheckable
      BY <1>3, <2>2 DEF ResumeIsCheckable
    <3>2. FromTheStart(t) /\ call[t].build \in Build
      BY <1>3, <3>1 DEF Sound, BodyEnds
    <3>3. part.body = Repeats(call[t].build, Length[call[t].build])
      BY <1>3, <3>2 DEF FromTheStart, BodyEnds
    <3>. QED
      BY <3>2, <3>3, WholeIs
  <2>. QED
    BY <2>1, <2>2, SpawnedSound
<1>. QED
  BY <1>1, <1>2, <1>3

LEMMA DigestSound ==
  ASSUME TypeInv, LockInv, NEW t \in Task, Sound(t),
         DigestFails(t) \/ DigestArrives(t) \/ Hash(t) \/ Cancel(t)
  PROVE  Sound(t)'
<1>1. CASE DigestFails(t)
  BY <1>1, EndedSound DEF DigestFails
<1>2. CASE DigestArrives(t)
  <2>. DEFINE local == [call[t] EXCEPT !.at = "hash", !.build = published]
  <2>1. local \in Call /\ local.at = "hash" /\ local.build \in Build /\ local.from = call[t].from
    BY DEF TypeInv, Call, Content
  <2>2. call'[t] = local /\ UNCHANGED <<source, job>>
    BY <1>2, <2>1, GoesIs DEF DigestArrives, world
  <2>3. job'[t] = "none"
    BY <1>2, <2>2, CallHasNoJob DEF DigestArrives
  <2>. HIDE DEF local
  <2>. QED
    BY <2>1, <2>2, <2>3 DEF Sound, ResumeIsCheckable
<1>3. CASE Hash(t) /\ PartBody = Whole(call[t].build)
  <2>1. Spawned(t) /\ UNCHANGED <<source, part>> /\ call[t].build \in Build
    BY <1>3 DEF Hash, Sound, world
  <2>2. part # NoFile => part.body = Whole(call[t].build)
    BY <1>3, BodyType
  <2>. QED
    BY <2>1, <2>2, SpawnedSound
<1>4. CASE Hash(t) /\ PartBody # Whole(call[t].build)
  BY <1>4, EndedSound DEF Hash
<1>5. CASE Cancel(t)
  <2>1. call'[t] = IdleCall
    BY <1>5, GoesIs, IdleIs DEF Cancel
  <2>2. job'[t] = job[t] /\ UNCHANGED <<source, part, staged>>
    BY <1>5 DEF Cancel, world, paths
  <2>. QED
    BY <2>1, <2>2, IdleIs DEF Sound, Whole
<1>. QED
  BY <1>1, <1>2, <1>3, <1>4, <1>5

(* The batch that lands is the next unit of the build the body is of.      *)
LEMMA WriteLandsSound ==
  ASSUME TypeInv, LockInv, NEW t \in Task, Sound(t), WriteLands(t) PROVE Sound(t)'
<1>1. /\ call' = call /\ job' = job /\ UNCHANGED <<source, staged>>
      /\ write'[t] = NoWrite
  BY DEF TypeInv, WriteLands, world
<1>2. job[t] = "none"
  BY IdleIs DEF LockInv, Covered, WriteLands
<1>3. CASE call[t].at # "body"
  BY <1>1, <1>2, <1>3 DEF Sound, ResumeIsCheckable
<1>4. ASSUME call[t].at = "body", FromTheStart(t) PROVE FromTheStart(t)'
  <2>1. call[t].sent \in Nat /\ call[t].sent > 0 /\ part # NoFile /\ write[t].linked
        /\ write[t].unit = call[t].build /\ part.body = Repeats(call[t].build, call[t].sent - 1)
    BY <1>4 DEF TypeInv, Call, FromTheStart, WriteLands
  <2>2. part' = [body |-> Append(part.body, write[t].unit), old |-> FALSE]
    BY <2>1 DEF WriteLands
  <2>3. part'.body = Repeats(call[t].build, call[t].sent)
    <3>. DEFINE n == call[t].sent - 1
    <3>1. n \in Nat /\ n + 1 = call[t].sent
      BY <2>1
    <3>. HIDE DEF n
    <3>2. Append(Repeats(call[t].build, n), call[t].build) = Repeats(call[t].build, n + 1)
      BY <3>1, RepeatsOneMore
    <3>3. part'.body = Append(Repeats(call[t].build, n), call[t].build)
      BY <2>1, <2>2 DEF n
    <3>. QED
      BY <3>1, <3>2, <3>3
  <2>4. part' # NoFile
    <3>1. part' \in Part
      <4>1. TypeInv'
        BY WriteTypes
      <4>2. part.body \in Seq(Unit) /\ write[t].unit \in Unit
        BY <2>1, BodyType DEF TypeInv, Write
      <4>. QED
        BY <2>2, <4>2 DEF Part
    <3>. QED
      BY <3>1, TransferAssumption
  <2>. QED
    BY <1>1, <2>3, <2>4, IdleIs DEF FromTheStart
<1>5. CASE call[t].at = "body"
  BY <1>1, <1>2, <1>4, <1>5 DEF Sound, ResumeIsCheckable
<1>. QED
  BY <1>3, <1>5

LEMMA WriteFailsSound ==
  ASSUME TypeInv, LockInv, NEW t \in Task, Sound(t), WriteFails(t) PROVE Sound(t)'
<1>1. call' = call /\ job' = job /\ UNCHANGED <<source, part, staged>>
  BY DEF WriteFails, world, paths
<1>2. job[t] = "none"
  BY IdleIs DEF LockInv, Covered, WriteFails
<1>3. call[t].at = "body" => write'[t].at = "failed"
  <2>1. [write[t] EXCEPT !.at = "failed"].at = "failed"
    BY DEF TypeInv, Write
  <2>. QED
    BY <2>1 DEF TypeInv, WriteFails
<1>4. call[t].at = "body" /\ FromTheStart(t) => FromTheStart(t)'
  BY <1>1, <1>3, IdleIs DEF FromTheStart
<1>. QED
  BY <1>1, <1>2, <1>4 DEF Sound, ResumeIsCheckable

LEMMA JobIdles ==
  ASSUME TypeInv, LockInv, NEW t \in Task, job[t] # "none"
  PROVE  call[t].at \in {"idle", "staging"} /\ <<t, "job">> \in held
BY DEF LockInv, Covered

(* What the step on the pool stages: only a whole body gets past the check. *)
LEMMA JobGoesOnSound ==
  ASSUME TypeInv, LockInv, NEW t \in Task, Sound(t),
         JobStage(t) \/ JobDecode(t) \/ JobCheck(t) \/ JobSync(t) \/ JobRename(t)
  PROVE  Sound(t)'
<1>1. job[t] # "none" /\ UNCHANGED <<source, held, call, write>>
  BY DEF JobStage, JobDecode, JobCheck, JobSync, JobRename, JobFrame, world
<1>2. call[t].at \in {"idle", "staging"} /\ call' = call /\ job \in [Task -> Job]
  BY <1>1, JobIdles DEF TypeInv
<1>3. \A b \in Content, synced \in BOOLEAN : [build |-> b, synced |-> synced] # NoFile
  BY TransferAssumption DEF File
<1>4. ASSUME NEW b \in Build
      PROVE  /\ [build |-> b, synced |-> FALSE] # NoFile /\ [build |-> b, synced |-> TRUE] # NoFile
  BY <1>3 DEF Content
<1>5. CASE JobStage(t) /\ source.archive = "raw"
  <2>1. ContentOf(PartBody) \in Build
    <3>1. \E b \in Build : part.body = Whole(b)
      BY <1>5 DEF Sound, JobStage
    <3>. QED
      BY <1>5, <3>1, BodyType, ContentIs DEF JobStage
  <2>2. job'[t] = "check" /\ staged' = [build |-> ContentOf(PartBody), synced |-> FALSE]
    BY <1>2, <1>5 DEF JobStage
  <2>. QED
    BY <1>1, <1>2, <1>4, <2>1, <2>2 DEF Sound, ResumeIsCheckable
<1>6. CASE JobStage(t) /\ source.archive # "raw"
  <2>1. job'[t] = "decode"
    BY <1>2, <1>6 DEF JobStage
  <2>. QED
    BY <1>1, <1>2, <2>1 DEF Sound, ResumeIsCheckable
<1>7. CASE JobDecode(t)
  <2>1. ContentOf(PartBody) \in Build
    BY <1>7, ContentIs DEF JobDecode, Content
  <2>2. job'[t] = "check" /\ staged' = [build |-> ContentOf(PartBody), synced |-> FALSE]
    BY <1>2, <1>7 DEF JobDecode
  <2>. QED
    BY <1>1, <1>2, <1>4, <2>1, <2>2 DEF Sound, ResumeIsCheckable
<1>8. CASE JobCheck(t)
  <2>1. staged # NoFile /\ staged.build \in Build /\ staged.build \notin Unfit
    BY <1>8, StagedType DEF Sound, JobCheck
  <2>2. job'[t] = "sync" /\ staged' = staged
    BY <1>2, <1>8 DEF JobCheck, paths
  <2>. QED
    BY <1>1, <1>2, <2>1, <2>2 DEF Sound, ResumeIsCheckable
<1>9. CASE JobSync(t)
  <2>1. Holds(staged) \in Build /\ Holds(staged) \notin Unfit
    BY <1>9, StagedType DEF Sound, JobSync
  <2>2. job'[t] = "rename" /\ staged' = [build |-> Holds(staged), synced |-> TRUE]
    BY <1>2, <1>9 DEF JobSync
  <2>. QED
    BY <1>1, <1>2, <1>4, <2>1, <2>2 DEF Sound, ResumeIsCheckable
<1>10. CASE JobRename(t)
  <2>1. job'[t] = "tidy"
    BY <1>2, <1>10 DEF JobRename
  <2>. QED
    BY <1>1, <1>2, <2>1 DEF Sound, ResumeIsCheckable
<1>. QED
  BY <1>5, <1>6, <1>7, <1>8, <1>9, <1>10

LEMMA JobReturnsSound ==
  ASSUME TypeInv, LockInv, NEW t \in Task, Sound(t), job[t] # "none", JobReturns(t)
  PROVE  Sound(t)'
<1>1. call[t].at \in {"idle", "staging"} /\ job'[t] = "none" /\ source' = source
  BY JobIdles DEF TypeInv, JobReturns, world
<1>2. call'[t] \in {call[t], IdleCall}
  BY GoesIs, IdleIs DEF TypeInv, JobReturns
<1>. QED
  BY <1>1, <1>2, IdleIs DEF Sound, ResumeIsCheckable

LEMMA TaskSpares ==
  ASSUME TypeInv, NEW t \in Task, Start(t) \/ Calling(t) \/ Blocking(t) \/ GoesWrong(t), ~Kill(t)
  PROVE  source' = source /\ \A u \in Task \ {t} : Spared(u)
<1>1. source' = source
  BY DEF Start, Calling, Blocking, GoesWrong, Ask, AnswerRefused, AnswerMissing,
         AnswerUnsatisfiable, AnswerPartial, AnswerWhole, Send, BodyBreaks, BodyTooLarge,
         BodyWriteFailed, BodyEnds, DigestFails, DigestArrives, Hash, Cancel, WriteLands,
         WriteFails, JobStage, JobDecode, JobCheck, JobSync, JobRename, JobDone, JobRejects,
         JobReturns, JobFrame, StreamFails, Spawned, RemovePart, world
<1>2. call' = call \/ \E local : Goes(t, local)
  BY DEF Start, Calling, Blocking, GoesWrong, Ask, AnswerRefused, AnswerMissing,
         AnswerUnsatisfiable, AnswerPartial, AnswerWhole, Send, BodyBreaks, BodyTooLarge,
         BodyWriteFailed, BodyEnds, DigestFails, DigestArrives, Hash, Cancel, WriteLands,
         WriteFails, JobStage, JobDecode, JobCheck, JobSync, JobRename, JobDone, JobRejects,
         JobReturns, JobFrame, StreamFails, Spawned, RemovePart, world
<1>3. job' = job \/ \E stage : job' = [job EXCEPT ![t] = stage]
  BY DEF Start, Calling, Blocking, GoesWrong, Ask, AnswerRefused, AnswerMissing,
         AnswerUnsatisfiable, AnswerPartial, AnswerWhole, Send, BodyBreaks, BodyTooLarge,
         BodyWriteFailed, BodyEnds, DigestFails, DigestArrives, Hash, Cancel, WriteLands,
         WriteFails, JobStage, JobDecode, JobCheck, JobSync, JobRename, JobDone, JobRejects,
         JobReturns, JobFrame, StreamFails, Spawned, RemovePart, world
<1>4. \/ write' \in {write, Unlinked}
      \/ \E batch : write' = [write EXCEPT ![t] = batch]
      \/ \E batch : write' = [Unlinked EXCEPT ![t] = batch]
  BY DEF Start, Calling, Blocking, GoesWrong, Ask, AnswerRefused, AnswerMissing,
         AnswerUnsatisfiable, AnswerPartial, AnswerWhole, Send, BodyBreaks, BodyTooLarge,
         BodyWriteFailed, BodyEnds, DigestFails, DigestArrives, Hash, Cancel, WriteLands,
         WriteFails, JobStage, JobDecode, JobCheck, JobSync, JobRename, JobDone, JobRejects,
         JobReturns, JobFrame, StreamFails, Spawned, RemovePart, world
<1>. QED
  BY <1>1, <1>2, <1>3, <1>4, SparedIs

LEMMA TaskHolds ==
  ASSUME LockInv, NEW t \in Task, Calling(t) \/ Blocking(t) \/ GoesWrong(t), ~Cancel(t), ~Kill(t)
  PROVE  \E k : <<t, k>> \in held
<1>1. AtWork(t)
  BY IdleIs DEF AtWork, Calling, Blocking, GoesWrong, Ask, AnswerRefused, AnswerMissing,
     AnswerUnsatisfiable, AnswerPartial, AnswerWhole, Send, BodyBreaks, BodyTooLarge,
     BodyWriteFailed, BodyEnds, DigestFails, DigestArrives, Hash, WriteLands, WriteFails,
     JobStage, JobDecode, JobCheck, JobSync, JobRename, JobDone, JobRejects, JobErrs, Refused
<1>. QED
  BY <1>1, AtWorkHolds

(* Each step of a task, taken together with what it leaves of the others.  *)
LEMMA TaskSound ==
  ASSUME TypeInv, LockInv, \A u \in Task : Sound(u), NEW t \in Task,
         Start(t) \/ Calling(t) \/ Blocking(t) \/ GoesWrong(t), ~Kill(t)
  PROVE  \A u \in Task : Sound(u)'
<1>1. Sound(t)'
  BY StartSound, AskSound, AnswerSound, SendSound, BodySound, DigestSound, WriteLandsSound,
     WriteFailsSound, JobGoesOnSound, JobReturnsSound
     DEF Calling, Blocking, GoesWrong, JobDone, JobRejects, JobErrs, Refused
<1>2. source' = source
  BY TaskSpares
<1>3. ASSUME NEW u \in Task \ {t} PROVE call'[u] = call[u] /\ job'[u] = job[u]
  BY TaskSpares DEF Spared
<1>4. ASSUME NEW u \in Task \ {t} PROVE Sound(u)'
  <2>1. CASE Start(t)
    <3>1. write'[u] = write[u] /\ UNCHANGED <<part, staged>>
      BY <2>1 DEF Start, paths
    <3>. QED
      BY <1>2, <1>3, <3>1, SameSound
  <2>2. CASE Cancel(t)
    <3>1. write'[u] = write[u] /\ UNCHANGED <<part, staged>>
      BY <2>2 DEF TypeInv, Cancel, paths
    <3>. QED
      BY <1>2, <1>3, <3>1, SameSound
  <2>3. CASE (Calling(t) \/ Blocking(t) \/ GoesWrong(t)) /\ ~Cancel(t)
    <3>1. \E k : <<t, k>> \in held
      BY <2>3, TaskHolds
    <3>. QED
      BY <1>2, <1>3, <3>1, OthersSound
  <2>. QED
    BY <2>1, <2>2, <2>3
<1>. QED
  BY <1>1, <1>4

LEMMA DeadSound ==
  ASSUME TypeInv, NEW T, NEW t \in Task \cap T, Dead(T) PROVE Sound(t)'
BY IdleIs DEF Dead, Sound

LEMMA StepSound ==
  ASSUME TypeInv, LockInv, \A u \in Task : Sound(u), [Next]_vars PROVE \A u \in Task : Sound(u)'
<1>1. CASE UNCHANGED vars \/ Publish \/ NewMonth
  BY <1>1, SameSound DEF vars, Publish, NewMonth, paths
<1>2. CASE Age
  <2>1. part # NoFile /\ part' # NoFile /\ part'.body = part.body
    <3>1. [part EXCEPT !.old = TRUE] \in Part /\ [part EXCEPT !.old = TRUE].body = part.body
      BY <1>2, BodyType DEF Age, Part
    <3>. QED
      BY <1>2, <3>1, TransferAssumption DEF Age
  <2>2. UNCHANGED <<source, staged, call, write, job>>
    BY <1>2 DEF Age, world
  <2>. QED
    BY <2>1, <2>2 DEF Sound, FromTheStart, ResumeIsCheckable
<1>3. ASSUME NEW t \in Task, Kill(t) PROVE \A u \in Task : Sound(u)'
  <2>1. ASSUME NEW u \in Task \ {t} PROVE Sound(u)'
    BY <1>3, <2>1, SameSound DEF TypeInv, Kill, Dead, paths
  <2>2. Sound(t)'
    BY <1>3, DeadSound DEF Kill
  <2>. QED
    BY <2>1, <2>2
<1>4. CASE PowerLoss
  BY <1>4, DeadSound DEF PowerLoss
<1>. QED
  BY <1>1, <1>2, <1>3, <1>4, TaskSound DEF Next
-----------------------------------------------------------------------------
(* The destination, and what is left at rest.                              *)

LEMMA StepDest ==
  ASSUME TypeInv, \A u \in Task : Sound(u), DestIntact, [Next]_vars PROVE DestIntact'
<1>1. CASE dest' = dest
  BY <1>1 DEF DestIntact, Holds
<1>2. ASSUME NEW t \in Task, JobRename(t) PROVE DestIntact'
  BY <1>2 DEF JobRename, Sound, DestIntact, Holds
<1>3. CASE PowerLoss
  <2>1. dest # NoFile => dest' = dest
    BY <1>3 DEF PowerLoss, Torn, DestIntact
  <2>2. dest = NoFile => dest' = NoFile
    BY <1>3 DEF PowerLoss, Torn
  <2>. QED
    BY <1>1, <2>1, <2>2
<1>4. ASSUME NEW t \in Task, Start(t) \/ Calling(t) \/ Blocking(t) \/ GoesWrong(t), ~JobRename(t)
      PROVE  dest' = dest
  BY <1>4 DEF Start, Calling, Blocking, GoesWrong, Ask, AnswerRefused, AnswerMissing,
         AnswerUnsatisfiable, AnswerPartial, AnswerWhole, Send, BodyBreaks, BodyTooLarge,
         BodyWriteFailed, BodyEnds, DigestFails, DigestArrives, Hash, Cancel, WriteLands,
         WriteFails, JobStage, JobDecode, JobCheck, JobSync, JobRename, JobDone, JobRejects,
         JobReturns, Kill, paths
<1>5. CASE UNCHANGED vars \/ Publish \/ NewMonth \/ Age
  BY <1>1, <1>5 DEF vars, Publish, NewMonth, Age, paths
<1>. QED
  BY <1>1, <1>2, <1>3, <1>4, <1>5 DEF Next

(* The staged file stays with the step that made it.                       *)
LEMMA SameStaged ==
  ASSUME StagedInv, UNCHANGED <<staged, crashed>>,
         \A t \in Task : job[t] \in MidJob => job'[t] \in MidJob
  PROVE  StagedInv'
BY DEF StagedInv

LEMMA StepStaged ==
  ASSUME TypeInv, LockInv, StagedInv, [Next]_vars PROVE StagedInv'
<1>1. CASE UNCHANGED vars \/ Publish \/ NewMonth \/ Age
  BY <1>1, SameStaged DEF vars, Publish, NewMonth, Age, paths, world
<1>2. ASSUME NEW t \in Task,
             Start(t) \/ Calling(t) \/ AnswerRefused(t) \/ BodyBreaks(t) \/ BodyTooLarge(t)
               \/ DigestFails(t) \/ Cancel(t) \/ WriteFails(t) \/ WriteLands(t)
      PROVE  StagedInv'
  <2>1. UNCHANGED <<staged, crashed>>
    BY <1>2 DEF Start, Calling, Ask, AnswerRefused, AnswerMissing, AnswerUnsatisfiable,
         AnswerPartial, AnswerWhole, Send, BodyBreaks, BodyTooLarge, BodyWriteFailed, BodyEnds,
         DigestFails, DigestArrives, Hash, Cancel, WriteLands, WriteFails, world, paths
  <2>2. job' = job \/ (Spawned(t) /\ call[t].at \in {"body", "hash"})
    BY <1>2 DEF Start, Calling, Ask, AnswerRefused, AnswerMissing, AnswerUnsatisfiable,
         AnswerPartial, AnswerWhole, Send, BodyBreaks, BodyTooLarge, BodyWriteFailed, BodyEnds,
         DigestFails, DigestArrives, Hash, Cancel, WriteLands, WriteFails
  <2>3. ASSUME Spawned(t), call[t].at \in {"body", "hash"}, NEW u \in Task, job[u] \in MidJob
        PROVE  job'[u] \in MidJob
    <3>1. job[t] = "none"
      BY <2>3, CallHasNoJob
    <3>2. u # t
      BY <2>3, <3>1 DEF MidJob
    <3>. QED
      BY <2>3, <3>2 DEF TypeInv, Spawned
  <2>. QED
    BY <2>1, <2>2, <2>3, SameStaged
<1>3. ASSUME NEW t \in Task, JobStage(t) \/ JobDecode(t) \/ JobCheck(t) \/ JobSync(t)
      PROVE  StagedInv'
  <2>1. job'[t] \in MidJob
    BY <1>3 DEF TypeInv, JobStage, JobDecode, JobCheck, JobSync, MidJob
  <2>. QED
    BY <2>1 DEF StagedInv
<1>4. ASSUME NEW t \in Task, JobRename(t) \/ JobRejects(t) PROVE StagedInv'
  BY <1>4 DEF JobRename, JobRejects, StagedInv
<1>5. ASSUME NEW t \in Task, JobDone(t) PROVE StagedInv'
  <2>1. UNCHANGED <<staged, crashed>>
    BY <1>5 DEF JobDone, JobReturns, world
  <2>2. \A u \in Task : job[u] \in MidJob => job'[u] \in MidJob
    BY <1>5 DEF TypeInv, JobDone, JobReturns, MidJob
  <2>. QED
    BY <2>1, <2>2, SameStaged
<1>6. CASE PowerLoss \/ \E t \in Task : Kill(t)
  BY <1>6 DEF PowerLoss, Kill, Dead, StagedInv
<1>. QED
  BY <1>1, <1>2, <1>3, <1>4, <1>5, <1>6 DEF Next, Blocking, GoesWrong

LEMMA InitInv == Init => Inv
<1>. SUFFICES ASSUME Init PROVE Inv
  OBVIOUS
<1>1. \A t \in Task : Sound(t)
  BY IdleIs DEF Init, Sound
<1>. QED
  BY <1>1, InitTypes, InitLock DEF Init, Inv, StagedInv, DestIntact

LEMMA StepInv == Inv /\ [Next]_vars => Inv'
BY StepTypes, StepLock, StepSound, StepStaged, StepDest DEF Inv

LEMMA InvariantHolds == Spec => []Inv
BY InitInv, StepInv, PTL DEF Spec

(* Whatever broke off, was resumed in another build, was cancelled, killed *)
(* or lost power, and whichever of the five kinds of source it came from,  *)
(* the destination is a whole build the checks admit, on disk.             *)
THEOREM DestIsIntact == Spec => []DestIntact
<1>1. Inv => DestIntact
  BY DEF Inv
<1>. QED
  BY <1>1, InvariantHolds, PTL

(* A transfer that fails, or whose caller went away, leaves no staged file *)
(* once the lock is free; only a process that died may.                    *)
THEOREM NothingIsLeftStaged == Spec => []NothingStagedAtRest
<1>1. Inv => NothingStagedAtRest
  BY DEF Inv, LockInv, Covered, StagedInv, MidJob, NothingStagedAtRest
<1>. QED
  BY <1>1, InvariantHolds, PTL
-----------------------------------------------------------------------------
(* The order of builds.                                                    *)

Between(b) == Holds(dest) <= b /\ b <= published

(* No unit that may reach the path is older than what is there: a lost one *)
(* is never part of a whole body.                                          *)
PartOrder ==
  part # NoFile => \A i \in DOMAIN part.body : part.body[i] = 0 \/ Between(part.body[i])

(* A dated URL is never asked for a month older than the one at the path.  *)
CallOrder(t) ==
  /\ call[t].at \in {"ask", "wait"} /\ source.dated =>
       /\ call[t].month \in Build /\ Holds(dest) <= call[t].month
       /\ call[t].url = "fallback" => Holds(dest) <= call[t].month - 1
  /\ call[t].at = "body" => Between(call[t].build)

WriteOrder(t) == write[t].at = "flying" => write[t].unit = 0 \/ Between(write[t].unit)

JobOrder(t) ==
  job[t] \in {"check", "sync", "rename"} =>
    /\ Between(staged.build)
    /\ part # NoFile =>
         \A i \in DOMAIN part.body : part.body[i] = 0 \/ staged.build <= part.body[i]

TaskOrder(t) == CallOrder(t) /\ WriteOrder(t) /\ JobOrder(t)

OrderInv ==
  /\ Holds(dest) <= published
  /\ source.dated => published <= month
  /\ PartOrder
  /\ \A t \in Task : TaskOrder(t)

LEMMA Numbers ==
  ASSUME TypeInv
  PROVE  /\ published \in Nat /\ month \in Nat /\ Build \subseteq Nat \ {0}
         /\ Holds(dest) \in Nat /\ Content \subseteq Nat /\ Unit \subseteq Nat
<1>1. Build \subseteq Nat \ {0}
  BY Builds
<1>2. Content \subseteq Nat /\ Unit \subseteq Nat
  BY <1>1 DEF Content, Unit
<1>3. Holds(dest) \in Nat
  BY <1>2 DEF TypeInv, Holds, File
<1>. QED
  BY <1>1, <1>2, <1>3 DEF TypeInv

(* A whole body is what it is whole of from its first unit on.             *)
LEMMA FirstUnit ==
  ASSUME TypeInv, PartOrder, part # NoFile, NEW b \in Build, part.body = Whole(b)
  PROVE  Between(b) /\ \A i \in DOMAIN part.body : part.body[i] = b
<1>1. Length[b] \in Nat \ {0} /\ b # 0
  BY Builds
<1>2. \A i \in 1 .. Length[b] : Whole(b)[i] = b
  BY DEF Whole
<1>3. DOMAIN Whole(b) = 1 .. Length[b]
  BY DEF Whole
<1>4. 1 \in DOMAIN part.body /\ part.body[1] = b
  BY <1>1, <1>2, <1>3
<1>. QED
  BY <1>1, <1>2, <1>3, <1>4 DEF PartOrder

LEMMA ContentOrder ==
  ASSUME TypeInv, PartOrder, part # NoFile, ContentOf(PartBody) \in Build
  PROVE  Between(ContentOf(PartBody))
         /\ \A i \in DOMAIN part.body : part.body[i] = ContentOf(PartBody)
<1>1. PartBody = part.body
  BY BodyType
<1>2. PartBody = Whole(ContentOf(PartBody))
  BY Builds DEF ContentOf
<1>. QED
  BY <1>1, <1>2, FirstUnit

(* What a URL serves is no older than the path.                            *)
LEMMA ServesOrder ==
  ASSUME TypeInv, OrderInv, NEW t \in Task, call[t].at = "wait", Serves(call[t]) # 0
  PROVE  Between(Serves(call[t]))
<1>1. published \in Nat /\ Holds(dest) \in Nat /\ call[t].month \in Nat /\ call[t].url \in {"primary", "fallback"}
  BY Numbers DEF TypeInv, Call
<1>2. CASE ~source.dated
  BY <1>1, <1>2 DEF Serves, Between, OrderInv
<1>3. CASE source.dated
  BY <1>1, <1>3 DEF Serves, Between, OrderInv, TaskOrder, CallOrder
<1>. QED
  BY <1>2, <1>3

LEMMA EndedCall ==
  ASSUME TypeInv, NEW t \in Task, Goes(t, IdleCall) PROVE CallOrder(t)'
<1>1. call'[t] = IdleCall
  BY GoesIs, IdleIs
<1>. QED
  BY <1>1, IdleIs DEF CallOrder

LEMMA BetweenKept ==
  ASSUME UNCHANGED <<dest, published>>, NEW b PROVE Between(b)' <=> Between(b)
BY DEF Between, Holds

(* A call that goes on to a later await than its request's.                *)
LEMMA LaterCall ==
  ASSUME TypeInv, NEW t \in Task, NEW at \in {"digest", "hash", "staging"},
         \E local \in Call : local.at = at /\ Goes(t, local)
  PROVE  CallOrder(t)'
<1>1. call'[t].at = at
  BY GoesIs
<1>. QED
  BY <1>1 DEF CallOrder

LEMMA StartAskCall ==
  ASSUME TypeInv, LockInv, OrderInv, NEW t \in Task, Start(t) \/ Ask(t),
         UNCHANGED <<source, dest, published>>
  PROVE  CallOrder(t)'
<1>0. Holds(dest)' = Holds(dest)
  BY DEF Holds
<1>1. CASE Start(t)
  <2>. DEFINE local == [IdleCall EXCEPT !.at = "ask", !.month = IF source.dated THEN month ELSE 0]
  <2>1. (IF source.dated THEN month ELSE 0) \in Nat
    BY Numbers
  <2>2. IdleCall.url = "primary"
    BY DEF IdleCall
  <2>3. /\ local \in Call /\ local.at = "ask" /\ local.url = "primary"
        /\ local.month = IF source.dated THEN month ELSE 0
    BY <2>1, <2>2, IdleIs DEF Call
  <2>4. call'[t] = local
    BY <1>1, <2>3, GoesIs DEF Start
  <2>5. source.dated => month \in Build /\ Holds(dest) <= month
    BY Numbers DEF TypeInv, OrderInv
  <2>. HIDE DEF local
  <2>. QED
    BY <1>0, <2>3, <2>4, <2>5 DEF CallOrder
<1>2. CASE Ask(t)
  <2>1. call[t] \in Call /\ CallOrder(t) /\ call[t].at = "ask"
    BY <1>2 DEF TypeInv, OrderInv, TaskOrder, Ask
  <2>2. \A n \in Nat : LET local == [call[t] EXCEPT !.at = "wait", !.from = n]
                       IN /\ local \in Call /\ local.at = "wait"
                          /\ local.month = call[t].month /\ local.url = call[t].url
    BY <2>1 DEF Call
  <2>3. \E n \in Nat : Goes(t, [call[t] EXCEPT !.at = "wait", !.from = n])
    BY <1>2, BodyType DEF Ask
  <2>4. /\ call'[t].at = "wait"
        /\ call'[t].month = call[t].month /\ call'[t].url = call[t].url
    BY <2>2, <2>3, GoesIs
  <2>. QED
    BY <1>0, <2>1, <2>4 DEF CallOrder
<1>. QED
  BY <1>1, <1>2

LEMMA AnswerCall ==
  ASSUME TypeInv, LockInv, OrderInv, NEW t \in Task,
         AnswerRefused(t) \/ AnswerMissing(t) \/ AnswerUnsatisfiable(t) \/ AnswerPartial(t)
           \/ AnswerWhole(t),
         UNCHANGED <<source, dest, published>>
  PROVE  CallOrder(t)'
<1>1. call[t] \in Call /\ call[t].at = "wait" /\ CallOrder(t)
  BY DEF TypeInv, OrderInv, TaskOrder, AnswerRefused, AnswerMissing, AnswerUnsatisfiable,
         AnswerPartial, AnswerWhole
<1>2. Holds(dest)' = Holds(dest)
  BY DEF Holds
<1>3. CASE StreamFails(t)
  BY <1>3, EndedCall DEF StreamFails
<1>4. CASE AnswerMissing(t) /\ ~StreamFails(t)
  <2>. DEFINE local == [call[t] EXCEPT !.at = "ask", !.url = "fallback"]
  <2>1. local \in Call /\ local.at = "ask" /\ local.month = call[t].month
    BY <1>1 DEF Call
  <2>2. call'[t] = local
    BY <1>4, <2>1, GoesIs DEF AnswerMissing
  <2>3. source.dated => call[t].month \in Build /\ Holds(dest) <= call[t].month - 1
    <3>1. SUFFICES ASSUME source.dated PROVE call[t].month \in Build /\ Holds(dest) <= call[t].month - 1
      OBVIOUS
    <3>2. call[t].month \in Build /\ call[t].month \in Nat \ {0}
      BY <1>1, <3>1, Numbers DEF CallOrder
    <3>3. call[t].url = "primary" /\ call[t].month \notin 1 .. published
      BY <1>4, <3>1, <3>2 DEF AnswerMissing, Serves
    <3>. QED
      BY <3>2, <3>3, Numbers DEF OrderInv
  <2>4. call[t].month \in Nat /\ Holds(dest) \in Nat
    BY <1>1, Numbers DEF Call
  <2>. HIDE DEF local
  <2>. QED
    BY <1>2, <2>1, <2>2, <2>3, <2>4 DEF CallOrder
<1>5. CASE AnswerUnsatisfiable(t)
  <2>. DEFINE local == [call[t] EXCEPT !.from = 0]
  <2>1. /\ local \in Call /\ local.at = "wait"
        /\ local.month = call[t].month /\ local.url = call[t].url
    BY <1>1 DEF Call
  <2>2. call'[t] = local
    BY <1>5, <2>1, GoesIs DEF AnswerUnsatisfiable
  <2>. HIDE DEF local
  <2>. QED
    BY <1>1, <1>2, <2>1, <2>2 DEF CallOrder
<1>6. CASE AnswerPartial(t) \/ AnswerWhole(t)
  <2>1. Between(Serves(call[t])) /\ Serves(call[t]) \in Content
    BY <1>1, <1>6, ServesOrder, ServesType DEF AnswerPartial, AnswerWhole, Content
  <2>2. \A n \in Nat :
          LET local == [call[t] EXCEPT !.at = "body", !.build = Serves(call[t]), !.sent = n]
          IN local \in Call /\ local.at = "body" /\ local.build = Serves(call[t])
    BY <1>1, <2>1 DEF Call
  <2>3. \E n \in Nat :
          Goes(t, [call[t] EXCEPT !.at = "body", !.build = Serves(call[t]), !.sent = n])
    BY <1>1, <1>6 DEF AnswerPartial, AnswerWhole, Call
  <2>4. call'[t].at = "body" /\ call'[t].build = Serves(call[t])
    BY <2>2, <2>3, GoesIs
  <2>. QED
    BY <2>1, <2>4, BetweenKept DEF CallOrder
<1>. QED
  BY <1>3, <1>4, <1>5, <1>6 DEF AnswerRefused, AnswerMissing

LEMMA BodyCall ==
  ASSUME TypeInv, LockInv, OrderInv, NEW t \in Task,
         Send(t) \/ BodyBreaks(t) \/ BodyTooLarge(t) \/ BodyWriteFailed(t) \/ BodyEnds(t)
           \/ DigestFails(t) \/ DigestArrives(t) \/ Hash(t) \/ Cancel(t),
         UNCHANGED <<source, dest, published>>
  PROVE  CallOrder(t)'
<1>1. call[t] \in Call
  BY DEF TypeInv
<1>2. CASE Goes(t, IdleCall)
  BY <1>2, EndedCall
<1>3. CASE Send(t)
  <2>. DEFINE local == [call[t] EXCEPT !.sent = @ + 1]
  <2>1. local \in Call /\ local.at = "body" /\ local.build = call[t].build
    BY <1>1, <1>3 DEF Call, Send
  <2>2. call'[t] = local
    BY <1>3, <2>1, GoesIs DEF Send
  <2>3. Between(call[t].build)
    BY <1>3 DEF Send, OrderInv, TaskOrder, CallOrder
  <2>. HIDE DEF local
  <2>. QED
    BY <2>1, <2>2, <2>3, BetweenKept DEF CallOrder
<1>4. /\ [call[t] EXCEPT !.at = "staging"] \in Call /\ [call[t] EXCEPT !.at = "staging"].at = "staging"
      /\ [call[t] EXCEPT !.at = "digest"] \in Call /\ [call[t] EXCEPT !.at = "digest"].at = "digest"
      /\ [call[t] EXCEPT !.at = "hash", !.build = published] \in Call
      /\ [call[t] EXCEPT !.at = "hash", !.build = published].at = "hash"
  BY <1>1 DEF TypeInv, Call, Content
<1>5. CASE Goes(t, [call[t] EXCEPT !.at = "staging"])
  BY <1>4, <1>5, LaterCall
<1>6. CASE Goes(t, [call[t] EXCEPT !.at = "digest"])
  BY <1>4, <1>6, LaterCall
<1>7. CASE Goes(t, [call[t] EXCEPT !.at = "hash", !.build = published])
  BY <1>4, <1>7, LaterCall
<1>. QED
  BY <1>2, <1>3, <1>5, <1>6, <1>7
     DEF BodyBreaks, StreamFails, BodyTooLarge, BodyWriteFailed, BodyEnds, Spawned,
         DigestFails, DigestArrives, Hash, Cancel

LEMMA UnlinkedUnit == ASSUME TypeInv, NEW t \in Task PROVE Unlinked[t].unit = write[t].unit
BY DEF TypeInv, Unlinked, Write

(* What a task sends is a unit of the build its answer named.              *)
LEMMA TaskWrites ==
  ASSUME TypeInv, LockInv, OrderInv, NEW t \in Task,
         Start(t) \/ Calling(t) \/ Blocking(t) \/ GoesWrong(t), ~Kill(t),
         UNCHANGED <<dest, published>>
  PROVE  WriteOrder(t)'
<1>1. CASE Send(t)
  <2>1. write'[t].unit = call[t].build /\ Between(call[t].build)
    BY <1>1 DEF TypeInv, Send, OrderInv, TaskOrder, CallOrder
  <2>. QED
    BY <2>1, BetweenKept DEF WriteOrder
<1>2. CASE write'[t].at = "flying" => write'[t] \in {write[t], Unlinked[t]}
  <2>1. SUFFICES ASSUME write'[t].at = "flying" PROVE WriteOrder(t)'
    BY DEF WriteOrder
  <2>2. write'[t].unit = write[t].unit /\ write[t].at = "flying"
    BY <1>2, <2>1, UnlinkedUnit, BatchKept
  <2>3. write[t].unit = 0 \/ Between(write[t].unit)
    BY <2>2 DEF OrderInv, TaskOrder, WriteOrder
  <2>. QED
    BY <2>2, <2>3, BetweenKept DEF WriteOrder
<1>3. CASE write' \in {write, Unlinked}
  BY <1>2, <1>3
<1>4. CASE BodyTooLarge(t) \/ BodyWriteFailed(t)
  <2>1. write'[t] \in {NoWrite, Unlinked[t]}
    BY <1>4, UnlinkedIs DEF BodyTooLarge, BodyWriteFailed
  <2>. QED
    BY <1>2, <2>1, IdleIs
<1>5. CASE Cancel(t)
  <2>1. write'[t] \in {NoWrite, write[t]}
    BY <1>5 DEF TypeInv, Cancel
  <2>. QED
    BY <1>2, <2>1, IdleIs
<1>6. CASE WriteLands(t)
  <2>1. write'[t] = NoWrite
    BY <1>6 DEF TypeInv, WriteLands
  <2>. QED
    BY <1>2, <2>1, IdleIs
<1>7. CASE WriteFails(t)
  <2>1. [write[t] EXCEPT !.at = "failed"].at = "failed"
    BY DEF TypeInv, Write
  <2>2. write'[t].at # "flying"
    BY <1>7, <2>1, IdleIs DEF TypeInv, WriteFails
  <2>. QED
    BY <1>2, <2>2
<1>8. CASE /\ Start(t) \/ Calling(t) \/ Blocking(t) \/ GoesWrong(t)
           /\ ~Kill(t) /\ ~Send(t) /\ ~BodyTooLarge(t) /\ ~BodyWriteFailed(t) /\ ~Cancel(t)
           /\ ~WriteLands(t) /\ ~WriteFails(t)
  <2>1. write' \in {write, Unlinked}
    BY <1>8 DEF Start, Calling, Blocking, GoesWrong, Ask, AnswerRefused, AnswerMissing,
         AnswerUnsatisfiable, AnswerPartial, AnswerWhole, BodyBreaks, BodyEnds, DigestFails,
         DigestArrives, Hash, JobStage, JobDecode, JobCheck, JobSync, JobRename, JobDone,
         JobRejects, JobFrame, StreamFails, RemovePart
  <2>. QED
    BY <1>3, <2>1
<1>. QED
  BY <1>1, <1>4, <1>5, <1>6, <1>7, <1>8

(* What is staged is no older than the path, nor newer than the part file. *)
LEMMA TaskStages ==
  ASSUME TypeInv, LockInv, OrderInv, NEW t \in Task, Sound(t),
         Start(t) \/ Calling(t) \/ Blocking(t) \/ GoesWrong(t), ~Kill(t), ~JobRename(t),
         UNCHANGED <<dest, published>>
  PROVE  JobOrder(t)'
<1>1. JobOrder(t) /\ PartOrder
  BY DEF OrderInv, TaskOrder
<1>2. CASE JobStage(t) \/ JobDecode(t)
  <2>1. CASE job'[t] = "check"
    <3>1. part # NoFile /\ ContentOf(PartBody) \in Build
      <4>1. CASE JobDecode(t)
        <5>1. ContentOf(PartBody) \in Build
          BY <4>1, ContentIs DEF JobDecode, Content
        <5>2. PartBody = Whole(ContentOf(PartBody))
          BY <5>1, Builds DEF ContentOf
        <5>3. Len(PartBody) # 0
          BY <5>1, <5>2, Builds DEF Whole
        <5>. QED
          BY <5>1, <5>3 DEF PartBody
      <4>2. CASE JobStage(t)
        <5>1. source.archive = "raw" /\ part # NoFile /\ job[t] = "stage"
          BY <4>2, <2>1 DEF TypeInv, JobStage
        <5>2. \E b \in Build : part.body = Whole(b)
          BY <5>1 DEF Sound
        <5>. QED
          BY <5>1, <5>2, BodyType, ContentIs
      <4>. QED
        BY <1>2, <4>1, <4>2
    <3>2. staged' = [build |-> ContentOf(PartBody), synced |-> FALSE] /\ part' \in {part, NoFile}
      BY <1>2, <2>1 DEF TypeInv, JobStage, JobDecode
    <3>3. PICK b \in Build : b = ContentOf(PartBody)
      BY <3>1
    <3>4. Between(b)'
      BY <3>1, <3>3, <1>1, ContentOrder, BetweenKept
    <3>5. \A i \in DOMAIN part.body : part.body[i] = b
      BY <3>1, <3>3, <1>1, ContentOrder
    <3>6. b \in Nat /\ staged'.build = b
      BY <3>2, <3>3, Numbers
    <3>. QED
      BY <3>2, <3>4, <3>5, <3>6 DEF JobOrder
  <2>2. CASE job'[t] = "decode"
    BY <2>2 DEF JobOrder
  <2>. QED
    BY <1>2, <2>1, <2>2 DEF TypeInv, JobStage, JobDecode
<1>3. CASE JobCheck(t) \/ JobSync(t)
  <2>1. job[t] \in {"check", "sync"} /\ staged # NoFile /\ UNCHANGED part
    BY <1>3 DEF Sound, JobCheck, JobSync, paths
  <2>2. staged'.build = staged.build
    BY <1>3, <2>1, StagedType DEF JobCheck, JobSync, paths, Holds
  <2>. QED
    BY <1>1, <2>1, <2>2, BetweenKept DEF JobOrder
<1>4. CASE Cancel(t) 
  BY <1>1, <1>4, BetweenKept DEF JobOrder, Cancel, paths
<1>5. CASE job'[t] \in {"none", "stage"}
  BY <1>5 DEF JobOrder
<1>6. CASE JobDone(t) \/ JobRejects(t)
  <2>1. job'[t] = "none"
    BY <1>6 DEF TypeInv, JobDone, JobRejects, JobReturns
  <2>. QED
    BY <1>5, <2>1
<1>7. CASE WriteLands(t) \/ WriteFails(t)
  <2>1. job'[t] = "none"
    BY <1>7, IdleIs DEF LockInv, Covered, WriteLands, WriteFails
  <2>. QED
    BY <1>5, <2>1
<1>8. CASE Start(t)
  BY <1>5, <1>8 DEF Start
<1>9. CASE Calling(t) \/ AnswerRefused(t) \/ BodyBreaks(t) \/ BodyTooLarge(t) \/ DigestFails(t)
  <2>1. call[t].at \notin {"idle", "staging"}
    BY <1>9 DEF Calling, Ask, AnswerRefused, AnswerMissing, AnswerUnsatisfiable, AnswerPartial,
         AnswerWhole, Send, BodyBreaks, BodyTooLarge, BodyWriteFailed, BodyEnds, DigestFails,
         DigestArrives, Hash
  <2>2. job[t] = "none"
    BY <2>1 DEF LockInv, Covered
  <2>3. job' = job \/ job' = [job EXCEPT ![t] = "stage"]
    BY <1>9 DEF Calling, Ask, AnswerRefused, AnswerMissing, AnswerUnsatisfiable, AnswerPartial,
         AnswerWhole, Send, BodyBreaks, BodyTooLarge, BodyWriteFailed, BodyEnds, DigestFails,
         DigestArrives, Hash, Spawned
  <2>. QED
    BY <1>5, <2>2, <2>3 DEF TypeInv
<1>. QED
  BY <1>2, <1>3, <1>4, <1>6, <1>7, <1>8, <1>9 DEF Blocking, GoesWrong

(* The part file grows by the unit that was in flight, or starts again.    *)
LEMMA TaskAppends ==
  ASSUME TypeInv, LockInv, OrderInv, NEW t \in Task,
         Start(t) \/ Calling(t) \/ Blocking(t) \/ GoesWrong(t), ~Kill(t),
         UNCHANGED <<dest, published>>
  PROVE  PartOrder'
<1>1. CASE part' \in {part, NoFile}
  BY <1>1, BetweenKept DEF OrderInv, PartOrder
<1>2. CASE AnswerWhole(t)
  <2>1. part'.body = <<>>
    BY <1>2 DEF AnswerWhole
  <2>. QED
    BY <2>1 DEF PartOrder
<1>3. CASE WriteLands(t) /\ part' # part
  <2>1. /\ part' = [body |-> Append(part.body, write[t].unit), old |-> FALSE]
        /\ part # NoFile /\ part.body \in Seq(Unit)
    BY <1>3, BodyType DEF WriteLands
  <2>2. write[t].unit \in Unit /\ (write[t].unit = 0 \/ Between(write[t].unit))
    BY <1>3 DEF TypeInv, Write, WriteLands, OrderInv, TaskOrder, WriteOrder
  <2>3. ASSUME NEW i \in DOMAIN part'.body
        PROVE  part'.body[i] = write[t].unit \/ (i \in DOMAIN part.body /\ part'.body[i] = part.body[i])
    BY <2>1, <2>2
  <2>4. \A i \in DOMAIN part'.body : part'.body[i] = 0 \/ Between(part'.body[i])
    BY <2>1, <2>2, <2>3 DEF OrderInv, PartOrder
  <2>. QED
    BY <2>4, BetweenKept DEF PartOrder
<1>4. CASE /\ Start(t) \/ Calling(t) \/ Blocking(t) \/ GoesWrong(t)
           /\ ~Kill(t) /\ ~AnswerWhole(t) /\ ~WriteLands(t)
  <2>1. part' \in {part, NoFile}
    BY <1>4 DEF Start, Calling, Blocking, GoesWrong, Ask, AnswerRefused, AnswerMissing,
         AnswerUnsatisfiable, AnswerPartial, Send, BodyBreaks, BodyTooLarge, BodyWriteFailed,
         BodyEnds, DigestFails, DigestArrives, Hash, Cancel, WriteFails, JobStage, JobDecode,
         JobCheck, JobSync, JobRename, JobDone, JobRejects, StreamFails, RemovePart, paths
  <2>. QED
    BY <1>1, <2>1
<1>. QED
  BY <1>1, <1>2, <1>3, <1>4

(* The months a call names, and the builds its answers name.               *)
LEMMA TaskCalls ==
  ASSUME TypeInv, LockInv, OrderInv, NEW t \in Task,
         Start(t) \/ Calling(t) \/ Blocking(t) \/ GoesWrong(t), ~Kill(t),
         UNCHANGED <<dest, published>>
  PROVE  CallOrder(t)'
<1>1. source' = source
  BY TaskSpares
<1>2. CASE Start(t) \/ Calling(t) \/ AnswerRefused(t) \/ BodyBreaks(t) \/ BodyTooLarge(t)
             \/ DigestFails(t) \/ Cancel(t)
  BY <1>1, <1>2, StartAskCall, AnswerCall, BodyCall DEF Calling
<1>3. CASE call' = call
  BY <1>1, <1>3, BetweenKept DEF CallOrder, OrderInv, TaskOrder, Holds
<1>4. CASE Goes(t, IdleCall)
  BY <1>4, EndedCall
<1>. QED
  BY <1>2, <1>3, <1>4 DEF Blocking, GoesWrong, WriteLands, WriteFails, JobStage, JobDecode,
     JobCheck, JobSync, JobRename, JobDone, JobRejects, JobReturns, JobFrame

(* A task with nothing under way asks for nothing the path may lose.       *)
LEMMA QuietOrder ==
  ASSUME NEW u \in Task, call'[u].at \in {"idle", "staging"}, write'[u].at # "flying",
         job'[u] \in {"none", "tidy"}
  PROVE  TaskOrder(u)'
BY DEF TaskOrder, CallOrder, WriteOrder, JobOrder

LEMMA SameOrder ==
  ASSUME NEW u \in Task, TaskOrder(u), UNCHANGED <<source, part, staged, dest, published>>,
         call'[u] = call[u], write'[u] = write[u], job'[u] = job[u]
  PROVE  TaskOrder(u)'
<1>1. CallOrder(u)'
  BY BetweenKept DEF TaskOrder, CallOrder, Holds
<1>2. WriteOrder(u)'
  BY BetweenKept DEF TaskOrder, WriteOrder
<1>3. JobOrder(u)'
  BY BetweenKept DEF TaskOrder, JobOrder
<1>. QED
  BY <1>1, <1>2, <1>3 DEF TaskOrder

LEMMA OthersOrder ==
  ASSUME TypeInv, LockInv, NEW t \in Task, NEW u \in Task \ {t}, \E k : <<t, k>> \in held,
         Spared(u)
  PROVE  TaskOrder(u)'
<1>1. call[u].at \in {"idle", "staging"} /\ write[u].at # "flying" /\ job[u] = "none"
  BY Alone
<1>. QED
  BY <1>1, QuietOrder DEF Spared

LEMMA TaskKeepsOrder ==
  ASSUME TypeInv, LockInv, OrderInv, NEW t \in Task, Sound(t),
         Start(t) \/ Calling(t) \/ Blocking(t) \/ GoesWrong(t), ~Kill(t), ~JobRename(t),
         UNCHANGED <<dest, published, month>>
  PROVE  OrderInv'
<1>1. source' = source
  BY TaskSpares
<1>2. TaskOrder(t)'
  BY TaskCalls, TaskWrites, TaskStages DEF TaskOrder
<1>3. ASSUME NEW u \in Task \ {t} PROVE TaskOrder(u)'
  <2>1. Spared(u)
    BY TaskSpares
  <2>2. CASE Start(t) \/ Cancel(t)
    <3>1. write'[u] = write[u] /\ UNCHANGED <<part, staged>>
      BY <2>2 DEF TypeInv, Start, Cancel, paths
    <3>. QED
      BY <1>1, <2>1, <3>1, SameOrder DEF Spared, OrderInv
  <2>3. CASE (Calling(t) \/ Blocking(t) \/ GoesWrong(t)) /\ ~Cancel(t)
    BY <2>1, <2>3, TaskHolds, OthersOrder
  <2>. QED
    BY <2>2, <2>3
<1>4. PartOrder'
  BY TaskAppends
<1>. QED
  BY <1>1, <1>2, <1>3, <1>4 DEF OrderInv, Holds

(* The rename: what replaces the build at the path is no older than it, and *)
(* what is left in the part file no older than what replaces it.           *)
LEMMA RenameOrder ==
  ASSUME TypeInv, LockInv, OrderInv, NEW t \in Task, Sound(t), JobRename(t)
  PROVE  OrderInv' /\ Between(Holds(dest')) /\ Holds(dest') = staged.build
<1>1. job[t] = "rename" /\ staged # NoFile /\ staged.build \in Build
  BY DEF Sound, JobRename
<1>2. Holds(dest') = staged.build /\ Between(staged.build)
  BY <1>1 DEF JobRename, Holds, OrderInv, TaskOrder, JobOrder
<1>3. UNCHANGED <<source, published, month, part, call, write>> /\ job'[t] = "tidy"
  BY DEF TypeInv, JobRename, JobFrame, world
<1>4. TaskOrder(t)'
  <2>1. call[t].at \in {"idle", "staging"} /\ write[t].at # "flying"
    BY <1>1, IdleIs DEF LockInv, Covered
  <2>. QED
    BY <1>3, <2>1, QuietOrder
<1>5. ASSUME NEW u \in Task \ {t} PROVE TaskOrder(u)'
  <2>1. Spared(u)
    BY <1>3 DEF TypeInv, Spared, JobRename
  <2>2. \E k : <<t, k>> \in held
    BY <1>1, JobIdles
  <2>. QED
    BY <2>1, <2>2, OthersOrder
<1>6. PartOrder'
  <2>1. SUFFICES ASSUME part # NoFile, NEW i \in DOMAIN part.body, part.body[i] # 0
                 PROVE  Between(part.body[i])'
    BY <1>3 DEF PartOrder
  <2>2. Between(part.body[i]) /\ staged.build <= part.body[i]
    BY <1>1, <2>1 DEF OrderInv, PartOrder, TaskOrder, JobOrder
  <2>. QED
    BY <1>2, <1>3, <2>2 DEF Between, Holds
<1>7. Holds(dest)' <= published' /\ (source'.dated => published' <= month')
  BY <1>2, <1>3 DEF Between, OrderInv, Holds
<1>. QED
  BY <1>2, <1>4, <1>5, <1>6, <1>7 DEF OrderInv

(* The provider publishes, a month passes: what was in order stays so.     *)
LEMMA WorldOrder ==
  ASSUME TypeInv, OrderInv, \A t \in Task : Sound(t),
         Publish \/ NewMonth \/ Age \/ UNCHANGED vars
  PROVE  OrderInv'
<1>1. UNCHANGED <<source, staged, dest, call, write, job>>
  BY DEF Publish, NewMonth, Age, vars, world, paths
<1>2. Holds(dest)' = Holds(dest)
  BY <1>1 DEF Holds
<1>3. published' \in {published, published + 1}
  BY DEF Publish, NewMonth, Age, vars, world
<1>4. ASSUME NEW b \in Nat, Between(b) PROVE Between(b)'
  BY <1>2, <1>3, <1>4, Numbers DEF Between
<1>5. part # NoFile => part.body \in Seq(Unit)
  BY BodyType
<1>6. part' = part \/ (part # NoFile /\ part' # NoFile /\ part'.body = part.body)
  <2>1. CASE Age
    <3>1. [part EXCEPT !.old = TRUE] \in Part /\ [part EXCEPT !.old = TRUE].body = part.body
      BY <2>1, BodyType DEF Age, Part
    <3>. QED
      BY <2>1, <3>1, TransferAssumption DEF Age
  <2>. QED
    BY <2>1 DEF Publish, NewMonth, vars, paths
<1>7. PartOrder'
  <2>1. ASSUME part # NoFile, NEW i \in DOMAIN part.body
        PROVE  part.body[i] = 0 \/ (Holds(dest)' <= part.body[i] /\ part.body[i] <= published')
    <3>1. part.body[i] = 0 \/ Between(part.body[i])
      BY <2>1 DEF OrderInv, PartOrder
    <3>2. part.body[i] \in Nat
      BY <1>5, <2>1, Numbers
    <3>. QED
      BY <1>2, <1>3, <3>1, <3>2, Numbers DEF Between
  <2>. QED
    BY <1>6, <2>1 DEF PartOrder, Between
<1>8. ASSUME NEW t \in Task PROVE TaskOrder(t)'
  <2>1. TaskOrder(t) /\ call[t] \in Call /\ write[t] \in Write
    BY DEF TypeInv, OrderInv
  <2>2. CallOrder(t)'
    <3>1. call[t].build \in Nat
      BY <2>1, Numbers DEF Call
    <3>. QED
      BY <1>1, <1>2, <1>4, <2>1, <3>1 DEF TaskOrder, CallOrder
  <2>3. WriteOrder(t)'
    <3>1. write[t].unit \in Nat
      BY <2>1, Numbers DEF Write
    <3>. QED
      BY <1>1, <1>4, <2>1, <3>1 DEF TaskOrder, WriteOrder
  <2>4. JobOrder(t)'
    <3>1. job[t] \in {"check", "sync", "rename"} => staged.build \in Nat
      BY StagedType, Numbers DEF File, Sound
    <3>. QED
      BY <1>1, <1>4, <1>6, <2>1, <3>1 DEF TaskOrder, JobOrder
  <2>. QED
    BY <2>2, <2>3, <2>4 DEF TaskOrder
<1>9. Holds(dest)' <= published' /\ (source'.dated => published' <= month')
  <2>1. source.dated => published' <= month'
    BY Numbers DEF OrderInv, Publish, NewMonth, Age, vars, world
  <2>. QED
    BY <1>1, <1>2, <1>3, <2>1, Numbers DEF OrderInv
<1>. QED
  BY <1>7, <1>8, <1>9 DEF OrderInv

LEMMA KillOrder ==
  ASSUME TypeInv, OrderInv, NEW t \in Task, Kill(t) PROVE OrderInv'
<1>1. UNCHANGED <<source, part, staged, dest, published, month>>
  BY DEF Kill, paths
<1>2. TaskOrder(t)'
  BY IdleIs, QuietOrder DEF TypeInv, Kill, Dead
<1>3. ASSUME NEW u \in Task \ {t} PROVE TaskOrder(u)'
  BY <1>1, SameOrder DEF TypeInv, OrderInv, Kill, Dead
<1>4. PartOrder'
  BY <1>1, BetweenKept DEF OrderInv, PartOrder
<1>. QED
  BY <1>1, <1>2, <1>3, <1>4 DEF OrderInv, Holds

LEMMA PowerKeepsDest == ASSUME DestIntact, PowerLoss PROVE dest' = dest
BY DEF PowerLoss, Torn, DestIntact

(* A torn part file has holes, never another build's units.                *)
LEMMA PowerOrder ==
  ASSUME TypeInv, DestIntact, OrderInv, PowerLoss PROVE OrderInv'
<1>1. UNCHANGED <<source, dest, published, month>>
  BY PowerKeepsDest DEF PowerLoss
<1>2. ASSUME NEW u \in Task PROVE TaskOrder(u)'
  BY IdleIs, QuietOrder DEF PowerLoss, Dead
<1>3. PartOrder'
  <2>1. CASE part' \in {part, NoFile}
    BY <1>1, <2>1, BetweenKept DEF OrderInv, PartOrder
  <2>2. CASE part # NoFile /\ part' = [part EXCEPT !.body = [i \in DOMAIN part.body |-> 0]]
    <3>1. part'.body = [i \in DOMAIN part.body |-> 0]
      BY <2>2, BodyType DEF Part
    <3>. QED
      BY <3>1 DEF PartOrder
  <2>. QED
    BY <2>1, <2>2 DEF PowerLoss, TornPart
<1>. QED
  BY <1>1, <1>2, <1>3 DEF OrderInv, Holds

LEMMA TaskFrame ==
  ASSUME NEW t \in Task, Start(t) \/ Calling(t) \/ Blocking(t) \/ GoesWrong(t)
  PROVE  UNCHANGED <<published, month>> /\ (JobRename(t) \/ dest' = dest)
<1>1. UNCHANGED <<published, month>>
  BY DEF Start, Calling, Blocking, GoesWrong, Ask, AnswerRefused, AnswerMissing,
     AnswerUnsatisfiable, AnswerPartial, AnswerWhole, Send, BodyBreaks, BodyTooLarge,
     BodyWriteFailed, BodyEnds, DigestFails, DigestArrives, Hash, Cancel, WriteLands, WriteFails,
     JobStage, JobDecode, JobCheck, JobSync, JobRename, JobDone, JobRejects, JobReturns,
     JobFrame, Kill, world
<1>2. JobRename(t) \/ dest' = dest
  BY DEF Start, Calling, Blocking, GoesWrong, Ask, AnswerRefused, AnswerMissing,
     AnswerUnsatisfiable, AnswerPartial, AnswerWhole, Send, BodyBreaks, BodyTooLarge,
     BodyWriteFailed, BodyEnds, DigestFails, DigestArrives, Hash, Cancel, WriteLands, WriteFails,
     JobStage, JobDecode, JobCheck, JobSync, JobDone, JobRejects, JobReturns, Kill, paths
<1>. QED
  BY <1>1, <1>2

LEMMA StepOrder ==
  ASSUME Inv, OrderInv, [Next]_vars PROVE OrderInv'
<1>1. CASE Publish \/ NewMonth \/ Age \/ UNCHANGED vars
  BY <1>1, WorldOrder DEF Inv
<1>2. CASE PowerLoss
  BY <1>2, PowerOrder DEF Inv
<1>3. ASSUME NEW t \in Task, Start(t) \/ Calling(t) \/ Blocking(t) \/ GoesWrong(t) PROVE OrderInv'
  BY <1>3, KillOrder, RenameOrder, TaskKeepsOrder, TaskFrame DEF Inv
<1>. QED
  BY <1>1, <1>2, <1>3 DEF Next

(* A rename installs, a publication publishes, and nothing else shows.     *)
LEMMA StepSimulated ==
  ASSUME Inv, OrderInv, [Next]_vars PROVE [Promise!Next]_(Promise!vars)
<1>1. CASE UNCHANGED <<dest, published>>
  BY <1>1 DEF Promise!vars, Holds
<1>2. CASE Publish
  <2>1. dest' = dest /\ published + 1 \in Build /\ published' = published + 1
    BY <1>2 DEF Publish, paths
  <2>2. Promise!PublishBuild
    BY <2>1 DEF Promise!PublishBuild, Holds
  <2>. QED
    BY <2>2 DEF Promise!Next
<1>3. ASSUME NEW t \in Task, JobRename(t) PROVE Promise!Next
  <2>1. job[t] = "rename" /\ staged.build \in Build /\ staged.build \notin Unfit
    BY <1>3 DEF Inv, Sound, JobRename
  <2>2. Holds(dest)' = staged.build /\ Between(staged.build) /\ published' = published
    BY <1>3, RenameOrder, TaskFrame DEF Inv, Blocking, Holds
  <2>3. Promise!Install(staged.build)
    BY <2>1, <2>2 DEF Promise!Install, Between
  <2>. QED
    BY <2>1, <2>3 DEF Promise!Next
<1>4. CASE NewMonth \/ Age \/ UNCHANGED vars
  BY <1>1, <1>4 DEF NewMonth, Age, vars, world, paths
<1>5. CASE PowerLoss
  BY <1>1, <1>5, PowerKeepsDest DEF Inv, PowerLoss
<1>6. ASSUME NEW t \in Task, Start(t) \/ Calling(t) \/ Blocking(t) \/ GoesWrong(t), ~JobRename(t)
      PROVE  UNCHANGED <<dest, published>>
  BY <1>6, TaskFrame
<1>. QED
  BY <1>1, <1>2, <1>3, <1>4, <1>5, <1>6 DEF Next

LEMMA InitOrder == Init => OrderInv /\ Promise!Init
<1>. SUFFICES ASSUME Init PROVE OrderInv /\ Promise!Init
  OBVIOUS
<1>1. \A t \in Task : TaskOrder(t)
  BY IdleIs DEF Init, TaskOrder, CallOrder, WriteOrder, JobOrder
<1>2. published = 1 /\ month = 1 /\ Holds(dest) = 0 /\ part = NoFile
  BY DEF Init, Holds
<1>. QED
  BY <1>1, <1>2 DEF OrderInv, PartOrder, Promise!Init

(* However transfers break off, resume into another build, race for the    *)
(* lock, lose their callers or their process, the path goes from nothing   *)
(* to one admitted build its provider published and on to no older one.    *)
THEOREM NeverAnOlderBuild == Spec => ImplementsDatabaseFile
<1>1. Init => Inv /\ OrderInv /\ Promise!Init
  BY InitInv, InitOrder
<1>2. Inv /\ OrderInv /\ [Next]_vars => Inv' /\ OrderInv' /\ [Promise!Next]_(Promise!vars)
  BY StepInv, StepOrder, StepSimulated
<1>. QED
  BY <1>1, <1>2, PTL DEF Spec, ImplementsDatabaseFile, Promise!Spec
=============================================================================
