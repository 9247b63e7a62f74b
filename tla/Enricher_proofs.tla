-------------------------- MODULE Enricher_proofs --------------------------
(***************************************************************************)
(* Proofs about Enricher for any threads, refreshers, addresses and number *)
(* of publications.                                                        *)
(***************************************************************************)
EXTENDS Enricher, TLAPS

-----------------------------------------------------------------------------
(* The inductive invariant.                                                *)

InSwap(r) == refresh[r].at = "publish"
Critical(r) == refresh[r].at # "idle"

(* The mutex: whoever is inside refresh_if_changed holds it.               *)
LockInv == \A r \in Refresher : Critical(r) <=> lock = r

(* Before open has returned there is nothing to look up or refresh.        *)
BootInv ==
  ~Live =>
    /\ installed = <<>> /\ generation = 0 /\ readers.generation = 0
    /\ lock = Nobody
    /\ \A t \in Thread : lookup[t] = IdleLookup
    /\ \A ip \in Public : cache[ip] = Absent

(* The readers are the newest installed set, and the published generation  *)
(* trails theirs by one exactly while a swap is between its two stores.    *)
SwapInv ==
  Live =>
    /\ Len(installed) = readers.generation + 1
    /\ Answers(readers.set) = installed[readers.generation + 1]
    /\ (\A r \in Refresher : ~InSwap(r)) => generation = readers.generation
    /\ (\E r \in Refresher : InSwap(r)) => readers.generation = generation + 1

(* An entry is what the set of its generation answers.                     *)
OfSet(e) == /\ e.generation + 1 \in 1 .. Len(installed)
            /\ e.record = installed[e.generation + 1]

CacheInv == \A ip \in Public : cache[ip] # Absent => OfSet(cache[ip])

(* What a thread knows: it started no later than the published generation, *)
(* it holds an entry of one set, and what it goes on to answer with is not *)
(* older than what was published when it started.                          *)
Coherent(local) ==
  /\ local.at = "idle" => local = IdleLookup
  /\ local.at # "idle" => local.ip \in Ip /\ local.floor <= generation
  /\ local.ip \in Public =>
       /\ local.at \in {"check", "insert", "answered"} => OfSet(local.entry)
       /\ local.at \in {"insert", "answered"} => local.entry.generation >= local.floor

LookupInv == \A t \in Thread : Coherent(lookup[t])

IInv == TypeOK /\ LockInv /\ BootInv /\ SwapInv /\ CacheInv /\ LookupInv

-----------------------------------------------------------------------------
(* The files and the recorded times: a second invariant, over the first.   *)

(* A reader is no older than the time recorded for it, no newer than the   *)
(* newest publication, and is that publication's if the recorded time is.  *)
Matches(d, mtime, reader) ==
  /\ mtime <= reader.build
  /\ reader.build <= file[d].build
  /\ mtime # 0 /\ file[d].here /\ mtime = file[d].build =>
       reader = [build |-> file[d].build, mapped |-> file[d].big]

(* What stat and len have seen of the file about to be opened.             *)
Seen(local) ==
  /\ local.stat <= file[local.db].build
  /\ local.at = "open" /\ local.stat # 0 /\ file[local.db].here
       /\ local.stat = file[local.db].build => local.mapped = file[local.db].big

Choosing(r) == refresh[r].at \in {"stat", "len", "open", "install"}

FileInv ==
  /\ (\A r \in Refresher : ~Choosing(r)) =>
       \A d \in Db : Matches(d, sources[d], readers.set[d])
  /\ \A r \in Refresher : Choosing(r) =>
       /\ \A d \in Db : Matches(d, sources[d], refresh[r].next[d])
       /\ \A d \in Db : readers.set[d].build <= refresh[r].next[d].build
       /\ ~refresh[r].changed => refresh[r].next = readers.set
       /\ refresh[r].at \in {"len", "open"} => Seen(refresh[r])
  /\ boot.at \in {"len", "open"} => Seen(boot)

-----------------------------------------------------------------------------
(* Type correctness.                                                       *)

LEMMA FilesTyped ==
  ASSUME TypeOK, NEW d \in Db
  PROVE  /\ FileMtime(d) \in Build
         /\ LenAsksForMap(d) \in BOOLEAN
         /\ FileMtime(d) <= file[d].build
<1>1. file[d] \in File
  BY DEF TypeOK
<1> QED
  BY <1>1, EnricherAssumption DEF File, Build, FileMtime, LenAsksForMap

LEMMA AnswersTyped ==
  ASSUME NEW set \in [Db -> Reader]
  PROVE  Answers(set) \in Record
BY DEF Answers, Record, Reader

LEMMA NothingTyped ==
  /\ 0 \in Build
  /\ NoReader \in Reader
  /\ NoEntry \in Entry
  /\ IdleLookup \in Lookup
  /\ IdleRefresh \in Refresh
<1>1. 0 \in Build
  BY EnricherAssumption DEF Build
<1>2. NoReader \in Reader
  BY <1>1 DEF NoReader, Reader
<1>3. NoEntry \in Entry
  BY <1>1 DEF NoEntry, Entry, Record
<1>4. IdleLookup \in Lookup
  BY <1>3 DEF IdleLookup, Lookup
<1>5. IdleRefresh \in Refresh
  BY <1>1, <1>2 DEF IdleRefresh, Refresh, Db
<1> QED
  BY <1>1, <1>2, <1>3, <1>4, <1>5

LEMMA TypeInit == Init => TypeOK
<1> SUFFICES ASSUME Init PROVE TypeOK
  OBVIOUS
<1>1. boot \in Boot
  BY NothingTyped DEF Init, Boot, Db
<1>2. readers \in [set: [Db -> Reader], generation: Nat]
  BY NothingTyped DEF Init
<1>3. lookup \in [Thread -> Lookup] /\ \A t \in Thread : lookup[t].at = "idle"
  BY NothingTyped DEF Init, IdleLookup
<1>4. refresh \in [Refresher -> Refresh]
  BY NothingTyped DEF Init
<1>5. /\ sources \in [Db -> Build]
      /\ cache \in [Public -> Entry \cup {Absent}]
      /\ loading \in [Public -> Thread \cup {Nobody}]
      /\ installed \in Seq(Record)
  BY NothingTyped DEF Init
<1> QED
  BY <1>1, <1>2, <1>3, <1>4, <1>5 DEF Init, TypeOK

(* The files change: nothing of GeoIp does.                                *)
LEMMA TypeFiles ==
  ASSUME TypeOK, NEW d \in Db, Publish(d) \/ Withdraw(d)
  PROVE  TypeOK'
<1>1. file' \in [Db -> File]
  <2>0. file \in [Db -> File]
    BY DEF TypeOK
  <2>1. CASE Publish(d)
    <3>1. PICK sound \in BOOLEAN, big \in BOOLEAN :
            file' = [file EXCEPT ![d] = [build |-> file[d].build + 1, here |-> TRUE,
                                         sound |-> sound, big |-> big]]
      BY <2>1 DEF Publish, Sound, Big
    <3>2. file[d].build + 1 \in Build
      BY <2>0, <2>1, EnricherAssumption DEF Publish, File, Build
    <3>3. [build |-> file[d].build + 1, here |-> TRUE, sound |-> sound, big |-> big]
            \in File
      BY <3>2 DEF File
    <3> QED
      BY <2>0, <3>1, <3>3
  <2>2. CASE Withdraw(d)
    <3>1. file' = [file EXCEPT ![d] = [file[d] EXCEPT !.here = FALSE]]
      BY <2>2 DEF Withdraw
    <3>2. [file[d] EXCEPT !.here = FALSE] \in File
      BY <2>0 DEF File
    <3> QED
      BY <2>0, <3>1, <3>2
  <2> QED
    BY <2>1, <2>2
<1> QED
  BY <1>1 DEF Publish, Withdraw, TypeOK

LEMMA TypeOpening ==
  ASSUME TypeOK, Opening
  PROVE  TypeOK'
<1>0. boot \in Boot /\ boot.db \in Db
  BY DEF TypeOK, Boot
<1>1. CASE OpenStat
  <2>1. boot' \in Boot
    BY <1>0, <1>1, FilesTyped DEF OpenStat, OpenNext, Boot, Db
  <2>2. installed' \in Seq(Record)
    <3>1. Answers(readers.set) \in Record
      BY AnswersTyped DEF TypeOK
    <3>2. installed' = installed \/ installed' = <<Answers(readers.set)>>
      BY <1>1 DEF OpenStat, OpenNext
    <3>3. <<Answers(readers.set)>> \in Seq(Record)
      BY <3>1
    <3>4. installed \in Seq(Record)
      BY DEF TypeOK
    <3> QED
      BY <3>2, <3>3, <3>4
  <2> QED
    BY <1>1, <2>1, <2>2 DEF OpenStat, BootFrame, TypeOK
<1>2. CASE OpenLen
  <2>1. boot' \in Boot
    BY <1>0, <1>2, FilesTyped DEF OpenLen, Boot
  <2> QED
    BY <1>2, <2>1 DEF OpenLen, BootFrame, TypeOK
<1>3. CASE OpenReader
  <2>1. CASE ~Opens(boot.db)
    <3>1. boot' \in Boot
      BY <1>0, <1>3, <2>1 DEF OpenReader, Boot
    <3> QED
      BY <1>3, <2>1, <3>1 DEF OpenReader, BootFrame, TypeOK
  <2>2. CASE Opens(boot.db)
    <3>0. FileReader(boot.db, boot.mapped) \in Reader
      BY <1>0 DEF TypeOK, File, Boot, Reader, FileReader
    <3>1. readers' \in [set: [Db -> Reader], generation: Nat]
      <4>1. readers' = [readers EXCEPT !.set =
                         [readers.set EXCEPT ![boot.db] = FileReader(boot.db, boot.mapped)]]
        BY <1>3, <2>2 DEF OpenReader
      <4>2. readers \in [set: [Db -> Reader], generation: Nat]
        BY DEF TypeOK
      <4>3. [readers.set EXCEPT ![boot.db] =
               FileReader(boot.db, boot.mapped)] \in [Db -> Reader]
        BY <1>0, <3>0, <4>2
      <4> QED
        BY <4>1, <4>2, <4>3
    <3>2. sources' \in [Db -> Build]
      BY <1>0, <1>3, <2>2 DEF OpenReader, TypeOK, Boot
    <3>3. boot' \in Boot
      BY <1>0, <1>3, <2>2 DEF OpenReader, OpenNext, Boot, Db
    <3>4. installed' \in Seq(Record)
      <4>1. Answers(readers'.set) \in Record
        BY <3>1, AnswersTyped
      <4>2. installed' = installed \/ installed' = <<Answers(readers'.set)>>
        BY <1>3, <2>2 DEF OpenReader, OpenNext
      <4>3. <<Answers(readers'.set)>> \in Seq(Record)
        BY <4>1
      <4>4. installed \in Seq(Record)
        BY DEF TypeOK
      <4> QED
        BY <4>2, <4>3, <4>4
    <3> QED
      BY <1>3, <3>1, <3>2, <3>3, <3>4 DEF OpenReader, BootFrame, TypeOK
  <2> QED
    BY <2>1, <2>2
<1> QED
  BY <1>1, <1>2, <1>3 DEF Opening

(* What a lookup's step changes, and that it keeps its type: the record    *)
(* the thread goes on with is all that matters of the others.              *)
Plausible(local) ==
  /\ local \in Lookup
  /\ local.at \notin {"idle", "answered"} => local.ip \in Public

CacheTyped ==
  /\ cache \in [Public -> Entry \cup {Absent}]
  /\ loading \in [Public -> Thread \cup {Nobody}]

LookupTyped ==
  /\ lookup \in [Thread -> Lookup]
  /\ \A t \in Thread : Plausible(lookup[t])

LEMMA TypeBecomes ==
  ASSUME LookupTyped, NEW t \in Thread, NEW local, Plausible(local), Becomes(t, local)
  PROVE  LookupTyped'
<1>1. lookup' = [lookup EXCEPT ![t] = local]
  BY DEF Becomes
<1>2. lookup' \in [Thread -> Lookup]
  BY <1>1 DEF LookupTyped, Plausible
<1>3. \A u \in Thread : lookup'[u] = IF u = t THEN local ELSE lookup[u]
  BY <1>1 DEF LookupTyped
<1>4. \A u \in Thread : Plausible(lookup'[u])
  BY <1>3 DEF LookupTyped
<1> QED
  BY <1>2, <1>4 DEF LookupTyped, Plausible

LEMMA TypeLookup ==
  ASSUME TypeOK, NEW t \in Thread,
         Looking(t) \/ Cancel(t) \/ \E ip \in Ip : LookupStart(t, ip)
  PROVE  TypeOK'
<1>0. /\ LookupTyped /\ CacheTyped /\ LookupFrame
      /\ lookup[t] \in Lookup /\ lookup[t].entry \in Entry
      /\ lookup[t].at \notin {"idle", "answered"} => lookup[t].ip \in Public
  BY DEF TypeOK, LookupTyped, CacheTyped, Plausible, Looking, Probe, Cancel, Check, Miss,
         InsertGuarded, InsertReplacing, LookupReturn, LookupStart, Lookup
<1>i. Plausible(IdleLookup)
  BY NothingTyped DEF Plausible, IdleLookup
<1> SUFFICES LookupTyped' /\ CacheTyped'
  BY <1>0 DEF LookupTyped, CacheTyped, Plausible, LookupFrame, TypeOK
<1>1. CASE Probe(t)
  <2> DEFINE ip == lookup[t].ip
  <2>0. ip \in Public
    BY <1>0, <1>1 DEF Probe
  <2>1. CASE cache[ip] # Absent
    <3> DEFINE local == [lookup[t] EXCEPT !.at = "check", !.entry = cache[ip]]
    <3>1. cache[ip] \in Entry
      BY <1>0, <2>0, <2>1 DEF CacheTyped
    <3>2. Plausible(local)
      BY <1>0, <2>0, <3>1 DEF Plausible, Lookup
    <3>3. Becomes(t, local) /\ UNCHANGED <<cache, loading>>
      BY <1>1, <2>1 DEF Probe, Becomes
    <3> HIDE DEF local
    <3> QED
      BY <1>0, <3>2, <3>3, TypeBecomes DEF CacheTyped
  <2>2. CASE cache[ip] = Absent /\ loading[ip] = Nobody
    <3> DEFINE local == [lookup[t] EXCEPT !.at = "load", !.guard = TRUE]
    <3>1. Plausible(local)
      BY <1>0, <2>0 DEF Plausible, Lookup
    <3>2. Becomes(t, local) /\ cache' = cache /\ loading' = [loading EXCEPT ![ip] = t]
      BY <1>1, <2>2 DEF Probe, Becomes
    <3> HIDE DEF local
    <3> QED
      BY <1>0, <3>1, <3>2, TypeBecomes DEF CacheTyped
  <2>3. CASE cache[ip] = Absent /\ loading[ip] # Nobody
    <3> DEFINE local == [lookup[t] EXCEPT !.at = "waiting", !.on = loading[ip]]
    <3>1. loading[ip] \in Thread
      BY <1>0, <2>0, <2>3 DEF CacheTyped
    <3>2. Plausible(local)
      BY <1>0, <2>0, <3>1 DEF Plausible, Lookup
    <3>3. Becomes(t, local) /\ UNCHANGED <<cache, loading>>
      BY <1>1, <2>3 DEF Probe, Becomes
    <3> HIDE DEF local
    <3> QED
      BY <1>0, <3>2, <3>3, TypeBecomes DEF CacheTyped
  <2> QED
    BY <2>1, <2>2, <2>3
<1>2. CASE Cancel(t) \/ LookupReturn(t)
  <2>1. Becomes(t, IdleLookup) /\ UNCHANGED <<cache, loading>>
    BY <1>2 DEF Cancel, LookupReturn
  <2> QED
    BY <1>0, <1>i, <2>1, TypeBecomes DEF CacheTyped
<1>3. CASE Check(t)
  <2>1. PICK at \in {"answered", "load"} : Becomes(t, [lookup[t] EXCEPT !.at = at])
    BY <1>3 DEF Check, Becomes
  <2> DEFINE local == [lookup[t] EXCEPT !.at = at]
  <2>2. Plausible(local)
    BY <1>0, <1>3 DEF Plausible, Lookup, Check
  <2>3. Becomes(t, local) /\ UNCHANGED <<cache, loading>>
    BY <1>3, <2>1 DEF Check
  <2> HIDE DEF local
  <2> QED
    BY <1>0, <2>2, <2>3, TypeBecomes DEF CacheTyped
<1>4. CASE Miss(t)
  <2> DEFINE local == [lookup[t] EXCEPT !.at = "insert", !.entry = Read(readers)]
  <2>1. Read(readers) \in Entry
    BY AnswersTyped DEF TypeOK, Entry, Read
  <2>2. Plausible(local)
    BY <1>0, <1>4, <2>1 DEF Plausible, Lookup, Miss
  <2>3. Becomes(t, local) /\ UNCHANGED <<cache, loading>>
    BY <1>4 DEF Miss
  <2> HIDE DEF local
  <2> QED
    BY <1>0, <2>2, <2>3, TypeBecomes DEF CacheTyped
<1>5. CASE InsertGuarded(t)
  <2>0. lookup[t].entry \in Entry /\ lookup[t].ip \in Public
    BY <1>0, <1>5 DEF InsertGuarded
  <2>1. ASSUME NEW u \in Thread
        PROVE  Plausible(HandedOn(t)[u])
    <3>0. lookup[u] \in Lookup /\ Plausible(lookup[u])
      BY <1>0 DEF LookupTyped
    <3>1. CASE u = t
      BY <1>0, <3>1 DEF HandedOn, Lookup, Plausible
    <3>2. CASE u # t /\ lookup[u].at = "waiting" /\ lookup[u].on = t
      BY <2>0, <3>0, <3>2 DEF HandedOn, Lookup, Plausible
    <3>3. CASE u # t /\ ~(lookup[u].at = "waiting" /\ lookup[u].on = t)
      BY <3>0, <3>3 DEF HandedOn
    <3> QED
      BY <3>1, <3>2, <3>3
  <2>2. lookup' = HandedOn(t) /\ HandedOn(t) = [u \in Thread |-> HandedOn(t)[u]]
    BY <1>5 DEF InsertGuarded, HandedOn
  <2>3. LookupTyped'
    BY <2>1, <2>2 DEF LookupTyped, Plausible
  <2>4. CacheTyped'
    BY <1>0, <1>5, <2>0 DEF InsertGuarded, CacheTyped
  <2> QED
    BY <2>3, <2>4
<1>6. CASE InsertReplacing(t)
  <2> DEFINE local == [lookup[t] EXCEPT !.at = "answered"]
  <2>1. Plausible(local)
    BY <1>0 DEF Plausible, Lookup
  <2>2. Becomes(t, local)
    BY <1>6 DEF InsertReplacing
  <2>3. CacheTyped'
    BY <1>0, <1>6 DEF InsertReplacing, CacheTyped
  <2> HIDE DEF local
  <2> QED
    BY <1>0, <2>1, <2>2, <2>3, TypeBecomes
<1>7. CASE \E ip \in Ip : LookupStart(t, ip)
  <2>1. PICK ip \in Ip : LookupStart(t, ip)
    BY <1>7
  <2> DEFINE local == [IdleLookup EXCEPT
                         !.at = IF ip \in Reserved THEN "answered" ELSE "probe",
                         !.ip = ip, !.floor = generation]
  <2>2. Plausible(local)
    BY NothingTyped DEF Plausible, Lookup, IdleLookup, TypeOK, Public
  <2>3. Becomes(t, local) /\ UNCHANGED <<cache, loading>>
    BY <2>1 DEF LookupStart
  <2> HIDE DEF local
  <2> QED
    BY <1>0, <2>2, <2>3, TypeBecomes DEF CacheTyped
<1> QED
  BY <1>1, <1>2, <1>3, <1>4, <1>5, <1>6, <1>7 DEF Looking

(* An entry leaves the cache, or all do.                                   *)
LEMMA TypeCache ==
  ASSUME TypeOK, ClearCache \/ \E ip \in Public : Evict(ip)
  PROVE  TypeOK'
<1>1. LookupFrame /\ UNCHANGED lookup /\ CacheTyped
  BY DEF ClearCache, Evict, TypeOK, CacheTyped
<1>2. CacheTyped'
  BY <1>1 DEF ClearCache, Cleared, Evict, CacheTyped
<1> QED
  BY <1>1, <1>2 DEF CacheTyped, LookupFrame, TypeOK

LEMMA TypeGoes ==
  ASSUME refresh \in [Refresher -> Refresh], NEW r \in Refresher,
         NEW local \in Refresh, Goes(r, local)
  PROVE  refresh' \in [Refresher -> Refresh]
BY DEF Goes

LEMMA TypeOnward ==
  ASSUME NEW local \in Refresh
  PROVE  Onward(local) \in Refresh
BY DEF Onward, Refresh, Db

LEMMA TypeRefresh ==
  ASSUME TypeOK, NEW r \in Refresher, RefreshLock(r) \/ Refreshing(r)
  PROVE  TypeOK'
<1>0. /\ refresh \in [Refresher -> Refresh] /\ refresh[r] \in Refresh
      /\ refresh[r].db \in Db /\ refresh[r].stat \in Build
      /\ refresh[r].mapped \in BOOLEAN /\ refresh[r].next \in [Db -> Reader]
      /\ readers.set \in [Db -> Reader] /\ CacheTyped
      /\ RefreshFrame
  BY DEF TypeOK, Refresh, CacheTyped, RefreshLock, Refreshing, ReopenStat, ReopenLen,
         ReopenReader, SwapStore, SwapPublish, SwapClear, RefreshReturn
<1>1. CASE RefreshLock(r)
  <2> DEFINE local == [IdleRefresh EXCEPT !.at = "stat", !.next = readers.set]
  <2>1. local \in Refresh
    BY <1>0, NothingTyped DEF Refresh
  <2>2. Goes(r, local)
    BY <1>1 DEF RefreshLock
  <2> HIDE DEF local
  <2>3. refresh' \in [Refresher -> Refresh]
    BY <1>0, <2>1, <2>2, TypeGoes
  <2> QED
    BY <1>0, <1>1, <2>3 DEF RefreshLock, RefreshFrame, TypeOK
<1>2. CASE ReopenStat(r)
  <2> DEFINE local == IF refresh[r].db \in Provisioned /\ Moved(refresh[r].db)
                        THEN [refresh[r] EXCEPT !.at = "len",
                                                !.stat = FileMtime(refresh[r].db)]
                        ELSE Onward(refresh[r])
  <2>1. local \in Refresh
    BY <1>0, FilesTyped, TypeOnward DEF Refresh
  <2>2. Goes(r, local)
    BY <1>2 DEF ReopenStat
  <2> HIDE DEF local
  <2>3. refresh' \in [Refresher -> Refresh]
    BY <1>0, <2>1, <2>2, TypeGoes
  <2> QED
    BY <1>0, <1>2, <2>3 DEF ReopenStat, RefreshFrame, TypeOK
<1>3. CASE ReopenLen(r)
  <2> DEFINE local == [refresh[r] EXCEPT !.at = "open",
                                         !.mapped = LenAsksForMap(refresh[r].db)]
  <2>1. local \in Refresh
    BY <1>0, FilesTyped DEF Refresh
  <2>2. Goes(r, local)
    BY <1>3 DEF ReopenLen
  <2> HIDE DEF local
  <2>3. refresh' \in [Refresher -> Refresh]
    BY <1>0, <2>1, <2>2, TypeGoes
  <2> QED
    BY <1>0, <1>3, <2>3 DEF ReopenLen, RefreshFrame, TypeOK
<1>4. CASE ReopenReader(r)
  <2> DEFINE d == refresh[r].db
             opened == [refresh[r] EXCEPT
                          !.next = [@ EXCEPT ![d] = FileReader(d, refresh[r].mapped)],
                          !.changed = TRUE]
             local == IF Opens(d) THEN Onward(opened) ELSE Onward(refresh[r])
  <2>1. FileReader(d, refresh[r].mapped) \in Reader
    BY <1>0 DEF FileReader, Reader, TypeOK, File
  <2>2. opened \in Refresh
    BY <1>0, <2>1 DEF Refresh
  <2>3. local \in Refresh
    <3> HIDE DEF opened
    <3> QED
      BY <1>0, <2>2, TypeOnward
  <2>4. Goes(r, local)
    BY <1>4 DEF ReopenReader
  <2>5. sources' \in [Db -> Build]
    BY <1>0, <1>4 DEF ReopenReader, TypeOK
  <2> HIDE DEF local
  <2>6. refresh' \in [Refresher -> Refresh]
    BY <1>0, <2>3, <2>4, TypeGoes
  <2> QED
    BY <1>0, <1>4, <2>5, <2>6 DEF ReopenReader, RefreshFrame, TypeOK
<1>5. CASE SwapStore(r) \/ SwapPublish(r) \/ SwapClear(r) \/ RefreshReturn(r)
  <2>1. PICK local \in Refresh : Goes(r, local)
    <3>1. /\ IdleRefresh \in Refresh
          /\ \A at \in {"publish", "clear", "unlock"} :
               [refresh[r] EXCEPT !.at = at] \in Refresh
      BY <1>0, NothingTyped DEF Refresh
    <3>2. \/ Goes(r, IdleRefresh)
          \/ \E at \in {"publish", "clear", "unlock"} : Goes(r, [refresh[r] EXCEPT !.at = at])
      BY <1>5 DEF SwapStore, SwapPublish, SwapClear, RefreshReturn
    <3> QED
      BY <3>1, <3>2
  <2>2. refresh' \in [Refresher -> Refresh]
    BY <1>0, <2>1, TypeGoes
  <2>3. CASE SwapStore(r)
    <3>1. Answers(refresh[r].next) \in Record
      BY <1>0, AnswersTyped
    <3>2. installed' \in Seq(Record)
      BY <2>3, <3>1 DEF SwapStore, TypeOK
    <3>3. readers' \in [set: [Db -> Reader], generation: Nat]
      BY <1>0, <2>3 DEF SwapStore, TypeOK
    <3> QED
      BY <1>0, <2>2, <2>3, <3>2, <3>3 DEF SwapStore, RefreshFrame, TypeOK
  <2>4. CASE SwapPublish(r)
    BY <1>0, <2>2, <2>4 DEF SwapPublish, RefreshFrame, TypeOK
  <2>5. CASE SwapClear(r)
    <3>1. CacheTyped'
      BY <2>5 DEF SwapClear, Cleared, CacheTyped
    <3> QED
      BY <1>0, <2>2, <2>5, <3>1 DEF SwapClear, CacheTyped, RefreshFrame, TypeOK
  <2>6. CASE RefreshReturn(r)
    BY <1>0, <2>2, <2>6 DEF RefreshReturn, RefreshFrame, TypeOK
  <2> QED
    BY <1>5, <2>3, <2>4, <2>5, <2>6
<1> QED
  BY <1>1, <1>2, <1>3, <1>4, <1>5 DEF Refreshing

LEMMA TypeStep == TypeOK /\ [Next]_vars => TypeOK'
<1> SUFFICES ASSUME TypeOK, [Next]_vars PROVE TypeOK'
  OBVIOUS
<1>1. CASE UNCHANGED vars
  BY <1>1 DEF vars, TypeOK
<1>2. CASE Next
  BY <1>2, TypeFiles, TypeOpening, TypeLookup, TypeCache, TypeRefresh DEF Next
<1> QED
  BY <1>1, <1>2

(* Every variable keeps its type, whatever the threads, the refreshers and *)
(* the files do: no address in reserved space is looked for in the cache.  *)
THEOREM TypeCorrect == Spec => []TypeOK
BY TypeInit, TypeStep, PTL DEF Spec

-----------------------------------------------------------------------------
(* The inductive invariant, one conjunct at a time.                        *)

(* Where each step leaves the refreshers.                                  *)
LEMMA GoesTo ==
  ASSUME refresh \in [Refresher -> Refresh], NEW r \in Refresher, NEW local, Goes(r, local)
  PROVE  \A q \in Refresher : refresh'[q] = IF q = r THEN local ELSE refresh[q]
BY DEF Goes

LEMMA Steps ==
  ASSUME TypeOK, NEW r \in Refresher
  PROVE  /\ RefreshLock(r) => /\ refresh[r].at = "idle"
                              /\ refresh'[r] = [IdleRefresh EXCEPT !.at = "stat",
                                                                   !.next = readers.set]
         /\ ReopenStat(r) => /\ refresh[r].at = "stat"
                             /\ refresh'[r] =
                                  IF refresh[r].db \in Provisioned /\ Moved(refresh[r].db)
                                    THEN [refresh[r] EXCEPT !.at = "len",
                                            !.stat = FileMtime(refresh[r].db)]
                                    ELSE Onward(refresh[r])
         /\ ReopenLen(r) => /\ refresh[r].at = "len"
                            /\ refresh'[r] = [refresh[r] EXCEPT !.at = "open",
                                                 !.mapped = LenAsksForMap(refresh[r].db)]
         /\ ReopenReader(r) => /\ refresh[r].at = "open"
                               /\ refresh'[r] =
                                    IF Opens(refresh[r].db)
                                      THEN Onward([refresh[r] EXCEPT
                                        !.next = [@ EXCEPT ![refresh[r].db] =
                                          FileReader(refresh[r].db, refresh[r].mapped)],
                                        !.changed = TRUE])
                                      ELSE Onward(refresh[r])
         /\ SwapStore(r) => /\ refresh[r].at = "install"
                            /\ refresh'[r] = [refresh[r] EXCEPT !.at = "publish"]
         /\ SwapPublish(r) => /\ refresh[r].at = "publish"
                              /\ refresh'[r] = [refresh[r] EXCEPT !.at = "clear"]
         /\ SwapClear(r) => /\ refresh[r].at = "clear"
                            /\ refresh'[r] = [refresh[r] EXCEPT !.at = "unlock"]
         /\ RefreshReturn(r) => /\ refresh[r].at \in {"install", "unlock"}
                                /\ refresh'[r] = IdleRefresh
         /\ RefreshLock(r) \/ Refreshing(r) =>
              \A q \in Refresher : q # r => refresh'[q] = refresh[q]
<1>0. refresh \in [Refresher -> Refresh]
  BY DEF TypeOK
<1>1. RefreshLock(r) =>
        /\ refresh[r].at = "idle"
        /\ refresh'[r] = [IdleRefresh EXCEPT !.at = "stat", !.next = readers.set]
  BY <1>0 DEF RefreshLock, Goes
<1>2. ReopenStat(r) =>
        /\ refresh[r].at = "stat"
        /\ refresh'[r] = IF refresh[r].db \in Provisioned /\ Moved(refresh[r].db)
                           THEN [refresh[r] EXCEPT !.at = "len",
                                   !.stat = FileMtime(refresh[r].db)]
                           ELSE Onward(refresh[r])
  BY <1>0 DEF ReopenStat, Goes
<1>3. ReopenLen(r) =>
        /\ refresh[r].at = "len"
        /\ refresh'[r] = [refresh[r] EXCEPT !.at = "open",
                                            !.mapped = LenAsksForMap(refresh[r].db)]
  BY <1>0 DEF ReopenLen, Goes
<1>4. ReopenReader(r) =>
        /\ refresh[r].at = "open"
        /\ refresh'[r] = IF Opens(refresh[r].db)
                           THEN Onward([refresh[r] EXCEPT
                             !.next = [@ EXCEPT ![refresh[r].db] =
                               FileReader(refresh[r].db, refresh[r].mapped)],
                             !.changed = TRUE])
                           ELSE Onward(refresh[r])
  BY <1>0 DEF ReopenReader, Goes
<1>5. SwapStore(r) => /\ refresh[r].at = "install"
                      /\ refresh'[r] = [refresh[r] EXCEPT !.at = "publish"]
  BY <1>0 DEF SwapStore, Goes
<1>6. SwapPublish(r) => /\ refresh[r].at = "publish"
                        /\ refresh'[r] = [refresh[r] EXCEPT !.at = "clear"]
  BY <1>0 DEF SwapPublish, Goes
<1>7. SwapClear(r) => /\ refresh[r].at = "clear"
                      /\ refresh'[r] = [refresh[r] EXCEPT !.at = "unlock"]
  BY <1>0 DEF SwapClear, Goes
<1>8. RefreshReturn(r) => /\ refresh[r].at \in {"install", "unlock"}
                          /\ refresh'[r] = IdleRefresh
  BY <1>0 DEF RefreshReturn, Goes
<1>9. RefreshLock(r) \/ Refreshing(r) =>
        \A q \in Refresher : q # r => refresh'[q] = refresh[q]
  BY <1>0 DEF RefreshLock, Refreshing, ReopenStat, ReopenLen, ReopenReader, SwapStore,
              SwapPublish, SwapClear, RefreshReturn, Goes
<1> QED
  BY <1>1, <1>2, <1>3, <1>4, <1>5, <1>6, <1>7, <1>8, <1>9

(* The stages alone.                                                       *)
LEMMA Stages ==
  ASSUME TypeOK, NEW r \in Refresher
  PROVE  /\ RefreshLock(r) => refresh[r].at = "idle" /\ refresh'[r].at = "stat"
         /\ ReopenStat(r) => /\ refresh[r].at = "stat"
                             /\ refresh'[r].at \in {"len", "stat", "install"}
         /\ ReopenLen(r) => refresh[r].at = "len" /\ refresh'[r].at = "open"
         /\ ReopenReader(r) => /\ refresh[r].at = "open"
                               /\ refresh'[r].at \in {"stat", "install"}
         /\ SwapStore(r) => refresh[r].at = "install" /\ refresh'[r].at = "publish"
         /\ SwapPublish(r) => refresh[r].at = "publish" /\ refresh'[r].at = "clear"
         /\ SwapClear(r) => refresh[r].at = "clear" /\ refresh'[r].at = "unlock"
         /\ RefreshReturn(r) => /\ refresh[r].at \in {"install", "unlock"}
                                /\ refresh'[r].at = "idle"
<1>0. refresh[r] \in Refresh
  BY DEF TypeOK
<1>1. IdleRefresh.at = "idle" /\ IdleRefresh \in Refresh
  BY NothingTyped DEF IdleRefresh
<1>2. ASSUME NEW local \in Refresh
      PROVE  Onward(local).at \in {"stat", "install"}
  BY DEF Onward, Refresh
<1>3. ReopenReader(r) => refresh'[r].at \in {"stat", "install"}
  <2> SUFFICES ASSUME ReopenReader(r) PROVE refresh'[r].at \in {"stat", "install"}
    OBVIOUS
  <2> DEFINE opened == [refresh[r] EXCEPT
                          !.next = [@ EXCEPT ![refresh[r].db] =
                            FileReader(refresh[r].db, refresh[r].mapped)],
                          !.changed = TRUE]
  <2>1. opened \in Refresh
    BY <1>0 DEF Refresh, TypeOK, FileReader, Reader, File
  <2>2. refresh'[r] = Onward(opened) \/ refresh'[r] = Onward(refresh[r])
    BY Steps
  <2> HIDE DEF opened
  <2> QED
    BY <1>0, <1>2, <2>1, <2>2
<1>4. ReopenStat(r) => refresh'[r].at \in {"len", "stat", "install"}
  BY <1>0, <1>2, Steps DEF Refresh
<1> QED
  BY <1>0, <1>1, <1>3, <1>4, Steps DEF Refresh

LEMMA LockStep ==
  ASSUME TypeOK, LockInv, Next
  PROVE  LockInv'
<1>1. CASE UNCHANGED <<refresh, lock>>
  BY <1>1 DEF LockInv, Critical
<1>2. ASSUME NEW r \in Refresher, RefreshLock(r) \/ Refreshing(r)
      PROVE  LockInv'
  <2>0. \A q \in Refresher : q # r => refresh'[q] = refresh[q]
    BY <1>2, Steps
  <2>1. CASE RefreshLock(r)
    <3>1. lock = Nobody /\ lock' = r
      BY <2>1 DEF RefreshLock
    <3> QED
      BY <2>0, <2>1, <3>1, Stages, EnricherAssumption DEF LockInv, Critical
  <2>2. CASE RefreshReturn(r)
    <3>1. lock' = Nobody
      BY <2>2 DEF RefreshReturn
    <3>2. lock = r
      BY <2>2, Stages DEF LockInv, Critical
    <3> QED
      BY <2>0, <2>2, <3>1, <3>2, Stages, EnricherAssumption DEF LockInv, Critical
  <2>3. CASE ~RefreshLock(r) /\ ~RefreshReturn(r)
    <3>1. lock' = lock
      BY <1>2, <2>3 DEF Refreshing, ReopenStat, ReopenLen, ReopenReader, SwapStore,
                        SwapPublish, SwapClear
    <3>2. refresh[r].at # "idle" /\ refresh'[r].at # "idle"
      BY <1>2, <2>3, Stages DEF Refreshing
    <3> QED
      BY <2>0, <3>1, <3>2 DEF LockInv, Critical
  <2> QED
    BY <2>1, <2>2, <2>3
<1> QED
  BY <1>1, <1>2
  DEF Next, Publish, Withdraw, Opening, OpenStat, OpenLen, OpenReader, BootFrame, Looking,
      Probe, Check, Miss, InsertGuarded, InsertReplacing, LookupReturn, Cancel, LookupStart,
      Evict, ClearCache, LookupFrame

(* Only open and the swap change the readers, the generation, the history. *)
SetsFrame == UNCHANGED <<readers, generation, installed>>

LEMMA Frames ==
  ASSUME TypeOK, Next
  PROVE  \/ Opening
         \/ \E r \in Refresher : RefreshLock(r) \/ Refreshing(r)
         \/ UNCHANGED <<refresh, lock, boot>> /\ SetsFrame
BY DEF Next, Publish, Withdraw, Looking, Probe, Check, Miss, InsertGuarded, InsertReplacing,
       LookupReturn, Cancel, LookupStart, Evict, ClearCache, LookupFrame, SetsFrame

LEMMA OpeningFrame ==
  ASSUME TypeOK, Opening
  PROVE  /\ ~Live
         /\ UNCHANGED <<file, generation, cache, loading, lookup, refresh, lock>>
         /\ readers'.generation = readers.generation
         /\ \/ boot'.at # "live" /\ installed' = installed
            \/ boot'.at = "live" /\ installed' = <<Answers(readers'.set)>>
<1>0. boot \in Boot /\ readers \in [set: [Db -> Reader], generation: Nat]
  BY DEF TypeOK
<1>1. /\ ~Live
      /\ UNCHANGED <<file, generation, cache, loading, lookup, refresh, lock>>
      /\ readers'.generation = readers.generation
  BY <1>0 DEF Opening, OpenStat, OpenLen, OpenReader, BootFrame, Live
<1>2. CASE OpenStat
  BY <1>0, <1>1, <1>2 DEF OpenStat, OpenNext, Boot
<1>3. CASE OpenLen
  BY <1>0, <1>1, <1>3 DEF OpenLen, Boot
<1>4. CASE OpenReader
  BY <1>0, <1>1, <1>4 DEF OpenReader, OpenNext, Boot
<1> QED
  BY <1>1, <1>2, <1>3, <1>4 DEF Opening

LEMMA LiveWhenUsed ==
  ASSUME TypeOK, LockInv, BootInv, Next, ~Opening,
         ~\E d \in Db : Publish(d) \/ Withdraw(d)
  PROVE  Live /\ boot' = boot
<1>1. ASSUME NEW t \in Thread, Looking(t) \/ Cancel(t)
      PROVE  Live /\ boot' = boot
  BY <1>1 DEF BootInv, Looking, Probe, Check, Miss, InsertGuarded, InsertReplacing,
              LookupReturn, Cancel, LookupFrame, IdleLookup
<1>2. ASSUME NEW r \in Refresher, Refreshing(r)
      PROVE  Live /\ boot' = boot
  <2>1. lock = r
    BY <1>2, Stages DEF Refreshing, LockInv, Critical
  <2> QED
    BY <1>2, <2>1, EnricherAssumption
    DEF BootInv, Refreshing, ReopenStat, ReopenLen, ReopenReader, SwapStore, SwapPublish,
        SwapClear, RefreshReturn, RefreshFrame
<1>3. ASSUME NEW ip \in Public, Evict(ip)
      PROVE  Live /\ boot' = boot
  BY <1>3 DEF Evict, BootInv, LookupFrame
<1> QED
  BY <1>1, <1>2, <1>3
  DEF Next, LookupStart, ClearCache, RefreshLock, LookupFrame, RefreshFrame

LEMMA BootStep ==
  ASSUME TypeOK, LockInv, BootInv, Next
  PROVE  BootInv'
<1>1. CASE Opening
  BY <1>1, OpeningFrame DEF BootInv, Live
<1>2. CASE \E d \in Db : Publish(d) \/ Withdraw(d)
  BY <1>2 DEF BootInv, Publish, Withdraw, Live
<1>3. CASE ~Opening /\ ~\E d \in Db : Publish(d) \/ Withdraw(d)
  BY <1>3, LiveWhenUsed DEF BootInv, Live
<1> QED
  BY <1>1, <1>2, <1>3

LEMMA SwapStep ==
  ASSUME TypeOK, LockInv, BootInv, SwapInv, Next
  PROVE  SwapInv'
<1>0. readers \in [set: [Db -> Reader], generation: Nat] /\ installed \in Seq(Record)
  BY DEF TypeOK
<1>1. CASE Opening
  <2> SUFFICES ASSUME Live' PROVE SwapInv'
    BY DEF SwapInv
  <2>1. /\ installed' = <<Answers(readers'.set)>>
        /\ generation' = 0 /\ readers'.generation = 0
        /\ refresh' = refresh /\ lock = Nobody
    BY <1>1, OpeningFrame DEF Live, BootInv
  <2>2. \A r \in Refresher : refresh'[r].at # "publish"
    BY <2>1, EnricherAssumption DEF LockInv, Critical
  <2>3. Len(installed') = 1 /\ installed'[1] = Answers(readers'.set)
    BY <2>1
  <2> QED
    BY <2>1, <2>2, <2>3 DEF SwapInv, InSwap, Answers
<1>2. CASE UNCHANGED <<refresh, lock, boot>> /\ SetsFrame
  BY <1>2 DEF SwapInv, SetsFrame, Live, InSwap, Answers
<1>3. ASSUME NEW r \in Refresher, RefreshLock(r) \/ Refreshing(r)
      PROVE  SwapInv'
  <2>0. /\ Live /\ boot' = boot
        /\ \A q \in Refresher : q # r => refresh'[q] = refresh[q]
    <3>1. Live /\ boot' = boot
      <4>1. CASE RefreshLock(r)
        BY <4>1 DEF RefreshLock, RefreshFrame
      <4>2. CASE Refreshing(r)
        <5>1. lock = r
          BY <4>2, Stages DEF Refreshing, LockInv, Critical
        <5> QED
          BY <4>2, <5>1, EnricherAssumption
          DEF BootInv, Refreshing, ReopenStat, ReopenLen, ReopenReader, SwapStore,
              SwapPublish, SwapClear, RefreshReturn, RefreshFrame
      <4> QED
        BY <1>3, <4>1, <4>2
    <3> QED
      BY <1>3, <3>1, Steps
  <2>1. CASE ~SwapStore(r) /\ ~SwapPublish(r)
    <3>1. SetsFrame
      BY <1>3, <2>1 DEF SetsFrame, RefreshLock, Refreshing, ReopenStat, ReopenLen,
                        ReopenReader, SwapClear, RefreshReturn
    <3>2. refresh[r].at # "publish" /\ refresh'[r].at # "publish"
      BY <1>3, <2>1, Stages DEF Refreshing
    <3> QED
      BY <2>0, <3>1, <3>2 DEF SwapInv, SetsFrame, Live, InSwap, Answers
  <2>2. CASE SwapStore(r)
    <3>1. /\ readers' = [set |-> refresh[r].next, generation |-> generation + 1]
          /\ installed' = Append(installed, Answers(refresh[r].next))
          /\ generation' = generation
      BY <2>2 DEF SwapStore
    <3>2. refresh[r].at = "install" /\ refresh'[r].at = "publish"
      BY <2>2, Stages
    <3>3. \A q \in Refresher : refresh[q].at # "publish"
      BY <3>2, EnricherAssumption DEF LockInv, Critical
    <3>4. generation = readers.generation /\ Len(installed) = generation + 1
      BY <2>0, <3>3 DEF SwapInv, InSwap
    <3>5. Answers(refresh[r].next) \in Record
      BY AnswersTyped DEF TypeOK, Refresh
    <3>6. Len(installed') = generation + 2
            /\ installed'[generation + 2] = Answers(refresh[r].next)
      BY <1>0, <3>1, <3>4, <3>5 DEF TypeOK
    <3>7. Answers(readers'.set) = Answers(refresh[r].next)
      BY <3>1
    <3> QED
      BY <3>1, <3>2, <3>6, <3>7 DEF SwapInv, InSwap, TypeOK, Answers
  <2>3. CASE SwapPublish(r)
    <3>1. UNCHANGED <<readers, installed>> /\ generation' = readers.generation
      BY <2>3 DEF SwapPublish
    <3>2. refresh[r].at = "publish" /\ refresh'[r].at = "clear"
      BY <2>3, Stages
    <3>3. \A q \in Refresher : refresh'[q].at # "publish"
      BY <2>0, <3>2 DEF LockInv, Critical
    <3> QED
      BY <2>0, <3>1, <3>3 DEF SwapInv, InSwap, Live, Answers
  <2> QED
    BY <2>1, <2>2, <2>3
<1> QED
  BY <1>1, <1>2, <1>3, Frames

(* The history grows only at its end: an entry stays what its set answers, *)
(* and the published generation never goes back.                           *)
LEMMA HistoryGrows ==
  ASSUME TypeOK, LockInv, BootInv, SwapInv, Next
  PROVE  /\ \A e \in Entry : OfSet(e) => OfSet(e)'
         /\ generation <= generation'
<1>0. installed \in Seq(Record) /\ generation \in Nat /\ readers.generation \in Nat
  BY DEF TypeOK
<1>1. CASE Opening
  BY <1>0, <1>1, OpeningFrame DEF BootInv, OfSet
<1>2. CASE UNCHANGED <<refresh, lock, boot>> /\ SetsFrame
  BY <1>0, <1>2 DEF SetsFrame, OfSet
<1>3. ASSUME NEW r \in Refresher, RefreshLock(r) \/ Refreshing(r)
      PROVE  /\ \A e \in Entry : OfSet(e) => OfSet(e)'
             /\ generation <= generation'
  <2>1. CASE ~SwapStore(r) /\ ~SwapPublish(r)
    BY <1>0, <1>3, <2>1
    DEF OfSet, RefreshLock, Refreshing, ReopenStat, ReopenLen, ReopenReader, SwapClear,
        RefreshReturn
  <2>2. CASE SwapStore(r)
    <3>1. Answers(refresh[r].next) \in Record
      BY AnswersTyped DEF TypeOK, Refresh
    <3>2. installed' = Append(installed, Answers(refresh[r].next))
            /\ generation' = generation
      BY <2>2 DEF SwapStore
    <3> QED
      BY <1>0, <3>1, <3>2 DEF OfSet, Entry
  <2>3. CASE SwapPublish(r)
    <3>1. UNCHANGED <<readers, installed>> /\ generation' = readers.generation
      BY <2>3 DEF SwapPublish
    <3>2. refresh[r].at = "publish" /\ lock = r
      BY <2>3, Stages DEF LockInv, Critical
    <3>3. Live
      BY <3>2, EnricherAssumption DEF BootInv
    <3> QED
      BY <1>0, <3>1, <3>2, <3>3 DEF OfSet, SwapInv, InSwap
  <2> QED
    BY <2>1, <2>2, <2>3
<1> QED
  BY <1>1, <1>2, <1>3, Frames

(* What a thread knows stays true as the history grows.                    *)
LEMMA KnownStays ==
  ASSUME TypeOK, LockInv, BootInv, SwapInv, Next,
         NEW local \in Lookup, Coherent(local)
  PROVE  Coherent(local)'
<1>1. local.entry \in Entry /\ local.floor \in Nat
  BY DEF Lookup
<1>2. generation \in Nat /\ generation' \in Nat /\ generation <= generation'
  BY TypeStep, HistoryGrows DEF TypeOK
<1>3. OfSet(local.entry) => OfSet(local.entry)'
  BY <1>1, HistoryGrows
<1> QED
  BY <1>1, <1>2, <1>3 DEF Coherent

(* An answer enters the cache only from a thread that has just read it.    *)
LEMMA CacheStep ==
  ASSUME TypeOK, LockInv, BootInv, SwapInv, CacheInv, LookupInv, Next
  PROVE  CacheInv'
<1>0. cache \in [Public -> Entry \cup {Absent}]
  BY DEF TypeOK
<1>1. ASSUME NEW ip \in Public, cache'[ip] # Absent
      PROVE  \/ cache'[ip] = cache[ip]
             \/ \E t \in Thread : /\ lookup[t].at = "insert" /\ lookup[t].ip \in Public
                                /\ cache'[ip] = lookup[t].entry
  <2>1. ASSUME NEW t \in Thread, InsertGuarded(t) \/ InsertReplacing(t)
        PROVE  \/ cache'[ip] = cache[ip]
               \/ /\ lookup[t].at = "insert" /\ lookup[t].ip \in Public
                  /\ cache'[ip] = lookup[t].entry
    <3>1. lookup[t].at = "insert" /\ lookup[t].ip \in Public
      BY <2>1 DEF TypeOK, InsertGuarded, InsertReplacing
    <3>2. cache' = cache \/ cache' = [cache EXCEPT ![lookup[t].ip] = lookup[t].entry]
      BY <2>1 DEF InsertGuarded, InsertReplacing
    <3> QED
      BY <1>0, <3>1, <3>2
  <2>2. ASSUME NEW jp \in Public, Evict(jp)
        PROVE  cache'[ip] = cache[ip]
    BY <1>0, <1>1, <2>2 DEF Evict
  <2>3. ~Cleared
    BY <1>1 DEF Cleared
  <2>4. CASE UNCHANGED cache
    BY <2>4
  <2> QED
    BY <2>1, <2>2, <2>3, <2>4
    DEF Next, Publish, Withdraw, Opening, OpenStat, OpenLen, OpenReader, BootFrame, Looking,
        Probe, Check, Miss, LookupReturn, Cancel, LookupStart, ClearCache, RefreshLock,
        Refreshing, ReopenStat, ReopenLen, ReopenReader, SwapStore, SwapPublish, SwapClear,
        RefreshReturn
<1>2. ASSUME NEW ip \in Public, cache'[ip] # Absent
      PROVE  OfSet(cache[ip])'
  <2>1. cache'[ip] \in Entry
    BY <1>2, TypeStep DEF TypeOK
  <2>2. OfSet(cache'[ip])
    BY <1>1, <1>2 DEF CacheInv, LookupInv, Coherent
  <2>3. PICK e \in Entry : e = cache'[ip]
    BY <2>1
  <2>4. OfSet(e)'
    BY <2>2, <2>3, HistoryGrows
  <2> QED
    BY <2>3, <2>4 DEF OfSet
<1> QED
  BY <1>2 DEF CacheInv

(* One thread goes on with what it may know; the others know what they did.*)
LEMMA LookupBecomes ==
  ASSUME TypeOK, LockInv, BootInv, SwapInv, LookupInv, Next,
         NEW t \in Thread, NEW local \in Lookup, Coherent(local), Becomes(t, local)
  PROVE  LookupInv'
<1>0. lookup \in [Thread -> Lookup]
  BY DEF TypeOK
<1>1. ASSUME NEW u \in Thread
      PROVE  Coherent(lookup[u])'
  <2>1. lookup'[u] \in Lookup /\ Coherent(lookup'[u])
    BY <1>0 DEF Becomes, LookupInv
  <2>2. PICK known \in Lookup : known = lookup'[u]
    BY <2>1
  <2>3. Coherent(known)'
    BY <2>1, <2>2, KnownStays
  <2> QED
    BY <2>2, <2>3 DEF Coherent, OfSet
<1> QED
  BY <1>1 DEF LookupInv

LEMMA LookupStep ==
  ASSUME IInv, Next
  PROVE  LookupInv'
<1>0. /\ TypeOK /\ LockInv /\ BootInv /\ SwapInv /\ CacheInv /\ LookupInv
      /\ lookup \in [Thread -> Lookup]
      /\ generation \in Nat /\ readers.generation \in Nat
  BY DEF IInv, TypeOK
<1>i. Coherent(IdleLookup) /\ IdleLookup \in Lookup
  BY NothingTyped, EnricherAssumption DEF Coherent, IdleLookup, Public, OfSet
<1>1. CASE UNCHANGED lookup
  <2>1. ASSUME NEW t \in Thread
        PROVE  Coherent(lookup[t])'
    <3>1. PICK known \in Lookup : known = lookup[t]
      BY <1>0
    <3>2. Coherent(known)'
      BY <1>0, <3>1, KnownStays DEF LookupInv
    <3> QED
      BY <1>1, <3>1, <3>2 DEF Coherent, OfSet
  <2> QED
    BY <2>1 DEF LookupInv
<1>2. ASSUME NEW t \in Thread,
             Looking(t) \/ Cancel(t) \/ \E ip \in Ip : LookupStart(t, ip)
      PROVE  LookupInv'
  <2>0. lookup[t] \in Lookup /\ Coherent(lookup[t])
    BY <1>0 DEF LookupInv
  <2>l. Live
    <3>1. CASE lookup[t].at = "idle"
      BY <1>2, <3>1
      DEF Looking, Probe, Check, Miss, InsertGuarded, InsertReplacing, LookupReturn, Cancel,
          LookupStart
    <3>2. CASE lookup[t].at # "idle"
      BY <1>0, <3>2 DEF BootInv, IdleLookup
    <3> QED
      BY <3>1, <3>2
  <2>1. CASE Probe(t)
    <3> DEFINE ip == lookup[t].ip
    <3>0. ip \in Public /\ lookup[t].at = "probe"
      BY <1>0, <2>1 DEF Probe, TypeOK
    <3>1. CASE cache[ip] # Absent
      <4> DEFINE local == [lookup[t] EXCEPT !.at = "check", !.entry = cache[ip]]
      <4>1. cache[ip] \in Entry /\ OfSet(cache[ip])
        BY <1>0, <3>0, <3>1 DEF CacheInv, TypeOK
      <4>2. local \in Lookup /\ local.entry = cache[ip] /\ local.at = "check"
              /\ local.ip = ip /\ local.floor = lookup[t].floor
        BY <2>0, <4>1 DEF Lookup
      <4>3. Becomes(t, local)
        BY <2>1, <3>1 DEF Probe, Becomes
      <4> HIDE DEF local
      <4>4. Coherent(local)
        BY <2>0, <3>0, <4>1, <4>2 DEF Coherent
      <4> QED
        BY <1>0, <4>2, <4>3, <4>4, LookupBecomes
    <3>2. CASE cache[ip] = Absent
      <4>1. PICK at \in {"load", "waiting"}, guard \in BOOLEAN, on \in Thread \cup {Nobody} :
              Becomes(t, [lookup[t] EXCEPT !.at = at, !.guard = guard, !.on = on])
        <5>1. CASE loading[ip] = Nobody
          <6>1. [lookup[t] EXCEPT !.at = "load", !.guard = TRUE]
                  = [lookup[t] EXCEPT !.at = "load", !.guard = TRUE, !.on = lookup[t].on]
            BY <2>0 DEF Lookup
          <6>2. lookup[t].on \in Thread \cup {Nobody}
            BY <2>0 DEF Lookup
          <6> QED
            BY <2>1, <3>2, <5>1, <6>1, <6>2 DEF Probe, Becomes
        <5>2. CASE loading[ip] # Nobody
          <6>1. [lookup[t] EXCEPT !.at = "waiting", !.on = loading[ip]]
                  = [lookup[t] EXCEPT !.at = "waiting", !.guard = lookup[t].guard,
                                      !.on = loading[ip]]
            BY <2>0 DEF Lookup
          <6>2. lookup[t].guard \in BOOLEAN /\ loading[ip] \in Thread \cup {Nobody}
            BY <1>0, <2>0, <3>0 DEF Lookup, TypeOK
          <6> QED
            BY <2>1, <3>2, <5>2, <6>1, <6>2 DEF Probe, Becomes
        <5> QED
          BY <5>1, <5>2
      <4> DEFINE local == [lookup[t] EXCEPT !.at = at, !.guard = guard, !.on = on]
      <4>2. local \in Lookup /\ local.at = at /\ local.ip = ip /\ local.floor = lookup[t].floor
        BY <2>0 DEF Lookup
      <4>3. Becomes(t, local)
        BY <4>1
      <4> HIDE DEF local
      <4>4. Coherent(local)
        BY <2>0, <3>0, <4>2 DEF Coherent
      <4> QED
        BY <1>0, <4>2, <4>3, <4>4, LookupBecomes
    <3> QED
      BY <3>1, <3>2
  <2>2. CASE Cancel(t) \/ LookupReturn(t)
    BY <1>0, <1>i, <2>2, LookupBecomes DEF Cancel, LookupReturn
  <2>3. CASE Check(t)
    <3>0. lookup[t].at = "check" /\ lookup[t].ip \in Public
      BY <1>0, <2>3 DEF Check, TypeOK
    <3>1. CASE /\ OfInstalledSet(lookup[t].entry)
               /\ Becomes(t, [lookup[t] EXCEPT !.at = "answered"])
      <4> DEFINE local == [lookup[t] EXCEPT !.at = "answered"]
      <4>1. local \in Lookup /\ local.entry = lookup[t].entry /\ local.at = "answered"
              /\ local.ip = lookup[t].ip /\ local.floor = lookup[t].floor
        BY <2>0 DEF Lookup
      <4>2. Becomes(t, local)
        BY <3>1
      <4> HIDE DEF local
      <4>3. local.floor \in Nat /\ local.entry \in Entry
        BY <4>1 DEF Lookup
      <4>4. Coherent(local)
        BY <1>0, <2>0, <3>0, <3>1, <4>1, <4>3 DEF Coherent, OfInstalledSet, Entry
      <4> QED
        BY <1>0, <4>1, <4>2, <4>4, LookupBecomes
    <3>2. CASE Becomes(t, [lookup[t] EXCEPT !.at = "load"])
      <4> DEFINE local == [lookup[t] EXCEPT !.at = "load"]
      <4>1. local \in Lookup /\ local.at = "load"
              /\ local.ip = lookup[t].ip /\ local.floor = lookup[t].floor
        BY <2>0 DEF Lookup
      <4>2. Becomes(t, local)
        BY <3>2
      <4> HIDE DEF local
      <4>3. Coherent(local)
        BY <2>0, <3>0, <4>1 DEF Coherent
      <4> QED
        BY <1>0, <4>1, <4>2, <4>3, LookupBecomes
    <3> QED
      BY <2>3, <3>1, <3>2 DEF Check
  <2>4. CASE Miss(t)
    <3> DEFINE local == [lookup[t] EXCEPT !.at = "insert", !.entry = Read(readers)]
    <3>0. lookup[t].at = "load" /\ lookup[t].ip \in Public
      BY <1>0, <2>4 DEF Miss, TypeOK
    <3>1. Read(readers) \in Entry /\ OfSet(Read(readers))
      <4>1. Read(readers) \in Entry
        BY <1>0, AnswersTyped DEF TypeOK, Entry, Read
      <4> QED
        BY <1>0, <2>l, <4>1 DEF Read, OfSet, SwapInv
    <3>2. local \in Lookup /\ local.at = "insert" /\ local.entry = Read(readers)
            /\ local.ip = lookup[t].ip /\ local.floor = lookup[t].floor
      BY <2>0, <3>1 DEF Lookup
    <3>3. Becomes(t, local)
      BY <2>4 DEF Miss
    <3> HIDE DEF local
    <3>4. Read(readers).generation = readers.generation /\ readers.generation >= generation
      BY <1>0, <2>l DEF Read, SwapInv
    <3>5. local.floor \in Nat
      BY <3>2 DEF Lookup
    <3>6. Coherent(local)
      BY <1>0, <2>0, <3>0, <3>1, <3>2, <3>4, <3>5 DEF Coherent
    <3> QED
      BY <1>0, <3>2, <3>3, <3>6, LookupBecomes
  <2>5. CASE InsertGuarded(t)
    <3>0. /\ lookup[t].at = "insert" /\ lookup[t].ip \in Public
          /\ lookup' = HandedOn(t) /\ lookup[t].entry \in Entry
          /\ OfSet(lookup[t].entry)
      BY <1>0, <2>0, <2>5 DEF InsertGuarded, TypeOK, Coherent, Lookup
    <3>1. ASSUME NEW u \in Thread
          PROVE  Coherent(lookup[u])'
      <4>0. lookup[u] \in Lookup /\ Coherent(lookup[u])
        BY <1>0 DEF LookupInv
      <4>1. lookup'[u] \in Lookup /\ Coherent(lookup'[u])
        <5>1. CASE u = t
          <6>1. lookup'[t] = [lookup[t] EXCEPT !.at = "answered"]
            BY <3>0 DEF HandedOn
          <6>2. /\ lookup'[t] \in Lookup
                /\ lookup'[t].at = "answered" /\ lookup'[t].ip = lookup[t].ip
                /\ lookup'[t].floor = lookup[t].floor
                /\ lookup'[t].entry = lookup[t].entry
            BY <2>0, <6>1 DEF Lookup
          <6> QED
            BY <2>0, <3>0, <5>1, <6>2 DEF Coherent
        <5>2. CASE u # t /\ lookup[u].at = "waiting" /\ lookup[u].on = t
          <6>1. lookup'[u] = [lookup[u] EXCEPT !.at = "check", !.entry = lookup[t].entry,
                                               !.on = Nobody]
            BY <3>0, <5>2 DEF HandedOn
          <6>2. /\ lookup'[u] \in Lookup
                /\ lookup'[u].at = "check" /\ lookup'[u].ip = lookup[u].ip
                /\ lookup'[u].floor = lookup[u].floor
                /\ lookup'[u].entry = lookup[t].entry
            BY <3>0, <4>0, <6>1 DEF Lookup
          <6> QED
            BY <3>0, <4>0, <5>2, <6>2 DEF Coherent
        <5>3. CASE u # t /\ ~(lookup[u].at = "waiting" /\ lookup[u].on = t)
          BY <3>0, <4>0, <5>3 DEF HandedOn
        <5> QED
          BY <5>1, <5>2, <5>3
      <4>2. PICK known \in Lookup : known = lookup'[u]
        BY <4>1
      <4>3. Coherent(known)'
        BY <1>0, <4>1, <4>2, KnownStays
      <4> QED
        BY <4>2, <4>3 DEF Coherent, OfSet
    <3> QED
      BY <3>1 DEF LookupInv
  <2>6. CASE InsertReplacing(t)
    <3> DEFINE local == [lookup[t] EXCEPT !.at = "answered"]
    <3>0. lookup[t].at = "insert" /\ lookup[t].ip \in Public
      BY <1>0, <2>6 DEF InsertReplacing, TypeOK
    <3>1. local \in Lookup /\ local.entry = lookup[t].entry /\ local.at = "answered"
            /\ local.ip = lookup[t].ip /\ local.floor = lookup[t].floor
      BY <2>0 DEF Lookup
    <3>2. Becomes(t, local)
      BY <2>6 DEF InsertReplacing
    <3> HIDE DEF local
    <3>3. Coherent(local)
      BY <2>0, <3>0, <3>1 DEF Coherent
    <3> QED
      BY <1>0, <3>1, <3>2, <3>3, LookupBecomes
  <2>7. CASE \E ip \in Ip : LookupStart(t, ip)
    <3>1. PICK ip \in Ip : LookupStart(t, ip)
      BY <2>7
    <3> DEFINE local == [IdleLookup EXCEPT
                           !.at = IF ip \in Reserved THEN "answered" ELSE "probe",
                           !.ip = ip, !.floor = generation]
    <3>2. /\ local \in Lookup
          /\ local.at = IF ip \in Reserved THEN "answered" ELSE "probe"
          /\ local.ip = ip /\ local.floor = generation
      BY <1>0, <1>i DEF Lookup, IdleLookup
    <3>3. Becomes(t, local)
      BY <3>1 DEF LookupStart
    <3> HIDE DEF local
    <3>4. Coherent(local)
      BY <1>0, <3>2 DEF Coherent, Public
    <3> QED
      BY <1>0, <3>2, <3>3, <3>4, LookupBecomes
  <2> QED
    BY <1>2, <2>1, <2>2, <2>3, <2>4, <2>5, <2>6, <2>7 DEF Looking
<1> QED
  BY <1>1, <1>2
  DEF Next, Publish, Withdraw, Opening, OpenStat, OpenLen, OpenReader, BootFrame, Evict,
      ClearCache, RefreshLock, Refreshing, ReopenStat, ReopenLen, ReopenReader, SwapStore,
      SwapPublish, SwapClear, RefreshReturn, RefreshFrame

LEMMA InitInv == Init => IInv
<1> SUFFICES ASSUME Init PROVE IInv
  OBVIOUS
<1>1. TypeOK
  BY TypeInit
<1>2. LockInv
  BY EnricherAssumption DEF Init, LockInv, Critical, IdleRefresh
<1>3. ~Live /\ BootInv
  BY DEF Init, Live, BootInv
<1>4. SwapInv /\ CacheInv
  BY <1>3 DEF Init, SwapInv, CacheInv
<1>5. LookupInv
  BY DEF Init, LookupInv, Coherent, IdleLookup
<1> QED
  BY <1>1, <1>2, <1>3, <1>4, <1>5 DEF IInv

LEMMA StepInv == IInv /\ [Next]_vars => IInv'
<1> SUFFICES ASSUME IInv, [Next]_vars PROVE IInv'
  OBVIOUS
<1>0. TypeOK /\ LockInv /\ BootInv /\ SwapInv /\ CacheInv /\ LookupInv
  BY DEF IInv
<1>1. CASE Next
  BY <1>0, <1>1, TypeStep, LockStep, BootStep, SwapStep, CacheStep, LookupStep DEF IInv
<1>2. CASE UNCHANGED vars
  BY <1>0, <1>2
  DEF vars, IInv, TypeOK, LockInv, Critical, BootInv, Live, SwapInv, InSwap, Answers, CacheInv,
      LookupInv, Coherent, OfSet
<1> QED
  BY <1>1, <1>2

THEOREM InvariantHolds == Spec => []IInv
BY InitInv, StepInv, PTL DEF Spec

(* Every answer is one reader set's, with that set's generation, for any   *)
(* number of threads, refreshers and publications.                         *)
THEOREM AnswersOfOneSet == Spec => []AnswerOfOneSet
<1>1. IInv => AnswerOfOneSet
  <2> SUFFICES ASSUME IInv, NEW t \in Thread, Answered(t)
               PROVE  /\ lookup[t].entry.generation + 1 \in DOMAIN installed
                      /\ lookup[t].entry.record = installed[lookup[t].entry.generation + 1]
    BY DEF AnswerOfOneSet
  <2>1. Coherent(lookup[t]) /\ installed \in Seq(Record)
    BY DEF IInv, LookupInv, TypeOK
  <2> QED
    BY <2>1 DEF Answered, Coherent, OfSet
<1> QED
  BY <1>1, InvariantHolds, PTL

(* No lookup is answered from a set older than the published one it began  *)
(* under.                                                                  *)
THEOREM AnswersNotStale == Spec => []AnswerNotStale
<1>1. IInv => AnswerNotStale
  BY DEF IInv, LookupInv, Coherent, AnswerNotStale, Answered
<1> QED
  BY <1>1, InvariantHolds, PTL
-----------------------------------------------------------------------------
(* No replacement is missed.                                               *)

(* A publication is newer than every time and every reader there is.       *)
LEMMA PublicationsAreNew ==
  ASSUME TypeOK, NEW d \in Db, Publish(d) \/ Withdraw(d), NEW e \in Db
  PROVE  /\ file[e].build \in Nat /\ file'[e].build \in Nat
         /\ file[e].build <= file'[e].build
         /\ file'[e].here /\ file'[e].build = file[e].build =>
              file'[e].big = file[e].big /\ file[e].here
<1>0. file \in [Db -> File]
  BY DEF TypeOK
<1>1. CASE e # d
  BY <1>0, <1>1 DEF Publish, Withdraw, File, Build
<1>2. CASE e = d /\ Publish(d)
  <2>1. file'[d].build = file[d].build + 1
    BY <1>0, <1>2 DEF Publish
  <2> QED
    BY <1>0, <1>2, <2>1 DEF File, Build
<1>3. CASE e = d /\ Withdraw(d)
  <2>1. file'[d] = [file[d] EXCEPT !.here = FALSE]
    BY <1>0, <1>3 DEF Withdraw
  <2> QED
    BY <1>0, <1>3, <2>1 DEF File, Build
<1> QED
  BY <1>1, <1>2, <1>3

LEMMA MatchesStays ==
  ASSUME TypeOK, NEW d \in Db, Publish(d) \/ Withdraw(d),
         NEW e \in Db, NEW mtime \in Build, NEW reader \in Reader, Matches(e, mtime, reader)
  PROVE  Matches(e, mtime, reader)'
<1>1. mtime \in Nat /\ reader.build \in Nat
  BY DEF Build, Reader
<1> QED
  BY <1>1, PublicationsAreNew DEF Matches

LEMMA SeenStays ==
  ASSUME TypeOK, NEW d \in Db, Publish(d) \/ Withdraw(d),
         NEW local, local.db \in Db, local.stat \in Build, Seen(local)
  PROVE  Seen(local)'
<1>1. local.stat \in Nat
  BY DEF Build
<1> QED
  BY <1>1, PublicationsAreNew DEF Seen

LEMMA FileInit == Init => FileInv
<1> SUFFICES ASSUME Init PROVE FileInv
  OBVIOUS
<1>1. \A r \in Refresher : ~Choosing(r)
  BY DEF Init, Choosing, IdleRefresh
<1>2. ASSUME NEW d \in Db
      PROVE  Matches(d, sources[d], readers.set[d])
  <2>1. sources[d] = 0 /\ readers.set[d].build = 0 /\ file[d].build \in {0, 1}
    BY DEF Init, NoReader
  <2> QED
    BY <2>1 DEF Matches
<1> QED
  BY <1>1, <1>2 DEF FileInv, Init

(* A reader opened after its time was read and its length checked.         *)
LEMMA OpenedMatches ==
  ASSUME TypeOK, NEW local, local.db \in Db, local.stat \in Build, local.mapped \in BOOLEAN,
         local.at = "open", Seen(local), Opens(local.db)
  PROVE  /\ Matches(local.db, local.stat, FileReader(local.db, local.mapped))
         /\ FileReader(local.db, local.mapped) \in Reader
         /\ FileReader(local.db, local.mapped).build = file[local.db].build
<1>0. file[local.db] \in File
  BY DEF TypeOK
<1>1. local.stat \in Nat /\ file[local.db].build \in Nat
  BY <1>0 DEF Build, File
<1> QED
  BY <1>0, <1>1 DEF Seen, Matches, FileReader, Opens, Reader, File

(* While no refresh is choosing, each reader matches its recorded time.    *)
LEMMA FileOpening ==
  ASSUME IInv, FileInv, Opening
  PROVE  FileInv'
<1>0. /\ TypeOK /\ boot \in Boot /\ UNCHANGED <<file, refresh>> /\ lock = Nobody
      /\ readers \in [set: [Db -> Reader], generation: Nat] /\ sources \in [Db -> Build]
  BY OpeningFrame DEF IInv, TypeOK, BootInv
<1>1. \A r \in Refresher : ~Choosing(r)
  BY <1>0, EnricherAssumption DEF IInv, LockInv, Critical, Choosing
<1>2. (\A r \in Refresher : ~Choosing(r))'
  BY <1>0, <1>1 DEF Choosing
<1>3. \A d \in Db : Matches(d, sources[d], readers.set[d])
  BY <1>1 DEF FileInv
<1>4. CASE OpenStat \/ OpenLen
  <2>1. UNCHANGED <<sources, readers>>
    BY <1>4 DEF OpenStat, OpenLen
  <2>2. (\A d \in Db : Matches(d, sources[d], readers.set[d]))'
    BY <1>0, <1>3, <2>1 DEF Matches
  <2>3. boot'.at \in {"len", "open"} => Seen(boot')
    <3>0. boot.db \in Db
      BY <1>0 DEF Boot
    <3>1. CASE OpenStat
      <4>1. FileMtime(boot.db) <= file[boot.db].build
        BY <1>0, <3>0, FilesTyped
      <4>2. \/ boot' = [boot EXCEPT !.at = "len", !.stat = FileMtime(boot.db)]
            \/ boot'.at \in {"stat", "live"}
        BY <1>0, <3>1 DEF OpenStat, OpenNext, Boot
      <4>3. boot' = [boot EXCEPT !.at = "len", !.stat = FileMtime(boot.db)] =>
              boot'.at = "len" /\ boot'.stat = FileMtime(boot.db) /\ boot'.db = boot.db
        BY <1>0 DEF Boot
      <4> QED
        BY <4>1, <4>2, <4>3 DEF Seen
    <3>2. CASE OpenLen
      <4>1. file[boot.db].here => LenAsksForMap(boot.db) = file[boot.db].big
        BY <1>0, <3>0 DEF LenAsksForMap, TypeOK, File
      <4>2. Seen(boot)
        BY <3>2 DEF FileInv, OpenLen
      <4>3. boot'.db = boot.db /\ boot'.stat = boot.stat
              /\ boot'.mapped = LenAsksForMap(boot.db)
        BY <1>0, <3>2 DEF OpenLen, Boot
      <4> QED
        BY <4>1, <4>2, <4>3 DEF Seen
    <3> QED
      BY <1>4, <3>1, <3>2
  <2> QED
    BY <1>0, <1>2, <2>2, <2>3 DEF FileInv, Seen
<1>5. CASE OpenReader
  <2>0. boot.at = "open" /\ boot.db \in Db /\ boot.stat \in Build /\ boot.mapped \in BOOLEAN
    BY <1>0, <1>5 DEF OpenReader, Boot
  <2>1. Seen(boot)
    BY <2>0 DEF FileInv
  <2>2. boot'.at \in {"stat", "live", "failed"}
    BY <1>0, <1>5 DEF OpenReader, OpenNext, Boot
  <2>3. CASE ~Opens(boot.db)
    BY <1>0, <1>2, <1>3, <1>5, <2>2, <2>3 DEF OpenReader, FileInv, Matches
  <2>4. CASE Opens(boot.db)
    <3>1. /\ readers' = [readers EXCEPT !.set =
               [readers.set EXCEPT ![boot.db] = FileReader(boot.db, boot.mapped)]]
          /\ sources' = [sources EXCEPT ![boot.db] = boot.stat]
      BY <1>5, <2>4 DEF OpenReader
    <3>2. readers'.set = [readers.set EXCEPT ![boot.db] = FileReader(boot.db, boot.mapped)]
      BY <1>0, <3>1
    <3>3. ASSUME NEW d \in Db
          PROVE  Matches(d, sources'[d], readers'.set[d])
      BY <1>0, <1>3, <2>0, <2>1, <2>4, <3>1, <3>2, OpenedMatches
    <3> QED
      BY <1>0, <1>2, <2>2, <3>3 DEF FileInv, Matches
  <2> QED
    BY <2>3, <2>4
<1> QED
  BY <1>4, <1>5 DEF Opening

(* One refresher's call goes on; the others are outside the mutex.         *)
ChosenSet(local) ==
  /\ \A d \in Db : Matches(d, sources[d], local.next[d])
  /\ \A d \in Db : readers.set[d].build <= local.next[d].build
  /\ ~local.changed => local.next = readers.set

LEMMA OnwardKeeps ==
  ASSUME NEW local \in Refresh
  PROVE  /\ Onward(local).at \in {"stat", "install"}
         /\ Onward(local).next = local.next /\ Onward(local).changed = local.changed
BY DEF Onward, Refresh

LEMMA FileRefreshing ==
  ASSUME IInv, FileInv, NEW r \in Refresher, RefreshLock(r) \/ Refreshing(r), Next
  PROVE  FileInv'
<1>0. /\ TypeOK /\ LockInv /\ TypeOK' /\ LockInv' /\ UNCHANGED <<file, boot>>
      /\ \A q \in Refresher : q # r => refresh'[q] = refresh[q]
      /\ readers \in [set: [Db -> Reader], generation: Nat] /\ sources \in [Db -> Build]
      /\ refresh[r] \in Refresh /\ refresh \in [Refresher -> Refresh]
  BY Steps, TypeStep, LockStep
  DEF IInv, TypeOK, RefreshLock, Refreshing, ReopenStat, ReopenLen, ReopenReader, SwapStore,
      SwapPublish, SwapClear, RefreshReturn, RefreshFrame
<1>1. boot'.at \in {"len", "open"} => Seen(boot)'
  BY <1>0 DEF FileInv, Seen
<1>2. \A q \in Refresher : q # r => ~Choosing(q) /\ ~Choosing(q)'
  <2>1. lock = r \/ lock = Nobody
    <3>1. CASE RefreshLock(r)
      BY <3>1 DEF RefreshLock
    <3>2. CASE Refreshing(r)
      BY <1>0, <3>2, Stages DEF Refreshing, LockInv, Critical
    <3> QED
      BY <3>1, <3>2
  <2> QED
    BY <1>0, <2>1, EnricherAssumption DEF LockInv, Critical, Choosing
<1>3. Choosing(r) => ChosenSet(refresh[r]) /\ (refresh[r].at \in {"len", "open"} => Seen(refresh[r]))
  BY DEF FileInv, ChosenSet
<1>4. ~Choosing(r) => \A d \in Db : Matches(d, sources[d], readers.set[d])
  BY <1>2 DEF FileInv
<1> SUFFICES /\ ~Choosing(r)' => (\A d \in Db : Matches(d, sources[d], readers.set[d]))'
             /\ Choosing(r)' =>
                  /\ ChosenSet(refresh[r])'
                  /\ refresh'[r].at \in {"len", "open"} => Seen(refresh[r])'
  BY <1>1, <1>2 DEF FileInv, ChosenSet
<1>5. CASE RefreshLock(r)
  <2>1. /\ refresh[r].at = "idle" /\ refresh'[r].at = "stat"
        /\ refresh'[r].next = readers.set /\ refresh'[r].changed = FALSE
        /\ UNCHANGED <<readers, sources>>
    BY <1>0, <1>5, Steps DEF IdleRefresh, RefreshLock
  <2>2. \A d \in Db : Matches(d, sources[d], readers.set[d])
    BY <1>4, <2>1 DEF Choosing
  <2>3. \A d \in Db : readers.set[d].build <= readers.set[d].build
    BY <1>0 DEF Reader, Build
  <2> QED
    BY <1>0, <2>1, <2>2, <2>3 DEF Choosing, ChosenSet, Matches
<1>6. CASE ReopenStat(r)
  <2>1. Choosing(r) /\ UNCHANGED <<readers, sources>>
    BY <1>6 DEF ReopenStat, Choosing
  <2>2. refresh'[r] = IF refresh[r].db \in Provisioned /\ Moved(refresh[r].db)
                       THEN [refresh[r] EXCEPT !.at = "len", !.stat = FileMtime(refresh[r].db)]
                       ELSE Onward(refresh[r])
    BY <1>0, <1>6, Steps
  <2>3. CASE refresh'[r] = Onward(refresh[r])
    BY <1>0, <1>3, <2>1, <2>3, OnwardKeeps DEF Choosing, ChosenSet, Matches
  <2>4. CASE refresh'[r] = [refresh[r] EXCEPT !.at = "len", !.stat = FileMtime(refresh[r].db)]
    <3>1. /\ refresh'[r].at = "len" /\ refresh'[r].stat = FileMtime(refresh[r].db)
          /\ refresh'[r].db = refresh[r].db /\ refresh[r].db \in Db
          /\ refresh'[r].next = refresh[r].next /\ refresh'[r].changed = refresh[r].changed
      BY <1>0, <2>4 DEF Refresh
    <3>2. FileMtime(refresh[r].db) <= file[refresh[r].db].build
      BY <1>0, <3>1, FilesTyped
    <3> QED
      BY <1>0, <1>3, <2>1, <3>1, <3>2 DEF Choosing, ChosenSet, Matches, Seen
  <2> QED
    BY <2>2, <2>3, <2>4
<1>7. CASE ReopenLen(r)
  <2>1. Choosing(r) /\ UNCHANGED <<readers, sources>> /\ refresh[r].at = "len"
    BY <1>7 DEF ReopenLen, Choosing
  <2>2. refresh'[r] = [refresh[r] EXCEPT !.at = "open",
                                         !.mapped = LenAsksForMap(refresh[r].db)]
    BY <1>0, <1>7, Steps
  <2>3. /\ refresh'[r].at = "open" /\ refresh'[r].stat = refresh[r].stat
        /\ refresh'[r].mapped = LenAsksForMap(refresh[r].db)
        /\ refresh'[r].db = refresh[r].db /\ refresh[r].db \in Db
        /\ refresh'[r].next = refresh[r].next /\ refresh'[r].changed = refresh[r].changed
    BY <1>0, <2>2 DEF Refresh
  <2>4. file[refresh[r].db].here => LenAsksForMap(refresh[r].db) = file[refresh[r].db].big
    BY <1>0, <2>3 DEF LenAsksForMap, TypeOK, File
  <2> QED
    BY <1>0, <1>3, <2>1, <2>3, <2>4 DEF Choosing, ChosenSet, Matches, Seen
<1>8. CASE ReopenReader(r)
  <2> DEFINE d == refresh[r].db
             reader == FileReader(d, refresh[r].mapped)
             opened == [refresh[r] EXCEPT !.next = [@ EXCEPT ![d] = reader], !.changed = TRUE]
  <2>0. /\ d \in Db /\ refresh[r].stat \in Build /\ refresh[r].mapped \in BOOLEAN
        /\ refresh[r].at = "open" /\ refresh[r].next \in [Db -> Reader]
        /\ UNCHANGED readers
    BY <1>0, <1>8 DEF ReopenReader, Refresh
  <2>1. ChosenSet(refresh[r]) /\ Seen(refresh[r])
    BY <1>3, <2>0 DEF Choosing
  <2>2. CASE ~Opens(d)
    <3>1. refresh'[r] = Onward(refresh[r]) /\ UNCHANGED sources
      BY <1>0, <1>8, <2>2, Steps DEF ReopenReader
    <3> QED
      BY <1>0, <2>0, <2>1, <3>1, OnwardKeeps DEF Choosing, ChosenSet, Matches
  <2>3. CASE Opens(d)
    <3>1. /\ refresh'[r] = Onward(opened)
          /\ sources' = [sources EXCEPT ![d] = refresh[r].stat]
      BY <1>0, <1>8, <2>3, Steps DEF ReopenReader
    <3>2. /\ Matches(d, refresh[r].stat, reader) /\ reader \in Reader
          /\ reader.build = file[d].build
      BY <1>0, <2>0, <2>1, <2>3, OpenedMatches
    <3>3. /\ opened \in Refresh /\ opened.changed = TRUE
          /\ opened.next = [refresh[r].next EXCEPT ![d] = reader]
      BY <1>0, <2>0, <3>2 DEF Refresh
    <3> HIDE DEF opened, reader
    <3>4. /\ refresh'[r].at \in {"stat", "install"} /\ refresh'[r].changed = TRUE
          /\ refresh'[r].next = [refresh[r].next EXCEPT ![d] = reader]
      BY <3>1, <3>3, OnwardKeeps
    <3>5. ASSUME NEW e \in Db
          PROVE  /\ Matches(e, sources'[e], refresh'[r].next[e])
                 /\ readers.set[e].build <= refresh'[r].next[e].build
      <4>1. CASE e = d
        <5>1. refresh'[r].next[e] = reader /\ sources'[e] = refresh[r].stat
          BY <1>0, <2>0, <3>1, <3>4, <4>1
        <5>2. refresh[r].next[d].build <= file[d].build
          BY <2>0, <2>1 DEF ChosenSet, Matches
        <5>3. readers.set[d].build <= refresh[r].next[d].build
          BY <2>0, <2>1 DEF ChosenSet
        <5>4. /\ readers.set[d].build \in Nat /\ refresh[r].next[d].build \in Nat
              /\ file[d].build \in Nat
          BY <1>0, <2>0 DEF Reader, Build, TypeOK, File
        <5> QED
          BY <3>2, <4>1, <5>1, <5>2, <5>3, <5>4
      <4>2. CASE e # d
        <5>1. refresh'[r].next[e] = refresh[r].next[e] /\ sources'[e] = sources[e]
          BY <1>0, <2>0, <3>1, <3>4, <4>2
        <5> QED
          BY <2>1, <5>1 DEF ChosenSet
      <4> QED
        BY <4>1, <4>2
    <3> QED
      BY <1>0, <2>0, <3>4, <3>5 DEF Choosing, ChosenSet, Matches
  <2> QED
    BY <2>2, <2>3
<1>9. CASE SwapStore(r)
  <2>1. /\ Choosing(r) /\ UNCHANGED sources /\ readers'.set = refresh[r].next
        /\ refresh'[r].at = "publish"
    BY <1>9, Stages, <1>0 DEF SwapStore, Choosing
  <2> QED
    BY <1>0, <1>3, <2>1 DEF Choosing, ChosenSet, Matches
<1>10. CASE RefreshReturn(r)
  <2>1. UNCHANGED <<readers, sources>> /\ refresh'[r].at = "idle"
          /\ (refresh[r].at = "install" => ~refresh[r].changed)
          /\ refresh[r].at \in {"install", "unlock"}
    BY <1>10, Stages, <1>0 DEF RefreshReturn
  <2> QED
    BY <1>0, <1>3, <1>4, <2>1 DEF Choosing, ChosenSet, Matches
<1>11. CASE SwapPublish(r) \/ SwapClear(r)
  <2>1. UNCHANGED <<readers, sources>> /\ refresh[r].at \in {"publish", "clear"}
          /\ refresh'[r].at \in {"clear", "unlock"}
    BY <1>11, Stages, <1>0 DEF SwapPublish, SwapClear
  <2> QED
    BY <1>0, <1>4, <2>1 DEF Choosing, Matches
<1> QED
  BY <1>5, <1>6, <1>7, <1>8, <1>9, <1>10, <1>11 DEF Refreshing

LEMMA FileStep == IInv /\ FileInv /\ [Next]_vars => FileInv'
<1> SUFFICES ASSUME IInv, FileInv, [Next]_vars PROVE FileInv'
  OBVIOUS
<1>0. TypeOK
  BY DEF IInv
<1>1. CASE UNCHANGED <<file, sources, readers, refresh, boot>>
  BY <1>1 DEF FileInv, Matches, Seen, Choosing
<1>2. ASSUME Next, NEW d \in Db, Publish(d) \/ Withdraw(d)
      PROVE  FileInv'
  <2>1. UNCHANGED <<sources, readers, refresh, boot>>
    BY <1>2 DEF Publish, Withdraw
  <2>2. ASSUME NEW e \in Db
        PROVE  /\ Matches(e, sources[e], readers.set[e]) => Matches(e, sources[e], readers.set[e])'
               /\ \A r \in Refresher :
                    Matches(e, sources[e], refresh[r].next[e]) =>
                      Matches(e, sources[e], refresh[r].next[e])'
    <3>1. PICK mtime \in Build : mtime = sources[e]
      BY <1>0 DEF TypeOK
    <3>2. ASSUME NEW known \in Reader, Matches(e, mtime, known)
          PROVE  Matches(e, mtime, known)'
      BY <1>0, <1>2, <3>2, MatchesStays
    <3>3. readers.set[e] \in Reader /\ \A r \in Refresher : refresh[r].next[e] \in Reader
      BY <1>0 DEF TypeOK, Refresh
    <3> QED
      BY <2>1, <3>1, <3>2, <3>3 DEF Matches
  <2>3. ASSUME NEW local, local.db \in Db, local.stat \in Build, Seen(local)
        PROVE  Seen(local)'
    BY <1>0, <1>2, <2>3, SeenStays
  <2>4. /\ boot.db \in Db /\ boot.stat \in Build
        /\ \A r \in Refresher : refresh[r].db \in Db /\ refresh[r].stat \in Build
    BY <1>0 DEF TypeOK, Boot, Refresh
  <2>5. boot.at \in {"len", "open"} => Seen(boot)'
    <3>1. PICK local : local = boot
      OBVIOUS
    <3> QED
      BY <2>1, <2>3, <2>4, <3>1 DEF FileInv, Seen
  <2>6. ASSUME NEW r \in Refresher, Choosing(r), refresh[r].at \in {"len", "open"}
        PROVE  Seen(refresh[r])'
    <3>1. PICK local : local = refresh[r]
      OBVIOUS
    <3> QED
      BY <2>1, <2>3, <2>4, <2>6, <3>1 DEF FileInv, Seen
  <2>7. \A r \in Refresher : Choosing(r)' <=> Choosing(r)
    BY <2>1 DEF Choosing
  <2> QED
    BY <2>1, <2>2, <2>5, <2>6, <2>7 DEF FileInv
<1>3. CASE Next /\ Opening
  BY <1>3, FileOpening
<1>4. ASSUME Next, NEW r \in Refresher, RefreshLock(r) \/ Refreshing(r)
      PROVE  FileInv'
  BY <1>4, FileRefreshing
<1> QED
  BY <1>1, <1>2, <1>3, <1>4
  DEF Next, Looking, Probe, Check, Miss, InsertGuarded, InsertReplacing, LookupReturn, Cancel,
      LookupStart, Evict, ClearCache, LookupFrame, vars

THEOREM FileInvariantHolds == Spec => []FileInv
BY FileInit, FileStep, InvariantHolds, PTL DEF Spec

(* Between refreshes, a recorded time equal to a file's means its reader is *)
(* that file's, however the publications and the refreshes interleaved.    *)
THEOREM ReplacementsNoticed == Spec => []NoMissedReplacement
<1>1. IInv /\ FileInv => NoMissedReplacement
  <2> SUFFICES ASSUME IInv, FileInv, lock = Nobody, NEW d \in Provisioned,
                      FileMtime(d) # 0, FileMtime(d) = sources[d]
               PROVE  readers.set[d] = FileReader(d, file[d].big)
    BY DEF NoMissedReplacement
  <2>1. d \in Db
    BY EnricherAssumption
  <2>2. \A r \in Refresher : ~Choosing(r)
    BY EnricherAssumption DEF IInv, LockInv, Critical, Choosing
  <2>3. Matches(d, sources[d], readers.set[d])
    BY <2>1, <2>2 DEF FileInv
  <2> QED
    BY <2>3 DEF Matches, FileMtime, FileReader
<1> QED
  BY <1>1, InvariantHolds, FileInvariantHolds, PTL

(* No step, of any number of refreshers, puts an older reader in a newer    *)
(* one's place.                                                            *)
THEOREM ReadersOnlyAdvance == Spec => ReadersNeverGoBack
<1>1. IInv /\ FileInv /\ [Next]_vars =>
        [\A d \in Db : readers'.set[d].build >= readers.set[d].build]_vars
  <2> SUFFICES ASSUME IInv, FileInv, Next, NEW d \in Db
               PROVE  readers'.set[d].build >= readers.set[d].build
    BY DEF vars
  <2>0. /\ TypeOK /\ readers \in [set: [Db -> Reader], generation: Nat]
        /\ readers.set[d].build \in Nat /\ boot \in Boot
    BY DEF IInv, TypeOK, Reader, Build
  <2>1. CASE UNCHANGED readers
    BY <2>0, <2>1
  <2>2. CASE Opening
    <3>1. CASE OpenReader /\ Opens(boot.db)
      <4>1. readers' = [readers EXCEPT !.set =
                         [readers.set EXCEPT ![boot.db] = FileReader(boot.db, boot.mapped)]]
        BY <3>1 DEF OpenReader
      <4>2. readers'.set = [readers.set EXCEPT ![boot.db] = FileReader(boot.db, boot.mapped)]
        BY <2>0, <4>1
      <4>3. Matches(d, sources[d], readers.set[d]) /\ file[d].build \in Nat
        <5>1. lock = Nobody
          BY <2>0, <2>2, OpeningFrame DEF IInv, BootInv
        <5>2. \A r \in Refresher : ~Choosing(r)
          BY <5>1, EnricherAssumption DEF IInv, LockInv, Critical, Choosing
        <5>3. Matches(d, sources[d], readers.set[d])
          BY <5>2 DEF FileInv
        <5>4. file[d].build \in Nat
          BY <2>0 DEF TypeOK, File, Build
        <5> QED
          BY <5>3, <5>4
      <4>4. CASE d = boot.db
        BY <2>0, <4>2, <4>3, <4>4 DEF Matches, FileReader
      <4>5. CASE d # boot.db
        BY <2>0, <4>2, <4>5
      <4> QED
        BY <4>4, <4>5
    <3>2. CASE ~(OpenReader /\ Opens(boot.db))
      BY <2>0, <2>2, <3>2 DEF Opening, OpenStat, OpenLen, OpenReader
    <3> QED
      BY <3>1, <3>2
  <2>3. ASSUME NEW r \in Refresher, SwapStore(r)
        PROVE  readers'.set[d].build >= readers.set[d].build
    <3>1. Choosing(r) /\ readers'.set = refresh[r].next
            /\ refresh[r].next[d].build \in Nat
      BY <2>0, <2>3 DEF SwapStore, Choosing, TypeOK, Refresh, Reader, Build
    <3>2. readers.set[d].build <= refresh[r].next[d].build
      BY <3>1 DEF FileInv
    <3> QED
      BY <2>0, <3>1, <3>2
  <2> QED
    BY <2>1, <2>2, <2>3
    DEF Next, Publish, Withdraw, Looking, Probe, Check, Miss, InsertGuarded, InsertReplacing,
        LookupReturn, Cancel, LookupStart, Evict, ClearCache, LookupFrame, RefreshLock,
        Refreshing, ReopenStat, ReopenLen, ReopenReader, SwapPublish, SwapClear, RefreshReturn
<1> QED
  BY <1>1, InvariantHolds, FileInvariantHolds, PTL DEF Spec, ReadersNeverGoBack
-----------------------------------------------------------------------------
(* Refinement: GeoIp implements the abstract history of reader sets.       *)

LEMMA CallsBecome ==
  ASSUME TypeOK, NEW t \in Thread, NEW local, Becomes(t, local)
  PROVE  Calls' = [Calls EXCEPT ![t] = AbstractCall(local)]
<1>1. lookup' = [lookup EXCEPT ![t] = local] /\ lookup \in [Thread -> Lookup]
  BY DEF Becomes, TypeOK
<1> QED
  BY <1>1 DEF Calls, AbstractCall

(* A step that changes no call, no history and no generation is no step.   *)
Unseen == UNCHANGED <<installed, Committed, Calls>>

(* What a lookup's frame leaves alone.                                     *)
LEMMA LookupUnseen ==
  ASSUME LookupFrame
  PROVE  UNCHANGED <<installed, Committed>>
BY DEF LookupFrame, Committed, Live

(* A thread goes on, and the abstract call with it.                        *)
LEMMA SameCall ==
  ASSUME TypeOK, NEW t \in Thread, NEW local, Becomes(t, local), LookupFrame,
         AbstractCall(local) = AbstractCall(lookup[t])
  PROVE  Unseen
<1>1. Calls' = [Calls EXCEPT ![t] = AbstractCall(local)]
  BY CallsBecome
<1>2. Calls = [Calls EXCEPT ![t] = AbstractCall(lookup[t])]
  BY DEF Calls
<1> QED
  BY <1>1, <1>2, LookupUnseen DEF Unseen

(* A call of an address outside reserved space that has been asked and not *)
(* answered.                                                               *)
LEMMA AskedCall ==
  ASSUME NEW local \in Lookup, local.ip \in Public, local.at \notin {"idle", "answered"}
  PROVE  AbstractCall(local) = [at |-> "asked", floor |-> local.floor + 1, answer |-> Absent]
BY DEF AbstractCall, Public

(* An answer of an entry the thread may use is an answer of the history.   *)
LEMMA AnswerSimulated ==
  ASSUME IInv, NEW t \in Thread,
         lookup[t].at \in {"check", "insert"}, OfSet(lookup[t].entry),
         lookup[t].entry.generation >= lookup[t].floor,
         Calls' = [Calls EXCEPT ![t] = AbstractCall([lookup[t] EXCEPT !.at = "answered"])],
         UNCHANGED <<installed, Committed>>
  PROVE  Promise!Answer(t)
<1>0. /\ lookup[t] \in Lookup /\ lookup[t].ip \in Public /\ lookup[t].entry \in Entry
      /\ lookup[t].floor \in Nat /\ lookup[t].entry.generation \in Nat
      /\ Len(installed) \in Nat
  BY DEF IInv, TypeOK, Lookup, Entry
<1> DEFINE local == [lookup[t] EXCEPT !.at = "answered"]
           g == lookup[t].entry.generation + 1
<1>1. /\ local.at = "answered" /\ local.ip = lookup[t].ip
      /\ local.floor = lookup[t].floor /\ local.entry = lookup[t].entry
  BY <1>0 DEF Lookup
<1>2. Calls[t] = [at |-> "asked", floor |-> lookup[t].floor + 1, answer |-> Absent]
  BY <1>0, AskedCall DEF Calls
<1>3. AbstractCall(local)
        = [at |-> "answered", floor |-> lookup[t].floor + 1, answer |-> lookup[t].entry.record]
  BY <1>0, <1>1 DEF AbstractCall, Public
<1>4. g \in Calls[t].floor .. Len(installed) /\ installed[g] = lookup[t].entry.record
  BY <1>0, <1>2 DEF OfSet
<1>5. Calls' = [Calls EXCEPT ![t] = AbstractCall(local)]
  OBVIOUS
<1>6. UNCHANGED <<installed, Committed>>
  OBVIOUS
<1> HIDE DEF local, g
<1>7. Calls[t].floor = lookup[t].floor + 1
  BY <1>2
<1>8. Calls' = [Calls EXCEPT ![t] = [at |-> "answered", floor |-> Calls[t].floor,
                                     answer |-> installed[g]]]
  BY <1>3, <1>4, <1>5, <1>7
<1>9. Calls[t].at = "asked"
  BY <1>2
<1> QED
  BY <1>4, <1>6, <1>8, <1>9 DEF Promise!Answer

(* Every step of a lookup is a step of GeoAnswers, or none.                *)
LEMMA LookupSimulated ==
  ASSUME IInv, Next, NEW t \in Thread,
         Looking(t) \/ Cancel(t) \/ \E ip \in Ip : LookupStart(t, ip)
  PROVE  Unseen \/ Promise!Ask(t) \/ Promise!Answer(t) \/ Promise!Leave(t)
<1>0. /\ TypeOK /\ lookup[t] \in Lookup /\ Coherent(lookup[t]) /\ LookupFrame
      /\ lookup[t].at \notin {"idle", "answered"} => lookup[t].ip \in Public
      /\ lookup[t].entry \in Entry /\ lookup[t].floor \in Nat /\ generation \in Nat
  BY DEF IInv, LookupInv, TypeOK, Looking, Probe, Cancel, Check, Miss, InsertGuarded,
         InsertReplacing, LookupReturn, LookupStart, Lookup
<1>1. CASE Probe(t)
  <2>1. lookup[t].at = "probe" /\ lookup[t].ip \in Public
    BY <1>0, <1>1 DEF Probe
  <2>2. PICK local : /\ Becomes(t, local) /\ local.at \in {"check", "load", "waiting"}
                     /\ local.ip = lookup[t].ip /\ local.floor = lookup[t].floor
    <3>1. CASE cache[lookup[t].ip] # Absent
      BY <1>0, <1>1, <3>1 DEF Probe, Becomes, Lookup
    <3>2. CASE cache[lookup[t].ip] = Absent /\ loading[lookup[t].ip] = Nobody
      BY <1>0, <1>1, <3>2 DEF Probe, Becomes, Lookup
    <3>3. CASE cache[lookup[t].ip] = Absent /\ loading[lookup[t].ip] # Nobody
      <4> DEFINE next == [lookup[t] EXCEPT !.at = "waiting", !.on = loading[lookup[t].ip]]
      <4>1. next.at = "waiting" /\ next.ip = lookup[t].ip /\ next.floor = lookup[t].floor
        BY <1>0 DEF Lookup
      <4>2. Becomes(t, next)
        BY <1>1, <3>3 DEF Probe
      <4> HIDE DEF next
      <4> QED
        BY <4>1, <4>2
    <3> QED
      BY <3>1, <3>2, <3>3
  <2>3. AbstractCall(local) = AbstractCall(lookup[t])
    BY <2>1, <2>2 DEF AbstractCall, Public
  <2> QED
    BY <1>0, <2>2, <2>3, SameCall
<1>2. CASE Cancel(t) \/ LookupReturn(t)
  <2>1. Becomes(t, IdleLookup) /\ lookup[t].at \in {"waiting", "answered"}
    BY <1>2 DEF Cancel, LookupReturn
  <2>2. AbstractCall(IdleLookup) = [at |-> "idle", floor |-> 0, answer |-> Absent]
    BY DEF AbstractCall, IdleLookup
  <2>3. CASE lookup[t].ip \in Reserved
    BY <1>0, <2>1, <2>2, <2>3, SameCall DEF AbstractCall
  <2>4. CASE lookup[t].ip \notin Reserved
    <3>1. Calls[t].at # "idle"
      BY <2>1, <2>4 DEF Calls, AbstractCall
    <3>2. Calls' = [Calls EXCEPT ![t] = [at |-> "idle", floor |-> 0, answer |-> Absent]]
      BY <1>0, <2>1, <2>2, CallsBecome
    <3> QED
      BY <1>0, <3>1, <3>2, LookupUnseen DEF Promise!Leave, Promise!Idle
  <2> QED
    BY <2>3, <2>4
<1>3. CASE Check(t)
  <2>0. lookup[t].at = "check" /\ lookup[t].ip \in Public
    BY <1>0, <1>3 DEF Check
  <2>1. CASE OfInstalledSet(lookup[t].entry)
             /\ Becomes(t, [lookup[t] EXCEPT !.at = "answered"])
    <3>1. OfSet(lookup[t].entry)
      BY <1>0, <2>0 DEF Coherent
    <3>2. lookup[t].entry.generation >= lookup[t].floor
      BY <1>0, <2>0, <2>1 DEF Coherent, OfInstalledSet
    <3> QED
      BY <1>0, <2>0, <2>1, <3>1, <3>2, CallsBecome, LookupUnseen, AnswerSimulated
  <2>2. CASE Becomes(t, [lookup[t] EXCEPT !.at = "load"])
    <3>1. /\ [lookup[t] EXCEPT !.at = "load"].at = "load"
          /\ [lookup[t] EXCEPT !.at = "load"].ip = lookup[t].ip
          /\ [lookup[t] EXCEPT !.at = "load"].floor = lookup[t].floor
      BY <1>0 DEF Lookup
    <3> DEFINE local == [lookup[t] EXCEPT !.at = "load"]
    <3>2. Becomes(t, local)
      BY <2>2
    <3> HIDE DEF local
    <3>3. AbstractCall(local) = AbstractCall(lookup[t])
      BY <2>0, <3>1 DEF AbstractCall, Public, local
    <3> QED
      BY <1>0, <3>2, <3>3, SameCall
  <2> QED
    BY <1>3, <2>1, <2>2 DEF Check
<1>4. CASE Miss(t)
  <2>0. lookup[t].at = "load" /\ lookup[t].ip \in Public
    BY <1>0, <1>4 DEF Miss
  <2> DEFINE local == [lookup[t] EXCEPT !.at = "insert", !.entry = Read(readers)]
  <2>1. local.at = "insert" /\ local.ip = lookup[t].ip /\ local.floor = lookup[t].floor
    BY <1>0 DEF Lookup
  <2>2. Becomes(t, local)
    BY <1>4 DEF Miss
  <2> HIDE DEF local
  <2>3. AbstractCall(local) = AbstractCall(lookup[t])
    BY <2>0, <2>1 DEF AbstractCall, Public
  <2> QED
    BY <1>0, <2>2, <2>3, SameCall
<1>5. CASE InsertReplacing(t)
  <2>0. lookup[t].at = "insert" /\ lookup[t].ip \in Public
    BY <1>0, <1>5 DEF InsertReplacing
  <2>1. OfSet(lookup[t].entry) /\ lookup[t].entry.generation >= lookup[t].floor
    BY <1>0, <2>0 DEF Coherent
  <2>2. Becomes(t, [lookup[t] EXCEPT !.at = "answered"])
    BY <1>5 DEF InsertReplacing
  <2> QED
    BY <1>0, <2>0, <2>1, <2>2, CallsBecome, LookupUnseen, AnswerSimulated
<1>6. CASE InsertGuarded(t)
  <2>0. lookup[t].at = "insert" /\ lookup[t].ip \in Public /\ lookup' = HandedOn(t)
    BY <1>0, <1>6 DEF InsertGuarded
  <2>1. OfSet(lookup[t].entry) /\ lookup[t].entry.generation >= lookup[t].floor
    BY <1>0, <2>0 DEF Coherent
  <2>2. ASSUME NEW u \in Thread, u # t
        PROVE  AbstractCall(lookup'[u]) = AbstractCall(lookup[u])
    <3>1. CASE lookup[u].at = "waiting" /\ lookup[u].on = t
      <4>0. lookup[u] \in Lookup
        BY <1>0 DEF TypeOK
      <4>1. lookup'[u] = [lookup[u] EXCEPT !.at = "check", !.entry = lookup[t].entry,
                                           !.on = Nobody]
        BY <2>0, <2>2, <3>1 DEF HandedOn
      <4>2. lookup'[u].at = "check" /\ lookup'[u].ip = lookup[u].ip
              /\ lookup'[u].floor = lookup[u].floor
        BY <4>0, <4>1 DEF Lookup
      <4> QED
        BY <3>1, <4>2 DEF AbstractCall
    <3>2. CASE ~(lookup[u].at = "waiting" /\ lookup[u].on = t)
      <4>1. lookup'[u] = lookup[u]
        BY <2>0, <2>2, <3>2 DEF HandedOn
      <4> QED
        BY <4>1
    <3> QED
      BY <3>1, <3>2
  <2>3. lookup'[t] = [lookup[t] EXCEPT !.at = "answered"]
    BY <2>0 DEF HandedOn
  <2>4. Calls' = [u \in Thread |-> AbstractCall(lookup'[u])]
    BY DEF Calls, AbstractCall
  <2>5. Calls' = [Calls EXCEPT ![t] = AbstractCall([lookup[t] EXCEPT !.at = "answered"])]
    <3>1. ASSUME NEW u \in Thread
          PROVE  AbstractCall(lookup'[u])
                   = IF u = t THEN AbstractCall([lookup[t] EXCEPT !.at = "answered"])
                     ELSE Calls[u]
      BY <2>2, <2>3 DEF Calls
    <3> QED
      BY <2>4, <3>1 DEF Calls
  <2> QED
    BY <1>0, <2>0, <2>1, <2>5, LookupUnseen, AnswerSimulated
<1>7. CASE \E ip \in Ip : LookupStart(t, ip)
  <2>1. PICK ip \in Ip : LookupStart(t, ip)
    BY <1>7
  <2> DEFINE local == [IdleLookup EXCEPT
                         !.at = IF ip \in Reserved THEN "answered" ELSE "probe",
                         !.ip = ip, !.floor = generation]
  <2>2. /\ local.at = IF ip \in Reserved THEN "answered" ELSE "probe"
        /\ local.ip = ip /\ local.floor = generation
    BY DEF IdleLookup
  <2>3. Becomes(t, local) /\ lookup[t].at = "idle" /\ Live
    BY <2>1 DEF LookupStart
  <2> HIDE DEF local
  <2>4. CASE ip \in Reserved
    BY <1>0, <2>2, <2>3, <2>4, SameCall DEF AbstractCall
  <2>5. CASE ip \notin Reserved
    <3>1. AbstractCall(local) = [at |-> "asked", floor |-> Committed, answer |-> Absent]
      BY <2>2, <2>3, <2>5 DEF AbstractCall, Committed
    <3>2. Calls[t].at = "idle" /\ Committed > 0
      BY <1>0, <2>3 DEF Calls, AbstractCall, Committed
    <3> QED
      BY <1>0, <2>3, <3>1, <3>2, CallsBecome, LookupUnseen DEF Promise!Ask
  <2> QED
    BY <2>4, <2>5
<1> QED
  BY <1>1, <1>2, <1>3, <1>4, <1>5, <1>6, <1>7 DEF Looking

(* Every step of a refresh is an installation, its publication, or none.   *)
LEMMA RefreshSimulated ==
  ASSUME IInv, Next, NEW r \in Refresher, RefreshLock(r) \/ Refreshing(r)
  PROVE  Unseen \/ Promise!Commit \/ \E s \in Record : Promise!Install(s)
<1>0. /\ TypeOK /\ installed \in Seq(Record) /\ generation \in Nat /\ boot' = boot /\ Live
      /\ UNCHANGED Calls /\ Len(installed) = readers.generation + 1
      /\ readers.generation \in Nat /\ refresh[r] \in Refresh
  <2>1. boot' = boot /\ UNCHANGED Calls
    BY DEF RefreshLock, Refreshing, ReopenStat, ReopenLen, ReopenReader, SwapStore, SwapPublish,
           SwapClear, RefreshReturn, RefreshFrame, Calls, AbstractCall
  <2>2. Live
    <3>1. CASE RefreshLock(r)
      BY <3>1 DEF RefreshLock
    <3>2. CASE Refreshing(r)
      <4>1. lock = r
        BY <3>2, Stages DEF Refreshing, IInv, LockInv, Critical
      <4> QED
        BY <4>1, EnricherAssumption DEF IInv, BootInv
    <3> QED
      BY <3>1, <3>2
  <2> QED
    BY <2>1, <2>2 DEF IInv, TypeOK, SwapInv
<1>1. CASE ~SwapStore(r) /\ ~SwapPublish(r)
  BY <1>0, <1>1
  DEF RefreshLock, Refreshing, ReopenStat, ReopenLen, ReopenReader, SwapClear, RefreshReturn,
      Unseen, Committed, Live
<1>2. CASE SwapStore(r)
  <2>1. Answers(refresh[r].next) \in Record
    BY <1>0, AnswersTyped DEF Refresh
  <2>2. refresh[r].at = "install" /\ \A q \in Refresher : refresh[q].at # "publish"
    BY <1>0, <1>2, Stages, EnricherAssumption DEF IInv, LockInv, Critical
  <2>3. generation = readers.generation
    BY <1>0, <2>2 DEF IInv, SwapInv, InSwap
  <2>4. /\ installed # <<>> /\ Committed = Len(installed)
        /\ installed' = Append(installed, Answers(refresh[r].next))
        /\ UNCHANGED <<Committed, Calls>>
    BY <1>0, <1>2, <2>3 DEF Committed, SwapStore, Live
  <2>5. Promise!Install(Answers(refresh[r].next))
    BY <2>4 DEF Promise!Install
  <2> QED
    BY <2>1, <2>5
<1>3. CASE SwapPublish(r)
  <2>1. refresh[r].at = "publish" /\ generation' = readers.generation /\ installed' = installed
    BY <1>3 DEF SwapPublish
  <2>2. readers.generation = generation + 1
    BY <1>0, <2>1 DEF IInv, SwapInv, InSwap
  <2>3. Committed < Len(installed) /\ Committed' = Len(installed)
    BY <1>0, <2>1, <2>2 DEF Committed, Live
  <2> QED
    BY <1>0, <2>1, <2>3 DEF Promise!Commit
<1> QED
  BY <1>1, <1>2, <1>3

(* Opening the databases is the first entry of the history.                *)
LEMMA OpeningSimulated ==
  ASSUME IInv, Next, Opening
  PROVE  Unseen \/ \E s \in Record : Promise!Open(s)
<1>0. TypeOK' /\ ~Live /\ installed = <<>> /\ generation = 0 /\ generation' = generation
        /\ UNCHANGED Calls
  BY TypeStep, OpeningFrame DEF IInv, BootInv, Calls, AbstractCall
<1>1. CASE boot'.at # "live" /\ installed' = installed
  BY <1>0, <1>1 DEF Unseen, Committed, Live
<1>2. CASE boot'.at = "live" /\ installed' = <<Answers(readers'.set)>>
  <2>1. Answers(readers'.set) \in Record
    BY <1>0, AnswersTyped DEF TypeOK
  <2>2. Committed' = 1
    BY <1>0, <1>2 DEF Committed, Live
  <2>3. Promise!Open(Answers(readers'.set))
    BY <1>0, <1>2, <2>2 DEF Promise!Open
  <2> QED
    BY <2>1, <2>3
<1> QED
  BY <1>1, <1>2, OpeningFrame DEF IInv

LEMMA InitSimulated == Init => Promise!Init
BY DEF Init, Promise!Init, Promise!Idle, Calls, AbstractCall, IdleLookup, Committed, Live

LEMMA StepSimulated == IInv /\ [Next]_vars => [Promise!Next]_(Promise!vars)
<1> SUFFICES ASSUME IInv, [Next]_vars PROVE Promise!Next \/ Unseen
  BY DEF Unseen, Promise!vars
<1>1. CASE UNCHANGED <<installed, generation, boot, lookup>>
  BY <1>1 DEF Unseen, Committed, Live, Calls, AbstractCall
<1>2. CASE Next /\ Opening
  BY <1>2, OpeningSimulated DEF Promise!Next
<1>3. ASSUME Next, NEW t \in Thread,
             Looking(t) \/ Cancel(t) \/ \E ip \in Ip : LookupStart(t, ip)
      PROVE  Promise!Next \/ Unseen
  BY <1>3, LookupSimulated DEF Promise!Next
<1>4. ASSUME Next, NEW r \in Refresher, RefreshLock(r) \/ Refreshing(r)
      PROVE  Promise!Next \/ Unseen
  BY <1>4, RefreshSimulated DEF Promise!Next
<1> QED
  BY <1>1, <1>2, <1>3, <1>4 DEF Next, Publish, Withdraw, Evict, ClearCache, LookupFrame, vars

(* GeoIp, with its cache, guards and swaps, implements the abstract history *)
(* of reader sets: each lookup answers from one set, none older than the   *)
(* set published when it began.                                            *)
THEOREM Implements == Spec => ImplementsGeoAnswers
BY InitSimulated, StepSimulated, InvariantHolds, PTL
DEF Spec, ImplementsGeoAnswers, Promise!Spec
=============================================================================
