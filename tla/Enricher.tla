------------------------------ MODULE Enricher ------------------------------
(***************************************************************************)
(* The lookup half of the crate: GeoIp, its cache of answers, its set of   *)
(* open readers and the caller-driven refresh that replaces them.          *)
(*                                                                         *)
(* Any number of threads look addresses up while any number of others call *)
(* refresh_if_changed or clear_cache and something else rewrites the       *)
(* database files.  A publication of a database is a number: its build,    *)
(* its modification time and what its records answer are all told apart by *)
(* it, which assumes that no two publications of one file carry the same   *)
(* modification time.                                                      *)
(***************************************************************************)
EXTENDS Integers, Sequences

CONSTANTS
  Thread,     \* callers of lookup, lookup_async and lookup_many
  Refresher,  \* callers of refresh_if_changed
  Ip,         \* the addresses looked up
  Reserved,   \* those in reserved address space
  Provisioned,\* the databases opened: a subset of {"city", "asn"}
  AgeLimit,   \* whether CacheConfig::max_age is set
  Trouble,    \* what may be wrong with a file: "withdrawn", "unsound", "big"
  MaxBuild,   \* bound: publications of each database
  Absent,     \* a cache slot that holds no answer
  Nobody      \* no thread, no refresher

Db == {"city", "asn"}
Build == 0 .. MaxBuild            \* 0: no database
Reader == [build: Build, mapped: BOOLEAN]
NoReader == [build |-> 0, mapped |-> FALSE]
Record == [Db -> Build]
Entry == [generation: Nat, record: Record]

ASSUME EnricherAssumption ==
  /\ Reserved \subseteq Ip
  /\ Provisioned \subseteq Db
  /\ AgeLimit \in BOOLEAN
  /\ Trouble \subseteq {"withdrawn", "unsound", "big"}
  /\ MaxBuild \in Nat \ {0}
  /\ Absent \notin Entry
  /\ Nobody \notin Thread
  /\ Nobody \notin Refresher

VARIABLES
  file,       \* what is at each database's path
  sources,    \* Sources: the modification time each reader was opened at
  readers,    \* ArcSwap<Readers>
  generation, \* Inner::generation
  cache,      \* the answer held for an address
  loading,    \* the thread whose guard holds an address's placeholder
  lookup,     \* each thread's lookup
  refresh,    \* each refresher's call
  lock,       \* who holds the sources mutex
  boot,       \* GeoIp::open
  installed   \* history: what each generation's reader set answers

vars == <<file, sources, readers, generation, cache, loading, lookup, refresh,
          lock, boot, installed>>

Public == Ip \ Reserved
NoEntry == [generation |-> 0, record |-> [d \in Db |-> 0]]
IdleLookup == [at |-> "idle", ip |-> Absent, entry |-> NoEntry, floor |-> 0,
               guard |-> FALSE, on |-> Nobody]
IdleRefresh == [at |-> "idle", db |-> "city", stat |-> 0, mapped |-> FALSE,
                next |-> [d \in Db |-> NoReader], changed |-> FALSE]

Lookup == [at: {"idle", "probe", "waiting", "check", "load", "insert", "answered"},
           ip: Ip \cup {Absent}, entry: Entry, floor: Nat, guard: BOOLEAN,
           on: Thread \cup {Nobody}]
Refresh == [at: {"idle", "stat", "len", "open", "install", "publish", "clear", "unlock"},
            db: Db, stat: Build, mapped: BOOLEAN, next: [Db -> Reader],
            changed: BOOLEAN]
Boot == [at: {"stat", "len", "open", "live", "failed"}, db: Db, stat: Build,
         mapped: BOOLEAN]
File == [build: Build, here: BOOLEAN, sound: BOOLEAN, big: BOOLEAN]

(* Every variable holds a value of its type, and only an address outside   *)
(* reserved space is ever looked for in the cache (lookup, is_private).    *)
TypeOK ==
  /\ file \in [Db -> File]
  /\ sources \in [Db -> Build]
  /\ readers \in [set: [Db -> Reader], generation: Nat]
  /\ generation \in Nat
  /\ cache \in [Public -> Entry \cup {Absent}]
  /\ loading \in [Public -> Thread \cup {Nobody}]
  /\ lookup \in [Thread -> Lookup]
  /\ \A t \in Thread :
       lookup[t].at \notin {"idle", "answered"} => lookup[t].ip \in Public
  /\ refresh \in [Refresher -> Refresh]
  /\ lock \in Refresher \cup {Nobody}
  /\ boot \in Boot
  /\ installed \in Seq(Record)

Live == boot.at = "live"

-----------------------------------------------------------------------------
(* The files.  file_mtime sees the publication at the path, 0 when there   *)
(* is none; a length that cannot be read counts as past the resident       *)
(* ceiling; a reader opens on a sound file.                                *)

FileMtime(d) == IF file[d].here THEN file[d].build ELSE 0
LenAsksForMap(d) == ~file[d].here \/ file[d].big
Opens(d) == file[d].here /\ file[d].sound

Sound == IF "unsound" \in Trouble THEN BOOLEAN ELSE {TRUE}
Big == IF "big" \in Trouble THEN BOOLEAN ELSE {FALSE}

FileReader(d, mapped) == [build |-> file[d].build, mapped |-> mapped]

(* A new publication of a database lands by rename.                        *)
Publish(d) ==
  /\ d \in Provisioned
  /\ file[d].build < MaxBuild
  /\ \E sound \in Sound, big \in Big :
       file' = [file EXCEPT ![d] = [build |-> @.build + 1, here |-> TRUE,
                                    sound |-> sound, big |-> big]]
  /\ UNCHANGED <<sources, readers, generation, cache, loading, lookup, refresh,
                 lock, boot, installed>>

(* Something other than this crate unlinks a database: a check may land    *)
(* before its replacement.                                                 *)
Withdraw(d) ==
  /\ "withdrawn" \in Trouble
  /\ file[d].here
  /\ file' = [file EXCEPT ![d].here = FALSE]
  /\ UNCHANGED <<sources, readers, generation, cache, loading, lookup, refresh,
                 lock, boot, installed>>

-----------------------------------------------------------------------------
(* GeoIp::open: each database's time, then its length, then its reader;    *)
(* the first that will not open fails the whole call.                      *)

(* What a set of readers answers: the record of each database in it.       *)
Answers(set) == [d \in Db |-> set[d].build]

(* The first set of readers is complete: generation 0.                     *)
OpenNext(set) ==
  IF boot.db = "city"
    THEN /\ boot' = [boot EXCEPT !.at = "stat", !.db = "asn"]
         /\ UNCHANGED installed
    ELSE /\ boot' = [boot EXCEPT !.at = "live"]
         /\ installed' = <<Answers(set)>>

BootFrame == UNCHANGED <<file, generation, cache, loading, lookup, refresh, lock>>

OpenStat ==
  /\ boot.at = "stat"
  /\ IF boot.db \in Provisioned
       THEN /\ boot' = [boot EXCEPT !.at = "len", !.stat = FileMtime(boot.db)]
            /\ UNCHANGED installed
       ELSE OpenNext(readers.set)
  /\ UNCHANGED <<sources, readers>>
  /\ BootFrame

OpenLen ==
  /\ boot.at = "len"
  /\ boot' = [boot EXCEPT !.at = "open", !.mapped = LenAsksForMap(boot.db)]
  /\ UNCHANGED <<sources, readers, installed>>
  /\ BootFrame

OpenReader ==
  /\ boot.at = "open"
  /\ IF Opens(boot.db)
       THEN /\ readers' = [readers EXCEPT !.set =
                 [@ EXCEPT ![boot.db] = FileReader(boot.db, boot.mapped)]]
            /\ sources' = [sources EXCEPT ![boot.db] = boot.stat]
            /\ OpenNext(readers'.set)
       ELSE /\ boot' = [boot EXCEPT !.at = "failed"]
            /\ UNCHANGED <<sources, readers, installed>>
  /\ BootFrame

-----------------------------------------------------------------------------
(* GeoIp::lookup.                                                          *)

LookupFrame == UNCHANGED <<file, sources, readers, generation, refresh, lock,
                           boot, installed>>

Becomes(t, local) == lookup' = [lookup EXCEPT ![t] = local]

(* Variant: the screen of reserved space is left to the read.              *)
LookupStartUnscreened(t, ip) ==
  /\ Live
  /\ lookup[t].at = "idle"
  /\ Becomes(t, [IdleLookup EXCEPT !.at = "probe", !.ip = ip, !.floor = generation])
  /\ UNCHANGED <<cache, loading>>
  /\ LookupFrame

(* A reserved address is answered before the cache is touched, by a record *)
(* that is no database's.                                                  *)
LookupStart(t, ip) ==
  /\ Live
  /\ lookup[t].at = "idle"
  /\ Becomes(t, [IdleLookup EXCEPT
                   !.at = IF ip \in Reserved THEN "answered" ELSE "probe",
                   !.ip = ip, !.floor = generation])
  /\ UNCHANGED <<cache, loading>>
  /\ LookupFrame

(* get_value_or_guard: the answer held, or a placeholder of one's own, or  *)
(* a wait on somebody else's.                                              *)
Probe(t) ==
  LET ip == lookup[t].ip IN
  /\ lookup[t].at = "probe"
  /\ \/ /\ cache[ip] # Absent
        /\ Becomes(t, [lookup[t] EXCEPT !.at = "check", !.entry = cache[ip]])
        /\ UNCHANGED loading
     \/ /\ cache[ip] = Absent
        /\ loading[ip] = Nobody
        /\ Becomes(t, [lookup[t] EXCEPT !.at = "load", !.guard = TRUE])
        /\ loading' = [loading EXCEPT ![ip] = t]
     \/ /\ cache[ip] = Absent
        /\ loading[ip] # Nobody
        /\ Becomes(t, [lookup[t] EXCEPT !.at = "waiting", !.on = loading[ip]])
        /\ UNCHANGED loading
  /\ UNCHANGED cache
  /\ LookupFrame

(* lookup_async's only await: its future may be dropped there.             *)
Cancel(t) ==
  /\ lookup[t].at = "waiting"
  /\ Becomes(t, IdleLookup)
  /\ UNCHANGED <<cache, loading>>
  /\ LookupFrame

(* Variant: an entry is judged by its presence alone, as if the clear had   *)
(* left no old answer behind.                                              *)
OfAnySet(entry) == TRUE

(* Whether a cached answer was read from the readers now installed.        *)
OfInstalledSet(entry) == entry.generation = generation

(* A hit serves an answer of the installed set that is within max_age; any *)
(* other is re-read without coalescing.                                    *)
Check(t) ==
  /\ lookup[t].at = "check"
  /\ \/ /\ OfInstalledSet(lookup[t].entry)
        /\ Becomes(t, [lookup[t] EXCEPT !.at = "answered"])
     \/ /\ ~OfInstalledSet(lookup[t].entry) \/ AgeLimit
        /\ Becomes(t, [lookup[t] EXCEPT !.at = "load"])
  /\ UNCHANGED <<cache, loading>>
  /\ LookupFrame

(* What one snapshot of the reader set gives: the answer of both databases *)
(* and the generation it is stamped with.                                  *)
Read(snapshot) ==
  [generation |-> snapshot.generation, record |-> Answers(snapshot.set)]

(* Variant: the answer is stamped with the generation published by then.   *)
MissStampedFromInner(t) ==
  /\ lookup[t].at = "load"
  /\ Becomes(t, [lookup[t] EXCEPT !.at = "insert",
                   !.entry = [generation |-> generation, record |-> Answers(readers.set)]])
  /\ UNCHANGED <<cache, loading>>
  /\ LookupFrame

(* GeoIp::miss.                                                            *)
Miss(t) ==
  /\ lookup[t].at = "load"
  /\ Becomes(t, [lookup[t] EXCEPT !.at = "insert", !.entry = Read(readers)])
  /\ UNCHANGED <<cache, loading>>
  /\ LookupFrame

(* Variant: who waited takes the entry unchecked.                          *)
HandedUnchecked(t) ==
  [u \in Thread |->
     IF u = t THEN [lookup[t] EXCEPT !.at = "answered"]
     ELSE IF lookup[u].at = "waiting" /\ lookup[u].on = t
       THEN [lookup[u] EXCEPT !.at = "answered", !.entry = lookup[t].entry, !.on = Nobody]
     ELSE lookup[u]]

(* Variant: only a placeholder still in the cache wakes its waiters.       *)
HandedIfHeld(t) ==
  [u \in Thread |->
     IF u = t THEN [lookup[t] EXCEPT !.at = "answered"]
     ELSE IF lookup[u].at = "waiting" /\ lookup[u].on = t /\ loading[lookup[t].ip] = t
       THEN [lookup[u] EXCEPT !.at = "check", !.entry = lookup[t].entry, !.on = Nobody]
     ELSE lookup[u]]

(* The lookups waiting on t's placeholder are handed its entry, each to    *)
(* check for itself; t itself has its answer.                              *)
HandedOn(t) ==
  [u \in Thread |->
     IF u = t THEN [lookup[t] EXCEPT !.at = "answered"]
     ELSE IF lookup[u].at = "waiting" /\ lookup[u].on = t
       THEN [lookup[u] EXCEPT !.at = "check", !.entry = lookup[t].entry, !.on = Nobody]
     ELSE lookup[u]]

(* guard.insert: fails silently when a clear has removed the placeholder,  *)
(* but whoever waits on it is served all the same.                         *)
InsertGuarded(t) ==
  LET ip == lookup[t].ip IN
  /\ lookup[t].at = "insert" /\ lookup[t].guard
  /\ lookup' = HandedOn(t)
  /\ IF loading[ip] = t
       THEN /\ cache' = [cache EXCEPT ![ip] = lookup[t].entry]
            /\ loading' = [loading EXCEPT ![ip] = Nobody]
       ELSE UNCHANGED <<cache, loading>>
  /\ LookupFrame

(* cache.insert, after a stale hit: replaces whatever the slot holds, a    *)
(* placeholder included.                                                   *)
InsertReplacing(t) ==
  LET ip == lookup[t].ip IN
  /\ lookup[t].at = "insert" /\ ~lookup[t].guard
  /\ Becomes(t, [lookup[t] EXCEPT !.at = "answered"])
  /\ cache' = [cache EXCEPT ![ip] = lookup[t].entry]
  /\ loading' = [loading EXCEPT ![ip] = Nobody]
  /\ LookupFrame

LookupReturn(t) ==
  /\ lookup[t].at = "answered"
  /\ Becomes(t, IdleLookup)
  /\ UNCHANGED <<cache, loading>>
  /\ LookupFrame

(* The cache is full: an insert of another address costs this one its      *)
(* answer.                                                                 *)
Evict(ip) ==
  /\ cache[ip] # Absent
  /\ cache' = [cache EXCEPT ![ip] = Absent]
  /\ UNCHANGED <<loading, lookup>>
  /\ LookupFrame

Cleared ==
  /\ cache' = [ip \in Public |-> Absent]
  /\ loading' = [ip \in Public |-> Nobody]

(* GeoIp::clear_cache, at any moment.                                      *)
ClearCache ==
  /\ Live
  /\ Cleared
  /\ UNCHANGED lookup
  /\ LookupFrame

-----------------------------------------------------------------------------
(* GeoIp::refresh_if_changed, city before asn, under the sources mutex.    *)

RefreshFrame == UNCHANGED <<file, lookup, boot>>

Goes(r, local) == refresh' = [refresh EXCEPT ![r] = local]

(* Variant: the mutex is not taken.                                        *)
RefreshUnlocked(r) ==
  /\ Live
  /\ refresh[r].at = "idle"
  /\ lock' = r
  /\ Goes(r, [IdleRefresh EXCEPT !.at = "stat", !.next = readers.set])
  /\ UNCHANGED <<sources, readers, generation, cache, loading, installed>>
  /\ RefreshFrame

RefreshLock(r) ==
  /\ Live
  /\ refresh[r].at = "idle"
  /\ lock = Nobody
  /\ lock' = r
  /\ Goes(r, [IdleRefresh EXCEPT !.at = "stat", !.next = readers.set])
  /\ UNCHANGED <<sources, readers, generation, cache, loading, installed>>
  /\ RefreshFrame

(* The next database, or the end of both.                                  *)
Onward(local) ==
  IF local.db = "city" THEN [local EXCEPT !.at = "stat", !.db = "asn"]
                       ELSE [local EXCEPT !.at = "install"]

(* A file that is not there, or has not moved, leaves its reader alone.    *)
Moved(d) == FileMtime(d) # 0 /\ FileMtime(d) # sources[d]

(* Variant: the time is recorded before the reopen is known to succeed.    *)
ReopenStatRecording(r) ==
  LET d == refresh[r].db IN
  /\ refresh[r].at = "stat"
  /\ IF d \in Provisioned /\ Moved(d)
       THEN /\ Goes(r, [refresh[r] EXCEPT !.at = "len", !.stat = FileMtime(d)])
            /\ sources' = [sources EXCEPT ![d] = FileMtime(d)]
       ELSE /\ Goes(r, Onward(refresh[r]))
            /\ UNCHANGED sources
  /\ UNCHANGED <<readers, generation, cache, loading, lock, installed>>
  /\ RefreshFrame

ReopenStat(r) ==
  LET d == refresh[r].db IN
  /\ refresh[r].at = "stat"
  /\ IF d \in Provisioned /\ Moved(d)
       THEN Goes(r, [refresh[r] EXCEPT !.at = "len", !.stat = FileMtime(d)])
       ELSE Goes(r, Onward(refresh[r]))
  /\ UNCHANGED <<sources, readers, generation, cache, loading, lock, installed>>
  /\ RefreshFrame

ReopenLen(r) ==
  /\ refresh[r].at = "len"
  /\ Goes(r, [refresh[r] EXCEPT !.at = "open",
                                 !.mapped = LenAsksForMap(refresh[r].db)])
  /\ UNCHANGED <<sources, readers, generation, cache, loading, lock, installed>>
  /\ RefreshFrame

(* Variant: the first file that will not open ends the refresh.            *)
ReopenOrGiveUp(r) ==
  LET d == refresh[r].db IN
  /\ refresh[r].at = "open"
  /\ IF Opens(d)
       THEN /\ sources' = [sources EXCEPT ![d] = refresh[r].stat]
            /\ Goes(r, Onward([refresh[r] EXCEPT
                 !.next = [@ EXCEPT ![d] = FileReader(d, refresh[r].mapped)],
                 !.changed = TRUE]))
       ELSE /\ Goes(r, [refresh[r] EXCEPT !.at = "unlock"])
            /\ UNCHANGED sources
  /\ UNCHANGED <<readers, generation, cache, loading, lock, installed>>
  /\ RefreshFrame

(* The time is recorded only once the reopen succeeded, and the failure of *)
(* one database does not stop the other.                                   *)
ReopenReader(r) ==
  LET d == refresh[r].db IN
  /\ refresh[r].at = "open"
  /\ IF Opens(d)
       THEN /\ sources' = [sources EXCEPT ![d] = refresh[r].stat]
            /\ Goes(r, Onward([refresh[r] EXCEPT
                 !.next = [@ EXCEPT ![d] = FileReader(d, refresh[r].mapped)],
                 !.changed = TRUE]))
       ELSE /\ Goes(r, Onward(refresh[r]))
            /\ UNCHANGED sources
  /\ UNCHANGED <<readers, generation, cache, loading, lock, installed>>
  /\ RefreshFrame

(* swap_readers, in three steps: the set, the generation, the cache.       *)
SwapStore(r) ==
  /\ refresh[r].at = "install" /\ refresh[r].changed
  /\ readers' = [set |-> refresh[r].next, generation |-> generation + 1]
  /\ installed' = Append(installed, Answers(refresh[r].next))
  /\ Goes(r, [refresh[r] EXCEPT !.at = "publish"])
  /\ UNCHANGED <<sources, generation, cache, loading, lock>>
  /\ RefreshFrame

SwapPublish(r) ==
  /\ refresh[r].at = "publish"
  /\ generation' = readers.generation
  /\ Goes(r, [refresh[r] EXCEPT !.at = "clear"])
  /\ UNCHANGED <<sources, readers, cache, loading, lock, installed>>
  /\ RefreshFrame

SwapClear(r) ==
  /\ refresh[r].at = "clear"
  /\ Cleared
  /\ Goes(r, [refresh[r] EXCEPT !.at = "unlock"])
  /\ UNCHANGED <<sources, readers, generation, lock, installed>>
  /\ RefreshFrame

RefreshReturn(r) ==
  /\ \/ refresh[r].at = "unlock"
     \/ refresh[r].at = "install" /\ ~refresh[r].changed
  /\ lock' = Nobody
  /\ Goes(r, IdleRefresh)
  /\ UNCHANGED <<sources, readers, generation, cache, loading, installed>>
  /\ RefreshFrame

-----------------------------------------------------------------------------
Init ==
  /\ file \in [Db -> File]
  /\ \A d \in Db : /\ file[d].here <=> d \in Provisioned
                   /\ file[d].build = IF d \in Provisioned THEN 1 ELSE 0
                   /\ file[d].sound \in Sound /\ file[d].big \in Big
  /\ sources = [d \in Db |-> 0]
  /\ readers = [set |-> [d \in Db |-> NoReader], generation |-> 0]
  /\ generation = 0
  /\ cache = [ip \in Public |-> Absent]
  /\ loading = [ip \in Public |-> Nobody]
  /\ lookup = [t \in Thread |-> IdleLookup]
  /\ refresh = [r \in Refresher |-> IdleRefresh]
  /\ lock = Nobody
  /\ boot = [at |-> "stat", db |-> "city", stat |-> 0, mapped |-> FALSE]
  /\ installed = <<>>

Opening == OpenStat \/ OpenLen \/ OpenReader

Looking(t) ==
  \/ Probe(t) \/ Check(t) \/ Miss(t)
  \/ InsertGuarded(t) \/ InsertReplacing(t) \/ LookupReturn(t)

Refreshing(r) ==
  \/ ReopenStat(r) \/ ReopenLen(r) \/ ReopenReader(r)
  \/ SwapStore(r) \/ SwapPublish(r) \/ SwapClear(r) \/ RefreshReturn(r)

Next ==
  \/ \E d \in Db : Publish(d) \/ Withdraw(d)
  \/ Opening
  \/ \E t \in Thread : Looking(t) \/ Cancel(t) \/ \E ip \in Ip : LookupStart(t, ip)
  \/ \E ip \in Public : Evict(ip)
  \/ ClearCache
  \/ \E r \in Refresher : RefreshLock(r) \/ Refreshing(r)

Spec == Init /\ [][Next]_vars

(* The threads run, and the consumer keeps its schedule: some call of      *)
(* refresh_if_changed is always followed by another.  Nothing is assumed   *)
(* of the files, of evictions, of clear_cache or of which lookups start.   *)
Fairness ==
  /\ WF_vars(Opening)
  /\ \A t \in Thread : WF_vars(Looking(t))
  /\ \A r \in Refresher : WF_vars(Refreshing(r))
  /\ WF_vars(\E r \in Refresher : RefreshLock(r))

FairSpec == Spec /\ Fairness

-----------------------------------------------------------------------------
(* Properties.                                                             *)

Answered(t) == lookup[t].at = "answered" /\ lookup[t].ip \in Public

(* An answer is what one installed reader set says, city and ASN alike, and *)
(* it carries the generation of that set: a lookup overlapping a swap never *)
(* mixes the old city database with the new ASN one, nor stamps the answer  *)
(* of one set with the generation of another (miss, swap_readers).          *)
AnswerOfOneSet ==
  \A t \in Thread : Answered(t) =>
    /\ lookup[t].entry.generation + 1 \in DOMAIN installed
    /\ lookup[t].entry.record = installed[lookup[t].entry.generation + 1]

(* Once a swap has published its generation, no lookup that starts is       *)
(* answered from an older set, whatever the cache held and whoever inserted *)
(* into it after the clear (current, swap_readers).                         *)
AnswerNotStale ==
  \A t \in Thread : Answered(t) => lookup[t].entry.generation >= lookup[t].floor

(* Between refreshes, a recorded modification time equal to the file's      *)
(* means the installed reader is that file's, in the backing its size asks  *)
(* for: no replacement, whenever it landed and whichever database beside it *)
(* failed to open, is taken for one already picked up (open_source, reopen, *)
(* refresh_if_changed).                                                     *)
NoMissedReplacement ==
  Live /\ lock = Nobody =>
    \A d \in Provisioned : FileMtime(d) # 0 /\ FileMtime(d) = sources[d] =>
      readers.set[d] = FileReader(d, file[d].big)

(* A step never puts an older reader of a database in place of a newer one: *)
(* two refreshes, each starting from the set it found, do not undo each     *)
(* other (the sources mutex).                                               *)
ReadersNeverGoBack ==
  [][\A d \in Db : readers'.set[d].build >= readers.set[d].build]_vars

(* What GeoAnswers sees of this state.                                      *)
AbstractCall(local) ==
  IF local.at = "idle" \/ local.ip \in Reserved
    THEN [at |-> "idle", floor |-> 0, answer |-> Absent]
  ELSE [at |-> IF local.at = "answered" THEN "answered" ELSE "asked",
        floor |-> local.floor + 1,
        answer |-> IF local.at = "answered" THEN local.entry.record ELSE Absent]

Committed == IF Live THEN generation + 1 ELSE 0
Calls == [t \in Thread |-> AbstractCall(lookup[t])]

Promise == INSTANCE GeoAnswers WITH
  ReaderSet <- Record, NoAnswer <- Absent,
  sets <- installed, committed <- Committed, call <- Calls

(* Every lookup, refresh and clear is a step, or no step, of GeoAnswers.    *)
ImplementsGeoAnswers == Promise!Spec

(* When the files stop changing, the readers come to be those of every      *)
(* file that opens, in the right backing, though one beside it never does.  *)
EventuallyCurrent ==
  <>[](Live => \A d \in Provisioned : Opens(d) =>
         readers.set[d] = FileReader(d, file[d].big))

(* Every lookup is answered or dropped: one that waits on another thread's  *)
(* read is served though a clear has taken the placeholder away.            *)
EveryLookupEnds ==
  \A t \in Thread : lookup[t].at # "idle" ~> lookup[t].at = "idle"
=============================================================================
