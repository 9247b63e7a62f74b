# A verification project for factbook

factbook provisions GeoIP databases and tables over HTTP and answers lookups
from them inside a process. This directory holds TLA+ modules that model its
behaviour over time, the TLC configurations that check them on small
instances, and TLAPS proofs of what matters most for every instance.
`PROJECT.json` lists the components, the runs, the mutants that show each
property can fail, the source lines each definition stands for, the hazards
and the findings.

## 1. The system

| Component | Source | State | Operations |
| --- | --- | --- | --- |
| Lookup and cache | `geoip/enricher.rs`, `geoip/private.rs` | cache of answers with placeholders (quick_cache), each answer stamped with a generation | `lookup`, `lookup_async`, `lookup_many`, `clear_cache` |
| Readers and refresh | `geoip/enricher.rs`, `geoip/refresh.rs` | `ArcSwap<Readers>`, `generation`, `Sources` under a mutex | `open`, `refresh_if_changed`, `swap_readers` |
| Transfer | `geoip/download/fetch.rs` | `<dest>.lock`, `.part`, `.staged`, the destination | `run_guarded`: lock, stream, resume, digest, materialise |
| Cool-down and freshness | `geoip/download/cooldown.rs`, `download/mod.rs`, `table/mod.rs` | `<dest>.retry` stamp, `SUPPRESSED` in memory, file times | `is_fresh`, `attempt`, `wait_for`, `begin`, `clear` |
| Guard | `geoip/download/verify.rs` | none | `admit`: size floor, probe, table check |
| Source table | `geoip/download/source.rs` | none | `find`, `select`, `transfer`, `staleness_window`, `source_terms` |
| Configuration, secrets | `geoip/config.rs`, `table/config.rs`, `secret.rs`, `download/mod.rs` | what a process was started with | `validate`, `check_settings`, `plan`, the config file's forms |
| Table load | `table/parse.rs`, `table/mod.rs` | parser state, byte budget, rows | `load`, `from_reader`, `ensure` |
| Table queries | `table/query.rs`, `table/mod.rs` | rows, index, a find's walk | `build`, `get`, `get_by_address`, `find` |
| Record merge | `geoip/enricher.rs`, `geoip/record.rs` | the record being filled | `read`, `read_city`, `read_asn`, `read_ipinfo`, `to_schema_map` |
| Extra fields | `geoip/extra.rs` | the walk: path, kept leaves, bytes | `collect`: walk, bounds, filter |
| Telemetry, test kit, benches | ... | none of the above | none over time |

How they interact. A consumer calls `ensure_databases` (or `Table::ensure`) on
a schedule of its own; that resolves each database to a file: fresh, fetched
by a transfer, or the stale copy. Several processes may share the data
directory; the lock, the stamp and the renamed destination are all they share.
`GeoIp` opens the files and answers from them; `refresh_if_changed`, again
called by the consumer, notices by modification time that a file was replaced
and swaps the readers under the lookups in flight. The only channel between
the two halves is the file at the destination.

What is hard. Lookups are lock-free against a swap of three separate steps,
and coalesce on placeholders a clear may take away. A refresh stats, measures
and opens a file that may be replaced between any two of those. A transfer's
future may be dropped at any await while a write or a rename it handed to the
blocking pool goes on; a process may die anywhere; the next transfer continues
what it finds. Waits are told by a wall clock, half of them remembered on disk
and half in memory. A table is read by a byte machine whose memory is counted
as it grows, and a query is answered from an index that is only ever a hint.
One record is filled by two databases in turn, then read a second time by a
walk that must stop at a bound, and a leaf is dropped by comparing it with what
both have written. What a directory holds outlives the configuration that
fetched it: selections, tiers, credentials and ceilings change under it, and
two processes may not agree on them.

What makes each part correct: an answer is of one installed reader set and
never of one older than the last published when the lookup began; a
replacement is never mistaken for a file already open, and is picked up in the
end; one transfer at a time writes, and the destination is always a whole
admitted build on disk, never an older one than before; a provider is not
asked before the time it gave, and is asked again in the end; a table read is
the table written, or is refused for a limit it is past; a query through the
index is the query of a scan; what a database says reaches the consumer, as a
typed field or an extra one; what is served is a build of the source selected,
and no download leaves a deployment with less than it had.

## 2. Modules

| Module | Models | Uses |
| --- | --- | --- |
| `GeoAnswers` | abstract: a history of reader sets and calls answered from one of them | |
| `Enricher` | lookup, cache, readers and refresh | refines `GeoAnswers` |
| `Enricher_proofs` | its theorems | extends `Enricher`, `TLAPS` |
| `DatabaseFile` | abstract: the path goes from one admitted build to a newer one | |
| `Transfer` | one database's transfer, its files, lock and blocking pool | refines `DatabaseFile` |
| `Transfer_proofs` | its theorems, the refinement among them | extends `Transfer`, `TLAPS` |
| `Provision` | freshness, `attempt` and the two cool-downs | |
| `Provision_proofs` | its theorems | extends `Provision`, `TLAPS` |
| `TableReader` | a CSV or JSON file read into columns and rows under a ceiling | |
| `TableReader_proofs` | its theorems | extends `TableReader`, `Iteration_proofs` |
| `TableQuery` | a table's index, the lookups by key, `find` and its walk | |
| `TableQuery_proofs` | its theorems | extends `TableQuery`, `TLAPS` |
| `GeoRecord` | one address's record: the typed decode of two databases, the walk for extra fields, the filter | |
| `GeoRecord_proofs` | its theorems | extends `GeoRecord`, `Iteration_proofs` |
| `Iteration_proofs` | lemmas: least elements, induction over a set of naturals, definitions that go from one index to the next | extends `TLAPS` |
| `Selection` | the source table, its questions, `validate`, and a configuration's form in a file | |
| `Acquire` | `ensure_databases` and `Table::ensure` step by step, the guard, several processes and configurations | extends `Selection` |
| `Acquire_proofs` | its theorems | extends `Acquire`, `TLAPS` |
| `MCEnricher`, `MCTransfer`, `MCProvision`, `MCTableReader`, `MCTableQuery`, `MCGeoRecord`, `MCAcquire` | the instances TLC checks | extend the above |

`Acquire` composes what the other two modules of the acquiring half detail: a
transfer is one step there that may always fail, `Transfer` is what happens
inside it and `Provision` when an attempt is held back. `GeoRecord` is the
inside of `Enricher`'s `Miss`.

### Enricher

State. `file` is what is at each database's path. A *publication* of a database
is a number standing for its bytes, its modification time and its answers
together; this assumes no two publications of one file share a modification
time, the one thing `reopen` tells files apart by. `sources`, `readers`,
`generation` are `Sources`, `Inner::readers` and `Inner::generation`; `cache`
and `loading` are an address's slot in quick_cache: an answer, or the thread
whose guard holds its placeholder. `lookup` and `refresh` are the threads'
program counters and locals, `boot` is `GeoIp::open`. `installed` is history:
what each generation's reader set answers.

Actions. A lookup is `LookupStart` (the reserved-space screen), `Probe`
(`get_value_or_guard`: value, guard or wait), `Check` (`current`), `Miss`
(`load_full` and the read), `InsertGuarded` or `InsertReplacing`,
`LookupReturn`; `Cancel` drops a `lookup_async` at its only await. `miss` is
one step because everything it reads comes from the one `Arc` it loads. A
refresh is `RefreshLock`, then per database `ReopenStat`, `ReopenLen`,
`ReopenReader`, then `SwapStore`, `SwapPublish`, `SwapClear`. `Publish` is the
rename of a transfer (or of anything else), `Withdraw` an unlink by something
that is not this crate.

External. quick_cache is modelled from how lookup uses it: a clear drops
answers and placeholders in one step, a guard's insert fails when its
placeholder is gone but hands its value to those waiting on it, an insert
replaces what is in the slot, eviction may happen at any time.
`GuardResult::Timeout` is unreachable without a timeout and is left out, as are
panics. Age-limit expiry is a choice at each check when `AgeLimit` is set.

### Transfer

A body is a sequence of units, one write batch each, a unit being the build it
belongs to, or 0 for a hole left by power loss; a container decodes, and a
digest matches, exactly when the sequence is one whole build. A raw body with
neither may pass the format check whatever it holds. `source` is the kind of
source: its packing, whether it has a digest, whether its URL is dated and has
a fallback. `held` is the set of clones of the lock's `Arc`: the call's, a
write's on the blocking pool, the materialise step's; the lock is free when
the set is empty. `write` and `job` are what a task has on the blocking pool,
and outlive its `call` when the future is dropped (`Cancel`). `Kill` ends one
process, `PowerLoss` all of them, leaving each unsynced file as it was, a hole,
or (the part file) gone.

`Start` is the lock; a busy lock changes nothing. `Ask` is `resumable_offset`
and the request; `AnswerWhole`, `AnswerPartial`, `AnswerUnsatisfiable` (416),
`AnswerMissing` (404) and `AnswerRefused` are the answers; `Send`, `WriteLands`,
`WriteFails` the part writer; `BodyBreaks`, `BodyTooLarge`, `BodyWriteFailed`,
`BodyEnds` how a body ends; `DigestArrives`, `DigestFails`, `Hash` the digest;
`JobStage` to `JobDone` and `JobRejects` the materialise step.

Left out: filesystems without locks (the code warns and goes on), a rename
undone by power loss (it leaves the older build), a server that answers a
range with bytes of another offset, and a failed batch of which a part is
written: `WriteFails` writes nothing of it. The transfer that is told of the
failure removes the file whatever it holds (`fetch.rs:663-667`).

### Provision

Every time is kept as a distance from the wall clock: `stamp` is what the
`.retry` file has left, `held` what each process's suppression has left, `age`
that of the copy. `Tick` moves the clock on, `SetBack` sets it back once. A
call is `Check` (`is_fresh`), `Look` (`wait_for`), `Ask` (plan, then lock),
`Answer` or `Cancel`, `Settle` (`begin`, `clear`). A transfer is one request
and an outcome, since Transfer has the rest. `owed` and `since` are history:
how long the provider is yet to be left alone, and when a cool-down was last
recorded.

A wait that has run out is gone for good here. In the code a `.retry` file that
has lapsed stays, and so does a lapsed suppression nobody has looked at, and a
clock set back past its end brings it to life again (`cooldown.rs:91-94`,
`122-126`); a clock set back before the end gives the model the same wait, as
long after the same recording.

### TableReader

State. The fields of `Csv` (`line` and `record_line` left out), the locals of
`Elements::visit_seq`, and `Parsed`; `outcome` is what the read ends with, an
error dropping all of it. A byte is a name: the six the machine tells apart, a
byte that makes a field not UTF-8, and letters. The byte-order mark is one
byte. A JSON element is what it parses to: its length, whether it is an object,
and its cells by key.

Actions. One per arm of `Csv::byte` (`SkipLF` to `TextAfterQuote`, an arm's
calls to `push`, `end_field` and `newline` within it, their refusals as
disjuncts), `Finish`, and `Rows` for `read_csv` after the records. For JSON,
`Take` is one element's deserialisation under its meter, `Widen` one turn of
the loop over its keys, `AddRow` the row, `EndArray` what follows the loop.

`Body` and what it is made of is the other side, a publisher that writes RFC
4180: it quotes what must be quoted, or everything. It is external, and what
`ReadsBack` compares the reader with. `PublisherAssumption` says what a file
that was published is: its body is `Body` of the table it states, made in one
of the ways `How` lists, and that table has a record, each record a field, and
no field a byte that is not UTF-8. Left out: JSON that does not parse, text
after the array, and the line an error names. A chunk of `fill_buf` is no step
of its own: the machine's state does not depend on where chunks end.

### TableQuery

State. `rows` is `Table::rows`; `index`, `key`, `filed` and `unindexed` are
`Keys` and `key_column`; `query` and `walk` are `Matches`; `found` is history.
A cell's text has three readings, each a constant function: what it parses to
(`Parsed`), what it folds to, and its date.

Actions. `Locate` finds the key column, `File` files one row, `OverCeiling` is
the budget's refusal, at any step; `Find` plans the walk, `Test` is one turn of
`Matches::next`. The lookups by key, which change nothing, are the operators
`PositionsOf` and `PositionsAt`. External is `JointPrefixMap`: it tells ranges
apart by their network, and its longest-prefix match is the narrowest range
around an address. Left out: the columns a row's view is projected to, and
`TableHealth`.

### GeoRecord

State. A record in a file is a graph of nodes (`Data`): maps, arrays and
leaves, of the wire's kinds. `file` is what each slot's reader holds, `record`
and `extra` are the `GeoIpRecord`, `stack` is the visitors of the walk under
way (a container, its next entry, its path), `kept`, `bytes` and `full` are
`Kept`; `ended` is history. A text, a number and a flag are numbers (`says`)
with a kind and a size; a path is the sequence of its keys, a byte each and one
for a dot.

Actions. `Silent` is a slot that is empty or does not answer, `Decode` the
typed decode and its writes (`ReadCity`, `ReadAsn`, `ReadIpInfo`, the last
whatever the slot), `Ask` one entry of `visit_map` or `visit_seq`, `Leave` the
return of one, `Break` the walk's decode failing, `Filter` the end of
`collect`. The typed decode itself is serde's over maxminddb, and external: an
absent key is no value, another type or a number past its field's width refuses
the whole record, a whole number is taken for a coordinate (`Decodes`).

A record written as JSON is read again by `Rereads`, `Reread` and
`RereadField`. serde_json writes a double that is not finite (a NaN or an
infinity) as `null`; `ExtraValueVisitor` has no answer for one, so an extra
value of that kind refuses the whole record, while a coordinate, being an
`Option`, is read as absent. Without serde_json's `float_roundtrip`, which
`Cargo.toml` does not ask for, a finite double may be read as the one beside it
(`JsonDouble`, external). That paths, order and repeats survive is by the shape
of `ExtraFields`, a list written and read entry by entry, and is not a property.

Assumed: a key has no dot in it, so that a joined path and its keys are one.
`GeoRecordAssumption` says what a data section is: a leaf is within what its
wire kind holds, an array's keys are its indices, and what stands for a double
that is not finite is no whole number. `HeightAssumption` says that
nothing in it nests beyond `Depth` (`Height` is how deep): what a record's
leaves are, and so `LeavesOf`, means nothing of one that holds itself.
`WalkIsBounded` does not rest on it.

### Selection and Acquire

State. `config` is what each process was started with: the selection, the
explicit paths, `AutoDownloadConfig` and, for a host of tables, one
`TableSource`. `call` is a call's database and how far it is, `answer` what it
was handed last, `fault` the configuration fault its last attempt ended in.
`disk` has, per file name, which product's bytes are there, their age and what
the guard and the load ask of them. `own`, `early` and `mixed` are history.
Time is in half-days.

Actions. `Begin` starts `ensure_databases` or `Table::ensure`; `Explicit`,
`Unselected`, `AsItIs`, `Attempt`, `FallBack` are the ways through `resolve`;
`CheckTable`, `FallBackTable`, `Read` those through `Table::ensure`; `Miss` and
`Fetch` are `attempt` with the download inside it, whose plan is checked by
`DownloadFault` and whose bytes by `Admits`. `Restart` ends a process anywhere
and starts it with its own configuration, with that written to a file and read
again (`Reread`: the wire forms of `config.rs`, a secret's redaction), or with
another. `Valid` is `validate`, for configurations and not a step of its own.
What a publisher hands out is a member of `Body`; a body is admitted by its
size, the paths that carry text and the tables it reads as.

Assumed: a host gives its tables files of their own (`FilesApart`).

## 3. Runs

Every run finishes in under three minutes on two workers. Nine pass; three are
violated, one for each finding.

| Run | Instance | Shows |
| --- | --- | --- |
| `EnricherLookup` | 2 threads, 1 refresher, 2 databases of 2 builds, unsound files, fairness | `AnswerNotStale`, refinement of `GeoAnswers`, `EventuallyCurrent`, `EveryLookupEnds` |
| `EnricherRefresh` | 1 thread, 2 refreshers, a public and a reserved address, 2 databases of 2 builds, files withdrawn, unsound or big, age limit | `TypeOK`, `AnswerOfOneSet`, `NoMissedReplacement`, `ReadersNeverGoBack` |
| `TransferShared` | 2 tasks, 3 builds of lengths 2, 3, 2 of which the second is refused, five sources, 4 faults of any kind, fairness | `TypeOK`, `LoneWriter`, `DestIntact`, `NothingStagedAtRest`, refinement of `DatabaseFile`, `EventuallyFetched` |
| `ProvisionAlone` | 1 caller, 3 configurations (one rejected, one that cannot be planned), 2 restarts | `TypeOK`, `HonoursWait`, `OncePerWindow` |
| `ProvisionShared` | 2 calls of one process and a replica, the clock set back once, fairness | `WaitBounded`, `EventuallyAskedAgain` |
| `ProvisionDigest` | as Alone, the digest rate-limited | violated: `HonoursWait` |
| `TableReader` | 2,654 publishers' bodies of 111 tables, all strings of up to 4 bytes over 6, 1,866 JSON documents; fields of 3 bytes, records of 3 fields, two ceilings | `TypeOK`, `Charged`, `WithinCeiling`, `ReadsBack` |
| `ReaderMark` | a mark before a quoted name | violated: `ReadsBack` |
| `TableQuery` | every table of 1 or 2 rows of 6 texts, some of 3, four indexes, 60 queries | `TypeOK`, `AnswersTheScan`, `HintHolds`, `KeysLeadToRows` |
| `GeoRecord` | 2,765 states: every pair of a city-slot and an ASN-slot file of `MCGeoRecord`, with and without extra fields; 6 leaves, 36 bytes | `TypeOK`, `KeptWithinBounds`, `WalkKeepsTheStart`, `EveryLeafDelivered`, `OneSourceApiece`, `ReadsBackAsWritten` |
| `RecordOverwritten` | IPinfo's file beside an ASN database of numbers without names | violated: `NothingDiscarded` |
| `Acquire` | 2 processes, 17 configurations (every provider, both tiers, credentials unset, blank, set and redacted, tables), 3 bodies, time passes once, one restart | `TypeOK`, `ValidatedNeverFaults`, `ServesItsOwnSource`, `TermsCoverWhatIsServed`, `PacedByItself`, `StatedIsRead`, `ServiceKept` |

Why the bounds are enough. Two databases of two builds are installed in three
sets at least, the fewest with which an answer can skip a generation, and are
the fewest with which one fails beside the other; two refreshers and two
threads are the fewest that race. Builds of lengths 2, 3 and 2 give part files longer than, as long
as, and a proper prefix of the next body. Four faults let a transfer be
interrupted, its remains torn, the next one interrupted and a third resume.
Floor, ceiling and window differ by a unit or two, which is all their
comparisons tell apart. The reader's machine has four states and two flags, and
strings of four bytes take it through every pair of transitions; the tables
have every text that must, may or need not be quoted, in one column and in two,
and sizes at, below and above each limit. In a query's tables are the value
itself, another spelling of it, a text that parses to the same range, one that
does not parse, and none, which is all the walk tells apart. The proofs remove
these bounds from every property of which section 4 states a theorem. `MCGeoRecord`'s
files have a record within the bounds, ones past each of them and at them, one
that nests to the depth allowed with a map and an array left before a sibling,
two subdivisions, wrong types, whole numbers of each width and past it, and
doubles that JSON keeps, moves to the one beside and cannot write, among the
extra fields and as a coordinate, in either schema and in either slot. Time passes once in `Acquire` because a copy is
either within a window or past it, by half a day or by two months; one restart
is enough for a directory fetched under one selection and served under
another; its three bodies are the one all accept, a smaller one, and one that
fills no field but reads as another table.

`CHECK_DEADLOCK FALSE` is set where the system stops: the enricher after a
failed `open`, a read or a record that is over, a build that was refused or a find that is
exhausted. The symmetry sets, of `EnricherRefresh` alone, a run of safety, are
permutations of interchangeable threads, refreshers and public addresses.

Fairness. Threads and the blocking pool make progress (a runtime's scheduling);
the consumer keeps calling `refresh_if_changed`, or asking for the database,
which the crate's documentation requires of it, since the crate starts no
timer of its own; an answer to a request comes or fails in the end, since the
client has read and connect timeouts; the clock moves on. No fairness is
assumed of publications, faults, evictions, cancellations, or of which lookups
begin. `EventuallyFetched` excepts a dated source whose provider is two months
late, when no URL the code forms names the build.

## 4. What is proved

`Enricher_proofs` proves, for every set of threads, refreshers and addresses
and every number of publications:

| Theorem | Statement |
| --- | --- |
| `TypeCorrect` | `Spec => []TypeOK` |
| `InvariantHolds`, `AnswersOfOneSet`, `AnswersNotStale` | `Spec => []IInv`, and from it `[]AnswerOfOneSet`, `[]AnswerNotStale` |
| `FileInvariantHolds`, `ReplacementsNoticed` | `Spec => []FileInv`, and from it `[]NoMissedReplacement` |
| `ReadersOnlyAdvance` | `Spec => ReadersNeverGoBack` |
| `Implements` | `Spec => ImplementsGeoAnswers` |

The argument. The properties speak of answered lookups, and an answer may have
lain in the cache since before the lookup began, so `IInv` says of *every*
entry anywhere (in the cache, in a thread's hands) that it carries the record
of the set its generation names; that the reader set is the last installed,
and the published generation its own or, between `SwapStore` and
`SwapPublish` only, one less; that only the mutex's holder is inside a swap;
and that an entry read by a thread is at least as new as its floor, because
the published generation only grows. A hit is safe since it is compared with
the published generation, not because the cache was cleared. `FileInv` says
that a recorded time is the build of the installed reader, or of the one the
refresh under way is about to install, and that a time is read before the
length and the file, so it is never newer than the reader it is recorded
against. `Implements` maps `SwapStore` to `Install`, `SwapPublish` to
`Commit`, the step that answers a lookup to `Answer`, and all else to stutters.

The assumption is `EnricherAssumption` alone.

`Transfer_proofs` proves, for every set of tasks, every set of sources, any
builds of any lengths, and any number of faults of any kind:

| Theorem | Statement |
| --- | --- |
| `TypeCorrect` | `Spec => []TypeOK` |
| `WritersAreAlone` | `Spec => []LoneWriter` |
| `DestIsIntact` | `Spec => []DestIntact` |
| `NothingIsLeftStaged` | `Spec => []NothingStagedAtRest` |
| `NeverAnOlderBuild` | `Spec => ImplementsDatabaseFile` |

The argument. `LockInv`: every clone of the lock belongs to one task, and what
a task has under way, its call, its write, its step on the pool, is covered by
a clone of its own; so a dropped future leaves the lock held by what it left
running, and a step of one task finds the others with nothing under way
(`Alone`). `Sound` follows one transfer from stage to stage: where no digest
and no container will check the bytes, nothing is resumed, and the part file
is the first `sent` units of one build but for the unit in flight
(`FromTheStart`); what is past the decode is a build, past the check an
admitted one, past the sync on disk. `StagedInv` ties a staged file to a step
that will rename or remove it. For the refinement `OrderInv` adds that no unit
in the part file, in flight, or in the staged file is of a build older than the
destination's (a hole is never part of a whole body), that none in the part
file is older than what is staged, and that a dated URL is asked for no month
before the destination's. Resuming is what makes that last part needed: a
prefix of an older build outlives its transfer, and would reach the path if it
could still be completed as that build. `JobRename` maps to `Install`, the
provider's `Publish` to `PublishBuild`, all else to stutters.
`TransferAssumption` is what is assumed: of the sources, as in the source
table, that none has both a digest and a dated URL.

`Provision_proofs` proves, for every set of tasks and processes, any
configurations and any lengths of time:

| Theorem | Statement |
| --- | --- |
| `TypeCorrect` | `Spec => []TypeOK` |
| `WaitsAreBounded` | `Spec => WaitBounded` |
| `AloneHonoursWait` | `Spec => HonoursWait`, of one caller, no clock set back, and every refusal recorded |
| `AloneOncePerWindow` | `Spec => OncePerWindow`, of one caller and no clock set back |

The argument. `WaitInv`: a stamp, and an entry of any process's memory, has at
most as much left as the ceiling less the time since the last refusal, plus
what the clock was set back by, once it has been. `OwedInv`: the stamp has
at least as much left as the provider is yet to be left alone for, and a caller
past the wait owes nothing. `YoungInv`: a caller past
the freshness check has no young copy. The last two hold of one caller because
nothing else fetches between its check and its request; the runs' findings and
section 5 say what becomes of them otherwise. `Recorded` leaves out the two
answers that the code does not stamp.

`TableQuery_proofs` proves, for every table, index, query, wildcard and
reading of a text:

| Theorem | Statement |
| --- | --- |
| `InvariantHolds`, `TypeCorrect` | `Spec => []IInv`, `[]TypeOK` |
| `KeysLead` | `Spec => []KeysLeadToRows` |
| `AnswersAreTheScan` | `Spec => []AnswersTheScan` |
| `HintsHold` | `Spec => []HintHolds` |

The argument. A list of the index holds, in rising order, exactly the rows
filed so far under its key, and `unindexed` those whose cell is there and does
not parse (`IndexInv`). A row that meets an equality on the key column, or
holds the wildcard there, is therefore on one of the three lists the query
takes. Of the walk, `WalkInv` says that its lists rise, that every row that
satisfies the query is handed back already or still on one of them, and that
what was handed back lies before every head. The lowest head is then the least
row that could come next, and when the lists are empty nothing is left out.
`TableAssumption` says of the trie's ranges that two of one width either are
one network or share no address.

`TableReader_proofs` proves, for every file, ceiling and limit:

| Theorem | Statement |
| --- | --- |
| `ReaderTyped` | `Spec => []TypeOK` |
| `HeldIsCharged` | `Spec => []Charged` |
| `CeilingHolds` | `Spec => []WithinCeiling` |
| `ColumnsAreTheKeys` | `Spec => []KeysBecomeColumns`, which is `ReadsBack` of a JSON document |
| `TablesReadBack` | `Spec /\ Seen => []ReadsBack`, of a CSV and of a JSON document |

Every step that holds more is behind a charge for at least what it adds, the
row's own overhead included while the record is open, so `RoomInv` adds no more
than the types of what is summed. `DocumentInv` is the JSON walk between any
two keys: the columns are sorted and are the keys looked at so far
(`ColumnsInv`), and each row is its object's cells under them (`RowsInv`). A
column inserted for a new key keeps both, because the lesser keys come first
and end where it goes (`PlaceIs`, which rests on `LeastOf`) and because no
object read before has that key, or it would be a column already. `ChargedInv`
is what `Charged` needs: of a CSV, that `held` and `record` are the sums over
the records and the closed fields (`CsvCharged`); of a document, that `held` is
the sum over its rows (`JsonCharged`), which `DocumentInv` says are as wide as
the columns. A sum is one of a sequence, `Total`: it grows by a cost when a
sequence does (`Append`), a column inserted in every row adds one cell's
overhead as often as there are rows, and the rows a loaded CSV ends with cost no
more than the records they came from, one by one.

`TablesReadBack` is about a publisher's body of any length and its table. First
where everything is in the body, from its definition out of concatenations:
each field of each record stands between two offsets, as it is or spelled in
quotes byte by byte, with a delimiter or a line end behind it (`FieldLaid`,
`RecordLaid`, `TableLaid`, put together in `TableIn`). The reader is then always
somewhere in that table (`Following`): `Inside` record i at field c with k of
its bytes taken, where the machine's state, `at`, `records`, `fields` and `field`
are what that place makes them, or `Behind` record i among the line ends.
`ReadInv` says so while bytes are read, that the records are the table when they
are split, and `CsvReadsBack` after. There is one lemma per action (`SkipRead` to
`FinishRead`), each finding which byte of the table it is that the action takes:
a quote in a quoted field is its closing one or doubled, a delimiter outside
quotes is between two fields, a line end outside quotes is behind a record. Only
`TidyInv` is needed beside it, by which no remembered CR is taken for the first
half of a CRLF inside a record. A refusal has to be a right one too: what is held
and charged at that place is part of what the whole table costs (`FieldAfford`,
from `CsvCharged`), so a charge that is refused shows a table past the ceiling
(`TooMuch`), and the table is not `Loadable`; the other way, a table the machine
got through is within every limit, and `RowsRead` names and widens it or refuses
it for its width. The mark is a byte of the first field until it is stripped
(`Whole`, `StrippedWhole`), and costs a byte.

`Seen` is the theorem's one hypothesis on the file. With a mark in front, the
first name is not quoted; without one, the first name does not start with the
mark's own character. The first is what the run `ReaderMark` shows the code to
need, and the second is a name `strip_bom` cannot tell from a marked file's.
TLC finds the hypothesis true of every body of the run `TableReader`
(`PublishersMark`). `ReaderAssumption`, `SourceAssumption`, `BytesAssumption` and
`PublisherAssumption` say what the limits, the files, the bytes and a published
file are.

`GeoRecord_proofs` proves, for every data section, every pair of files and
every pair of bounds:

| Theorem | Statement |
| --- | --- |
| `WalkIsBounded` | `Spec => []KeptWithinBounds` |
| `RecordTyped` | `Spec => []TypeOK` |
| `WalkKeepsWhatFits` | `Spec => []WalkKeepsTheStart` |
| `EveryLeafReaches` | `Spec => []EveryLeafDelivered` |
| `FieldsOfOneSource` | `Spec => []OneSourceApiece` |
| `ExtraReadsBack` | `Spec => []ReadsBackAsWritten` |

The argument. A record that shares its data expands far beyond its file, and
only the bounds end its walk: `WalkInv` says of `full` that without it there is
room for one leaf more. `SourceInv` is the record as a function of what the
slots answered (`Filled`): what a database writes of a group of fields it
writes whole (`AnswerWrites`), so the last to write the group is its source.
`ReadableInv` says that what is kept is of the narrowest kind that holds it,
which is the kind `Reread` chooses, or is a double: a finite one comes back a
double, and one that is not refuses the record (`ReadsBack`). So `ExtraReadsBack`
says which records are read back and with what kinds, not that all are. `TypeInv` needs of the typed decode that it
only writes what is not a refusal (`AnswerSays`).

`StartInv` is the walk under way. What is still to come of a record is read off
the stack, innermost visitor first: each has the entries after the one it
is at, under its own path (`Comes`). What was kept and what is to come are then
the record's leaves in order, and the bytes are the cost of those kept
(`OnTheWay`); a leaf moves from one to the other, a container entered takes the
place of its leaves (`ComesPushed`), one left had none to come (`ComesPopped`).
When a leaf does not fit, what was kept is the longest start that does, since
each leaf costs something and no later start is cheaper (`CostGrows`,
`FittingIs`). `LeavesOf` goes one level of nesting at a time, and `LevelsSettle`
shows that a level past a node's height changes nothing of it.

`DeliveredInv` adds, of each slot whose walk ended whole, where its leaves are
now: each is among the extra fields, or a typed field took it and still holds
it, or the ASN slot's database writes that field. Only a leaf of the city slot
can lose its field, and only by the `Decode` of the ASN slot, which is why the
exception of `EveryLeafDelivered` is as wide as it is and no wider.

The proof found an ambiguity in the model: two arms of the `CASE` that is
`Reread` held at once for a text that stands for a number, and TLC took the
first. It is now a choice of disjoint arms.

Induction. The library's theorems of induction cannot be instantiated here, so
`Iteration_proofs` states what these proofs need of sets: a set of naturals
that is not empty has a least element, from the well-foundedness of finite sets
(`LeastOf`); one with zero and with each successor is all of them
(`Induction`, `UpTo`); and a definition that goes from one index to the next
exists, which is what a recursive function of the model is (`Iterates`).

`Acquire_proofs` proves, for every set of processes, any configurations they
are started with and started again with, and any bodies publishers hand out:

| Theorem | Statement |
| --- | --- |
| `TypeCorrect` | `Spec => []TypeOK` |
| `ValidatedIsEnough` | `Spec => []ValidatedNeverFaults` |
| `ServedIsSelected`, `TermsAreStated` | `Spec => []ServesItsOwnSource`, `[]TermsCoverWhatIsServed` |
| `DownloadsArePaced` | `Spec => []PacedByItself` |
| `WrittenIsRead` | `Spec => []StatedIsRead` |
| `ServiceIsKept` | `Spec => ServiceKept` |

The argument. Files are shared by name and nothing in them says whose they are,
so what is served is safe only because a name stands for one product: no two
rows of the source table publish under one name, each row's URL is that of its
name (`RowFacts`), and a host's tables are elsewhere. `DirectoryInv` says so of
the directory, `ServedInv` of what was handed out, whose row is then among the
terms reported. `FaultInv` holds since the plan looks at no more of a
configuration than `Valid` did, and no attempt is made without what `CallInv`
says a call has found by then. `PaceInv`: what a process downloaded is still in
the file or something younger is, so a check that finds a copy past its window,
which is at least the interval, finds the process's own download past it; time
only adds to that until the request. `RereadIs` is the wire forms, case by case.
`ServiceIsKept` compares an answer with an earlier one, so it needs what an
answer leaves behind. `KeptInv` is that: what was served is there still, since no
step empties a file (`HandedInv`); and while the processes have had one
configuration, each file holds what that configuration accepts (`StoredInv`), as
no two things asked for share a file. A call then has a copy to fall back on
whatever its download comes to, and finds it acceptable.
Assumed are `AcquireAssumption`, the types, and `FilesApart`.

Model-checked only: liveness, since fairness and ENABLED are beyond the prover.
Every invariant and every action property of a passing run has a theorem.

## 5. Findings

Three runs show the code doing other than what its text says, each quoted in
`PROJECT.json`: a rate limit met at the digest's endpoint is forgotten by a
restart (`ProvisionDigest`); a byte-order mark keeps a quoted first column name
from being unquoted (`ReaderMark`); an ASN database without a name for a number
erases the name IPinfo's file gave, which the extra fields had left out as
typed (`RecordOverwritten`).

Worth knowing, though no run is violated by it.

- A record with a NaN or an infinity among its extra fields cannot be read back
  from its own JSON: serde_json writes `null`, `ExtraValueVisitor`
  (`record.rs:166-209`) has no `visit_unit`, and the error takes the whole record
  with it. `record.rs:98-99` has the wide integer as "the one value a JSON round
  trip widens", and the test at `record.rs:749-750` says "Every other kind
  survives". A coordinate that is not finite is written as `null` and read as
  absent, its leaf having been left out of the extra fields as typed; the
  test at `record.rs:644` has "An absent field is absent, not a null".
  `ReadsBackAsWritten` holds of the code because it says so, `Rereads` being
  false of exactly those records: the run `GeoRecord` reaches both cases.
- Waits. A clock set back by B makes a wait last up to B past its ceiling,
  against `cooldown.rs:82-84` ("a clock that has gone backwards must not lock a
  database out"): `WaitBounded` says by how much at most. A body whose
  container does not decode is an Io error, "failed" and not "refused", so it
  starts no wait and is fetched again at the next check.
- Two processes. `attempt` reads the stamp, and `resolve` the file's age,
  before the lock and not again under it: with two processes `HonoursWait` and
  `OncePerWindow` do not hold, a later refusal may put a shorter wait in the
  place of a longer one, and both may fetch within a source's `min_interval`.
  `PacedByItself` holds of each, of a clock that is not set back.
- Swaps. Between `readers.store` and `generation.store` a cached answer of the
  replaced set is still served to a lookup that overlaps the swap; `GeoAnswers`
  allows it, as a regular register does.
- Tables. A JSON document's rows are widened by all keys of an element before
  the ceiling is looked at, so the peak is not the multiple of the ceiling that
  `parse.rs:36-38` gives. An address and its IPv4-mapped form are two keys, and
  `get_by_address` does not know them for one, as `query.rs:95-97` says it does.
- `Table::ensure` checks its settings before it looks for a copy to fall back
  to: a bad timeout is an error with a stale copy on disk, which the doc of
  `ensure` does not allow for. `validate` covers neither a table's client nor a
  configuration with downloads off.
- A configuration written out and read again has `***REDACTED***` for
  its credentials: it passes `validate` and the provider rejects it.
- A table source whose `url` or `schema` is edited and whose `file` is kept is
  served the old copy while that is fresh. A table's file may be given the name
  of a database's.
- Records. A record with exactly `MAX_FIELDS` leaves is logged as truncated
  though nothing is lost. One file of IPinfo's in both slots gives each extra
  path twice. A typed field that does not decode drops its record's extra
  fields too, where `architecture.md:124` has "a field whose wire type the
  typed shape refused, in the map instead of lost". IPinfo's `as_domain` stays
  beside another database's number.

## 6. Not modelled, and the plan

In this order:

1. The budget of `build` in bytes, with the capacity its vectors grow by.
2. The acquiring and the looking-up half composed at the destination file.

Telemetry and the test kit stay out: they hold no state that any of these
properties depends on. A file system without locks is left out, as are two
publications of one modification time: the code has nothing to tell either by.
