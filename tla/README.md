# RustBlocker in TLA+

RustBlocker is a DNS server that blocks, allows, rewrites or forwards the
queries of a local network. This directory holds TLA+ modules of its parts, the
TLC configurations that check them, and theorems checked by the TLA+ proof
system. Paths below are relative to `src/src/` unless they start with a file of
the repository root.

Run a check with `tlc -config <run>.cfg <module>.tla`, a proof with
`tlapm <module>_proofs.tla`. `PROJECT.json` lists the runs with their module,
the lines every definition stands for, the hazards and which property covers
each of them, and for every property a mutant of the model that violates it (the
"faulty variant" operators in the modules).

## 1. The system

| Component | State | Operations | Module |
|---|---|---|---|
| Domain lists and sources (`db.rs`, `api.rs`, `sync.rs`, `main.rs`) | tables of two lists, sources, `source_domains`, `manual_domains`; one store in memory per list; `SOURCE_MUTATION_LOCK` | add, delete, import a domain; add, delete, refresh a source; periodic refresher; a mirror's replacement; reload at start | `DomainLists` |
| Domain store (`lists.rs`) | arena of names, two hash indexes, counters | insert, remove (with rebuild), merge, replace, lookup | `DomainStore`, abstract `DomainSet` |
| Replica synchronisation (`sync.rs`) | session, recorded hashes; the tables it writes | log in, manifest, snapshot, apply, record | `ReplicaSync` |
| Forwarder (`forwarder.rs`) | clients per reload, health atomics, strategy | resolve in parallel or adaptively, time out, reload | `Forwarder` |
| Request handler, ACL (`handler.rs`, `acl.rs`) | semaphore, shared settings and lists | admit, check, decide, answer | `QueryPipeline` |
| Query log (`stats.rs`) | counters, channel, batch, table | record, flush, prune, clear | `QueryPipeline` |
| Settings, upstreams, rewrites (`api.rs`, `db.rs`, `sync.rs`) | rows in SQLite and the copies the process answers from | add, delete, update, reload, the replica's categories, seeding, start | `RunningConfig` |
| Credentials (`auth.rs`, `api.rs`, `main.rs`) | hash, signing key and its copy, throttle, slots, lock | log in, change the password, reset it from the command line | `Credentials` |
| Certificates (`acme.rs`, `renewal.rs`, `cloudflare.rs`, `tls.rs`) | orders, TXT records, stored certificates, what is served | request, renew, clean up, start | `Certificates` |
| Self-update (`update.rs`, `api.rs`) | binary on disk, binary that runs | check, replace, restart | `SelfUpdate` |
| Process (`main.rs`, `api.rs`) | runs or not, restart timer | schedule, end, start | `Service`, `AdminService` |
| Acceptance runner (`bin/xtask/*.rs`) | what a run has changed on the server, what it knows, what failed | the steps of `cargo xtask mock-deploy` | `AcceptanceRun`, `AcceptanceSteps` |
| Activity log, UI, install script, benchmark | nothing other parts read | broadcast, static pages | not modelled |

**How they interact.** A request handler reads the ACL, the rewrites, the two
stores and the forwarder, each through a lock of its own; the web API and the
mirror write the same structures. Lists go to SQLite first and to the store
second, under one lock that is not held during a fetch. The forwarder is an
`Arc` a query clones when it begins. The log is fed through a bounded channel.
A restart is `process::exit`: everything that is not in SQLite is gone. Saved
listen addresses, ordered certificates and replaced binaries schedule one and
come into effect by it. The acceptance runner is a program of its own that works
on a server through HTTP, ssh and its database file.

**What is hard.** Every configuration exists twice, in the database and in
memory, and an operation writes the two one after the other while others do the
same. Work that waits (a fetch, an upstream, a master) acts afterwards on what it
read before. Errors of single statements are logged and passed over. Health is
kept in atomics that are read and written in two steps. Entries and permits
change hands between tasks that can end at any point.

**What makes a component correct.** *Lists:* a store is what its table says once
nobody is at work; a refresh or a deletion never takes what an operator added and
leaves nothing that nobody lists; the lock comes free again. *Store:* it is a set.
*Replica:* what it skips it has, and in the end it has what the master has.
*Forwarder:* it gives up only after all upstreams, asks no more than allowed at
once, and always ends. *Handler and log:* one answer from one state of the lists,
no permit lost, the log tells what was decided, once and in order. *Settings:*
what runs is what was saved. *Credentials:* no session outlives its password.
*Certificates:* no challenge record stays behind, every order ends.
*Process:* what needs a restart gets one. *Acceptance runner:* it leaves the
server as it was, or says that something failed.

## 2. The modules

### DomainLists
`listed`, `manual`, `sources`, `owned` are the tables of `db.rs`, `lastSourceId`
the AUTOINCREMENT counter, `runtime` the two stores, `lock`
`SOURCE_MUTATION_LOCK`. Each task (a request, the periodic refresher, the
mirror's loop) has a control state `pc` and a `job`. A task takes the lock,
commits one transaction, and installs the store in a later step; a refresh
fetches before it takes the lock, with any set of domains as the result.
`add_source` inserts a row and reads its id back in two statements. The mirror
replaces the sources without the lock, as `apply_sources` does, while other tasks hold
rows of the old table. `IgnoredErrors`
lets those statements fail whose errors the code drops, so that a deletion prunes
any part of what it should (`Pruned`) and a store is read back in part. A restart ends all tasks and
loads the stores from the tables. Paging, spelling of names and the text of
fetched lists are left out.

### DomainSet, DomainStore
`DomainSet` promises a set of entries (exact names and wildcards) with an answer
to each insertion, removal and lookup. `DomainStore` is the packed store: a
sequence of names that includes holes, an index from hash to places for each
kind, and the counts of live entries and dead bytes that decide when `remove`
rebuilds everything (more than a quarter holes, or nothing left). The code
inserts in a loop; `InsertAll` says what the loop builds of entries that are new to the store,
in closed form, and `LoopStart` and `LoopStep` prove that it does. A HashMap yields its names
in any order, so merges and rebuilds are taken in all orders (`InAnyOrder`).
Bytes are counted as a set, one pair of a place and a number for each, so a sum
over a set of places is a cardinality. The hash is a constant
function, so collisions are chosen. `IsASetOfEntries` states the refinement. Names beyond
65535 bytes and arenas beyond 4 GiB are left out.

### ReplicaSync
`master` is the master's content per category, `held` the replica's, `known` the
hashes recorded in this session; a poll takes a manifest, fetches the categories
whose hash differs, applies and records them. A content is a number that also is its
hash. The master changes whenever it likes; a content it had
before may return if `MasterReturns`; an apply may fail and be recorded if
`ApplyMayFail`; the replica is edited locally if `LocalEdits`. `disturbed` notes
which categories one of these touched. How an apply replaces lists is in
`DomainLists`.

### Forwarder
A query keeps the generation of clients it began with, the upstreams still
waiting in the order of their health, the attempts under way and those launched
so far. Answers, failures, hedges and the timeout come in any order. A failure
counter is read at `Answer` or `Fail` and stored at `SendResponse` or
`RecordFailure`, so concurrent queries overwrite each other. Time is counted in
`FAILURE_PENALTY_US`: failures and latencies are comparable numbers. Ranking
reads the health once. Messages, and the retry of truncated answers over TCP,
belong to an attempt.

### QueryPipeline
Each request runs through `handle_request` one lock at a time: permit, ACL,
rewrites, allowlist, blocklist, answer or forwarding. Each answer the handler makes itself is
chosen in one step and sent in a later one, since `send_response` is awaited, with
the permit in hand (`"send"`) or without one (`"overload"`); sending may fail, and `sent`
holds the requests whose answer went out. A rewritten or blocked name is recorded before
its answer is sent, so its entry stands also when nothing goes out; the forwarder sends
by itself, and the request is recorded after it returned. While a request is at
`"blocklist"` it holds the guard of the allowlist, so `SetAllow` waits.
`Record` counts and tries to send; the writer receives, batches, inserts and prunes; `history`
notes the order in which requests were recorded. `aged` is the
number of rows past the retention. The forwarder is one step, justified by
`EveryQueryAnswered` of `Forwarder`; lists are the sets of names they match,
justified by `DomainStore`, whose refinement of such a set is proved. Left out: wire format, sinkhole addresses, the live
feed, the day count behind the retention. A lookup of the rewrites or the blocklist and the
recording that follows it are one step: the handler does not wait in between.

### Service, RunningConfig, Credentials, Certificates, SelfUpdate, AdminService
`Service` is the process as its parts see it: `up`, and `restartDue` for a timer of
`schedule_restart`. The four modules of parts extend it; `AdminService` puts them
together. A part's step leaves the others alone, and `Restart` is one step
of all of them: each loses what it has in memory and reads its rows anew.

`RunningConfig`: `rulesDb`/`rulesRam`, `rowsDb`/`rowsRam`, `setDb`/`setRam` are
the rewrites, the upstreams and the settings, as stored and as running. A process is one
request or one category of the replica's task, with a control state
`stage` and, in `change`, what it is going to install. It commits in one step and
installs in a later one, as the handlers do; a change of upstreams has a third
between, the reading of `reload_forwarder`. `INSERT OR IGNORE`, unparsable
addresses, values the parser refuses, failed readings that count as empty, the
seeding of an empty table (also by `--genpass`) and listen settings with which the start
fails are all steps of the code. `apart` is history: the copies that an overlap,
a value without effect or a failed reading may have left different since the
start. It says exactly when the code does not keep them equal: crossed changes of one copy,
a rewrite added for a known name, readings of the upstreams that overtake each other. These hazards
happen, and no property excludes them; `CopiesAgree` is about everything else, where
an installation, a reload, a restart that is due, or a start must bring what was stored into effect.

`Credentials`: `hash` and `keyDb` are rows, `keyRam` the key the process
verifies sessions with. A login checks the throttle, takes a slot, waits
for the credential lock, verifies, signs, and records the outcome after it has left both.
A change holds the lock from verification to the new key, between its commit and its key other
handlers verify sessions with the old one. A reset is another process: it writes the hash,
reads it back, writes the key, and can be cut off in between. A success clears the failures other
logins recorded meanwhile; `ThrottleBound` limits what is counted, not how often it is cleared. Passwords and
keys are numbers given out once. `overtaken` is history: keys in force when
a reset replaced the hash.

`Certificates`: an order goes from `"placed"` over `"waiting"` (record made, not
announced) to `"finalized"`, `"issued"`, `"stored"`; a record is announced
and its deletion spawned in `SetReady`; the two polls count pending answers to
`MaxPolls` (30 in the code, 1 in the run). The renewal task works through `toRenew`; only a request schedules a
restart. `excused` is history: records whose order, deletion or process failed. Such records
do stay behind; `RecordsHaveAKeeper` is about the others, one or two of an order.

`SelfUpdate`: the binary on disk and the one that runs.

### AcceptanceRun, AcceptanceSteps
A step of `mock-deploy` is a sequence of calls, and closing calls that are made
also when the step gives up. What matters of a call is a record: what it makes different on
the server or puts back, what its answer teaches (the id of a row to delete
later), when it is made, and how the code reacts to a wrong answer and to none: go on,
note a failure and go on, close the step, return from it, or end the run (`?`).
`AcceptanceRun` executes such scripts with up to `MaxFaults` calls failing
anywhere; a call without answer had its effect or had not. Calls also fail because
of the state: the service is stopped, triggers refuse inserts, an audit finds leftovers.
Whatever ends the run, `restore_slave_mode` follows and
the exit code is computed. `AcceptanceSteps` gives the script, one definition per function of
the tool, for a standalone server and for a replica. What the text of a
script says by itself of a thing it changes (`Watched`) is defined at the end of
`AcceptanceRun`, for the proofs.

## 3. Runs

| Run | Instance | Shows |
|---|---|---|
| `lists_standalone` | 1 list, 2 domains, 2 URLs, a request task and the refresher | stores follow tables, no unowned domain, manual domains stay, a refresh keeps its share |
| `lists_replica` | 1 list, 1 domain, 2 URLs, 3 ids, a request task and the mirror, ignored errors | the inductive invariant, the store within its table, an id a task has read never names another source, no wait for ever |
| `lists_two_types` (violation) | 2 lists, 2 URLs, 1 task | finding 1 |
| `lists_deleted_source` (violation) | 1 list, 1 URL, 2 tasks | finding 2 |
| `store_is_a_set` | 2 colliding names, one below the other, exact and wildcard | the refinement, lookup, counters |
| `sync_mirrors` | 2 categories, contents 0..1 and a foreign one | what is skipped is held, quiet categories are mirrored, sessions repair |
| `sync_failed_apply` (violation) | the same, without edits and returns | finding 3 |
| `forwarder_fan_out` | 1 query, 3 upstreams, 1 reload, at most 2 attempts | bounded fan-out, nothing forgotten, gives up last, always ends |
| `forwarder_health` | 2 queries, 2 upstreams | counters in range, a failing upstream is demoted |
| `query_pipeline` | 3 requests, 2 permits, channel of 1, batch of 2, 1 change, 1 restart | permits, counters, log order, entries tell the decision and precede the answers made here, one state decides, entries leave memory |
| `admin_service` | 2 editors, the mirror, 2 logins, a change, a reset, a requested and a renewal order, an update, in overlapping pairs | running copies are the stored ones, throttle, sessions, records have a keeper, orders end, changes take effect |
| `acceptance_run` | all 50 steps, 2 targets, 2 faults | slave mode comes back, exit code 0 speaks true |

**Why the bounds are enough.** In the lists a conflict needs two tasks at one
table, and an ownership conflict two sources and, across lists, one domain: each
run has what its properties are about (two lists in `lists_two_types` only, where they meet in the lock and in
`owned`; the theorems, except `ListedDomainsAreOwned`, hold for any number of lists), and the tasks repeat without
bound; only ids are bounded (`MaxSourceId`), and a state at the bound only adds
no further source. The store needs two entries with one hash and enough inserts
and removals to cross the rebuild threshold: sizes 3 and 12 make some removals
cross it and others not. A poll compares one hash at a time, so
two categories show one that is skipped while another is fetched. Three
upstreams against two slots leave one waiting. For health two queries suffice to
overwrite each other; `MaxFailures` (2) exceeds `MaxLatency` (1) as in the
code, where 16 failures weigh 8 s against the 5 s timeout. In the pipeline a
batch of 2 over a channel of 1 reaches full and empty channel, a flush by size
and by interval; three requests over two permits run side by side and meet an
exhausted semaphore: one asks for a type that has no sinkhole address, one has no question,
one comes from a client an ACL may leave out, with or without class IN. One change suffices to
come between two reads. Domains and request tasks
are symmetric in the two runs without liveness that say so.

In `admin_service` the parts share nothing but the restart, so a workload
(`WorkloadsDef`) activates those that can meet: two requests on one configuration (or one and the replica,
or one and a reset), two logins over one slot from three addresses and a throttle of 2 failures and 1
client, a login beside a change and a reset, an order beside a renewal of the
same domain, an update beside another reason to restart. One setting needs
a restart and one is the forwarder's; of their three values one cannot be bound.
Two faults in an acceptance run are a failing call and a failing repair;
with three, a failed reading of the rewrites hides what a failed deletion left,
which is the code's way to treat a failed reading and the reason for the bound.

`query_pipeline`, `admin_service` and `acceptance_run` do not check for deadlock:
once requests are done and the bounds are used up, the run has ended, or a start has failed, the system may rest.

**Fairness.** `DomainLists`: a task that has the lock goes on (it runs local SQL),
a task that waits gets the lock in turn (tokio's mutex is first come, first
served); nothing is assumed of a fetch, which has no timeout. `ReplicaSync`:
local steps are weakly fair; logging in, fetching a manifest and fetching a
snapshot are strongly fair, since the loop asks for ever with a 30 s timeout and
a master that is asked again and again is assumed to answer now and then; the
apply of each category is strongly fair too, so that it does not fail each time.
`Forwarder`: the timeout and the steps a query does by itself are weakly fair,
nothing is assumed of an upstream. `QueryPipeline`: receiving, the interval, and
the database task are weakly fair (`select!` serves both branches; a database
call returns); nothing is assumed of requests. `AdminSpec`: a timer that is set
goes off (`tokio::time::sleep`), and of the handlers and tasks that were begun
something goes on: calls of the database return, those of Cloudflare time out
after 30 s, and those of the ACME directory, for which the code sets no timeout,
are assumed to end (answers may be pending or errors for ever); nothing is assumed of the renewal task's rounds, of edits or of unasked restarts, and
an end of the process whose start fails excuses everything after it.

## 4. Findings

1. `lists_two_types`: `source_domains` has no list type, so a domain that one
   source put into the blocklist survives there because another source owns it
   in the allowlist, and later has no owner and is never pruned (`db.rs:1080`
   against the comment at `db.rs:974`).
2. `lists_deleted_source`: a source that is deleted while its refresh fetches
   comes back as ownership rows and domains of a source that does not exist
   (`db.rs:1118` against `db.rs:849`).
3. `sync_failed_apply`: an apply that fails is recorded as applied, and the
   category is skipped until the master changes it or the session ends
   (`sync.rs:164` against `README.md:69`). `SessionsRepair` shows that new
   sessions do heal it.

Seen while modelling, and promised otherwise nowhere precise enough for a run:

- Clearing the statistics leaves entries in channel and batch that appear in the
  table afterwards; a name that moves from a block to a rewrite between a request's two
  readings meets neither.
- A rewrite added for a known name is ignored by the table and overwrites the running
  map until the next start. The replica stores sinkhole addresses, blocking mode
  and retention without installing them. A new upstream timeout reaches
  the limit of a whole query at once and the clients' own at the next
  reload or start only. `log_level` is stored and never read.
- A deleted last upstream comes back as the seeded one at the next start, or when
  `--genpass` opens the database.
- An IPv6 listen address, or a port the start cannot bind, passes the validation and ends the service at the scheduled
  restart.
- An order that succeeds restarts the process 3 s later, so the tasks that would
  delete its TXT records after 60 s are usually lost: `RecordsHaveAKeeper` holds with the
  restart as an excuse. A renewed certificate is served from the next start, which nothing schedules.
- A reset of the password cut off between its two writes leaves sessions
  of the old password valid.
- An acceptance run always leaves some things: the `manual_domains` rows of its imports
  (`cleanup_blocklist_sqlite` deletes only `blocklist_domains`), the files and
  entries of the baselines' closing calls when these fail unnoticed, an HTTPS
  configuration, and the blocking mode: `block_response_modes` never reads the mode there was
and ends with null_ip, while the default is NXDOMAIN (`Unchecked` in `AcceptanceSteps` lists all of
them; exit code 0 says nothing of these). If the settings could not be read, the strategy
  and the hedge delay are "restored" to defaults.

## 5. Proofs

All theorems hold for every value of the constants that satisfies the named
assumptions of the module (finite sets where a cardinality is taken, positive
capacities, distinct marker values).

- `DomainLists_proofs`: `TypeCorrect`, `StoresMatchTables`,
  `StoresWithinTables`, `ManualDomainsSurvive`, `RefreshesRetainShare` and `IdsAlwaysKeepTheirUrl`. That a store equals its table is not inductive: between commit
  and installation it is false. The invariant adds that a task past its acquisition
  *is* the holder of the lock (`LockHeld`), and that store and table differ only
  by what the holder is about to install (`StoreFollowsTable`). With it each
  action concerns at most the holder's list. Hand-made domains survive because the two
  prunes leave manual marks alone and everything else that shrinks a table
  holds the lock. That a deletion takes all a source owned needs that ids of sources are
  never given twice (`SourceIdsUnique`); with ids that only grow (`RowsAreKnown`), a row a task
has read before the mirror replaced the table is gone, not another.

  `ListedDomainsAreOwned` proves `EveryListedDomainIsOwned` for one list type, no
  mirror, and no statement whose error is dropped; with two types it is false (finding 1).
  A deletion and a refresh remove what they disown in the transaction that disowns
  it (`DeletionPrunes`, `RefreshPrunes`), and what is added to the list gets its
  mark or owner in the same commit.
- `DomainStore_proofs`: `StoreIsSound`, `StoreTypes`, `LookupsAreTrue`, `CountersStayTrue`, and
  the refinement `StoreIsASet`, for any finite set of names, any hash and sizes from one byte
  to the longest a u16 length can tell. The
  invariant (`Sound`) says of a store that each indexed place lies in the arena under the hash of its
  name, that an index has no name twice and no place is in both (`Filed`), that counts are
  cardinalities (`Counted`), and that dead bytes and reachable bytes make up the
  arena (`BytesAddUp`). A removal frees at most one place, which stops
  being reachable as its bytes are counted dead; a rebuild is an insertion of all
  entries into the empty store. That holes never pass a quarter
  is kept by insertions, which grow the arena, and restored by the rebuild.
- `ReplicaSync_proofs`: `NeverOlderThanRecorded` and `SkipsOnlyWhatIsHeld`.
  For an undisturbed category the recorded hash, what is held, the manifest, the
  snapshot in hand and the master's content stand in this order of age
  (`FetchedAfterHashed`, the inductive form, which is proved and not checked by a run), because a snapshot is taken after its manifest. Equality of the two ends then squeezes what is
  between; the latter theorem follows.
- `Forwarder_proofs`: `FanOut`, `HealthStaysInRange`, `GivesUpOnlyAfterAll`. A
  waiting query's upstreams are split into waiting and launched
  (`NoneForgotten`), and at least one attempt is under way (`FanOutBounded`).
  A query that gives up has nothing waiting, hence has launched all.
- `QueryPipeline_proofs`: `PermitsConserved`, `OneStateDecides`, `PipelineTypes`,
  `CountersTell`, `LogIsTrue`, `LogIsOrdered`. The
  set of requests between admission and return grows and shrinks by one with the
  permits. A request at the blocklist found no match in an allowlist that no
  write can have touched since (`ReadersSawNoMatch`), so the verdict at that
  moment is the verdict of both lists.

  `CountersAreTrue` follows from what each control state says of decision and
  reply (`RequestsMatch`): every action then moves one request into at most one of the counted sets.

  For the log, table, database task, batch and channel are one sequence
  (`Pipeline`). Receiving and flushing leave it as it is, everything that loses
  entries leaves a part of it in its order (`Within`), and recording adds at its end a
  request that is not in `history` yet, since only requests that are settled
  are there (`OnlySettledRecorded`); `LogMatches` says so of positions in
  `history`, without the CHOOSE of `LogKeepsOrder`. `LogIsTrue` has two halves: an entry has the action that
was decided and the kind of answer that was made, sent or not (`EntriesTellTheAnswer`), and a rewritten or blocked answer that went out was
recorded before (`AnswersAreRecorded`, from `DecidedAreRecorded`: from its decision on such a request is in `history`).
- `AcceptanceRun_proofs`: `TypesAreKept` and `SlaveModeAlwaysComesBack`, for every script
  whose calls are careful about the slave mode (the assumption `ScriptAssumption`,
  which TLC evaluates on the real script). The invariant relates slave mode, knowledge and place: while
  the run goes on a suspended slave mode is known; it can be unknown
  only after the suspension itself ended the run.

  `WatchedThingsArePutBack` reads off the text of any script what exit code 0 promises, for any number of failing
  calls. A thing is `Watched` if each call that changes it tells so, and behind it stands
  either a call that `Settles` it (whatever its outcome, the thing is gone or a failure is noted), or
  more calls that `Hinder` it (they can be passed only by a fault) than may fail.
  The invariant `Accounted` explains what is left: as long as no
  failure is noted, it was put at a place behind the run since which nothing
  settled it and each hindrance cost a fault. `CleanAtExitZero`, the property
  `ExitZeroIsClean`, follows for the steps of mock-deploy from the assumption
  `StepsAreWatched`, a condition on their text that TLC evaluates. With three faults it is
  false of one thing: the rewrite of `dns_burst`, whose removal and two audits
  all pass over a missing answer.
- `AdminParts_proofs`, of the parts by themselves: `ConfigHolds` (`RunningConfig`) and `CredentialsHold` (`Credentials`). Agreement is not inductive: two requests
  may be between commit and installation. The invariant adds that what a process
  holds of a copy that is not `apart` is what the database holds
  (`HeldIsStored`), so that whoever installs last installs what is
  stored; a process that overtakes another puts the copy `apart` in its commit.

  For the throttle each login under way
  is counted as a failure still to come (`ThrottleInvariant`): a check that passes leaves room for
  all logins that run at once. For the sessions `KeyInvariant` says that keys given out
  are never given out again, and that only the holder of the lock has a
  key that no session knows yet.
- `AdminService_proofs`: `AdminHolds` and, from it, `AdminTypes`,
  `RunningIsStored`, `ThrottleHolds`, `SessionsFollowPassword`, `RecordsAreKept`.
  A step of the process is a step of one part and leaves
  the others alone, up to the restart timer, or is the common restart
  (`AdminCredStep`, `AdminConfigStep`); so the parts' own invariants carry over, and that of the certificates is proved here.
  An order that has not begun has no records, one with nothing waiting has
  announced all it made (`RecordsInvariant`).

Further theorems of invariants the runs check: `Invariance` (lists),
`SyncTypes`, `NoUpstreamForgotten`.

**Only model-checked.** Liveness (`WaitingTasksFinish`, `QuietCategoryMirrored`,
`SessionsRepair`, `EveryQueryAnswered`, `FailingIsDemoted`,
`EntriesLeaveMemory`, `OrdersEnd`, `ChangesTakeEffect`) and everything with ENABLED, which the proof system does not
support. `EveryListedDomainIsOwned` is proved under the
hypotheses of the run that checks it (one list type, no mirror, no dropped error). No other invariant or action
property of a passing run is without a theorem.

## 6. What is not modelled

Parsing and formatting (DNS messages, CIDR, list files, certificates, feeds), HTTP
status codes and pages, the live feeds of queries and activities (lossy by
design, read by nobody in the service), the statistics queries (reads), sockets, signals and
command line, the install script and the benchmark client. The ACME directory, Cloudflare's API and the
feed of releases are external services. Of the acceptance runner: what it measures, its reports,
and the options that leave out steps. The sync configuration, four writes
whose errors are only logged, is read at a start and has no copy to differ from. Cancellation of API handlers by the HTTP framework is not
modelled: it could release the mutation lock while database work goes on
(`api.rs:137`), but whether the framework drops a handler is not in this repository.

## 7. Plan

Done: all parts of section 1 but the last row, each with runs and proofs. Next, in this order:

1. Composition: `QueryPipeline` with the stores of `DomainLists` in place of its
   sets, through a refinement mapping of `block` and `allow` to `runtime`.
2. A refinement of one register per setting, for requests that do not overlap.
