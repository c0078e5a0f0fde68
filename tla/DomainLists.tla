----------------------------- MODULE DomainLists -----------------------------
(***************************************************************************)
(* The block and allow lists of RustBlocker: the SQLite tables that hold   *)
(* them (db.rs), the two in-memory stores the DNS handler consults         *)
(* (lists.rs), and the tasks that change both: requests of the REST API    *)
(* (api.rs), the ten-minute refresher of the sources (main.rs) and the     *)
(* task that mirrors a primary (sync.rs).                                  *)
(*                                                                         *)
(* A task that changes a list takes SOURCE_MUTATION_LOCK, commits a        *)
(* transaction, then changes the store, then drops the lock.  Everything   *)
(* it learned before it took the lock (the row of a source, the content it *)
(* fetched) may be out of date when it commits.                            *)
(*                                                                         *)
(* A domain is a member of Domains: parsing and normalisation happen       *)
(* before a domain reaches this module.  A list type other than            *)
(* "allowlist" is the blocklist everywhere in the code, so Lists holds the *)
(* list types after that reading.  The status text and the time of the     *)
(* last refresh of a source are left out; "stale" is any set of sources.   *)
(***************************************************************************)
EXTENDS Integers, FiniteSets

CONSTANTS
    Lists,              \* list types: the blocklist and the allowlist
    Domains,            \* names and wildcards a list may hold
    Urls,               \* addresses of subscribed sources
    Tasks,              \* concurrent requests and background tasks
    Refreshers,         \* the tasks that are the periodic refresher
    SyncTasks,          \* the tasks that mirror a primary; {} when stand-alone
    MaxSourceId,        \* bound on the ids AUTOINCREMENT hands out
    MinSourceDomains,   \* fewest usable domains in a fetched list
    MinRetainedPercent, \* smallest share of a source a refresh may keep
    IgnoredErrors,      \* TRUE: a statement whose error is discarded may fail
    NoTask              \* the lock is free

ASSUME SetsAssumption ==
    /\ NoTask \notin Tasks
    /\ Refreshers \subseteq Tasks
    /\ SyncTasks \subseteq Tasks
    /\ Lists # {}
    /\ IsFiniteSet(Domains)

ASSUME BoundsAssumption ==
    /\ MaxSourceId \in Nat
    /\ MinSourceDomains \in Nat
    /\ MinRetainedPercent \in Nat
    /\ IgnoredErrors \in BOOLEAN

VARIABLES
    listed,       \* tables blocklist_domains and allowlist_domains
    manual,       \* table manual_domains
    sources,      \* table sources
    owned,        \* table source_domains: pairs <<source id, domain>>
    lastSourceId, \* last id given to a row of sources
    runtime,      \* BlocklistStore and AllowlistStore
    lock,         \* holder of SOURCE_MUTATION_LOCK
    pc,           \* control state of each task
    job           \* what each task is doing

database == <<listed, manual, sources, owned, lastSourceId>>
vars == <<listed, manual, sources, owned, lastSourceId, runtime, lock, pc, job>>

SourceId == 0 .. MaxSourceId   \* 0 stands for "no row found", as in add_source
SourceRow == [id : SourceId, url : Urls, list : Lists]
Operation == {"none", "insert", "remove", "deleteSource", "refresh", "sync"}

(* domains: what the request or the fetched content names; once the        *)
(* transaction committed, what the store is to receive.  rows: the sources *)
(* still to be refreshed, as they were read when the task began.           *)
Job == [op : Operation, list : Lists, id : SourceId,
        domains : SUBSET Domains, rows : SUBSET SourceRow]

NoJob == [op |-> "none", list |-> CHOOSE l \in Lists : TRUE, id |-> 0,
          domains |-> {}, rows |-> {}]

TypeOK ==
    /\ listed \in [Lists -> SUBSET Domains]
    /\ manual \in [Lists -> SUBSET Domains]
    /\ sources \subseteq SourceRow
    /\ owned \subseteq SourceId \X Domains
    /\ lastSourceId \in SourceId
    /\ runtime \in [Lists -> SUBSET Domains]
    /\ lock \in Tasks \cup {NoTask}
    /\ pc \in [Tasks -> {"idle", "lookup", "fetching", "queued", "holding",
                         "installing"}]
    /\ job \in [Tasks -> Job]

Init ==
    /\ listed = [l \in Lists |-> {}]
    /\ manual = [l \in Lists |-> {}]
    /\ sources = {}
    /\ owned = {}
    /\ lastSourceId = 0
    /\ runtime = [l \in Lists |-> {}]
    /\ lock = NoTask
    /\ pc = [t \in Tasks |-> "idle"]
    /\ job = [t \in Tasks |-> NoJob]

-----------------------------------------------------------------------------
(* Requests.  Each starts in an idle task and waits for the lock.          *)

Enqueue(t, op, l, id, D) ==
    /\ pc[t] = "idle"
    /\ pc' = [pc EXCEPT ![t] = "queued"]
    /\ job' = [job EXCEPT ![t] = [NoJob EXCEPT !.op = op, !.list = l, !.id = id,
                                               !.domains = D]]
    /\ UNCHANGED <<database, runtime, lock>>

AddDomain(t, l, d) ==
    /\ t \notin SyncTasks \cup Refreshers
    /\ Enqueue(t, "insert", l, 0, {d})

(* The content was fetched or uploaded before the lock is asked for.       *)
BulkImport(t, l, D) ==
    /\ t \notin SyncTasks \cup Refreshers
    /\ Enqueue(t, "insert", l, 0, D)

DeleteDomain(t, l, d) ==
    /\ t \notin SyncTasks \cup Refreshers
    /\ Enqueue(t, "remove", l, 0, {d})

DeleteSource(t, id) ==
    /\ t \notin SyncTasks \cup Refreshers
    /\ Enqueue(t, "deleteSource", NoJob.list, id, {})

(* The replica applies a snapshot of one list of its primary.              *)
SyncDomains(t, l, D) ==
    /\ t \in SyncTasks
    /\ Enqueue(t, "sync", l, 0, D)

-----------------------------------------------------------------------------
(* Sources.  None of these steps takes the lock.                           *)

(* add_source inserts the row unless the url is known, whatever list type  *)
(* the known row has; the request's own list type is kept for the refresh. *)
AddSource(t, u, l) ==
    /\ t \notin SyncTasks \cup Refreshers
    /\ pc[t] = "idle"
    /\ IF \E s \in sources : s.url = u
       THEN UNCHANGED <<sources, lastSourceId>>
       ELSE /\ lastSourceId < MaxSourceId
            /\ lastSourceId' = lastSourceId + 1
            /\ sources' = sources \cup {[id |-> lastSourceId + 1, url |-> u, list |-> l]}
    /\ pc' = [pc EXCEPT ![t] = "lookup"]
    /\ job' = [job EXCEPT ![t] = [NoJob EXCEPT !.rows = {[id |-> 0, url |-> u, list |-> l]}]]
    /\ UNCHANGED <<listed, manual, owned, runtime, lock>>

(* ... and reads the id of the url back in a statement of its own, with 0  *)
(* standing in when the row is gone.                                       *)
LookUpSource(t) ==
    /\ pc[t] = "lookup"
    /\ \E r \in job[t].rows, id \in SourceId :
        /\ \/ \E s \in sources : s.url = r.url /\ s.id = id
           \/ (\A s \in sources : s.url # r.url) /\ id = 0
        /\ job' = [job EXCEPT ![t].rows = {[r EXCEPT !.id = id]}]
    /\ pc' = [pc EXCEPT ![t] = "fetching"]
    /\ UNCHANGED <<database, runtime, lock>>

(* A refresh works on the rows it reads here, however long it takes.       *)
BeginRefresh(t, rows) ==
    /\ pc[t] = "idle"
    /\ rows # {}
    /\ pc' = [pc EXCEPT ![t] = "fetching"]
    /\ job' = [job EXCEPT ![t] = [NoJob EXCEPT !.rows = rows]]
    /\ UNCHANGED <<database, runtime, lock>>

RefreshOneSource(t, id) ==
    /\ t \notin SyncTasks \cup Refreshers
    /\ BeginRefresh(t, {s \in sources : s.id = id})

RefreshAllSources(t) ==
    /\ t \notin SyncTasks \cup Refreshers
    /\ BeginRefresh(t, sources)

RefreshStaleSources(t) ==
    /\ t \in Refreshers
    /\ \E rows \in SUBSET sources : BeginRefresh(t, rows)

(* The source refreshed next: the rows were read ORDER BY id.              *)
IsCurrent(r, rows) == r \in rows /\ \A s \in rows : r.id <= s.id

(* The task is through with one source and turns to the next one.          *)
Proceed(t, rows) ==
    /\ pc' = [pc EXCEPT ![t] = IF rows = {} THEN "idle" ELSE "fetching"]
    /\ job' = [job EXCEPT ![t] = [NoJob EXCEPT !.rows = rows]]

FetchContent(t, D) ==
    /\ pc[t] = "fetching"
    /\ \E r \in job[t].rows :
        /\ IsCurrent(r, job[t].rows)
        /\ job' = [job EXCEPT ![t] = [op |-> "refresh", list |-> r.list, id |-> r.id,
                                      domains |-> D, rows |-> job[t].rows \ {r}]]
    /\ pc' = [pc EXCEPT ![t] = "queued"]
    /\ UNCHANGED <<database, runtime, lock>>

FetchFails(t) ==
    /\ pc[t] = "fetching"
    /\ \E r \in job[t].rows :
        /\ IsCurrent(r, job[t].rows)
        /\ Proceed(t, job[t].rows \ {r})
    /\ UNCHANGED <<database, runtime, lock>>

(* Faulty variant: ids start from 1 again in the emptied table.            *)
SyncSourcesRenumbered(t) ==
    /\ t \in SyncTasks
    /\ pc[t] = "idle"
    /\ \E n \in 0 .. MaxSourceId :
        \E items \in [1 .. n -> [url : Urls, list : Lists]] :
            /\ \A i, j \in 1 .. n : items[i].url = items[j].url => i = j
            /\ sources' = {[id |-> i, url |-> items[i].url, list |-> items[i].list] :
                              i \in 1 .. n}
            /\ lastSourceId' = n
    /\ UNCHANGED <<listed, manual, owned, runtime, lock, pc, job>>

(* The replica replaces the whole table of sources by the primary's: every *)
(* row gets a new id.  This step does not wait for the lock.               *)
SyncSources(t) ==
    /\ t \in SyncTasks
    /\ pc[t] = "idle"
    /\ \E n \in 0 .. MaxSourceId - lastSourceId :
        \E items \in [1 .. n -> [url : Urls, list : Lists]] :
            /\ \A i, j \in 1 .. n : items[i].url = items[j].url => i = j
            /\ sources' = {[id |-> lastSourceId + i, url |-> items[i].url,
                            list |-> items[i].list] : i \in 1 .. n}
            /\ lastSourceId' = lastSourceId + n
    /\ UNCHANGED <<listed, manual, owned, runtime, lock, pc, job>>

-----------------------------------------------------------------------------
(* The lock, the transactions made under it, and the change of the store.  *)

(* Faulty variant: the lock is not waited for.                             *)
AcquireUnguarded(t) ==
    /\ pc[t] = "queued"
    /\ lock' = t
    /\ pc' = [pc EXCEPT ![t] = "holding"]
    /\ UNCHANGED <<database, runtime, job>>

Acquire(t) ==
    /\ pc[t] = "queued"
    /\ lock = NoTask
    /\ lock' = t
    /\ pc' = [pc EXCEPT ![t] = "holding"]
    /\ UNCHANGED <<database, runtime, job>>

(* Faulty variant: an early return that keeps the lock.                    *)
AbandonLocked(t) ==
    /\ Proceed(t, job[t].rows)
    /\ UNCHANGED <<database, runtime, lock>>

(* The task returns without a committed change: the transaction failed and *)
(* rolled back, the row was not found, or the content was refused.         *)
Abandon(t) ==
    /\ lock' = NoTask
    /\ Proceed(t, job[t].rows)
    /\ UNCHANGED <<database, runtime>>

(* The transaction committed; D is what the store is to receive.           *)
Committed(t, l, D) ==
    /\ pc' = [pc EXCEPT ![t] = "installing"]
    /\ job' = [job EXCEPT ![t].list = l, ![t].domains = D]
    /\ UNCHANGED <<runtime, lock>>

Holds(t, op) == pc[t] = "holding" /\ job[t].op = op

CommitInsert(t) ==
    /\ Holds(t, "insert")
    /\ LET l == job[t].list IN
        /\ listed' = [listed EXCEPT ![l] = @ \cup job[t].domains]
        /\ manual' = [manual EXCEPT ![l] = @ \cup job[t].domains]
        /\ Committed(t, l, job[t].domains)
    /\ UNCHANGED <<sources, owned, lastSourceId>>

(* Two statements without a transaction: the manual mark stays behind when *)
(* the second one fails, which the code ignores, or never runs.            *)
CommitRemove(t) ==
    /\ Holds(t, "remove")
    /\ LET l == job[t].list IN
        /\ job[t].domains \subseteq listed[l]
        /\ listed' = [listed EXCEPT ![l] = @ \ job[t].domains]
        /\ \/ manual' = [manual EXCEPT ![l] = @ \ job[t].domains]
           \/ UNCHANGED manual
        /\ Committed(t, l, job[t].domains)
    /\ UNCHANGED <<sources, owned, lastSourceId>>

(* Faulty variants of the prune: ownership read before it was replaced, and *)
(* the manual marks not looked at.                                         *)
UnreferencedBefore(old, ownership, l) ==
    {d \in old : d \notin manual[l] /\ \A o \in owned : o[2] # d}

UnreferencedAnyway(old, ownership, l) == {d \in old : \A o \in ownership : o[2] # d}

(* Domains of old that the prune statement deletes from list l: no source  *)
(* owns them, of whatever list type, and they are not manual in l.         *)
Unreferenced(old, ownership, l) ==
    {d \in old : d \notin manual[l] /\ \A o \in ownership : o[2] # d}

OwnedBy(id) == {d \in Domains : <<id, d>> \in owned}

(* The store rebuilt from the table; a failed read leaves it incomplete.   *)
ReadBack(table) == IF IgnoredErrors THEN SUBSET table ELSE {table}

(* What a prune takes off the list.  The domains the source owned are      *)
(* written to the table the prune reads one by one, and an error of any of *)
(* these statements is discarded: what was not written is not pruned.      *)
Pruned(unlisted) == IF IgnoredErrors THEN SUBSET unlisted ELSE {unlisted}

CommitDeleteSource(t) ==
    /\ Holds(t, "deleteSource")
    /\ \E s \in sources :
        /\ s.id = job[t].id
        /\ sources' = sources \ {s}
        /\ owned' = {o \in owned : o[1] # s.id}
        /\ \E gone \in Pruned(Unreferenced(OwnedBy(s.id), owned', s.list)) :
              listed' = [listed EXCEPT ![s.list] = @ \ gone]
        /\ \E rebuilt \in ReadBack(listed'[s.list]) : Committed(t, s.list, rebuilt)
    /\ UNCHANGED <<manual, lastSourceId>>

(* Faulty variant: the percentage applied to the wrong side.               *)
SuspiciousSwapped(previous, content) ==
    \/ Cardinality(content) < MinSourceDomains
    \/ /\ Cardinality(previous) >= MinSourceDomains
       /\ Cardinality(previous) * 100 < Cardinality(content) * MinRetainedPercent

(* Content a refresh refuses: too few usable domains, or far fewer than    *)
(* the source had.                                                         *)
Suspicious(previous, content) ==
    \/ Cardinality(content) < MinSourceDomains
    \/ /\ Cardinality(previous) >= MinSourceDomains
       /\ Cardinality(content) * 100 < Cardinality(previous) * MinRetainedPercent

(* The row of the source is not read again: it may be gone by now.         *)
CommitRefresh(t) ==
    /\ Holds(t, "refresh")
    /\ LET id == job[t].id
           l == job[t].list
           content == job[t].domains
       IN  /\ ~Suspicious(OwnedBy(id), content)
           /\ owned' = {o \in owned : o[1] # id} \cup ({id} \X content)
           /\ listed' = [listed EXCEPT ![l] =
                            (@ \cup content) \ Unreferenced(OwnedBy(id), owned', l)]
           /\ \E rebuilt \in ReadBack(listed'[l]) : Committed(t, l, rebuilt)
    /\ UNCHANGED <<manual, sources, lastSourceId>>

CommitSync(t) ==
    /\ Holds(t, "sync")
    /\ listed' = [listed EXCEPT ![job[t].list] = job[t].domains]
    /\ Committed(t, job[t].list, job[t].domains)
    /\ UNCHANGED <<manual, sources, owned, lastSourceId>>

(* Refused content, an unknown row, or a transaction that rolled back.     *)
GiveUp(t) ==
    /\ pc[t] = "holding"
    /\ Abandon(t)

(* Faulty variants: an import stored as a single entry, a snapshot merged  *)
(* into the store, a deletion that leaves the store alone.                 *)
InstalledUnsplit(j, store) ==
    IF j.op = "insert" THEN store \cup {j.domains} ELSE j.domains

InstalledMerged(j, store) ==
    IF j.op = "remove" THEN store \ j.domains ELSE store \cup j.domains

InstalledLate(j, store) ==
    CASE j.op = "insert" -> store \cup j.domains
      [] j.op = "remove" -> store
      [] OTHER           -> j.domains

(* What the store of the job's list holds after the job's change.          *)
Installed(j, store) ==
    CASE j.op = "insert" -> store \cup j.domains
      [] j.op = "remove" -> store \ j.domains
      [] OTHER           -> j.domains

Install(t) ==
    /\ pc[t] = "installing"
    /\ runtime' = [runtime EXCEPT ![job[t].list] = Installed(job[t], @)]
    /\ lock' = NoTask
    /\ Proceed(t, job[t].rows)
    /\ UNCHANGED database

(* The process ends, at any point, and starts again: it loads both stores  *)
(* before it serves anything.                                              *)
Restart ==
    /\ runtime' = listed
    /\ lock' = NoTask
    /\ pc' = [t \in Tasks |-> "idle"]
    /\ job' = [t \in Tasks |-> NoJob]
    /\ UNCHANGED database

-----------------------------------------------------------------------------

Request(t) ==
    \/ \E l \in Lists, d \in Domains : AddDomain(t, l, d) \/ DeleteDomain(t, l, d)
    \/ \E l \in Lists, D \in SUBSET Domains : BulkImport(t, l, D) \/ SyncDomains(t, l, D)
    \/ \E id \in SourceId : DeleteSource(t, id) \/ RefreshOneSource(t, id)
    \/ \E u \in Urls, l \in Lists : AddSource(t, u, l)
    \/ RefreshAllSources(t)
    \/ RefreshStaleSources(t)
    \/ SyncSources(t)

Fetch(t) == FetchFails(t) \/ \E D \in SUBSET Domains : FetchContent(t, D)

UnderLock(t) ==
    \/ CommitInsert(t)
    \/ CommitRemove(t)
    \/ CommitDeleteSource(t)
    \/ CommitRefresh(t)
    \/ CommitSync(t)
    \/ GiveUp(t)
    \/ Install(t)

Next ==
    \/ \E t \in Tasks : Request(t) \/ LookUpSource(t) \/ Fetch(t) \/ Acquire(t) \/ UnderLock(t)
    \/ Restart

Spec == Init /\ [][Next]_vars

(* A database call returns and so does the change of a store, and tokio's  *)
(* mutex is granted in the order it was asked for, so no waiting task is   *)
(* passed over for ever.  Nothing is assumed of a fetch: fetch_source sets *)
(* no timeout, so a server may keep a task in "fetching" for ever.         *)
Fairness ==
    \A t \in Tasks :
        /\ WF_vars(LookUpSource(t))
        /\ WF_vars(UnderLock(t))
        /\ SF_vars(Acquire(t))

FairSpec == Spec /\ Fairness

-----------------------------------------------------------------------------
(* Properties                                                              *)

(* The list whose store is about to change: its transaction committed and  *)
(* the holder of the lock has not updated the store yet.                   *)
BeingInstalled(l) == \E t \in Tasks : pc[t] = "installing" /\ job[t].list = l

(* The lock serializes every change of a list table with the change of its *)
(* store (db.rs, SOURCE_MUTATION_LOCK): whatever requests, refreshes and   *)
(* restarts interleave, a store differs from its table only while the task *)
(* that committed the difference still holds the lock.                     *)
RuntimeMatchesDb ==
    ~IgnoredErrors => \A l \in Lists : BeingInstalled(l) \/ runtime[l] = listed[l]

(* Even when a read-back fails half way (load_domain_store_from_conn drops *)
(* the error), a store never holds a domain its table does not: a deleted  *)
(* or pruned domain cannot stay in force in memory alone.                  *)
RuntimeWithinDb ==
    \A l \in Lists : BeingInstalled(l) \/ runtime[l] \subseteq listed[l]

(* The inductive invariant behind the two properties of the stores: the    *)
(* lock is held exactly by the task that is past Acquire, every store      *)
(* follows its table, and where a change is on its way to the store, the   *)
(* store will follow its table once it has arrived.                        *)
LockHeld == \A t \in Tasks : pc[t] \in {"holding", "installing"} <=> lock = t

Follows(store, l) ==
    /\ store \subseteq listed[l]
    /\ ~IgnoredErrors => store = listed[l]

StoreFollowsTable ==
    /\ \A l \in Lists : BeingInstalled(l) \/ Follows(runtime[l], l)
    /\ \A t \in Tasks : pc[t] = "installing" =>
          Follows(Installed(job[t], runtime[job[t].list]), job[t].list)

InductiveInvariant == TypeOK /\ LockHeld /\ StoreFollowsTable

(* Prune never leaves a domain in a list that no one put there: each is    *)
(* manual in that list or owned by some row of source_domains.             *)
EveryListedDomainIsOwned ==
    \A l \in Lists : \A d \in listed[l] :
        d \in manual[l] \/ \E o \in owned : o[2] = d

(* Deleting a source drops the domains that no source references any more  *)
(* (delete_source_with_cleanup): what is listed is manual or comes from a  *)
(* source that still exists.                                               *)
EveryListedDomainHasASource ==
    \A l \in Lists : \A d \in listed[l] :
        d \in manual[l] \/ \E s \in sources : <<s.id, d>> \in owned

(* The mirror replaces the table of sources without the lock, under tasks  *)
(* that go through rows they read before (sync.rs apply_sources): an id in *)
(* the hands of a task never comes to name the source of another url, so   *)
(* what is fetched from one url cannot replace the domains of another.     *)
IdsKeepTheirUrl ==
    \A t \in Tasks : \A r \in job[t].rows : \A s \in sources : s.id = r.id => s.url = r.url

(* No refresh and no deletion of a source takes a manual domain off its    *)
(* list (source_refresh_preserves_manual_domains): only a deletion of that *)
(* domain or a snapshot of the primary does.                               *)
ManualSurvivesSources ==
    [][\A l \in Lists : \A d \in (listed[l] \cap manual[l]) \ listed'[l] :
          \E t \in Tasks : /\ lock = t
                           /\ job[t].list = l
                           /\ job[t].op \in {"remove", "sync"}]_vars

(* A step that changes what a source owns either deletes the source or     *)
(* keeps the share of it that replace_source_domains asks for: an outage   *)
(* page fetched in place of a list never empties it, whichever refreshes   *)
(* of the source overlap.                                                  *)
RefreshRetainsShare ==
    [][\A id \in SourceId :
          LET before == OwnedBy(id)
              after == {d \in Domains : <<id, d>> \in owned'}
          IN  \/ after = before
              \/ after = {} /\ \A s \in sources' : s.id # id
              \/ /\ Cardinality(after) >= MinSourceDomains
                 /\ Cardinality(before) >= MinSourceDomains
                       => Cardinality(after) * 100 >= Cardinality(before) * MinRetainedPercent]_vars

(* No task waits for the lock for ever, however many compete for it and    *)
(* however many fetches hang: the lock is never held across a fetch, and   *)
(* no early return keeps it.                                               *)
WaitingTasksFinish ==
    \A t \in Tasks : pc[t] = "queued" ~> pc[t] \in {"idle", "fetching"}
=============================================================================
