------------------------- MODULE DomainLists_proofs -------------------------
(***************************************************************************)
(* Proofs about DomainLists, for every set of lists, domains, sources and  *)
(* tasks: types are kept, the lock keeps each in-memory store equal to its *)
(* table, domains added by hand survive the sources, and a refresh keeps   *)
(* the share of a source it must.                                          *)
(***************************************************************************)
EXTENDS DomainLists, FiniteSetTheorems, TLAPS

USE SetsAssumption, BoundsAssumption

(* The job of an idle task is well typed ...                               *)
LEMMA NoJobType == NoJob \in Job
<1>1. (CHOOSE l \in Lists : TRUE) \in Lists
  <2>1. \E l \in Lists : TRUE
    OBVIOUS
  <2>2. QED
    BY <2>1, Zenon
<1>2. QED
  BY <1>1 DEF NoJob, Job, Operation, SourceId

(* ... and so is the job of a task that starts a request or a refresh.     *)
LEMMA StartedJobType ==
    /\ \A op \in Operation, l \in Lists, id \in SourceId, D \in SUBSET Domains :
          [NoJob EXCEPT !.op = op, !.list = l, !.id = id, !.domains = D] \in Job
    /\ \A rows \in SUBSET SourceRow : [NoJob EXCEPT !.rows = rows] \in Job
  BY NoJobType DEF Job

(* Turning to the next source, or to rest, keeps the types.                *)
LEMMA ProceedType ==
    ASSUME TypeOK, NEW t \in Tasks, NEW rows \in SUBSET SourceRow, Proceed(t, rows)
    PROVE  /\ pc' \in [Tasks -> {"idle", "lookup", "fetching", "queued", "holding",
                                 "installing"}]
           /\ job' \in [Tasks -> Job]
  BY StartedJobType DEF Proceed, TypeOK

(* TypeOK is an inductive invariant: no operation of the API, the          *)
(* refresher or the mirror stores anything but rows of the tables' types.  *)
LEMMA TypeOKStep == TypeOK /\ [Next]_vars => TypeOK'
<1> SUFFICES ASSUME TypeOK, [Next]_vars PROVE TypeOK'
  OBVIOUS
<1>a. \A t \in Tasks : job[t] \in Job
  BY DEF TypeOK
<1>1. ASSUME NEW t \in Tasks, Request(t) PROVE TypeOK'
  <2>1. ASSUME NEW op \in Operation, NEW l \in Lists, NEW id \in SourceId,
               NEW D \in SUBSET Domains, Enqueue(t, op, l, id, D)
        PROVE  TypeOK'
    BY <2>1, StartedJobType DEF Enqueue, TypeOK, database
  <2>2. ASSUME NEW rows \in SUBSET sources, BeginRefresh(t, rows) PROVE TypeOK'
    BY <2>2, StartedJobType DEF BeginRefresh, TypeOK, database
  <2>3. ASSUME NEW u \in Urls, NEW l \in Lists, AddSource(t, u, l) PROVE TypeOK'
    <3>1. [id |-> 0, url |-> u, list |-> l] \in SourceRow
      BY DEF SourceRow, SourceId
    <3>2. job' \in [Tasks -> Job]
      BY <2>3, <3>1, StartedJobType DEF AddSource, TypeOK
    <3>3. sources' \subseteq SourceRow /\ lastSourceId' \in SourceId
      BY <2>3 DEF AddSource, TypeOK, SourceRow, SourceId
    <3>4. QED
      BY <2>3, <3>2, <3>3 DEF AddSource, TypeOK
  <2>4. CASE SyncSources(t)
    <3>0. PICK n \in 0 .. MaxSourceId - lastSourceId :
            \E items \in [1 .. n -> [url : Urls, list : Lists]] :
               /\ sources' = {[id |-> lastSourceId + i, url |-> items[i].url,
                               list |-> items[i].list] : i \in 1 .. n}
               /\ lastSourceId' = lastSourceId + n
      BY <2>4 DEF SyncSources
    <3>1. PICK items \in [1 .. n -> [url : Urls, list : Lists]] :
            /\ sources' = {[id |-> lastSourceId + i, url |-> items[i].url,
                            list |-> items[i].list] : i \in 1 .. n}
            /\ lastSourceId' = lastSourceId + n
      BY <3>0
    <3>2. lastSourceId' \in SourceId /\ \A i \in 1 .. n : lastSourceId + i \in SourceId
      BY <3>1 DEF TypeOK, SourceId
    <3>3. \A i \in 1 .. n : items[i].url \in Urls /\ items[i].list \in Lists
      OBVIOUS
    <3>4. sources' \subseteq SourceRow
      BY <3>1, <3>2, <3>3 DEF SourceRow
    <3>5. QED
      BY <2>4, <3>2, <3>4 DEF SyncSources, TypeOK
  <2>5. ASSUME NEW l \in Lists, NEW d \in Domains, AddDomain(t, l, d) \/ DeleteDomain(t, l, d)
        PROVE  TypeOK'
    BY <2>1, <2>5 DEF AddDomain, DeleteDomain, Operation, SourceId
  <2>6. ASSUME NEW l \in Lists, NEW D \in SUBSET Domains,
               BulkImport(t, l, D) \/ SyncDomains(t, l, D)
        PROVE  TypeOK'
    BY <2>1, <2>6 DEF BulkImport, SyncDomains, Operation, SourceId
  <2>7. ASSUME NEW id \in SourceId, DeleteSource(t, id) PROVE TypeOK'
    BY <2>1, <2>7 DEF DeleteSource, Operation, NoJob
  <2>8. ASSUME NEW id \in SourceId, RefreshOneSource(t, id) PROVE TypeOK'
    BY <2>2, <2>8 DEF RefreshOneSource
  <2>9. CASE RefreshAllSources(t) \/ RefreshStaleSources(t)
    BY <2>2, <2>9 DEF RefreshAllSources, RefreshStaleSources
  <2>10. QED
    BY <1>1, <2>3, <2>4, <2>5, <2>6, <2>7, <2>8, <2>9 DEF Request
<1>2. ASSUME NEW t \in Tasks, LookUpSource(t) PROVE TypeOK'
  <2>1. PICK r \in job[t].rows, id \in SourceId :
            job' = [job EXCEPT ![t].rows = {[r EXCEPT !.id = id]}]
    BY <1>2 DEF LookUpSource
  <2>2. [r EXCEPT !.id = id] \in SourceRow
    BY <1>a DEF Job, SourceRow
  <2>3. job' \in [Tasks -> Job]
    BY <2>1, <2>2, <1>a DEF Job, TypeOK
  <2>4. QED
    BY <1>2, <2>3 DEF LookUpSource, TypeOK, database
<1>3. ASSUME NEW t \in Tasks, Fetch(t) PROVE TypeOK'
  <2>1. CASE FetchFails(t)
    BY <2>1, <1>a, ProceedType DEF FetchFails, Job, TypeOK, database
  <2>2. ASSUME NEW D \in SUBSET Domains, FetchContent(t, D) PROVE TypeOK'
    <3>1. PICK r \in job[t].rows :
            job' = [job EXCEPT ![t] = [op |-> "refresh", list |-> r.list, id |-> r.id,
                                       domains |-> D, rows |-> job[t].rows \ {r}]]
      BY <2>2 DEF FetchContent
    <3>2. job' \in [Tasks -> Job]
      BY <3>1, <1>a DEF Job, SourceRow, Operation, TypeOK
    <3>3. QED
      BY <2>2, <3>2 DEF FetchContent, TypeOK, database
  <2>3. QED
    BY <1>3, <2>1, <2>2 DEF Fetch
<1>4. ASSUME NEW t \in Tasks, Acquire(t) PROVE TypeOK'
  BY <1>4 DEF Acquire, TypeOK, database
<1>5. ASSUME NEW t \in Tasks, UnderLock(t) PROVE TypeOK'
  <2>a. /\ job[t].list \in Lists
        /\ job[t].domains \subseteq Domains
        /\ job[t].rows \subseteq SourceRow
        /\ job[t].id \in SourceId
    BY <1>a DEF Job
  <2>b. ASSUME NEW l \in Lists, NEW D \in SUBSET Domains, Committed(t, l, D)
        PROVE  /\ pc' \in [Tasks -> {"idle", "lookup", "fetching", "queued", "holding",
                                     "installing"}]
               /\ job' \in [Tasks -> Job]
               /\ runtime' \in [Lists -> SUBSET Domains]
               /\ lock' \in Tasks \cup {NoTask}
    BY <2>b, <1>a DEF Committed, TypeOK, Job
  <2>1. CASE CommitInsert(t)
    BY <2>1, <2>a, <2>b DEF CommitInsert, TypeOK
  <2>2. CASE CommitRemove(t)
    BY <2>2, <2>a, <2>b DEF CommitRemove, TypeOK
  <2>3. CASE CommitDeleteSource(t)
    <3>1. PICK s \in sources :
            /\ sources' = sources \ {s}
            /\ owned' = {o \in owned : o[1] # s.id}
            /\ \E gone : listed' = [listed EXCEPT ![s.list] = @ \ gone]
            /\ \E rebuilt \in ReadBack(listed'[s.list]) : Committed(t, s.list, rebuilt)
      BY <2>3 DEF CommitDeleteSource
    <3>2. s.list \in Lists
      BY DEF TypeOK, SourceRow
    <3>3. PICK gone : listed' = [listed EXCEPT ![s.list] = @ \ gone]
      BY <3>1
    <3>4. listed' \in [Lists -> SUBSET Domains]
      BY <3>2, <3>3 DEF TypeOK
    <3>5. PICK rebuilt \in SUBSET listed'[s.list] : Committed(t, s.list, rebuilt)
      BY <3>1 DEF ReadBack
    <3>6. rebuilt \subseteq Domains
      BY <3>2, <3>4
    <3>7. QED
      BY <2>3, <2>b, <3>1, <3>2, <3>4, <3>5, <3>6 DEF CommitDeleteSource, TypeOK
  <2>4. CASE CommitRefresh(t)
    <3>1. /\ owned' \subseteq SourceId \X Domains
          /\ listed' \in [Lists -> SUBSET Domains]
      BY <2>4, <2>a DEF CommitRefresh, TypeOK
    <3>2. PICK rebuilt \in SUBSET listed'[job[t].list] : Committed(t, job[t].list, rebuilt)
      BY <2>4 DEF CommitRefresh, ReadBack
    <3>3. rebuilt \subseteq Domains
      BY <3>1, <2>a
    <3>4. QED
      BY <2>4, <2>a, <2>b, <3>1, <3>2, <3>3 DEF CommitRefresh, TypeOK
  <2>5. CASE CommitSync(t)
    BY <2>5, <2>a, <2>b DEF CommitSync, TypeOK
  <2>6. CASE GiveUp(t)
    BY <2>6, <2>a, ProceedType DEF GiveUp, Abandon, TypeOK, database
  <2>7. CASE Install(t)
    <3>1. Installed(job[t], runtime[job[t].list]) \subseteq Domains
      BY <2>a DEF Installed, TypeOK
    <3>2. QED
      BY <2>7, <2>a, <3>1, ProceedType DEF Install, TypeOK, database
  <2>8. QED
    BY <1>5, <2>1, <2>2, <2>3, <2>4, <2>5, <2>6, <2>7 DEF UnderLock
<1>6. CASE Restart
  BY <1>6, NoJobType DEF Restart, TypeOK, database
<1>7. CASE UNCHANGED vars
  BY <1>7 DEF vars, TypeOK
<1>8. QED
  BY <1>1, <1>2, <1>3, <1>4, <1>5, <1>6, <1>7 DEF Next

(* Every reachable state is well typed, for every instance.                *)
THEOREM TypeCorrect == Spec => []TypeOK
<1>1. Init => TypeOK
  BY NoJobType DEF Init, TypeOK, SourceId
<1>2. QED
  BY <1>1, TypeOKStep, PTL DEF Spec

-----------------------------------------------------------------------------

(* The transactions: each leaves the store, once changed, following its    *)
(* table.  The store followed its table before, because nobody else is     *)
(* between a commit and the change of the store.                           *)
LEMMA CommitStep ==
    ASSUME InductiveInvariant, NEW t \in Tasks, pc[t] = "holding",
           NEW l \in Lists, NEW D \in SUBSET Domains, Committed(t, l, D),
           \A k \in Lists \ {l} : listed'[k] = listed[k],
           Follows(Installed(job[t], runtime[l]), l)'
    PROVE  LockHeld' /\ StoreFollowsTable'
<1> USE DEF InductiveInvariant
<1>1. job'[t] = [job[t] EXCEPT !.list = l, !.domains = D]
  BY DEF Committed, TypeOK, Job
<1>2. pc'[t] = "installing" /\ \A u \in Tasks \ {t} : pc'[u] = pc[u] /\ job'[u] = job[u]
  BY DEF Committed, TypeOK
<1>3. lock = t /\ \A u \in Tasks \ {t} : pc[u] \notin {"holding", "installing"}
  BY DEF LockHeld
<1>4. LockHeld'
  BY <1>2, <1>3 DEF LockHeld, Committed
<1>5. job'[t].list = l
  BY <1>1 DEF TypeOK, Job
<1>6. \A u \in Tasks : pc'[u] = "installing" <=> u = t
  BY <1>2, <1>3
<1>7. \A k \in Lists : BeingInstalled(k)' <=> k = l
  BY <1>5, <1>6 DEF BeingInstalled
<1>8. \A k \in Lists : ~BeingInstalled(k)
  BY <1>3 DEF BeingInstalled
<1>9. \A k \in Lists \ {l} : Follows(runtime[k], k)'
  BY <1>8 DEF StoreFollowsTable, Follows, Committed
<1>10. StoreFollowsTable'
  <2>1. \A k \in Lists : BeingInstalled(k)' \/ Follows(runtime[k], k)'
    BY <1>7, <1>9
  <2>2. \A u \in Tasks : pc'[u] = "installing" =>
            Follows(Installed(job[u], runtime[job[u].list]), job[u].list)'
    BY <1>5, <1>6
  <2>3. QED
    BY <2>1, <2>2 DEF StoreFollowsTable
<1>11. QED
  BY <1>4, <1>10

(* Steps of a task that is nowhere near the lock: requests, reads of the   *)
(* sources, fetches.                                                       *)
LEMMA QuietStep ==
    ASSUME InductiveInvariant, NEW t \in Tasks,
           listed' = listed, runtime' = runtime, lock' = lock,
           pc[t] \notin {"holding", "installing"},
           pc'[t] \notin {"holding", "installing"},
           \A u \in Tasks \ {t} : pc'[u] = pc[u] /\ job'[u] = job[u]
    PROVE  LockHeld' /\ StoreFollowsTable'
<1> USE DEF InductiveInvariant
<1>1. LockHeld'
  BY DEF LockHeld
<1>2. \A u \in Tasks : (pc'[u] = "installing" <=> pc[u] = "installing")
                       /\ (pc[u] = "installing" => job'[u] = job[u])
  OBVIOUS
<1>3. \A l \in Lists : BeingInstalled(l)' <=> BeingInstalled(l)
  BY <1>2 DEF BeingInstalled
<1>4. QED
  BY <1>1, <1>2, <1>3 DEF StoreFollowsTable, Follows

(* A task that holds the lock gives it back: with every store following    *)
(* its table when it does, the stores need nobody's help.                  *)
LEMMA ReleaseStep ==
    ASSUME InductiveInvariant, NEW t \in Tasks, lock = t, lock' = NoTask,
           NEW rows \in SUBSET SourceRow, Proceed(t, rows),
           \A l \in Lists : Follows(runtime[l], l)'
    PROVE  LockHeld' /\ StoreFollowsTable'
<1> USE DEF InductiveInvariant
<1>1. \A u \in Tasks : pc'[u] \notin {"holding", "installing"}
  BY DEF LockHeld, Proceed, TypeOK
<1>2. QED
  BY <1>1 DEF LockHeld, StoreFollowsTable

(* Every action keeps the invariant.                                       *)
LEMMA InvariantStep ==
    InductiveInvariant /\ [Next]_vars => LockHeld' /\ StoreFollowsTable'
<1> SUFFICES ASSUME InductiveInvariant, [Next]_vars
             PROVE  LockHeld' /\ StoreFollowsTable'
  OBVIOUS
<1>a. TypeOK /\ \A t \in Tasks : job[t] \in Job
  BY DEF InductiveInvariant, TypeOK
<1>1. ASSUME NEW t \in Tasks, Request(t) PROVE LockHeld' /\ StoreFollowsTable'
  <2>1. \/ /\ listed' = listed /\ runtime' = runtime /\ lock' = lock
           /\ pc[t] = "idle"
           /\ pc'[t] \in {"queued", "lookup", "fetching"}
           /\ \A u \in Tasks \ {t} : pc'[u] = pc[u] /\ job'[u] = job[u]
        \/ UNCHANGED <<listed, runtime, lock, pc, job>>
    BY <1>1, <1>a DEF Request, AddDomain, DeleteDomain, BulkImport, SyncDomains, DeleteSource,
          RefreshOneSource, AddSource, RefreshAllSources, RefreshStaleSources, SyncSources,
          Enqueue, BeginRefresh, TypeOK, database
  <2>2. CASE UNCHANGED <<listed, runtime, lock, pc, job>>
    BY <2>2 DEF InductiveInvariant, LockHeld, StoreFollowsTable, BeingInstalled, Follows
  <2>3. QED
    BY <2>1, <2>2, QuietStep
<1>2. ASSUME NEW t \in Tasks, LookUpSource(t) \/ Fetch(t)
      PROVE  LockHeld' /\ StoreFollowsTable'
  <2>1. /\ listed' = listed /\ runtime' = runtime /\ lock' = lock
        /\ pc[t] \in {"lookup", "fetching"}
        /\ pc'[t] \in {"fetching", "queued", "idle"}
        /\ \A u \in Tasks \ {t} : pc'[u] = pc[u] /\ job'[u] = job[u]
    BY <1>2, <1>a DEF LookUpSource, Fetch, FetchFails, FetchContent, Proceed, TypeOK, database
  <2>2. QED
    BY <2>1, QuietStep
<1>3. ASSUME NEW t \in Tasks, Acquire(t) PROVE LockHeld' /\ StoreFollowsTable'
  <2>1. /\ \A u \in Tasks : pc[u] \notin {"holding", "installing"}
        /\ pc' = [pc EXCEPT ![t] = "holding"] /\ lock' = t
        /\ UNCHANGED <<listed, runtime, job>>
    BY <1>3 DEF Acquire, InductiveInvariant, LockHeld, database
  <2>2. LockHeld'
    BY <2>1, <1>a DEF LockHeld, TypeOK
  <2>3. \A u \in Tasks : pc'[u] # "installing"
    BY <2>1, <1>a DEF TypeOK
  <2>4. StoreFollowsTable'
    BY <2>1, <2>3 DEF InductiveInvariant, StoreFollowsTable, BeingInstalled, Follows
  <2>5. QED
    BY <2>2, <2>4
<1>4. ASSUME NEW t \in Tasks, UnderLock(t) PROVE LockHeld' /\ StoreFollowsTable'
  <2>a. /\ job[t].list \in Lists
        /\ job[t].domains \subseteq Domains
        /\ job[t].rows \subseteq SourceRow
    BY <1>a DEF Job
  <2>b. pc[t] = "holding" => \A l \in Lists : Follows(runtime[l], l)
    BY DEF InductiveInvariant, LockHeld, StoreFollowsTable, BeingInstalled
  <2>c. pc[t] \in {"holding", "installing"} => lock = t
    BY DEF InductiveInvariant, LockHeld
  <2>d. ASSUME NEW l \in Lists, NEW D \in SUBSET Domains, Committed(t, l, D)
        PROVE  job'[t].op = job[t].op /\ job'[t].domains = D /\ runtime' = runtime
    BY <2>d, <1>a DEF Committed, TypeOK, Job
  <2>1. CASE CommitInsert(t)
    <3>a. PICK l \in Lists, D \in SUBSET Domains : l = job[t].list /\ D = job[t].domains
      BY <2>a
    <3>1. /\ Committed(t, l, D) /\ pc[t] = "holding" /\ job[t].op = "insert"
          /\ listed' = [listed EXCEPT ![l] = @ \cup D]
      BY <2>1, <3>a DEF CommitInsert, Holds
    <3>2. Installed(job[t], runtime[l])' = runtime[l] \cup D
      BY <3>1, <2>d DEF Installed
    <3>3. Follows(Installed(job[t], runtime[l]), l)'
      BY <3>1, <3>2, <2>b, <1>a DEF Follows, TypeOK
    <3>4. \A k \in Lists \ {l} : listed'[k] = listed[k]
      BY <3>1, <1>a DEF TypeOK
    <3>5. QED
      BY <3>1, <3>3, <3>4, CommitStep
  <2>2. CASE CommitRemove(t)
    <3>a. PICK l \in Lists, D \in SUBSET Domains : l = job[t].list /\ D = job[t].domains
      BY <2>a
    <3>1. /\ Committed(t, l, D) /\ pc[t] = "holding" /\ job[t].op = "remove"
          /\ listed' = [listed EXCEPT ![l] = @ \ D]
      BY <2>2, <3>a DEF CommitRemove, Holds
    <3>2. Installed(job[t], runtime[l])' = runtime[l] \ D
      BY <3>1, <2>d DEF Installed
    <3>3. Follows(Installed(job[t], runtime[l]), l)'
      BY <3>1, <3>2, <2>b, <1>a DEF Follows, TypeOK
    <3>4. \A k \in Lists \ {l} : listed'[k] = listed[k]
      BY <3>1, <1>a DEF TypeOK
    <3>5. QED
      BY <3>1, <3>3, <3>4, CommitStep
  <2>e. ASSUME NEW l \in Lists, NEW rest \in SUBSET Domains, NEW D \in ReadBack(rest),
               Committed(t, l, D), pc[t] = "holding",
               job[t].op \notin {"insert", "remove"},
               listed' = [listed EXCEPT ![l] = rest]
        PROVE  LockHeld' /\ StoreFollowsTable'
    <3>1. D \subseteq rest /\ D \subseteq Domains /\ (~IgnoredErrors => D = rest)
      BY DEF ReadBack
    <3>2. Installed(job[t], runtime[l])' = D
      BY <3>1, <2>d, <2>e DEF Installed
    <3>3. listed'[l] = rest /\ \A k \in Lists \ {l} : listed'[k] = listed[k]
      BY <2>e, <1>a DEF TypeOK
    <3>4. Follows(Installed(job[t], runtime[l]), l)'
      BY <3>1, <3>2, <3>3 DEF Follows
    <3>5. QED
      BY <3>1, <3>3, <3>4, <2>e, CommitStep
  <2>3. CASE CommitDeleteSource(t)
    <3>1. PICK s \in sources :
            /\ \E gone : listed' = [listed EXCEPT ![s.list] = @ \ gone]
            /\ \E D \in ReadBack(listed'[s.list]) : Committed(t, s.list, D)
      BY <2>3 DEF CommitDeleteSource
    <3>2. s.list \in Lists /\ listed[s.list] \subseteq Domains
      BY <1>a DEF TypeOK, SourceRow
    <3>0. PICK gone : listed' = [listed EXCEPT ![s.list] = @ \ gone]
      BY <3>1
    <3> DEFINE rest == listed[s.list] \ gone
    <3>3. listed' = [listed EXCEPT ![s.list] = rest] /\ listed'[s.list] = rest
      BY <3>0, <3>2, <1>a DEF TypeOK
    <3>4. PICK D \in ReadBack(rest) : Committed(t, s.list, D)
      BY <3>1, <3>3
    <3>5. pc[t] = "holding" /\ job[t].op \notin {"insert", "remove"}
      BY <2>3 DEF CommitDeleteSource, Holds
    <3>6. rest \in SUBSET Domains
      BY <3>2
    <3>7. QED
      BY <2>e, <3>2, <3>3, <3>4, <3>5, <3>6
  <2>4. CASE CommitRefresh(t)
    <3> DEFINE l == job[t].list
               rest == (listed[l] \cup job[t].domains)
                         \ Unreferenced(OwnedBy(job[t].id), owned', l)
    <3>1. /\ pc[t] = "holding" /\ job[t].op \notin {"insert", "remove"}
          /\ listed' = [listed EXCEPT ![l] = rest]
          /\ \E D \in ReadBack(listed'[l]) : Committed(t, l, D)
      BY <2>4 DEF CommitRefresh, Holds
    <3>2. rest \in SUBSET Domains
      BY <2>a, <1>a DEF TypeOK
    <3>3. listed'[l] = rest
      BY <3>1, <2>a, <1>a DEF TypeOK
    <3>4. PICK D \in ReadBack(rest) : Committed(t, l, D)
      BY <3>1, <3>3
    <3>5. QED
      BY <2>a, <2>e, <3>1, <3>2, <3>4
  <2>5. CASE CommitSync(t)
    <3>1. job[t].domains \in ReadBack(job[t].domains)
      BY DEF ReadBack
    <3>2. QED
      BY <2>5, <2>a, <2>e, <3>1 DEF CommitSync, Holds
  <2>6. CASE GiveUp(t)
    <3>1. UNCHANGED <<listed, runtime>> /\ lock' = NoTask /\ Proceed(t, job[t].rows)
      BY <2>6 DEF GiveUp, Abandon, database
    <3>2. \A l \in Lists : Follows(runtime[l], l)'
      BY <2>6, <2>b, <3>1 DEF GiveUp, Follows
    <3>3. QED
      BY <2>6, <2>a, <2>c, <3>1, <3>2, ReleaseStep DEF GiveUp
  <2>7. CASE Install(t)
    <3>1. /\ runtime' = [runtime EXCEPT ![job[t].list] = Installed(job[t], @)]
          /\ listed' = listed /\ lock' = NoTask /\ Proceed(t, job[t].rows)
          /\ pc[t] = "installing"
      BY <2>7 DEF Install, database
    <3>2. \A u \in Tasks \ {t} : pc[u] # "installing"
      BY <2>c, <3>1 DEF InductiveInvariant, LockHeld
    <3>3. \A l \in Lists \ {job[t].list} : Follows(runtime[l], l)
      BY <3>2 DEF InductiveInvariant, StoreFollowsTable, BeingInstalled
    <3>4. Follows(Installed(job[t], runtime[job[t].list]), job[t].list)
      BY <3>1 DEF InductiveInvariant, StoreFollowsTable
    <3>5. \A l \in Lists : Follows(runtime[l], l)'
      BY <3>1, <3>3, <3>4, <2>a, <1>a DEF Follows, TypeOK
    <3>6. QED
      BY <2>a, <2>c, <3>1, <3>5, ReleaseStep
  <2>8. QED
    BY <1>4, <2>1, <2>2, <2>3, <2>4, <2>5, <2>6, <2>7 DEF UnderLock
<1>5. CASE Restart
  <2>1. \A u \in Tasks : pc'[u] = "idle"
    BY <1>5 DEF Restart
  <2>2. QED
    BY <1>5, <2>1 DEF Restart, LockHeld, StoreFollowsTable, Follows, database
<1>6. CASE UNCHANGED vars
  BY <1>6 DEF vars, InductiveInvariant, LockHeld, StoreFollowsTable, BeingInstalled, Follows
<1>7. QED
  BY <1>1, <1>2, <1>3, <1>4, <1>5, <1>6 DEF Next

(* Only the task that holds SOURCE_MUTATION_LOCK has written a table its    *)
(* store does not follow yet, whatever fails and whenever the process      *)
(* restarts.                                                               *)
THEOREM Invariance == Spec => []InductiveInvariant
<1>1. Init => InductiveInvariant
  <2>1. Init => TypeOK
    BY NoJobType DEF Init, TypeOK, SourceId
  <2>2. Init => LockHeld /\ StoreFollowsTable
    BY DEF Init, LockHeld, StoreFollowsTable, Follows
  <2>3. QED
    BY <2>1, <2>2 DEF InductiveInvariant
<1>2. InductiveInvariant /\ [Next]_vars => InductiveInvariant'
  BY TypeOKStep, InvariantStep DEF InductiveInvariant
<1>3. QED
  BY <1>1, <1>2, PTL DEF Spec

(* A domain added to or taken off a list is in force, or out of force, as  *)
(* soon as the task that changed the table gives SOURCE_MUTATION_LOCK      *)
(* back, for any number of concurrent requests, refreshes and restarts.    *)
THEOREM StoresMatchTables == Spec => []RuntimeMatchesDb
<1>1. InductiveInvariant => RuntimeMatchesDb
  BY DEF InductiveInvariant, StoreFollowsTable, Follows, RuntimeMatchesDb
<1>2. QED
  BY <1>1, Invariance, PTL

(* Failed read-backs included, no store ever holds on to a domain that its *)
(* table lost.                                                             *)
THEOREM StoresWithinTables == Spec => []RuntimeWithinDb
<1>1. InductiveInvariant => RuntimeWithinDb
  BY DEF InductiveInvariant, StoreFollowsTable, Follows, RuntimeWithinDb
<1>2. QED
  BY <1>1, Invariance, PTL
-----------------------------------------------------------------------------
(* A source takes only what it owns alone, and a refresh keeps its share.  *)

(* Whatever a source's deletion or refresh removes from a list, no domain  *)
(* that was added by hand is among it; such a domain leaves its list only  *)
(* by a request to delete it or by the primary's snapshot, which the       *)
(* holder of SOURCE_MUTATION_LOCK applies.                                 *)
THEOREM ManualDomainsSurvive == Spec => ManualSurvivesSources
<1> DEFINE Removal(l) ==
              \E t \in Tasks : lock = t /\ job[t].list = l /\ job[t].op \in {"remove", "sync"}
           Kept(l) == \A d \in (listed[l] \cap manual[l]) \ listed'[l] : Removal(l)
<1>1. ASSUME InductiveInvariant, Next, NEW l \in Lists PROVE Kept(l)
  <2>a. listed \in [Lists -> SUBSET Domains] /\ \A t \in Tasks : job[t] \in Job
    BY <1>1 DEF InductiveInvariant, TypeOK
  <2>b. \A t \in Tasks : pc[t] = "holding" => lock = t
    BY <1>1 DEF InductiveInvariant, LockHeld
  <2>1. CASE UNCHANGED listed
    BY <2>1
  <2>2. ASSUME NEW t \in Tasks, CommitRemove(t) \/ CommitSync(t) PROVE Kept(l)
    <3>1. /\ lock = t /\ job[t].op \in {"remove", "sync"} /\ job[t].list \in Lists
          /\ \A k \in Lists \ {job[t].list} : listed'[k] = listed[k]
      BY <2>2, <2>a, <2>b DEF CommitRemove, CommitSync, Holds, Job
    <3>2. CASE l = job[t].list
      BY <3>1, <3>2
    <3>3. CASE l # job[t].list
      BY <3>1, <3>3
    <3>4. QED
      BY <3>2, <3>3
  <2>3. ASSUME NEW t \in Tasks, CommitInsert(t) PROVE Kept(l)
    BY <2>3, <2>a DEF CommitInsert, Job
  <2>4. ASSUME NEW t \in Tasks, CommitDeleteSource(t) PROVE Kept(l)
    <3>1. PICK s \in sources :
             \E gone \in SUBSET Unreferenced(OwnedBy(s.id), owned', s.list) :
                listed' = [listed EXCEPT ![s.list] = @ \ gone]
      BY <2>4 DEF CommitDeleteSource, Pruned
    <3>2. QED
      BY <3>1, <2>a DEF Unreferenced
  <2>5. ASSUME NEW t \in Tasks, CommitRefresh(t) PROVE Kept(l)
    <3>1. \E l2 \in Lists, D \in SUBSET Domains : \E old :
             listed' = [listed EXCEPT ![l2] = (@ \cup D) \ Unreferenced(old, owned', l2)]
      BY <2>5, <2>a DEF CommitRefresh, Job
    <3>2. QED
      BY <3>1, <2>a DEF Unreferenced
  <2>6. ASSUME NEW t \in Tasks, Request(t) \/ LookUpSource(t) \/ Fetch(t) \/ Acquire(t)
                                \/ GiveUp(t) \/ Install(t)
        PROVE  UNCHANGED listed
    BY <2>6 DEF Request, AddDomain, DeleteDomain, BulkImport, SyncDomains, DeleteSource,
       RefreshOneSource, AddSource, RefreshAllSources, RefreshStaleSources, SyncSources, Enqueue,
       BeginRefresh, LookUpSource, Fetch, FetchFails, FetchContent, Acquire, GiveUp, Abandon,
       Install, database
  <2>7. CASE Restart
    BY <2>7 DEF Restart, database
  <2> HIDE DEF Kept
  <2>8. QED
    BY <1>1, <2>1, <2>2, <2>3, <2>4, <2>5, <2>6, <2>7 DEF Next, UnderLock
<1> HIDE DEF Kept
<1>2. InductiveInvariant /\ [Next]_vars =>
         [\A l \in Lists : \A d \in (listed[l] \cap manual[l]) \ listed'[l] :
            \E t \in Tasks : /\ lock = t
                             /\ job[t].list = l
                             /\ job[t].op \in {"remove", "sync"}]_vars
  BY <1>1 DEF Kept
<1>3. QED
  BY <1>2, Invariance, PTL DEF Spec, ManualSurvivesSources

(* An id is given to one row of the sources and never again.               *)
SourceIdsUnique ==
    \A s \in sources : s.id <= lastSourceId /\ \A r \in sources : r.id = s.id => r = s

(* Ids of sources stay unique.                                             *)
LEMMA SourceIdsStep ==
    TypeOK /\ SourceIdsUnique /\ [Next]_vars => SourceIdsUnique'
<1> SUFFICES ASSUME TypeOK, SourceIdsUnique, [Next]_vars PROVE SourceIdsUnique'
  OBVIOUS
<1>a. sources \subseteq SourceRow /\ lastSourceId \in Nat /\ \A s \in sources : s.id \in Nat
  BY DEF TypeOK, SourceRow, SourceId
<1>1. CASE UNCHANGED <<sources, lastSourceId>>
  BY <1>1 DEF SourceIdsUnique
<1>2. ASSUME NEW t \in Tasks, NEW u \in Urls, NEW l \in Lists, AddSource(t, u, l)
      PROVE  SourceIdsUnique'
  <2>1. CASE /\ lastSourceId' = lastSourceId + 1
             /\ sources' = sources \cup {[id |-> lastSourceId + 1, url |-> u, list |-> l]}
    <3> DEFINE row == [id |-> lastSourceId + 1, url |-> u, list |-> l]
    <3>1. row.id = lastSourceId + 1 /\ sources' = sources \cup {row}
      BY <2>1
    <3> HIDE DEF row
    <3>2. \A s \in sources : s.id <= lastSourceId /\ s.id # row.id
      BY <1>a, <3>1 DEF SourceIdsUnique
    <3>3. QED
      BY <1>a, <2>1, <3>1, <3>2 DEF SourceIdsUnique
  <2>2. QED
    BY <1>1, <1>2, <2>1 DEF AddSource
<1>3. ASSUME NEW t \in Tasks, SyncSources(t) PROVE SourceIdsUnique'
  <2>1. PICK n \in 0 .. MaxSourceId - lastSourceId :
           \E items \in [1 .. n -> [url : Urls, list : Lists]] :
              /\ sources' = {[id |-> lastSourceId + i, url |-> items[i].url,
                              list |-> items[i].list] : i \in 1 .. n}
              /\ lastSourceId' = lastSourceId + n
    BY <1>3 DEF SyncSources
  <2>2. PICK items \in [1 .. n -> [url : Urls, list : Lists]] :
           /\ sources' = {[id |-> lastSourceId + i, url |-> items[i].url,
                           list |-> items[i].list] : i \in 1 .. n}
           /\ lastSourceId' = lastSourceId + n
    BY <2>1
  <2>3. n \in Nat
    BY <1>a
  <2>4. \A s \in sources' : \E i \in 1 .. n :
           s = [id |-> lastSourceId + i, url |-> items[i].url, list |-> items[i].list]
           /\ s.id = lastSourceId + i
    BY <2>2
  <2>5. \A s \in sources' : s.id <= lastSourceId'
    BY <1>a, <2>2, <2>3, <2>4
  <2>6. ASSUME NEW s \in sources', NEW r \in sources', r.id = s.id PROVE r = s
    <3>1. PICK i \in 1 .. n :
             s = [id |-> lastSourceId + i, url |-> items[i].url, list |-> items[i].list]
             /\ s.id = lastSourceId + i
      BY <2>4
    <3>2. PICK j \in 1 .. n :
             r = [id |-> lastSourceId + j, url |-> items[j].url, list |-> items[j].list]
             /\ r.id = lastSourceId + j
      BY <2>4
    <3>3. i = j
      BY <1>a, <2>3, <2>6, <3>1, <3>2
    <3>4. QED
      BY <3>1, <3>2, <3>3
  <2>7. QED
    BY <2>5, <2>6 DEF SourceIdsUnique
<1>4. ASSUME NEW t \in Tasks, CommitDeleteSource(t) PROVE SourceIdsUnique'
  <2>1. sources' \subseteq sources /\ lastSourceId' = lastSourceId
    BY <1>4 DEF CommitDeleteSource
  <2>2. QED
    BY <2>1 DEF SourceIdsUnique
<1>5. ASSUME NEW t \in Tasks, CommitInsert(t) \/ CommitRemove(t) \/ CommitRefresh(t) \/ CommitSync(t)
                              \/ GiveUp(t) \/ Install(t)
      PROVE  UNCHANGED <<sources, lastSourceId>>
  BY <1>5 DEF CommitInsert, CommitRemove, CommitRefresh, CommitSync, GiveUp, Abandon, Install, database
<1>6. ASSUME NEW t \in Tasks, LookUpSource(t) \/ Fetch(t) \/ Acquire(t)
      PROVE  UNCHANGED <<sources, lastSourceId>>
  BY <1>6 DEF LookUpSource, Fetch, FetchFails, FetchContent, Acquire, database
<1>7. ASSUME NEW t \in Tasks, Request(t) PROVE SourceIdsUnique'
  BY <1>1, <1>2, <1>3, <1>7 DEF Request, AddDomain, DeleteDomain, BulkImport, SyncDomains,
     DeleteSource, RefreshOneSource, RefreshAllSources, RefreshStaleSources, Enqueue,
     BeginRefresh, database
<1>8. CASE Restart \/ UNCHANGED vars
  BY <1>1, <1>8 DEF Restart, database, vars
<1>9. QED
  BY <1>1, <1>4, <1>5, <1>6, <1>7, <1>8 DEF Next, UnderLock

(* Ids only grow, also when the mirror replaces the table of sources, and  *)
(* 0 is nobody's.                                                          *)
RowsAreKnown ==
    /\ \A s \in sources : s.id # 0
    /\ \A t \in Tasks : \A r \in job[t].rows : r.id <= lastSourceId
    /\ IdsKeepTheirUrl

(* A step that adds no source, and gives a task no rows but its own and    *)
(* those of the table, keeps that.                                         *)
LEMMA RowsReadFromTable ==
    ASSUME SourceIdsUnique, RowsAreKnown, sources' \subseteq sources,
           lastSourceId' = lastSourceId,
           \A t \in Tasks : job'[t].rows \subseteq job[t].rows \cup sources
    PROVE  RowsAreKnown'
<1>1. ASSUME NEW t \in Tasks, NEW r \in job'[t].rows PROVE r \in job[t].rows \/ r \in sources
  BY <1>1
<1>2. \A t \in Tasks : \A r \in job'[t].rows : r.id <= lastSourceId
  BY <1>1 DEF RowsAreKnown, SourceIdsUnique
<1>3. ASSUME NEW t \in Tasks, NEW r \in job'[t].rows, NEW s \in sources', s.id = r.id
      PROVE  s.url = r.url
  <2>1. CASE r \in job[t].rows
    BY <1>3, <2>1 DEF RowsAreKnown, IdsKeepTheirUrl
  <2>2. CASE r \in sources
    BY <1>3, <2>2 DEF SourceIdsUnique
  <2>3. QED
    BY <1>1, <1>3, <2>1, <2>2
<1>4. QED
  BY <1>2, <1>3 DEF RowsAreKnown, IdsKeepTheirUrl

(* A step that adds sources with new ids, and gives a task no rows but its *)
(* own or one without an id, keeps it too.                                 *)
LEMMA NewIdsAreNew ==
    ASSUME TypeOK, RowsAreKnown, lastSourceId' \in Nat, lastSourceId <= lastSourceId',
           \A s \in sources' : s \in sources \/ (s.id \in Nat /\ s.id > lastSourceId),
           \A t \in Tasks : \A r \in job'[t].rows : r \in job[t].rows \/ r.id = 0
    PROVE  RowsAreKnown'
<1>1. lastSourceId \in Nat
  BY BoundsAssumption DEF TypeOK, SourceId
<1>2. \A t \in Tasks : \A r \in job[t].rows : r.id \in Nat
  BY BoundsAssumption DEF TypeOK, Job, SourceRow, SourceId
<1>3. \A s \in sources' : s.id # 0
  BY <1>1 DEF RowsAreKnown
<1>4. \A t \in Tasks : \A r \in job'[t].rows : r.id <= lastSourceId'
  BY <1>1, <1>2 DEF RowsAreKnown
<1>5. ASSUME NEW t \in Tasks, NEW r \in job'[t].rows, NEW s \in sources', s.id = r.id
      PROVE  s.url = r.url
  <2>1. r \in job[t].rows
    BY <1>3, <1>5
  <2>2. r.id <= lastSourceId /\ r.id \in Nat
    BY <1>2, <2>1 DEF RowsAreKnown
  <2>3. s \in sources
    BY <1>1, <1>5, <2>2
  <2>4. QED
    BY <1>5, <2>1, <2>3 DEF RowsAreKnown, IdsKeepTheirUrl
<1>6. QED
  BY <1>3, <1>4, <1>5 DEF RowsAreKnown, IdsKeepTheirUrl

(* Every action keeps it.                                                  *)
LEMMA RowsAreKnownStep ==
    TypeOK /\ SourceIdsUnique /\ RowsAreKnown /\ [Next]_vars => RowsAreKnown'
<1> SUFFICES ASSUME TypeOK, SourceIdsUnique, RowsAreKnown, [Next]_vars
             PROVE  RowsAreKnown'
  OBVIOUS
<1> DEFINE FromTable ==
              /\ sources' \subseteq sources /\ lastSourceId' = lastSourceId
              /\ \A t \in Tasks : job'[t].rows \subseteq job[t].rows \cup sources
<1>a. job \in [Tasks -> Job] /\ NoJob.rows = {}
  BY DEF TypeOK, NoJob
<1>b. lastSourceId \in Nat
  BY BoundsAssumption DEF TypeOK, SourceId
<1>1. ASSUME NEW t \in Tasks, NEW rows \in SUBSET (job[t].rows \cup sources), Proceed(t, rows)
      PROVE  \A u \in Tasks : job'[u].rows \subseteq job[u].rows \cup sources
  <2>1. job'[t].rows = rows /\ \A u \in Tasks \ {t} : job'[u] = job[u]
    BY <1>1, <1>a DEF Proceed, NoJob
  <2>2. QED
    BY <2>1
<1>2. FromTable => RowsAreKnown'
  BY RowsReadFromTable
<1>3. ASSUME NEW t \in Tasks, NEW op, NEW l, NEW id, NEW D, Enqueue(t, op, l, id, D)
      PROVE  FromTable
  <2>1. job'[t].rows = {} /\ \A u \in Tasks \ {t} : job'[u] = job[u]
    BY <1>3, <1>a DEF Enqueue, NoJob
  <2>2. QED
    BY <1>3, <2>1 DEF Enqueue, database
<1>4. ASSUME NEW t \in Tasks, NEW rows \in SUBSET sources, BeginRefresh(t, rows)
      PROVE  FromTable
  <2>1. job'[t].rows = rows /\ \A u \in Tasks \ {t} : job'[u] = job[u]
    BY <1>4, <1>a DEF BeginRefresh, NoJob
  <2>2. QED
    BY <1>4, <2>1 DEF BeginRefresh, database
<1>5. ASSUME NEW t \in Tasks, NEW u \in Urls, NEW l \in Lists, AddSource(t, u, l)
      PROVE  RowsAreKnown'
  <2> DEFINE row == [id |-> lastSourceId + 1, url |-> u, list |-> l]
             asked == [id |-> 0, url |-> u, list |-> l]
  <2>1. \/ sources' = sources /\ lastSourceId' = lastSourceId
        \/ sources' = sources \cup {row} /\ lastSourceId' = lastSourceId + 1
    BY <1>5 DEF AddSource
  <2>2. row.id = lastSourceId + 1 /\ asked.id = 0
    OBVIOUS
  <2>3. job'[t].rows = {asked} /\ \A v \in Tasks \ {t} : job'[v] = job[v]
    BY <1>5, <1>a DEF AddSource, NoJob
  <2> HIDE DEF row, asked
  <2>4. \A v \in Tasks : \A r \in job'[v].rows : r \in job[v].rows \/ r.id = 0
    BY <2>2, <2>3
  <2>5. /\ lastSourceId' \in Nat /\ lastSourceId <= lastSourceId'
        /\ \A s \in sources' : s \in sources \/ (s.id \in Nat /\ s.id > lastSourceId)
    BY <1>b, <2>1, <2>2
  <2>6. QED
    BY <2>4, <2>5, NewIdsAreNew
<1>6. ASSUME NEW t \in Tasks, SyncSources(t) PROVE RowsAreKnown'
  <2>1. PICK n \in 0 .. MaxSourceId - lastSourceId :
           \E items \in [1 .. n -> [url : Urls, list : Lists]] :
              /\ sources' = {[id |-> lastSourceId + i, url |-> items[i].url,
                              list |-> items[i].list] : i \in 1 .. n}
              /\ lastSourceId' = lastSourceId + n
    BY <1>6 DEF SyncSources
  <2>2. n \in Nat
    BY <1>b
  <2>3. \A s \in sources' : \E i \in 1 .. n : s.id = lastSourceId + i
    BY <2>1
  <2>4. job' = job /\ lastSourceId' = lastSourceId + n
    BY <1>6, <2>1 DEF SyncSources
  <2>5. /\ lastSourceId' \in Nat /\ lastSourceId <= lastSourceId'
        /\ \A s \in sources' : s.id \in Nat /\ s.id > lastSourceId
    BY <1>b, <2>2, <2>3, <2>4
  <2>6. QED
    BY <2>4, <2>5, NewIdsAreNew
<1>7. ASSUME NEW t \in Tasks, LookUpSource(t) PROVE RowsAreKnown'
  <2>1. PICK r \in job[t].rows, id \in SourceId :
           /\ \/ \E s \in sources : s.url = r.url /\ s.id = id
              \/ (\A s \in sources : s.url # r.url) /\ id = 0
           /\ job' = [job EXCEPT ![t].rows = {[r EXCEPT !.id = id]}]
    BY <1>7 DEF LookUpSource
  <2> DEFINE found == [r EXCEPT !.id = id]
  <2>2. r \in SourceRow
    BY <1>a, <2>1 DEF Job
  <2>3. found.id = id /\ found.url = r.url
    BY <2>2 DEF SourceRow
  <2>4. job'[t].rows = {found} /\ \A v \in Tasks \ {t} : job'[v] = job[v]
    BY <1>a, <2>1 DEF Job
  <2>5. sources' = sources /\ lastSourceId' = lastSourceId
    BY <1>7 DEF LookUpSource, database
  <2> HIDE DEF found
  <2>6. found.id <= lastSourceId /\ \A s \in sources : s.id = found.id => s.url = found.url
    BY <1>b, <2>1, <2>3 DEF SourceIdsUnique, RowsAreKnown
  <2>7. \A v \in Tasks : \A q \in job'[v].rows : q = found \/ q \in job[v].rows
    BY <2>4
  <2>8. QED
    BY <2>5, <2>6, <2>7 DEF RowsAreKnown, IdsKeepTheirUrl
<1>8. ASSUME NEW t \in Tasks, Fetch(t) PROVE FromTable
  <2>1. CASE FetchFails(t)
    <3>1. PICK r \in job[t].rows : Proceed(t, job[t].rows \ {r})
      BY <2>1 DEF FetchFails
    <3>2. QED
      BY <1>1, <2>1, <3>1 DEF FetchFails, database
  <2>2. ASSUME NEW D, FetchContent(t, D) PROVE FromTable
    <3>1. PICK r \in job[t].rows :
             job' = [job EXCEPT ![t] = [op |-> "refresh", list |-> r.list, id |-> r.id,
                                        domains |-> D, rows |-> job[t].rows \ {r}]]
      BY <2>2 DEF FetchContent
    <3>2. job'[t].rows \subseteq job[t].rows /\ \A u \in Tasks \ {t} : job'[u] = job[u]
      BY <1>a, <3>1
    <3>3. QED
      BY <2>2, <3>2 DEF FetchContent, database
  <2>3. QED
    BY <1>8, <2>1, <2>2 DEF Fetch
<1>9. ASSUME NEW t \in Tasks, NEW l, NEW D, Committed(t, l, D)
      PROVE  \A u \in Tasks : job'[u].rows = job[u].rows
  BY <1>9, <1>a DEF Committed, Job
<1>10. ASSUME NEW t \in Tasks, UnderLock(t) PROVE FromTable
  <2>1. CASE CommitInsert(t) \/ CommitRemove(t) \/ CommitRefresh(t) \/ CommitSync(t)
    <3>1. /\ \E l, D : Committed(t, l, D)
          /\ sources' = sources /\ lastSourceId' = lastSourceId
      BY <2>1 DEF CommitInsert, CommitRemove, CommitRefresh, CommitSync
    <3>2. QED
      BY <1>9, <3>1
  <2>2. CASE CommitDeleteSource(t)
    <3>1. /\ \E l, D : Committed(t, l, D)
          /\ sources' \subseteq sources /\ lastSourceId' = lastSourceId
      BY <2>2 DEF CommitDeleteSource
    <3>2. QED
      BY <1>9, <3>1
  <2>3. CASE GiveUp(t) \/ Install(t)
    <3>1. Proceed(t, job[t].rows) /\ UNCHANGED database
      BY <2>3 DEF GiveUp, Abandon, Install
    <3>2. QED
      BY <1>1, <3>1 DEF database
  <2>4. QED
    BY <1>10, <2>1, <2>2, <2>3 DEF UnderLock
<1>11. ASSUME NEW t \in Tasks, Request(t) PROVE RowsAreKnown'
  <2>1. CASE \E op, l, id, D : Enqueue(t, op, l, id, D)
    BY <1>2, <1>3, <2>1
  <2>2. CASE \E rows \in SUBSET sources : BeginRefresh(t, rows)
    BY <1>2, <1>4, <2>2
  <2>3. CASE \E u \in Urls, l \in Lists : AddSource(t, u, l)
    BY <1>5, <2>3
  <2>4. CASE SyncSources(t)
    BY <1>6, <2>4
  <2>5. \A id : {s \in sources : s.id = id} \in SUBSET sources
    OBVIOUS
  <2>6. QED
    BY <1>11, <2>1, <2>2, <2>3, <2>4, <2>5 DEF Request, AddDomain, DeleteDomain, BulkImport,
       SyncDomains, DeleteSource, RefreshOneSource, RefreshAllSources, RefreshStaleSources
<1>12. CASE Restart
  <2>1. \A t \in Tasks : job'[t].rows = {}
    BY <1>12, <1>a DEF Restart
  <2>2. QED
    BY <1>2, <1>12, <2>1 DEF Restart, database
<1>13. CASE UNCHANGED vars
  BY <1>2, <1>13 DEF vars
<1>14. ASSUME NEW t \in Tasks, Acquire(t) PROVE RowsAreKnown'
  BY <1>2, <1>14 DEF Acquire, database
<1>15. QED
  BY <1>2, <1>7, <1>8, <1>10, <1>11, <1>12, <1>13, <1>14 DEF Next

(* An id a task has read never comes to name the source of another url,    *)
(* for any number of tasks, urls and ids, and however often the mirror     *)
(* replaces the table of sources (sync.rs apply_sources).                  *)
THEOREM IdsAlwaysKeepTheirUrl == Spec => []IdsKeepTheirUrl
<1>1. Init => SourceIdsUnique /\ RowsAreKnown
  BY DEF Init, NoJob, SourceIdsUnique, RowsAreKnown, IdsKeepTheirUrl
<1>2. RowsAreKnown => IdsKeepTheirUrl
  BY DEF RowsAreKnown
<1>3. QED
  BY <1>1, <1>2, SourceIdsStep, RowsAreKnownStep, TypeCorrect, PTL DEF Spec

(* A refresh that is too small by the rule of replace_source_domains never *)
(* replaces what its source owns, whichever requests, refreshes and        *)
(* restarts overlap; all of it goes only with the source's row.            *)
THEOREM RefreshesRetainShare == Spec => RefreshRetainsShare
<1> DEFINE After(id) == {d \in Domains : <<id, d>> \in owned'}
           Retains(id) ==
              \/ After(id) = OwnedBy(id)
              \/ After(id) = {} /\ \A s \in sources' : s.id # id
              \/ /\ Cardinality(After(id)) >= MinSourceDomains
                 /\ Cardinality(OwnedBy(id)) >= MinSourceDomains
                       => Cardinality(After(id)) * 100 >= Cardinality(OwnedBy(id)) * MinRetainedPercent
<1>1. ASSUME TypeOK, SourceIdsUnique, Next, NEW id \in SourceId PROVE Retains(id)
  <2>1. CASE UNCHANGED owned
    BY <2>1 DEF OwnedBy
  <2>2. ASSUME NEW t \in Tasks, CommitDeleteSource(t) PROVE Retains(id)
    <3>1. PICK s \in sources : /\ sources' = sources \ {s}
                               /\ owned' = {o \in owned : o[1] # s.id}
      BY <2>2 DEF CommitDeleteSource
    <3>2. CASE s.id = id
      <4>1. After(id) = {}
        BY <3>1, <3>2
      <4>2. \A r \in sources' : r.id # id
        BY <1>1, <3>1, <3>2 DEF SourceIdsUnique
      <4>3. QED
        BY <4>1, <4>2
    <3>3. CASE s.id # id
      <4>1. After(id) = OwnedBy(id)
        BY <3>1, <3>3 DEF OwnedBy
      <4>2. QED
        BY <4>1
    <3>4. QED
      BY <3>2, <3>3
  <2>3. ASSUME NEW t \in Tasks, CommitRefresh(t) PROVE Retains(id)
    <3> DEFINE content == job[t].domains
               previous == OwnedBy(id)
    <3>1. /\ ~Suspicious(OwnedBy(job[t].id), content) /\ content \subseteq Domains
          /\ owned' = {o \in owned : o[1] # job[t].id} \cup ({job[t].id} \X content)
      BY <1>1, <2>3 DEF CommitRefresh, TypeOK, Job
    <3>2. CASE job[t].id = id
      <4>1. After(id) = content
        BY <3>1, <3>2
      <4>2. Cardinality(content) \in Nat /\ Cardinality(previous) \in Nat
        <5>1. previous \subseteq Domains
          BY DEF OwnedBy
        <5>2. IsFiniteSet(content) /\ IsFiniteSet(previous)
          BY <3>1, <5>1, FS_Subset
        <5>3. QED
          BY <5>2, FS_CardinalityType
      <4>3. ~Suspicious(previous, content)
        BY <3>1, <3>2
      <4>4. Retains(id) <=>
              \/ content = previous
              \/ content = {} /\ \A s \in sources' : s.id # id
              \/ /\ Cardinality(content) >= MinSourceDomains
                 /\ Cardinality(previous) >= MinSourceDomains
                       => Cardinality(content) * 100 >= Cardinality(previous) * MinRetainedPercent
        BY <4>1
      <4> DEFINE c == Cardinality(content)
                 p == Cardinality(previous)
      <4>5. c \in Nat /\ p \in Nat /\ MinSourceDomains \in Nat /\ MinRetainedPercent \in Nat
            /\ ~(c < MinSourceDomains)
            /\ (p >= MinSourceDomains => ~(c * 100 < p * MinRetainedPercent))
        BY <4>2, <4>3 DEF Suspicious
      <4> HIDE DEF c, p
      <4>6. c >= MinSourceDomains /\ (p >= MinSourceDomains => c * 100 >= p * MinRetainedPercent)
        <5>1. p * MinRetainedPercent \in Nat /\ c * 100 \in Nat
          BY <4>5
        <5>2. QED
          BY <4>5, <5>1
      <4> HIDE DEF Retains, content, previous
      <4>7. QED
        BY <4>4, <4>6 DEF c, p
    <3>3. CASE job[t].id # id
      <4>1. After(id) = OwnedBy(id)
        BY <3>1, <3>3 DEF OwnedBy
      <4>2. QED
        BY <4>1
    <3>4. QED
      BY <3>2, <3>3
  <2>4. ASSUME NEW t \in Tasks, CommitInsert(t) \/ CommitRemove(t) \/ CommitSync(t) \/ GiveUp(t)
                                \/ Install(t) \/ LookUpSource(t) \/ Fetch(t) \/ Acquire(t)
        PROVE  UNCHANGED owned
    BY <2>4 DEF CommitInsert, CommitRemove, CommitSync, GiveUp, Abandon, Install, LookUpSource,
       Fetch, FetchFails, FetchContent, Acquire, database
  <2>5. ASSUME NEW t \in Tasks, Request(t) PROVE UNCHANGED owned
    BY <2>5 DEF Request, AddDomain, DeleteDomain, BulkImport, SyncDomains, DeleteSource,
       RefreshOneSource, AddSource, RefreshAllSources, RefreshStaleSources, SyncSources, Enqueue,
       BeginRefresh, database
  <2>6. CASE Restart
    BY <2>1, <2>6 DEF Restart, database
  <2> HIDE DEF Retains
  <2>7. QED
    BY <1>1, <2>1, <2>2, <2>3, <2>4, <2>5, <2>6 DEF Next, UnderLock
<1> HIDE DEF Retains
<1>2. TypeOK /\ SourceIdsUnique /\ [Next]_vars =>
         [\A id \in SourceId :
            LET before == OwnedBy(id)
                after == {d \in Domains : <<id, d>> \in owned'}
            IN  \/ after = before
                \/ after = {} /\ \A s \in sources' : s.id # id
                \/ /\ Cardinality(after) >= MinSourceDomains
                   /\ Cardinality(before) >= MinSourceDomains
                         => Cardinality(after) * 100 >= Cardinality(before) * MinRetainedPercent]_vars
  BY <1>1 DEF Retains
<1>3. Init => SourceIdsUnique
  BY DEF Init, SourceIdsUnique
<1>4. QED
  BY <1>2, <1>3, SourceIdsStep, TypeCorrect, PTL DEF Spec, RefreshRetainsShare

-----------------------------------------------------------------------------
(* Prune.                                                                  *)

(* Of a server that mirrors no primary.                                    *)
NoSnapshots == \A t \in Tasks : job[t].op # "sync"

(* No request, refresh or restart of such a server starts to apply a       *)
(* snapshot.                                                               *)
LEMMA NoSnapshotsStep ==
    ASSUME SyncTasks = {}, TypeOK, NoSnapshots, [Next]_vars
    PROVE  NoSnapshots'
<1>1. ASSUME NEW t \in Tasks, Request(t) PROVE NoSnapshots'
  <2>1. ASSUME NEW op \in {"insert", "remove", "deleteSource"}, NEW l, NEW id, NEW D,
               Enqueue(t, op, l, id, D)
        PROVE  NoSnapshots'
    BY <2>1 DEF Enqueue, NoJob, NoSnapshots, TypeOK
  <2>2. ASSUME NEW rows, BeginRefresh(t, rows) PROVE NoSnapshots'
    BY <2>2 DEF BeginRefresh, NoJob, NoSnapshots, TypeOK
  <2>3. ASSUME NEW u \in Urls, NEW l \in Lists, AddSource(t, u, l) PROVE NoSnapshots'
    BY <2>3 DEF AddSource, NoJob, NoSnapshots, TypeOK
  <2> QED BY <1>1, <2>1, <2>2, <2>3 DEF Request, AddDomain, DeleteDomain, BulkImport, SyncDomains,
             DeleteSource, RefreshOneSource, RefreshAllSources, RefreshStaleSources, SyncSources
<1>2. ASSUME NEW t \in Tasks, NEW rows, Proceed(t, rows) PROVE NoSnapshots'
  BY <1>2 DEF Proceed, NoJob, NoSnapshots, TypeOK
<1>3. ASSUME NEW t \in Tasks, LookUpSource(t) \/ Acquire(t) PROVE NoSnapshots'
  <2>1. \A x \in Tasks : job'[x].op = job[x].op
    BY <1>3 DEF LookUpSource, Acquire, TypeOK, Job
  <2> QED BY <2>1 DEF NoSnapshots
<1>4. ASSUME NEW t \in Tasks, Fetch(t) PROVE NoSnapshots'
  <2>1. ASSUME NEW D, FetchContent(t, D) PROVE NoSnapshots'
    BY <2>1 DEF FetchContent, NoSnapshots, TypeOK
  <2> QED BY <1>2, <1>4, <2>1 DEF Fetch, FetchFails
<1>5. ASSUME NEW t \in Tasks, NEW l, NEW D, Committed(t, l, D) PROVE NoSnapshots'
  <2>1. \A x \in Tasks : job'[x].op = job[x].op
    BY <1>5 DEF Committed, TypeOK, Job
  <2> QED BY <2>1 DEF NoSnapshots
<1>6. ASSUME NEW t \in Tasks, UnderLock(t) PROVE NoSnapshots'
  BY <1>2, <1>5, <1>6 DEF UnderLock, CommitInsert, CommitRemove, CommitDeleteSource, CommitRefresh,
     CommitSync, GiveUp, Abandon, Install
<1>7. CASE Restart \/ UNCHANGED vars
  BY <1>7 DEF Restart, NoJob, NoSnapshots, vars
<1> QED BY <1>1, <1>3, <1>4, <1>6, <1>7 DEF Next

(* What a deletion of a source leaves in the list is manual, or owned by   *)
(* another source.                                                         *)
LEMMA DeletionPrunes ==
    ASSUME \A l, k \in Lists : l = k, ~IgnoredErrors, TypeOK, EveryListedDomainIsOwned,
           NEW t \in Tasks, CommitDeleteSource(t)
    PROVE  EveryListedDomainIsOwned'
<1>1. PICK s \in sources :
         /\ owned' = {o \in owned : o[1] # s.id}
         /\ listed' = [listed EXCEPT ![s.list] =
                          listed[s.list] \ Unreferenced(OwnedBy(s.id), owned', s.list)]
  BY DEF CommitDeleteSource, Pruned
<1>2. manual' = manual
  BY DEF CommitDeleteSource
<1>3. s.list \in Lists /\ listed \in [Lists -> SUBSET Domains] /\ owned \subseteq SourceId \X Domains
  BY DEF TypeOK, SourceRow
<1>4. ASSUME NEW l \in Lists, NEW d \in listed'[l], d \notin manual[l]
      PROVE  \E o \in owned' : o[2] = d
  <2>1. l = s.list
    BY <1>3
  <2>2. d \in listed[l] /\ d \notin Unreferenced(OwnedBy(s.id), owned', l)
    BY <1>1, <1>3, <1>4, <2>1
  <2>3. PICK o \in owned : o[2] = d
    BY <1>4, <2>2 DEF EveryListedDomainIsOwned
  <2>4. CASE o[1] # s.id
    BY <1>1, <2>3, <2>4
  <2>5. CASE o[1] = s.id
    <3>1. d \in OwnedBy(s.id)
      BY <1>3, <2>3, <2>5 DEF OwnedBy
    <3> QED BY <1>4, <2>2, <3>1 DEF Unreferenced
  <2> QED BY <2>4, <2>5
<1> QED BY <1>2, <1>4 DEF EveryListedDomainIsOwned

(* What a refresh leaves in the list is manual, in the content it fetched, *)
(* or owned by another source.                                             *)
LEMMA RefreshPrunes ==
    ASSUME \A l, k \in Lists : l = k, TypeOK, EveryListedDomainIsOwned,
           NEW t \in Tasks, CommitRefresh(t)
    PROVE  EveryListedDomainIsOwned'
<1> DEFINE id == job[t].id
           content == job[t].domains
           list == job[t].list
<1>1. /\ owned' = {o \in owned : o[1] # id} \cup ({id} \X content)
      /\ listed' = [listed EXCEPT ![list] = (@ \cup content) \ Unreferenced(OwnedBy(id), owned', list)]
      /\ manual' = manual
  BY DEF CommitRefresh
<1>2. list \in Lists /\ listed \in [Lists -> SUBSET Domains] /\ owned \subseteq SourceId \X Domains
  BY DEF TypeOK, Job
<1> HIDE DEF id, content, list
<1>3. ASSUME NEW l \in Lists, NEW d \in listed'[l], d \notin manual[l]
      PROVE  \E o \in owned' : o[2] = d
  <2>1. l = list
    BY <1>2
  <2>2. d \in listed[l] \cup content /\ d \notin Unreferenced(OwnedBy(id), owned', l)
    BY <1>1, <1>2, <1>3, <2>1
  <2>3. CASE d \in content
    <3>1. <<id, d>> \in owned'
      BY <1>1, <2>3
    <3> QED BY <3>1
  <2>4. CASE d \notin content
    <3>1. PICK o \in owned : o[2] = d
      BY <1>3, <2>2, <2>4 DEF EveryListedDomainIsOwned
    <3>2. CASE o[1] # id
      BY <1>1, <3>1, <3>2
    <3>3. CASE o[1] = id
      <4>1. d \in OwnedBy(id)
        BY <1>2, <3>1, <3>3 DEF OwnedBy
      <4> QED BY <1>3, <2>2, <4>1 DEF Unreferenced
    <3> QED BY <3>2, <3>3
  <2> QED BY <2>3, <2>4
<1> QED BY <1>1, <1>3 DEF EveryListedDomainIsOwned

(* A server that mirrors nothing, with one list and no statement that      *)
(* fails unnoticed: for any sources, domains and concurrent tasks, prune   *)
(* leaves no domain in the list that nobody put there.  With a second list *)
(* the ownership of one keeps domains in the other (the run                *)
(* lists_two_types).                                                       *)
THEOREM ListedDomainsAreOwned ==
    ASSUME \A l, k \in Lists : l = k, SyncTasks = {}, ~IgnoredErrors
    PROVE  Spec => []EveryListedDomainIsOwned
<1>1. ASSUME TypeOK, NoSnapshots, EveryListedDomainIsOwned, [Next]_vars
      PROVE  EveryListedDomainIsOwned'
  <2>1. CASE UNCHANGED <<listed, manual, owned>>
    BY <1>1, <2>1 DEF EveryListedDomainIsOwned
  <2>2. ASSUME NEW t \in Tasks, CommitInsert(t) PROVE EveryListedDomainIsOwned'
    BY <1>1, <2>2 DEF CommitInsert, TypeOK, Job, EveryListedDomainIsOwned
  <2>3. ASSUME NEW t \in Tasks, CommitRemove(t) PROVE EveryListedDomainIsOwned'
    BY <1>1, <2>3 DEF CommitRemove, TypeOK, Job, EveryListedDomainIsOwned
  <2>4. ASSUME NEW t \in Tasks, CommitDeleteSource(t) PROVE EveryListedDomainIsOwned'
    BY <1>1, <2>4, DeletionPrunes
  <2>5. ASSUME NEW t \in Tasks, CommitRefresh(t) PROVE EveryListedDomainIsOwned'
    BY <1>1, <2>5, RefreshPrunes
  <2>6. ASSUME NEW t \in Tasks PROVE ~CommitSync(t)
    BY <1>1 DEF CommitSync, Holds, NoSnapshots
  <2>7. ASSUME NEW t \in Tasks, GiveUp(t) \/ Install(t) \/ LookUpSource(t) \/ Fetch(t) \/ Acquire(t)
        PROVE  UNCHANGED <<listed, manual, owned>>
    BY <2>7 DEF GiveUp, Abandon, Install, LookUpSource, Fetch, FetchFails, FetchContent, Acquire,
       database
  <2>8. ASSUME NEW t \in Tasks, Request(t) PROVE UNCHANGED <<listed, manual, owned>>
    BY <2>8 DEF Request, AddDomain, DeleteDomain, BulkImport, SyncDomains, DeleteSource,
       RefreshOneSource, AddSource, RefreshAllSources, RefreshStaleSources, SyncSources, Enqueue,
       BeginRefresh, database
  <2>9. CASE Restart \/ UNCHANGED vars
    BY <2>1, <2>9 DEF Restart, database, vars
  <2> QED BY <1>1, <2>1, <2>2, <2>3, <2>4, <2>5, <2>6, <2>7, <2>8, <2>9 DEF Next, UnderLock
<1>2. Init => NoSnapshots /\ EveryListedDomainIsOwned
  BY DEF Init, NoJob, NoSnapshots, EveryListedDomainIsOwned
<1>3. TypeOK /\ NoSnapshots /\ EveryListedDomainIsOwned /\ [Next]_vars
         => NoSnapshots' /\ EveryListedDomainIsOwned'
  BY <1>1, NoSnapshotsStep
<1> QED BY <1>2, <1>3, TypeCorrect, PTL DEF Spec
=============================================================================
