----------------------------- MODULE QueryPipeline -----------------------------
(***************************************************************************)
(* What happens to a DNS request between its arrival and its row in the    *)
(* query log (handler.rs, stats.rs): it takes a permit or is rejected, is  *)
(* checked against the ACL, the rewrites, the allowlist and the blocklist, *)
(* one shared structure after the other, is answered here or by the        *)
(* forwarder, and leaves an entry that a background writer carries from a  *)
(* bounded channel over a batch into the table, while settings and lists   *)
(* change, the log is cleared or pruned, and the process restarts.         *)
(*                                                                         *)
(* A list is the set of the names it matches (module DomainStore says how  *)
(* it finds them).  The forwarder is one step: module Forwarder shows that *)
(* every query it accepts ends.  The sinkhole addresses are left out.      *)
(***************************************************************************)
EXTENDS Integers, Sequences, FiniteSets

CONSTANTS
    Requests,         \* every request that arrives
    Clients,          \* addresses requests come from
    Names,            \* domain names asked for
    AddressTypes,     \* types of records that hold an address: A and AAAA
    Asked,            \* the questions each request may carry
    StoredAllow,      \* the allowlist the process starts with
    StoredBlock,      \* the blocklist the process starts with
    MaxInFlight,      \* permits, dns max_in_flight
    ChannelCapacity,  \* of the channel to the log writer
    BatchSize,        \* BATCH_SIZE
    MaxChanges,       \* bound on changes of settings and lists
    MaxRestarts       \* bound on restarts

Question == [client : Clients, kind : {"empty", "not_in", "in"}, name : Names,
             type : AddressTypes \cup {"other"}]

ASSUME PipelineAssumption ==
    /\ IsFiniteSet(Requests)
    /\ Asked \in [Requests -> SUBSET Question]
    /\ StoredAllow \subseteq Names
    /\ StoredBlock \subseteq Names
    /\ MaxInFlight \in Nat \ {0}
    /\ ChannelCapacity \in Nat \ {0}
    /\ BatchSize \in Nat \ {0}
    /\ MaxChanges \in Nat
    /\ MaxRestarts \in Nat

VARIABLES
    acl,       \* networks that may ask, none: everybody may
    rewrites,  \* the address types each name is rewritten for
    allow,     \* names the allowlist matches
    block,     \* names the blocklist matches
    mode,      \* block_response_mode
    question,  \* what each request asks
    pc,        \* the next thing a request does
    decision,  \* what was decided about a request
    reply,     \* the answer made for it
    sent,      \* requests whose answer went out
    permits,   \* of the semaphore
    rejected,  \* counter of requests without a permit
    counted,   \* counters of the query log
    channel,   \* entries recorded and not yet received by the writer
    batch,     \* entries the writer collects
    writing,   \* entries handed to the database task
    writer,    \* what the writer task does
    rows,      \* table query_log
    aged,      \* how many of its first rows are older than the retention
    changes, restarts,
    history    \* requests in the order in which they were recorded

settings == <<acl, rewrites, allow, block, mode>>
request == <<question, pc, decision, reply, sent, permits, rejected>>
memory == <<counted, channel, batch, writing, writer>>
table == <<rows, aged>>
bounds == <<changes, restarts>>
vars == <<settings, request, memory, table, bounds, history>>

Action == {"allowed", "blocked", "rewritten", "forwarded"}
Reply == {"none", "overload", "refused", "formerr", "rewrite", "nxdomain", "sinkhole",
          "upstream"}
InFlight == {"acl", "rewrites", "allowlist", "blocklist", "answer", "send", "forward", "log"}
Entry == [request : Requests, action : Action]

TypeOK ==
    /\ acl \in SUBSET Clients
    /\ rewrites \in [Names -> SUBSET AddressTypes]
    /\ allow \in SUBSET Names
    /\ block \in SUBSET Names
    /\ mode \in {"nxdomain", "null_ip"}
    /\ question \in [Requests -> Question]
    /\ pc \in [Requests -> {"new", "overload", "done", "gone"} \cup InFlight]
    /\ decision \in [Requests -> Action \cup {"none"}]
    /\ reply \in [Requests -> Reply]
    /\ sent \in SUBSET Requests
    /\ permits \in 0 .. MaxInFlight
    /\ rejected \in Nat
    /\ counted \in [Action \cup {"total"} -> Nat]
    /\ channel \in Seq(Entry)
    /\ Len(channel) <= ChannelCapacity
    /\ batch \in Seq(Entry)
    /\ Len(batch) < BatchSize
    /\ writing \in Seq(Entry)
    /\ writer \in {"idle", "inserting", "pruning"}
    /\ rows \in Seq(Entry)
    /\ aged \in Nat
    /\ changes \in 0 .. MaxChanges
    /\ restarts \in 0 .. MaxRestarts
    /\ history \in Seq(Requests)

NothingCounted == [c \in Action \cup {"total"} |-> 0]

Init ==
    /\ acl = {}
    /\ rewrites = [n \in Names |-> {}]
    /\ allow = StoredAllow
    /\ block = StoredBlock
    /\ mode = "nxdomain"
    /\ question \in {q \in [Requests -> Question] : \A r \in Requests : q[r] \in Asked[r]}
    /\ pc = [r \in Requests |-> "new"]
    /\ decision = [r \in Requests |-> "none"]
    /\ reply = [r \in Requests |-> "none"]
    /\ sent = {}
    /\ permits = MaxInFlight
    /\ rejected = 0
    /\ counted = NothingCounted
    /\ channel = <<>>
    /\ batch = <<>>
    /\ writing = <<>>
    /\ writer = "idle"
    /\ rows = <<>>
    /\ aged = 0
    /\ changes = 0
    /\ restarts = 0
    /\ history = <<>>

-----------------------------------------------------------------------------
(* Recording an entry.                                                     *)

(* Faulty variant: what is dropped is not counted.                         *)
RecordIfAccepted(r, action) ==
    /\ counted' = IF Len(channel) < ChannelCapacity
                  THEN [counted EXCEPT !["total"] = @ + 1, ![action] = @ + 1]
                  ELSE [counted EXCEPT !["total"] = @ + 1]
    /\ channel' = IF Len(channel) < ChannelCapacity
                  THEN Append(channel, [request |-> r, action |-> action])
                  ELSE channel
    /\ history' = Append(history, r)
    /\ UNCHANGED <<batch, writing, writer>>

(* QueryLog::record: the counters always count, a full channel drops the   *)
(* entry.                                                                  *)
Record(r, action) ==
    /\ counted' = [counted EXCEPT !["total"] = @ + 1, ![action] = @ + 1]
    /\ channel' = IF Len(channel) < ChannelCapacity
                  THEN Append(channel, [request |-> r, action |-> action])
                  ELSE channel
    /\ history' = Append(history, r)
    /\ UNCHANGED <<batch, writing, writer>>

-----------------------------------------------------------------------------
(* A request.  The permit is held until the handler returns.               *)

Goto(r, next) ==
    /\ pc' = [pc EXCEPT ![r] = next]
    /\ UNCHANGED permits

Finish(r) ==
    /\ pc' = [pc EXCEPT ![r] = "done"]
    /\ permits' = permits + 1

Answer(r, answer) ==
    reply' = [reply EXCEPT ![r] = answer]

(* send_response(..).await ends: the answer went out, or the socket refused *)
(* it and nothing did.                                                     *)
Deliver(r) ==
    sent' \in {sent, sent \cup {r}}

(* No permit: counted and not logged, SERVFAIL is to be sent.              *)
Reject(r) ==
    /\ pc[r] = "new"
    /\ permits = 0
    /\ rejected' = rejected + 1
    /\ Answer(r, "overload")
    /\ Goto(r, "overload")
    /\ UNCHANGED <<settings, question, decision, sent, memory, table, bounds, history>>

(* Faulty variant: a rejected request returns a permit it never had.       *)
SendOverloadReleasing(r) ==
    /\ pc[r] = "overload"
    /\ Deliver(r)
    /\ Finish(r)
    /\ UNCHANGED <<settings, question, decision, reply, rejected, memory, table, bounds,
                   history>>

SendOverload(r) ==
    /\ pc[r] = "overload"
    /\ Deliver(r)
    /\ Goto(r, "done")
    /\ UNCHANGED <<settings, question, decision, reply, rejected, memory, table, bounds,
                   history>>

Admit(r) ==
    /\ pc[r] = "new"
    /\ permits > 0
    /\ permits' = permits - 1
    /\ pc' = [pc EXCEPT ![r] = "acl"]
    /\ UNCHANGED <<settings, question, decision, reply, sent, rejected, memory, table, bounds,
                   history>>

MayAsk(client) == acl = {} \/ client \in acl

(* The ACL, and what needs no lookup: no question, or not of class IN.     *)
CheckAcl(r) ==
    /\ pc[r] = "acl"
    /\ \/ /\ ~MayAsk(question[r].client)
          /\ Answer(r, "refused")
          /\ Goto(r, "send")
       \/ /\ MayAsk(question[r].client)
          /\ question[r].kind = "empty"
          /\ Answer(r, "formerr")
          /\ Goto(r, "send")
       \/ /\ MayAsk(question[r].client)
          /\ question[r].kind = "not_in"
          /\ Answer(r, "refused")
          /\ Goto(r, "send")
       \/ /\ MayAsk(question[r].client)
          /\ question[r].kind = "in"
          /\ Goto(r, "rewrites")
          /\ UNCHANGED reply
    /\ UNCHANGED <<settings, question, decision, sent, rejected, memory, table, bounds,
                   history>>

(* A rule without an address of the type asked for is no rewrite.  A       *)
(* rewritten name is recorded before the answer is sent.                   *)
CheckRewrites(r) ==
    /\ pc[r] = "rewrites"
    /\ \/ /\ question[r].type \in rewrites[question[r].name]
          /\ decision' = [decision EXCEPT ![r] = "rewritten"]
          /\ Record(r, "rewritten")
          /\ Answer(r, "rewrite")
          /\ Goto(r, "send")
       \/ /\ question[r].type \notin rewrites[question[r].name]
          /\ Goto(r, "allowlist")
          /\ UNCHANGED <<decision, reply, memory, history>>
    /\ UNCHANGED <<settings, question, sent, rejected, table, bounds>>

(* The guard of the allowlist is kept while the blocklist is read.         *)
CheckAllowlist(r) ==
    /\ pc[r] = "allowlist"
    /\ \/ /\ question[r].name \in allow
          /\ decision' = [decision EXCEPT ![r] = "allowed"]
          /\ Goto(r, "forward")
       \/ /\ question[r].name \notin allow
          /\ Goto(r, "blocklist")
          /\ UNCHANGED decision
    /\ UNCHANGED <<settings, question, reply, sent, rejected, memory, table, bounds, history>>

(* Faulty variant: the guard is released before the blocklist is read.     *)
NoReaders == {}

(* Requests that hold the guard of the allowlist.                          *)
AllowlistReaders == {r \in Requests : pc[r] = "blocklist"}

(* A blocked name is recorded before the answer is chosen.                 *)
CheckBlocklist(r) ==
    /\ pc[r] = "blocklist"
    /\ \/ /\ question[r].name \in block
          /\ decision' = [decision EXCEPT ![r] = "blocked"]
          /\ Record(r, "blocked")
          /\ Goto(r, "answer")
       \/ /\ question[r].name \notin block
          /\ decision' = [decision EXCEPT ![r] = "forwarded"]
          /\ Goto(r, "forward")
          /\ UNCHANGED <<memory, history>>
    /\ UNCHANGED <<settings, question, reply, sent, rejected, table, bounds>>

BlockedResponse(type) ==
    IF mode = "nxdomain" THEN "nxdomain"
    ELSE IF type \in AddressTypes THEN "sinkhole" ELSE "refused"

AnswerBlocked(r) ==
    /\ pc[r] = "answer"
    /\ Answer(r, BlockedResponse(question[r].type))
    /\ Goto(r, "send")
    /\ UNCHANGED <<settings, question, decision, sent, rejected, memory, table, bounds,
                   history>>

(* The answers made here are awaited with the permit in hand.              *)
Send(r) ==
    /\ pc[r] = "send"
    /\ Deliver(r)
    /\ Finish(r)
    /\ UNCHANGED <<settings, question, decision, reply, rejected, memory, table, bounds,
                   history>>

(* The forwarder sends the response itself, or fails to.                   *)
Forward(r) ==
    /\ pc[r] = "forward"
    /\ Answer(r, "upstream")
    /\ Deliver(r)
    /\ Goto(r, "log")
    /\ UNCHANGED <<settings, question, decision, rejected, memory, table, bounds, history>>

(* Faulty variant: the path of a failed send forgets that the name was     *)
(* allowed.                                                                *)
RecordUnsentAsForwarded(r) ==
    /\ pc[r] = "log"
    /\ Record(r, IF r \in sent THEN decision[r] ELSE "forwarded")
    /\ Finish(r)
    /\ UNCHANGED <<settings, question, decision, reply, sent, rejected, table, bounds>>

(* After the forwarder returned, with or without an error.                 *)
RecordForwarded(r) ==
    /\ pc[r] = "log"
    /\ Record(r, decision[r])
    /\ Finish(r)
    /\ UNCHANGED <<settings, question, decision, reply, sent, rejected, table, bounds>>

-----------------------------------------------------------------------------
(* The writer of the query log.                                            *)

(* Faulty variant: the batch is copied and kept.                           *)
StartFlushOfCopy(b) ==
    /\ writing' = b
    /\ batch' = b
    /\ writer' = "inserting"

(* The batch is taken out and handed to a database task.                   *)
StartFlush(b) ==
    /\ writing' = b
    /\ batch' = <<>>
    /\ writer' = "inserting"

Collect(b) ==
    /\ batch' = b
    /\ UNCHANGED <<writing, writer>>

(* Faulty variant: only the interval flushes.                              *)
ReceiveUnbatched ==
    /\ writer = "idle"
    /\ channel # <<>>
    /\ channel' = Tail(channel)
    /\ Collect(Append(batch, Head(channel)))
    /\ UNCHANGED <<settings, request, counted, table, bounds, history>>

(* A full batch is flushed at once.                                        *)
Receive ==
    /\ writer = "idle"
    /\ channel # <<>>
    /\ channel' = Tail(channel)
    /\ LET b == Append(batch, Head(channel)) IN
       IF Len(b) >= BatchSize THEN StartFlush(b) ELSE Collect(b)
    /\ UNCHANGED <<settings, request, counted, table, bounds, history>>

(* Faulty variant: the interval flushes full batches only.                 *)
TickWhenFull ==
    /\ writer = "idle"
    /\ Len(batch) >= BatchSize
    /\ StartFlush(batch)
    /\ UNCHANGED <<settings, request, counted, channel, table, bounds, history>>

(* The interval of FLUSH_INTERVAL_MS.                                      *)
Tick ==
    /\ writer = "idle"
    /\ batch # <<>>
    /\ StartFlush(batch)
    /\ UNCHANGED <<settings, request, counted, channel, table, bounds, history>>

(* An INSERT that fails is skipped, a failed commit or no connection loses *)
(* all of them; what is kept is kept in its order.                         *)
Insert ==
    /\ writer = "inserting"
    /\ \E n \in 0 .. Len(writing) : \E kept \in [1 .. n -> DOMAIN writing] :
          /\ \A i, j \in 1 .. n : i < j => kept[i] < kept[j]
          /\ rows' = rows \o [i \in 1 .. n |-> writing[kept[i]]]
    /\ writing' = <<>>
    /\ writer' = "pruning"
    /\ UNCHANGED <<settings, request, counted, channel, batch, aged, bounds, history>>

(* Rows past the retention are deleted, unless it is 0 or the DELETE fails.*)
Prune ==
    /\ writer = "pruning"
    /\ \/ /\ rows' = SubSeq(rows, aged + 1, Len(rows))
          /\ aged' = 0
       \/ UNCHANGED table
    /\ writer' = "idle"
    /\ UNCHANGED <<settings, request, counted, channel, batch, writing, bounds, history>>

-----------------------------------------------------------------------------
(* What happens to both.                                                   *)

(* Setting what is set already is no change.                               *)
Change ==
    /\ changes < MaxChanges
    /\ changes' = changes + 1
    /\ settings' # settings
    /\ UNCHANGED <<request, memory, table, restarts, history>>

SetAcl(networks) ==
    /\ acl' = networks
    /\ UNCHANGED <<rewrites, allow, block, mode>>
    /\ Change

SetRewrite(name, types) ==
    /\ rewrites' = [rewrites EXCEPT ![name] = types]
    /\ UNCHANGED <<acl, allow, block, mode>>
    /\ Change

(* A write of the allowlist waits for the requests that hold its guard.    *)
SetAllow(names) ==
    /\ AllowlistReaders = {}
    /\ allow' = names
    /\ UNCHANGED <<acl, rewrites, block, mode>>
    /\ Change

SetBlock(names) ==
    /\ block' = names
    /\ UNCHANGED <<acl, rewrites, allow, mode>>
    /\ Change

SetMode(m) ==
    /\ mode' = m
    /\ UNCHANGED <<acl, rewrites, allow, block>>
    /\ Change

(* DELETE /api/stats: the table only.                                      *)
Clear ==
    /\ rows # <<>>
    /\ rows' = <<>>
    /\ aged' = 0
    /\ UNCHANGED <<settings, request, memory, bounds, history>>

(* The rows there are pass the retention.                                  *)
Age ==
    /\ aged < Len(rows)
    /\ aged' = Len(rows)
    /\ UNCHANGED <<settings, request, memory, rows, bounds, history>>

(* The process ends and starts again: what was in memory is lost, settings *)
(* and lists come back from the database.                                  *)
Restart ==
    /\ restarts < MaxRestarts
    /\ restarts' = restarts + 1
    /\ pc' = [r \in Requests |-> IF pc[r] = "new" THEN "new" ELSE "gone"]
    /\ permits' = MaxInFlight
    /\ rejected' = 0
    /\ counted' = NothingCounted
    /\ channel' = <<>>
    /\ batch' = <<>>
    /\ writing' = <<>>
    /\ writer' = "idle"
    /\ UNCHANGED <<settings, question, decision, reply, sent, table, changes, history>>

Handle(r) ==
    \/ CheckAcl(r) \/ CheckRewrites(r) \/ CheckAllowlist(r) \/ CheckBlocklist(r)
    \/ AnswerBlocked(r) \/ Send(r) \/ Forward(r) \/ RecordForwarded(r)

Configure ==
    \/ \E networks \in SUBSET Clients : SetAcl(networks)
    \/ \E n \in Names, types \in SUBSET AddressTypes : SetRewrite(n, types)
    \/ \E names \in SUBSET Names : SetAllow(names)
    \/ \E names \in SUBSET Names : SetBlock(names)
    \/ \E m \in {"nxdomain", "null_ip"} : SetMode(m)

Next ==
    \/ \E r \in Requests : Reject(r) \/ SendOverload(r) \/ Admit(r) \/ Handle(r)
    \/ Receive \/ Tick \/ Insert \/ Prune
    \/ Configure \/ Clear \/ Age \/ Restart

Spec == Init /\ [][Next]_vars

(* select! serves its branches in turn, so neither the channel nor the     *)
(* interval is passed over for ever; a database task ends.                 *)
FairSpec ==
    Spec /\ WF_vars(Receive) /\ WF_vars(Tick) /\ WF_vars(Insert) /\ WF_vars(Prune)

-----------------------------------------------------------------------------
(* Properties.                                                             *)

(* No permit is lost or returned twice (handler.rs:310): what is free and  *)
(* what requests hold add up to max_in_flight.                             *)
PermitsReturned ==
    permits + Cardinality({r \in Requests : pc[r] \in InFlight}) = MaxInFlight

(* The counters tell what was decided since the process started, also when *)
(* entries are dropped because the channel is full (stats.rs:157); with    *)
(* the rejected ones they account for every request that was not refused   *)
(* before a lookup.                                                        *)
Decided(action) ==
    {r \in Requests : decision[r] = action /\ pc[r] \in {"answer", "send", "done"}}

CountersAreTrue ==
    /\ \A action \in Action : counted[action] = Cardinality(Decided(action))
    /\ counted["total"] = Cardinality(UNION {Decided(action) : action \in Action})
    /\ rejected = Cardinality({r \in Requests : reply[r] = "overload" /\ pc[r] # "gone"})

(* A request that reads the blocklist found no match in an allowlist that  *)
(* has not changed since.                                                  *)
ReadersSawNoMatch ==
    \A r \in AllowlistReaders : question[r].name \notin allow

(* Entries reach the table in the order in which they were recorded and    *)
(* none twice, however receiving, flushing, failing, pruning, clearing and *)
(* restarting alternate (stats.rs:205).                                    *)
Pipeline == rows \o writing \o batch \o channel

RecordedAt(r) == CHOOSE i \in DOMAIN history : history[i] = r

LogKeepsOrder ==
    \A i, j \in DOMAIN Pipeline :
        i < j => RecordedAt(Pipeline[i].request) < RecordedAt(Pipeline[j].request)

(* The log says of a request what was made of it, from the entry's         *)
(* recording to its row, past failed sends and restarts (handler.rs:445):  *)
(* the action is the decision, and the answer is of that kind.  Whether it *)
(* went out the entry does not say: a rewritten or blocked name is recorded*)
(* before the awaited send.  But none of these answers goes out before the *)
(* request is recorded, and an allowed or forwarded one is recorded only   *)
(* after the forwarder returned.                                           *)
Replies(action) ==
    CASE action = "rewritten" -> {"rewrite"}
      [] action = "blocked" -> {"none", "nxdomain", "sinkhole", "refused"}
      [] OTHER -> {"upstream"}

EntriesTellTheAnswer ==
    \A i \in DOMAIN Pipeline :
        LET e == Pipeline[i] IN
        /\ e.action = decision[e.request]
        /\ reply[e.request] \in Replies(e.action)

AnswersAreRecorded ==
    \A r \in sent :
        decision[r] \in {"rewritten", "blocked"} => \E a \in DOMAIN history : history[a] = r

LogTellsTheAnswer == EntriesTellTheAnswer /\ AnswersAreRecorded

(* Although the two lists are read one after the other, a request gets the *)
(* answer of one state of both (handler.rs:434): the allowlist goes before *)
(* the blocklist, as they are when the decision is made.                   *)
Verdict(name) ==
    IF name \in allow THEN "allowed" ELSE IF name \in block THEN "blocked" ELSE "forwarded"

OneListState(r) ==
    decision'[r] # decision[r] => decision'[r] \in {"rewritten", Verdict(question[r].name)}

DecidesOnOneListState == [][\A r \in Requests : OneListState(r)]_vars

(* What the channel accepted does not stay in memory (stats.rs:214): it is *)
(* handed to the database, or lost with a failed flush or a restart.       *)
InMemory(r) ==
    \E i \in DOMAIN (writing \o batch \o channel) :
        (writing \o batch \o channel)[i].request = r

EntriesLeaveMemory == \A r \in Requests : InMemory(r) ~> ~InMemory(r)

=============================================================================
