-------------------------- MODULE QueryPipeline_proofs --------------------------
(* Proofs about QueryPipeline, for any number of requests, changes and     *)
(* restarts: permits are conserved, a request is decided on one state of   *)
(* both lists, the counters tell what was decided, and the log is in the   *)
(* order of recording and says what was made of each request.              *)
EXTENDS QueryPipeline, FiniteSetTheorems, SequenceTheorems, TLAPS

Busy == {r \in Requests : pc[r] \in InFlight}

(* The part of TypeOK the proofs need.                                     *)
RequestsTyped ==
    /\ question \in [Requests -> Question]
    /\ pc \in [Requests -> {"new", "overload", "done", "gone"} \cup InFlight]
    /\ decision \in [Requests -> Action \cup {"none"}]
    /\ permits \in Nat

InductiveInvariant ==
    /\ RequestsTyped
    /\ PermitsReturned
    /\ ReadersSawNoMatch

(* Requests that hold a permit are finitely many.                          *)
LEMMA BusyFinite == IsFiniteSet(Busy) /\ Cardinality(Busy) \in Nat
<1>1. IsFiniteSet(Busy)
  BY PipelineAssumption, FS_Subset DEF Busy
<1> QED BY <1>1, FS_CardinalityType

(* One request more holds a permit.                                        *)
LEMMA OneMoreBusy ==
    ASSUME NEW r \in Requests, r \notin Busy, Busy' = Busy \cup {r}
    PROVE  Cardinality(Busy') = Cardinality(Busy) + 1
BY BusyFinite, FS_AddElement

(* One request less holds a permit.                                        *)
LEMMA OneLessBusy ==
    ASSUME NEW r \in Requests, r \in Busy, Busy' = Busy \ {r}
    PROVE  Cardinality(Busy') = Cardinality(Busy) - 1
BY BusyFinite, FS_RemoveElement

(* A request that moves on keeps its permit.                               *)
LEMMA GotoKeepsPermits ==
    ASSUME InductiveInvariant, NEW r \in Requests, NEW next \in InFlight, pc[r] \in InFlight,
           Goto(r, next)
    PROVE  PermitsReturned'
<1>1. Busy' = Busy
  BY DEF Goto, Busy, InductiveInvariant, RequestsTyped
<1> QED BY <1>1 DEF Goto, Busy, PermitsReturned, InductiveInvariant

(* A request that ends returns its permit.                                 *)
LEMMA FinishReturnsPermit ==
    ASSUME InductiveInvariant, NEW r \in Requests, pc[r] \in InFlight, Finish(r)
    PROVE  PermitsReturned'
<1>1. r \in Busy /\ Busy' = Busy \ {r}
  BY DEF Finish, Busy, InFlight, InductiveInvariant, RequestsTyped
<1>2. Cardinality(Busy') = Cardinality(Busy) - 1
  BY <1>1, OneLessBusy
<1>3. permits + Cardinality(Busy) = MaxInFlight /\ permits' = permits + 1
  BY DEF Finish, Busy, PermitsReturned, InductiveInvariant
<1>4. permits' + Cardinality(Busy') = MaxInFlight
  BY <1>2, <1>3, BusyFinite DEF InductiveInvariant, RequestsTyped
<1> QED BY <1>4 DEF Busy, PermitsReturned

(* At the start all permits are free.                                      *)
LEMMA InitInvariant == Init => InductiveInvariant
<1> SUFFICES ASSUME Init PROVE InductiveInvariant
  OBVIOUS
<1>1. RequestsTyped
  BY PipelineAssumption DEF Init, RequestsTyped
<1>2. PermitsReturned
  <2>1. {r \in Requests : pc[r] \in InFlight} = {}
    BY DEF Init, InFlight
  <2>2. Cardinality({r \in Requests : pc[r] \in InFlight}) = 0
    BY <2>1, FS_EmptySet, Zenon
  <2>3. permits = MaxInFlight /\ MaxInFlight \in Nat
    BY PipelineAssumption DEF Init
  <2> QED BY <2>2, <2>3 DEF PermitsReturned
<1>3. ReadersSawNoMatch
  BY DEF Init, ReadersSawNoMatch, AllowlistReaders
<1> QED BY <1>1, <1>2, <1>3 DEF InductiveInvariant

(* Every action keeps the invariant.                                       *)
LEMMA StepInvariant ==
    InductiveInvariant /\ [Next]_vars => InductiveInvariant'
<1> SUFFICES ASSUME InductiveInvariant, [Next]_vars PROVE InductiveInvariant'
  OBVIOUS
<1> USE DEF InductiveInvariant
<1>1. ASSUME NEW r \in Requests, Reject(r) \/ SendOverload(r) PROVE InductiveInvariant'
  <2>1. RequestsTyped'
    BY <1>1 DEF Reject, SendOverload, Goto, RequestsTyped
  <2>2. Busy' = Busy /\ permits' = permits
    BY <1>1 DEF Reject, SendOverload, Goto, Busy, InFlight, RequestsTyped
  <2>3. PermitsReturned'
    BY <2>2 DEF PermitsReturned, Busy
  <2>4. ReadersSawNoMatch'
    BY <1>1 DEF Reject, SendOverload, Goto, RequestsTyped, ReadersSawNoMatch, AllowlistReaders,
                settings
  <2> QED BY <2>1, <2>3, <2>4
<1>2. ASSUME NEW r \in Requests, Admit(r) PROVE InductiveInvariant'
  <2>1. RequestsTyped'
    BY <1>2 DEF Admit, RequestsTyped, InFlight
  <2>2. r \notin Busy /\ Busy' = Busy \cup {r} /\ permits' = permits - 1
    BY <1>2 DEF Admit, Busy, InFlight, RequestsTyped
  <2>3. Cardinality(Busy') = Cardinality(Busy) + 1
    BY <2>2, OneMoreBusy
  <2>4. permits' + Cardinality(Busy') = permits + Cardinality(Busy)
    BY <2>2, <2>3, BusyFinite DEF RequestsTyped
  <2>5. PermitsReturned'
    BY <2>4 DEF PermitsReturned, Busy
  <2>6. ReadersSawNoMatch'
    BY <1>2 DEF Admit, RequestsTyped, ReadersSawNoMatch, AllowlistReaders, settings
  <2> QED BY <2>1, <2>5, <2>6
<1>3. ASSUME NEW r \in Requests, CheckAcl(r) PROVE InductiveInvariant'
  <2>1. RequestsTyped'
    BY <1>3 DEF CheckAcl, Goto, RequestsTyped, InFlight
  <2>2. PermitsReturned'
    BY <1>3, GotoKeepsPermits DEF CheckAcl, InFlight
  <2>3. ReadersSawNoMatch'
    BY <1>3 DEF CheckAcl, Goto, RequestsTyped, ReadersSawNoMatch, AllowlistReaders, settings
  <2> QED BY <2>1, <2>2, <2>3
<1>4. ASSUME NEW r \in Requests, CheckRewrites(r) PROVE InductiveInvariant'
  <2>1. RequestsTyped'
    BY <1>4 DEF CheckRewrites, Goto, RequestsTyped, InFlight, Action
  <2>2. PermitsReturned'
    BY <1>4, GotoKeepsPermits DEF CheckRewrites, InFlight
  <2>3. ReadersSawNoMatch'
    BY <1>4 DEF CheckRewrites, Goto, RequestsTyped, ReadersSawNoMatch, AllowlistReaders, settings
  <2> QED BY <2>1, <2>2, <2>3
<1>5. ASSUME NEW r \in Requests, CheckAllowlist(r) PROVE InductiveInvariant'
  <2>1. RequestsTyped'
    BY <1>5 DEF CheckAllowlist, Goto, RequestsTyped, InFlight, Action
  <2>2. PermitsReturned'
    BY <1>5, GotoKeepsPermits DEF CheckAllowlist, InFlight
  <2>3. ReadersSawNoMatch'
    BY <1>5 DEF CheckAllowlist, Goto, RequestsTyped, ReadersSawNoMatch, AllowlistReaders, settings
  <2> QED BY <2>1, <2>2, <2>3
<1>6. ASSUME NEW r \in Requests, CheckBlocklist(r) PROVE InductiveInvariant'
  <2>1. RequestsTyped'
    BY <1>6 DEF CheckBlocklist, Goto, RequestsTyped, InFlight, Action
  <2>2. PermitsReturned'
    BY <1>6, GotoKeepsPermits DEF CheckBlocklist, InFlight
  <2>3. ReadersSawNoMatch'
    BY <1>6 DEF CheckBlocklist, Goto, RequestsTyped, ReadersSawNoMatch, AllowlistReaders, settings
  <2> QED BY <2>1, <2>2, <2>3
<1>7. ASSUME NEW r \in Requests,
             AnswerBlocked(r) \/ Send(r) \/ Forward(r) \/ RecordForwarded(r)
      PROVE  InductiveInvariant'
  <2>1. RequestsTyped'
    BY <1>7 DEF AnswerBlocked, Send, Forward, RecordForwarded, Goto, Finish, RequestsTyped, InFlight
  <2>2. PermitsReturned'
    BY <1>7, FinishReturnsPermit, GotoKeepsPermits
       DEF AnswerBlocked, Send, Forward, RecordForwarded, InFlight
  <2>3. ReadersSawNoMatch'
    BY <1>7 DEF AnswerBlocked, Send, Forward, RecordForwarded, Goto, Finish, RequestsTyped,
                ReadersSawNoMatch, AllowlistReaders, settings
  <2> QED BY <2>1, <2>2, <2>3
<1>8. ASSUME UNCHANGED request, UNCHANGED allow PROVE InductiveInvariant'
  BY <1>8 DEF request, RequestsTyped, PermitsReturned, ReadersSawNoMatch, AllowlistReaders
<1>9. ASSUME NEW names \in SUBSET Names, SetAllow(names) PROVE InductiveInvariant'
  BY <1>9 DEF SetAllow, Change, request, RequestsTyped, PermitsReturned, ReadersSawNoMatch,
              AllowlistReaders
<1>10. ASSUME Restart PROVE InductiveInvariant'
  <2>1. RequestsTyped'
    BY <1>10, PipelineAssumption DEF Restart, RequestsTyped
  <2>2. {r \in Requests : pc'[r] \in InFlight} = {}
    BY <1>10 DEF Restart, InFlight
  <2>3. Cardinality({r \in Requests : pc'[r] \in InFlight}) = 0
    BY <2>2, FS_EmptySet, Zenon
  <2>4. permits' = MaxInFlight /\ MaxInFlight \in Nat
    BY <1>10, PipelineAssumption DEF Restart
  <2>5. PermitsReturned'
    BY <2>3, <2>4 DEF PermitsReturned
  <2>6. ReadersSawNoMatch'
    BY <1>10 DEF Restart, ReadersSawNoMatch, AllowlistReaders
  <2> QED BY <2>1, <2>5, <2>6
<1>11. CASE Receive \/ Tick \/ Insert \/ Prune
  BY <1>8, <1>11 DEF Receive, Tick, Insert, Prune, settings, request
<1>12. CASE Clear \/ Age \/ UNCHANGED vars
  BY <1>8, <1>12 DEF Clear, Age, vars, settings, request
<1>13. CASE Configure
  BY <1>8, <1>9, <1>13 DEF Configure, SetAcl, SetRewrite, SetBlock, SetMode, Change
<1> QED
  BY <1>1, <1>2, <1>3, <1>4, <1>5, <1>6, <1>7, <1>10, <1>11, <1>12, <1>13 DEF Next, Handle

(* So it holds of every state.                                             *)
LEMMA Invariance == Spec => []InductiveInvariant
BY InitInvariant, StepInvariant, PTL DEF Spec

(* However requests, early returns and restarts interleave, the permits    *)
(* that are free and those that requests hold add up to max_in_flight.     *)
THEOREM PermitsConserved == Spec => []PermitsReturned
BY Invariance, PTL DEF InductiveInvariant

(* A request is decided on the rewrites, or on one state of allowlist and  *)
(* blocklist together, with the allowlist before the blocklist.            *)
THEOREM OneStateDecides == Spec => DecidesOnOneListState
<1>1. ASSUME InductiveInvariant, Next, NEW r \in Requests PROVE OneListState(r)
  <2> USE <1>1 DEF InductiveInvariant, RequestsTyped, OneListState, Verdict
  <2>1. ASSUME NEW q \in Requests, Reject(q) \/ SendOverload(q) \/ Admit(q)
        PROVE  OneListState(r)
    BY <2>1 DEF Reject, SendOverload, Admit
  <2>2. ASSUME NEW q \in Requests, CheckRewrites(q) PROVE OneListState(r)
    BY <2>2 DEF CheckRewrites
  <2>3. ASSUME NEW q \in Requests, CheckAllowlist(q) PROVE OneListState(r)
    BY <2>3 DEF CheckAllowlist
  <2>4. ASSUME NEW q \in Requests, CheckBlocklist(q) PROVE OneListState(r)
    BY <2>4 DEF CheckBlocklist, ReadersSawNoMatch, AllowlistReaders
  <2>5. ASSUME NEW q \in Requests, CheckAcl(q) \/ AnswerBlocked(q) \/ Send(q) \/ Forward(q)
                                       \/ RecordForwarded(q)
        PROVE  OneListState(r)
    BY <2>5 DEF CheckAcl, AnswerBlocked, Send, Forward, RecordForwarded
  <2>6. CASE Receive \/ Tick \/ Insert \/ Prune \/ Clear \/ Age \/ Restart
    BY <2>6 DEF Receive, Tick, Insert, Prune, Clear, Age, Restart, request
  <2>7. CASE Configure
    BY <2>7 DEF Configure, SetAcl, SetRewrite, SetAllow, SetBlock, SetMode, Change, request
  <2> QED BY <2>1, <2>2, <2>3, <2>4, <2>5, <2>6, <2>7 DEF Next, Handle
<1>2. InductiveInvariant /\ [Next]_vars => [\A r \in Requests : OneListState(r)]_vars
  BY <1>1
<1> QED BY <1>2, Invariance, PTL DEF Spec, DecidesOnOneListState

-----------------------------------------------------------------------------
(* What each control state says of decision and reply, and types.          *)

(* What a control state says of the decision and the reply.                *)
Matches(r) ==
    /\ pc[r] \in {"new", "overload", "acl", "rewrites", "allowlist", "blocklist"}
          => decision[r] = "none"
    /\ pc[r] \in {"new", "acl", "rewrites", "allowlist", "blocklist", "answer", "forward"}
          => reply[r] = "none"
    /\ pc[r] = "overload" => reply[r] = "overload"
    /\ pc[r] \in InFlight => reply[r] # "overload"
    /\ pc[r] = "answer" => decision[r] = "blocked"
    /\ pc[r] \in {"forward", "log"} => decision[r] \in {"allowed", "forwarded"}
    /\ pc[r] = "log" => reply[r] = "upstream"
    /\ pc[r] = "done" /\ decision[r] # "none" => reply[r] # "overload"

RequestsMatch == reply \in [Requests -> Reply] /\ \A r \in Requests : Matches(r)

(* One request moves on, and its new state says what is decided and sent.  *)
LEMMA MatchStep ==
    RequestsTyped /\ RequestsMatch /\ [Next]_vars => RequestsMatch'
<1> SUFFICES ASSUME RequestsTyped, RequestsMatch, [Next]_vars PROVE RequestsMatch'
  OBVIOUS
<1>a. /\ reply \in [Requests -> Reply] /\ decision \in [Requests -> Action \cup {"none"}]
      /\ pc \in [Requests -> {"new", "overload", "done", "gone"} \cup InFlight]
      /\ \A r \in Requests : Matches(r)
  BY DEF RequestsTyped, RequestsMatch
<1>b. ASSUME NEW r \in Requests, Matches(r)', reply' \in [Requests -> Reply],
             \A q \in Requests \ {r} : pc'[q] = pc[q] /\ decision'[q] = decision[q] /\ reply'[q] = reply[q]
      PROVE  RequestsMatch'
  BY <1>a, <1>b DEF RequestsMatch, Matches
<1>c. {"overload", "refused", "formerr", "rewrite", "nxdomain", "sinkhole", "upstream"}
         \subseteq Reply
  BY DEF Reply
<1>1. ASSUME NEW r \in Requests, Reject(r) \/ SendOverload(r) PROVE RequestsMatch'
  BY <1>1, <1>a, <1>b, <1>c DEF Reject, SendOverload, Answer, Goto, Matches, InFlight
<1>2. ASSUME NEW r \in Requests, Admit(r) PROVE RequestsMatch'
  BY <1>2, <1>a, <1>b DEF Admit, Matches, InFlight
<1>3. ASSUME NEW r \in Requests, CheckAcl(r) PROVE RequestsMatch'
  BY <1>3, <1>a, <1>b, <1>c DEF CheckAcl, Answer, Goto, Matches, InFlight
<1>4. ASSUME NEW r \in Requests, CheckRewrites(r) PROVE RequestsMatch'
  BY <1>4, <1>a, <1>b, <1>c DEF CheckRewrites, Answer, Goto, Matches, InFlight
<1>5. ASSUME NEW r \in Requests, CheckAllowlist(r) PROVE RequestsMatch'
  BY <1>5, <1>a, <1>b DEF CheckAllowlist, Goto, Matches, InFlight
<1>6. ASSUME NEW r \in Requests, CheckBlocklist(r) PROVE RequestsMatch'
  BY <1>6, <1>a, <1>b DEF CheckBlocklist, Goto, Matches, InFlight
<1>7. ASSUME NEW r \in Requests, AnswerBlocked(r) PROVE RequestsMatch'
  <2>1. BlockedResponse(question[r].type) \in {"nxdomain", "sinkhole", "refused"}
    BY DEF BlockedResponse
  <2>2. QED
    BY <1>7, <1>a, <1>b, <1>c, <2>1 DEF AnswerBlocked, Answer, Goto, Matches, InFlight
<1>8. ASSUME NEW r \in Requests, Forward(r) PROVE RequestsMatch'
  BY <1>8, <1>a, <1>b, <1>c DEF Forward, Answer, Goto, Matches, InFlight
<1>9. ASSUME NEW r \in Requests, Send(r) \/ RecordForwarded(r) PROVE RequestsMatch'
  BY <1>9, <1>a, <1>b DEF Send, RecordForwarded, Finish, Matches, InFlight
<1>10. CASE Restart
  BY <1>10, <1>a DEF Restart, RequestsMatch, Matches, InFlight
<1>11. CASE UNCHANGED request
  BY <1>11 DEF request, RequestsMatch, Matches
<1>12. CASE Receive \/ Tick \/ Insert \/ Prune \/ Clear \/ Age \/ Configure \/ UNCHANGED vars
  BY <1>11, <1>12 DEF Receive, Tick, Insert, Prune, Clear, Age, Configure, SetAcl, SetRewrite,
     SetAllow, SetBlock, SetMode, Change, vars, request
<1>13. QED
  BY <1>1, <1>2, <1>3, <1>4, <1>5, <1>6, <1>7, <1>8, <1>9, <1>10, <1>12 DEF Next, Handle

(* Recording an entry keeps the log typed.                                 *)
LEMMA RecordTypes ==
    ASSUME TypeOK, NEW r \in Requests, NEW action \in Action, Record(r, action)
    PROVE  /\ counted' \in [Action \cup {"total"} -> Nat]
           /\ channel' \in Seq(Entry) /\ Len(channel') <= ChannelCapacity
           /\ history' \in Seq(Requests)
           /\ UNCHANGED <<batch, writing, writer>>
<1>1. counted' \in [Action \cup {"total"} -> Nat]
  <2>1. counted \in [Action \cup {"total"} -> Nat]
    BY DEF TypeOK
  <2>2. counted' = [counted EXCEPT !["total"] = @ + 1, ![action] = @ + 1]
    BY DEF Record
  <2>3. QED
    BY <2>1, <2>2
<1>2. channel' \in Seq(Entry) /\ Len(channel') <= ChannelCapacity
  <2>1. CASE Len(channel) < ChannelCapacity
    <3>1. [request |-> r, action |-> action] \in Entry
      BY DEF Entry
    <3>2. channel' = Append(channel, [request |-> r, action |-> action])
      BY <2>1 DEF Record
    <3>3. QED
      BY <2>1, <3>1, <3>2, PipelineAssumption DEF TypeOK
  <2>2. CASE ~(Len(channel) < ChannelCapacity)
    BY <2>2 DEF Record, TypeOK
  <2>3. QED
    BY <2>1, <2>2
<1>3. history' \in Seq(Requests)
  BY DEF Record, TypeOK
<1>4. QED
  BY <1>1, <1>2, <1>3 DEF Record

(* What a flush takes and what the writer collects are entries.            *)
LEMMA FlushTypes ==
    ASSUME NEW b \in Seq(Entry), StartFlush(b) \/ (Len(b) < BatchSize /\ Collect(b)), TypeOK
    PROVE  /\ batch' \in Seq(Entry) /\ Len(batch') < BatchSize
           /\ writing' \in Seq(Entry) /\ writer' \in {"idle", "inserting", "pruning"}
<1>1. <<>> \in Seq(Entry) /\ Len(<<>>) = 0 /\ 0 < BatchSize
  BY PipelineAssumption
<1>2. QED
  BY <1>1 DEF StartFlush, Collect, TypeOK

(* Every step keeps the types, if it keeps the permits.                    *)
LEMMA TypeStep ==
    TypeOK /\ RequestsMatch /\ InductiveInvariant' /\ [Next]_vars => TypeOK'
<1> SUFFICES ASSUME TypeOK, RequestsMatch, InductiveInvariant', [Next]_vars PROVE TypeOK'
  OBVIOUS
<1>a. permits' \in 0 .. MaxInFlight
  <2>1. IsFiniteSet(Busy') /\ Cardinality(Busy') \in Nat
    <3>1. Busy' \subseteq Requests
      BY DEF Busy
    <3>2. IsFiniteSet(Busy')
      BY <3>1, PipelineAssumption, FS_Subset
    <3>3. QED
      BY <3>2, FS_CardinalityType
  <2>2. permits' \in Nat /\ permits' + Cardinality(Busy') = MaxInFlight
    BY DEF InductiveInvariant, RequestsTyped, PermitsReturned, Busy
  <2>3. QED
    BY <2>1, <2>2, PipelineAssumption
<1>b. /\ question' \in [Requests -> Question] /\ decision' \in [Requests -> Action \cup {"none"}]
      /\ pc' \in [Requests -> {"new", "overload", "done", "gone"} \cup InFlight]
  BY DEF InductiveInvariant, RequestsTyped
<1>c. {"none", "overload", "refused", "formerr", "rewrite", "nxdomain", "sinkhole", "upstream"}
         = Reply
  BY DEF Reply
<1>1. ASSUME NEW r \in Requests, Reject(r) \/ SendOverload(r) \/ Admit(r) \/ CheckAcl(r)
                                 \/ CheckAllowlist(r) \/ AnswerBlocked(r) \/ Send(r) \/ Forward(r)
      PROVE  TypeOK'
  <2>1. UNCHANGED <<settings, memory, table, bounds, history>>
    BY <1>1 DEF Reject, SendOverload, Admit, CheckAcl, CheckAllowlist, AnswerBlocked, Send, Forward
  <2>2. reply' \in [Requests -> Reply] /\ rejected' \in Nat
    <3>1. reply \in [Requests -> Reply] /\ rejected \in Nat
      BY DEF TypeOK
    <3>2. CASE Reject(r) \/ SendOverload(r) \/ Admit(r) \/ CheckAllowlist(r) \/ Send(r) \/ Forward(r)
      BY <3>1, <3>2, <1>c DEF Reject, SendOverload, Admit, CheckAllowlist, Send, Forward, Answer
    <3>3. CASE CheckAcl(r) \/ AnswerBlocked(r)
      BY <3>1, <3>3, <1>c DEF CheckAcl, AnswerBlocked, Answer, BlockedResponse
    <3>4. QED
      BY <1>1, <3>2, <3>3
  <2>3. sent' \in SUBSET Requests
    BY <1>1 DEF Reject, SendOverload, Admit, CheckAcl, CheckAllowlist, AnswerBlocked, Send, Forward,
       Deliver, TypeOK
  <2>4. QED
    BY <1>a, <1>b, <2>1, <2>2, <2>3 DEF TypeOK, settings, memory, table, bounds
<1>2. ASSUME NEW r \in Requests, CheckRewrites(r) \/ CheckBlocklist(r) \/ RecordForwarded(r)
      PROVE  TypeOK'
  <2>1. UNCHANGED <<settings, sent, rejected, table, bounds>>
    BY <1>2 DEF CheckRewrites, CheckBlocklist, RecordForwarded
  <2>2. reply' \in [Requests -> Reply]
    BY <1>2, <1>c DEF CheckRewrites, CheckBlocklist, RecordForwarded, Answer, TypeOK
  <2>3. (\E action \in Action : Record(r, action)) \/ UNCHANGED <<memory, history>>
    <3>1. CASE CheckRewrites(r) \/ CheckBlocklist(r)
      BY <3>1 DEF CheckRewrites, CheckBlocklist, Action
    <3>2. CASE RecordForwarded(r)
      BY <3>2 DEF RecordForwarded, RequestsMatch, Matches, Action
    <3>3. QED
      BY <1>2, <3>1, <3>2
  <2>4. /\ counted' \in [Action \cup {"total"} -> Nat]
        /\ channel' \in Seq(Entry) /\ Len(channel') <= ChannelCapacity
        /\ history' \in Seq(Requests)
        /\ UNCHANGED <<batch, writing, writer>>
    BY <2>3, RecordTypes DEF memory, TypeOK
  <2>5. QED
    BY <1>a, <1>b, <2>1, <2>2, <2>4 DEF TypeOK, settings, table, bounds
<1>3. ASSUME Receive \/ Tick PROVE TypeOK'
  <2>1. UNCHANGED <<settings, request, counted, table, bounds, history>>
    BY <1>3 DEF Receive, Tick
  <2>2. /\ channel' \in Seq(Entry) /\ Len(channel') <= ChannelCapacity
        /\ \E b \in Seq(Entry) : StartFlush(b) \/ (Len(b) < BatchSize /\ Collect(b))
    <3>1. CASE Receive
      <4>1. /\ channel' = Tail(channel) /\ channel # <<>> /\ channel \in Seq(Entry)
            /\ batch \in Seq(Entry) /\ Len(channel) <= ChannelCapacity
        BY <3>1 DEF Receive, TypeOK
      <4>2. /\ channel' \in Seq(Entry) /\ Len(channel') <= ChannelCapacity
            /\ Append(batch, Head(channel)) \in Seq(Entry)
        BY <4>1, HeadTailProperties, AppendProperties, PipelineAssumption
      <4> DEFINE b == Append(batch, Head(channel))
      <4>3. IF Len(b) >= BatchSize THEN StartFlush(b) ELSE Collect(b)
        BY <3>1 DEF Receive
      <4>4. b \in Seq(Entry) /\ Len(b) \in Nat /\ BatchSize \in Nat
        BY <4>2, PipelineAssumption
      <4> HIDE DEF b
      <4>5. StartFlush(b) \/ (Len(b) < BatchSize /\ Collect(b))
        BY <4>3, <4>4
      <4>6. QED
        BY <4>2, <4>4, <4>5
    <3>2. CASE Tick
      BY <3>2 DEF Tick, TypeOK
    <3>3. QED
      BY <1>3, <3>1, <3>2
  <2>3. /\ batch' \in Seq(Entry) /\ Len(batch') < BatchSize
        /\ writing' \in Seq(Entry) /\ writer' \in {"idle", "inserting", "pruning"}
    BY <2>2, FlushTypes
  <2>4. QED
    BY <1>a, <1>b, <2>1, <2>2, <2>3 DEF TypeOK, settings, request, table, bounds
<1>4. CASE Insert
  <2>1. /\ UNCHANGED <<settings, request, counted, channel, batch, aged, bounds, history>>
        /\ writing' = <<>> /\ writer' = "pruning"
    BY <1>4 DEF Insert
  <2>2. rows' \in Seq(Entry)
    <3>0. PICK n \in 0 .. Len(writing) : \E kept \in [1 .. n -> DOMAIN writing] :
             rows' = rows \o [i \in 1 .. n |-> writing[kept[i]]]
      BY <1>4 DEF Insert
    <3>1. PICK kept \in [1 .. n -> DOMAIN writing] :
             rows' = rows \o [i \in 1 .. n |-> writing[kept[i]]]
      BY <3>0
    <3>2. [i \in 1 .. n |-> writing[kept[i]]] \in Seq(Entry)
      BY DEF TypeOK
    <3>3. QED
      BY <3>1, <3>2 DEF TypeOK
  <2>3. QED
    BY <1>a, <1>b, <2>1, <2>2 DEF TypeOK, settings, request, bounds
<1>5. CASE Prune
  <2>1. /\ UNCHANGED <<settings, request, counted, channel, batch, writing, bounds, history>>
        /\ writer' = "idle"
    BY <1>5 DEF Prune
  <2>2. rows' \in Seq(Entry) /\ aged' \in Nat
    <3>1. CASE rows' = SubSeq(rows, aged + 1, Len(rows)) /\ aged' = 0
      <4>1. aged + 1 \in Int /\ Len(rows) \in Int /\ \A i \in aged + 1 .. Len(rows) : rows[i] \in Entry
        BY DEF TypeOK
      <4>2. SubSeq(rows, aged + 1, Len(rows)) \in Seq(Entry)
        BY <4>1, SubSeqProperties
      <4>3. QED
        BY <3>1, <4>2
    <3>2. CASE UNCHANGED table
      BY <3>2 DEF table, TypeOK
    <3>3. QED
      BY <1>5, <3>1, <3>2 DEF Prune
  <2>3. QED
    BY <1>a, <1>b, <2>1, <2>2 DEF TypeOK, settings, request, bounds
<1>6. CASE Configure
  <2>1. /\ UNCHANGED <<request, memory, table, restarts, history>>
        /\ changes' \in 0 .. MaxChanges
    BY <1>6, PipelineAssumption DEF Configure, SetAcl, SetRewrite, SetAllow, SetBlock, SetMode, Change,
        TypeOK
  <2>2. /\ acl' \in SUBSET Clients /\ rewrites' \in [Names -> SUBSET AddressTypes]
        /\ allow' \in SUBSET Names /\ block' \in SUBSET Names /\ mode' \in {"nxdomain", "null_ip"}
    BY <1>6 DEF Configure, SetAcl, SetRewrite, SetAllow, SetBlock, SetMode, TypeOK
  <2>3. QED
    BY <1>a, <1>b, <2>1, <2>2 DEF TypeOK, request, memory, table
<1>7. CASE Clear \/ Age
  <2>1. UNCHANGED <<settings, request, memory, bounds, history>>
    BY <1>7 DEF Clear, Age
  <2>2. rows' \in Seq(Entry) /\ aged' \in Nat
    <3>1. rows \in Seq(Entry) /\ Len(rows) \in Nat
      BY DEF TypeOK
    <3>2. CASE Clear
      <4>1. rows' = <<>> /\ aged' = 0
        BY <3>2 DEF Clear
      <4>2. QED
        BY <4>1
    <3>3. CASE Age
      <4>1. rows' = rows /\ aged' = Len(rows)
        BY <3>3 DEF Age
      <4>2. QED
        BY <3>1, <4>1
    <3>4. QED
      BY <1>7, <3>2, <3>3
  <2>3. QED
    BY <1>a, <1>b, <2>1, <2>2 DEF TypeOK, settings, request, memory, bounds
<1>8. CASE Restart
  <2>1. /\ UNCHANGED <<settings, reply, sent, table, changes, history>>
        /\ rejected' = 0 /\ counted' = NothingCounted
        /\ channel' = <<>> /\ batch' = <<>> /\ writing' = <<>> /\ writer' = "idle"
        /\ restarts' \in 0 .. MaxRestarts
    BY <1>8, PipelineAssumption DEF Restart, TypeOK
  <2>2. counted' \in [Action \cup {"total"} -> Nat]
    BY <2>1 DEF NothingCounted
  <2>3. QED
    BY <1>a, <1>b, <2>1, <2>2, PipelineAssumption DEF TypeOK, settings, table
<1>9. CASE UNCHANGED vars
  BY <1>9 DEF vars, settings, request, memory, table, bounds, TypeOK
<1>10. QED
  BY <1>1, <1>2, <1>3, <1>4, <1>5, <1>6, <1>7, <1>8, <1>9 DEF Next, Handle

-----------------------------------------------------------------------------
(* Counters.                                                               *)

AnyDecided == UNION {Decided(action) : action \in Action}
Overloaded == {r \in Requests : reply[r] = "overload" /\ pc[r] # "gone"}

(* The requests that have been decided.                                    *)
LEMMA DecidedIs ==
    ASSUME NEW r
    PROVE  r \in AnyDecided <=>
              r \in Requests /\ decision[r] \in Action /\ pc[r] \in {"answer", "send", "done"}
BY DEF AnyDecided, Decided

(* Sets of requests are finite, and one more counts one more.              *)
LEMMA CountOneMore ==
    ASSUME NEW S \in SUBSET Requests, NEW r \in Requests, r \notin S
    PROVE  Cardinality(S \cup {r}) = Cardinality(S) + 1
BY PipelineAssumption, FS_Subset, FS_AddElement

(* Who was counted stays so, and nobody else is.                           *)
LEMMA NobodyCounted ==
    ASSUME CountersAreTrue, UNCHANGED <<counted, rejected>>,
           \A action \in Action : Decided(action)' = Decided(action), Overloaded' = Overloaded
    PROVE  CountersAreTrue'
<1>1. AnyDecided' = AnyDecided
  BY DEF AnyDecided
<1>2. QED
  BY <1>1 DEF CountersAreTrue, AnyDecided, Overloaded

(* A recorded request is counted under its action and in total.            *)
LEMMA OneCounted ==
    ASSUME TypeOK, CountersAreTrue, NEW r \in Requests, NEW action \in Action, Record(r, action),
           r \notin AnyDecided, decision'[r] = action, pc'[r] \in {"answer", "send", "done"},
           \A q \in Requests \ {r} : pc'[q] = pc[q] /\ decision'[q] = decision[q],
           UNCHANGED rejected, Overloaded' = Overloaded
    PROVE  CountersAreTrue'
<1>1. \A a \in Action \ {action} : Decided(a)' = Decided(a)
  BY DEF AnyDecided, Decided
<1>2. Decided(action)' = Decided(action) \cup {r} /\ r \notin Decided(action)
  BY DEF AnyDecided, Decided
<1>3. AnyDecided' = AnyDecided \cup {r}
  BY <1>1, <1>2 DEF AnyDecided
<1>4. /\ Cardinality(Decided(action)') = Cardinality(Decided(action)) + 1
      /\ Cardinality(AnyDecided') = Cardinality(AnyDecided) + 1
  <2>1. Decided(action) \in SUBSET Requests /\ AnyDecided \in SUBSET Requests
    BY DEF Decided, AnyDecided
  <2>2. QED
    BY <1>2, <1>3, <2>1, CountOneMore
<1>5. /\ counted'["total"] = counted["total"] + 1 /\ counted'[action] = counted[action] + 1
      /\ \A a \in Action \ {action} : counted'[a] = counted[a]
  BY DEF Record, TypeOK, Action
<1>6. QED
  <2>1. \A a \in Action : counted'[a] = Cardinality(Decided(a)')
    BY <1>1, <1>2, <1>4, <1>5 DEF CountersAreTrue
  <2>2. counted'["total"] = Cardinality(AnyDecided')
    BY <1>4, <1>5 DEF CountersAreTrue, AnyDecided
  <2>3. rejected' = Cardinality(Overloaded')
    BY DEF CountersAreTrue, Overloaded
  <2>4. QED
    BY <2>1, <2>2, <2>3 DEF CountersAreTrue, AnyDecided, Overloaded

(* Nothing is counted at a start, and nobody is decided.                   *)
LEMMA CountStart ==
    ASSUME counted = NothingCounted, rejected = 0,
           \A r \in Requests : pc[r] = "gone" \/ (pc[r] = "new" /\ reply[r] = "none")
    PROVE  CountersAreTrue
<1>1. (\A a \in Action : Decided(a) = {}) /\ AnyDecided = {} /\ Overloaded = {}
  BY DEF Decided, AnyDecided, Overloaded
<1>2. Cardinality({}) = 0
  BY FS_EmptySet, Zenon
<1>3. \A c \in Action \cup {"total"} : counted[c] = 0
  BY DEF NothingCounted
<1>4. /\ \A a \in Action : counted[a] = Cardinality(Decided(a))
      /\ counted["total"] = Cardinality(AnyDecided) /\ rejected = Cardinality(Overloaded)
  BY <1>1, <1>2, <1>3
<1>5. QED
  BY <1>4 DEF CountersAreTrue, AnyDecided, Overloaded

(* Every step counts whom it decides.                                      *)
LEMMA CountStep ==
    TypeOK /\ RequestsMatch /\ CountersAreTrue /\ [Next]_vars => CountersAreTrue'
<1> SUFFICES ASSUME TypeOK, RequestsMatch, CountersAreTrue, [Next]_vars PROVE CountersAreTrue'
  OBVIOUS
<1>a. /\ reply \in [Requests -> Reply] /\ decision \in [Requests -> Action \cup {"none"}]
      /\ pc \in [Requests -> {"new", "overload", "done", "gone"} \cup InFlight]
      /\ \A r \in Requests : Matches(r)
      /\ "none" \notin Action
  BY DEF TypeOK, RequestsMatch, Action
<1>1. ASSUME NEW r \in Requests, Reject(r) PROVE CountersAreTrue'
  <2>1. \A action \in Action : Decided(action)' = Decided(action)
    BY <1>1, <1>a DEF Reject, Goto, Decided, Matches
  <2>2. Overloaded' = Overloaded \cup {r} /\ r \notin Overloaded
    BY <1>1, <1>a DEF Reject, Answer, Goto, Overloaded, Matches
  <2>3. Overloaded \in SUBSET Requests
    BY DEF Overloaded
  <2>4. Cardinality(Overloaded') = Cardinality(Overloaded) + 1
    BY <2>2, <2>3, CountOneMore
  <2>5. rejected' = rejected + 1 /\ UNCHANGED counted
    BY <1>1 DEF Reject, memory
  <2>6. AnyDecided' = AnyDecided
    BY <2>1 DEF AnyDecided
  <2>7. rejected' = Cardinality(Overloaded')
    BY <2>4, <2>5 DEF CountersAreTrue, Overloaded
  <2>8. QED
    BY <2>1, <2>5, <2>6, <2>7 DEF CountersAreTrue, AnyDecided, Overloaded
<1>2. ASSUME NEW r \in Requests, Admit(r) \/ CheckAllowlist(r) \/ Forward(r) PROVE CountersAreTrue'
  <2>1. UNCHANGED <<counted, rejected>>
    BY <1>2 DEF Admit, CheckAllowlist, Forward, memory
  <2>2. \A action \in Action : Decided(action)' = Decided(action)
    BY <1>2, <1>a DEF Admit, CheckAllowlist, Forward, Goto, Finish, Decided, Matches
  <2>3. Overloaded' = Overloaded
    BY <1>2, <1>a DEF Admit, CheckAllowlist, Forward, Answer, Goto, Finish, Overloaded, Matches, InFlight
  <2>4. QED
    BY <2>1, <2>2, <2>3, NobodyCounted
<1>3. ASSUME NEW r \in Requests, CheckAcl(r) PROVE CountersAreTrue'
  <2>1. UNCHANGED <<counted, rejected>>
    BY <1>3 DEF CheckAcl, memory
  <2>2. \A action \in Action : Decided(action)' = Decided(action)
    BY <1>3, <1>a DEF CheckAcl, Goto, Finish, Decided, Matches
  <2>3. Overloaded' = Overloaded
    BY <1>3, <1>a DEF CheckAcl, Answer, Goto, Finish, Overloaded, Matches, InFlight
  <2>4. QED
    BY <2>1, <2>2, <2>3, NobodyCounted
<1>4. ASSUME NEW r \in Requests, AnswerBlocked(r) \/ Send(r) \/ SendOverload(r) PROVE CountersAreTrue'
  <2>1. UNCHANGED <<counted, rejected>>
    BY <1>4 DEF AnswerBlocked, Send, SendOverload, memory
  <2>2. \A action \in Action : Decided(action)' = Decided(action)
    BY <1>4, <1>a DEF AnswerBlocked, Send, SendOverload, Goto, Finish, Decided, Matches
  <2>3. Overloaded' = Overloaded
    BY <1>4, <1>a DEF AnswerBlocked, Send, SendOverload, Answer, Goto, Finish, Overloaded, Matches, InFlight, BlockedResponse
  <2>4. QED
    BY <2>1, <2>2, <2>3, NobodyCounted
<1>5. ASSUME NEW r \in Requests, CheckRewrites(r) PROVE CountersAreTrue'
  <2>1. CASE question[r].type \in rewrites[question[r].name]
    <3>1. Record(r, "rewritten") /\ Answer(r, "rewrite") /\ Goto(r, "send") /\ UNCHANGED rejected
          /\ decision' = [decision EXCEPT ![r] = "rewritten"] /\ pc[r] = "rewrites"
      BY <1>5, <2>1 DEF CheckRewrites
    <3>2. /\ decision'[r] = "rewritten" /\ pc'[r] = "send"
          /\ \A q \in Requests \ {r} : pc'[q] = pc[q] /\ decision'[q] = decision[q]
          /\ r \notin AnyDecided /\ Overloaded' = Overloaded
      BY <3>1, <1>a, DecidedIs DEF Answer, Goto, Overloaded, Matches
    <3>3. QED
      BY <3>1, <3>2, OneCounted DEF Action
  <2>2. CASE question[r].type \notin rewrites[question[r].name]
    <3>1. UNCHANGED <<counted, rejected, decision, reply>> /\ Goto(r, "allowlist")
          /\ pc[r] = "rewrites"
      BY <1>5, <2>2 DEF CheckRewrites, memory
    <3>2. (\A action \in Action : Decided(action)' = Decided(action)) /\ Overloaded' = Overloaded
      BY <3>1, <1>a DEF Goto, Decided, Overloaded
    <3>3. QED
      BY <3>1, <3>2, NobodyCounted
  <2>3. QED
    BY <2>1, <2>2
<1>6. ASSUME NEW r \in Requests, CheckBlocklist(r) PROVE CountersAreTrue'
  <2>1. CASE question[r].name \in block
    <3>1. Record(r, "blocked") /\ Goto(r, "answer") /\ UNCHANGED <<rejected, reply>>
          /\ decision' = [decision EXCEPT ![r] = "blocked"] /\ pc[r] = "blocklist"
      BY <1>6, <2>1 DEF CheckBlocklist
    <3>2. /\ decision'[r] = "blocked" /\ pc'[r] = "answer"
          /\ \A q \in Requests \ {r} : pc'[q] = pc[q] /\ decision'[q] = decision[q]
          /\ r \notin AnyDecided /\ Overloaded' = Overloaded
      BY <3>1, <1>a, DecidedIs DEF Goto, Overloaded
    <3>3. QED
      BY <3>1, <3>2, OneCounted DEF Action
  <2>2. CASE question[r].name \notin block
    <3>1. UNCHANGED <<counted, rejected, reply>> /\ Goto(r, "forward")
          /\ decision' = [decision EXCEPT ![r] = "forwarded"] /\ pc[r] = "blocklist"
      BY <1>6, <2>2 DEF CheckBlocklist, memory
    <3>2. (\A action \in Action : Decided(action)' = Decided(action)) /\ Overloaded' = Overloaded
      BY <3>1, <1>a DEF Goto, Decided, Overloaded
    <3>3. QED
      BY <3>1, <3>2, NobodyCounted
  <2>3. QED
    BY <2>1, <2>2
<1>7. ASSUME NEW r \in Requests, RecordForwarded(r) PROVE CountersAreTrue'
  <2>1. Record(r, decision[r]) /\ Finish(r) /\ UNCHANGED <<rejected, decision, reply>>
        /\ pc[r] = "log"
    BY <1>7 DEF RecordForwarded
  <2>2. decision[r] \in {"allowed", "forwarded"} /\ reply[r] = "upstream"
    BY <2>1, <1>a DEF Matches
  <2>3. /\ decision'[r] = decision[r] /\ pc'[r] = "done"
        /\ \A q \in Requests \ {r} : pc'[q] = pc[q] /\ decision'[q] = decision[q]
        /\ r \notin AnyDecided /\ Overloaded' = Overloaded
    BY <2>1, <2>2, <1>a, DecidedIs DEF Finish, Overloaded
  <2>4. QED
    BY <2>1, <2>2, <2>3, OneCounted DEF Action
<1>8. CASE Restart
  <2>1. /\ counted' = NothingCounted /\ rejected' = 0
        /\ \A r \in Requests : pc'[r] = "gone" \/ (pc'[r] = "new" /\ reply'[r] = "none")
    BY <1>8, <1>a DEF Restart, Matches
  <2>2. (\A a \in Action : Decided(a)' = {}) /\ AnyDecided' = {} /\ Overloaded' = {}
    BY <2>1 DEF Decided, AnyDecided, Overloaded
  <2>3. Cardinality({}) = 0
    BY FS_EmptySet, Zenon
  <2>4. \A c \in Action \cup {"total"} : counted'[c] = 0
    BY <2>1 DEF NothingCounted
  <2>5. /\ \A a \in Action : counted'[a] = Cardinality(Decided(a)')
        /\ counted'["total"] = Cardinality(AnyDecided') /\ rejected' = Cardinality(Overloaded')
    BY <2>1, <2>2, <2>3, <2>4
  <2>6. QED
    BY <2>5 DEF CountersAreTrue, AnyDecided, Overloaded
<1>9. ASSUME UNCHANGED <<request, counted>> PROVE CountersAreTrue'
  BY <1>9, NobodyCounted DEF request, Decided, Overloaded
<1>10. CASE Receive \/ Tick \/ Insert \/ Prune
  BY <1>9, <1>10 DEF Receive, Tick, Insert, Prune, StartFlush, Collect
<1>11. CASE Clear \/ Age \/ Configure \/ UNCHANGED vars
  BY <1>9, <1>11 DEF Clear, Age, Configure, SetAcl, SetRewrite, SetAllow, SetBlock, SetMode, Change,
     vars, memory
<1>12. QED
  BY <1>1, <1>2, <1>3, <1>4, <1>5, <1>6, <1>7, <1>8, <1>10, <1>11 DEF Next, Handle

-----------------------------------------------------------------------------
(* Logs that are part of another: some of its entries, in its order.       *)

Within(s, t) ==
    \E f \in [1 .. Len(s) -> 1 .. Len(t)] :
        /\ \A i, j \in 1 .. Len(s) : i < j => f[i] < f[j]
        /\ \A i \in 1 .. Len(s) : s[i] = t[f[i]]

(* A log is within itself.                                                 *)
LEMMA WithinSelf == ASSUME NEW s \in Seq(Entry) PROVE Within(s, s)
<1> DEFINE f == [i \in 1 .. Len(s) |-> i]
<1>1. /\ f \in [1 .. Len(s) -> 1 .. Len(s)]
      /\ \A i, j \in 1 .. Len(s) : i < j => f[i] < f[j]
      /\ \A i \in 1 .. Len(s) : s[i] = s[f[i]]
  OBVIOUS
<1> HIDE DEF f
<1>2. QED
  BY <1>1 DEF Within

(* The empty log is within each.                                           *)
LEMMA WithinEmpty == ASSUME NEW s \in Seq(Entry) PROVE Within(<<>>, s)
<1> DEFINE f == [i \in 1 .. 0 |-> i]
<1>1. Len(<<>>) = 0
  OBVIOUS
<1>2. /\ f \in [1 .. 0 -> 1 .. Len(s)]
      /\ \A i, j \in 1 .. 0 : i < j => f[i] < f[j]
      /\ \A i \in 1 .. 0 : <<>>[i] = s[f[i]]
  OBVIOUS
<1> HIDE DEF f
<1>3. QED
  BY <1>1, <1>2 DEF Within

(* Parts of two logs, one after the other.                                 *)
LEMMA WithinConcat ==
    ASSUME NEW s \in Seq(Entry), NEW t \in Seq(Entry), NEW u \in Seq(Entry), NEW v \in Seq(Entry),
           Within(s, t), Within(u, v)
    PROVE  Within(s \o u, t \o v)
<1>1. PICK f \in [1 .. Len(s) -> 1 .. Len(t)] :
         /\ \A i, j \in 1 .. Len(s) : i < j => f[i] < f[j]
         /\ \A i \in 1 .. Len(s) : s[i] = t[f[i]]
  BY DEF Within
<1>2. PICK g \in [1 .. Len(u) -> 1 .. Len(v)] :
         /\ \A i, j \in 1 .. Len(u) : i < j => g[i] < g[j]
         /\ \A i \in 1 .. Len(u) : u[i] = v[g[i]]
  BY DEF Within
<1> DEFINE h == [i \in 1 .. Len(s) + Len(u) |->
                    IF i <= Len(s) THEN f[i] ELSE Len(t) + g[i - Len(s)]]
<1>3. /\ Len(s) \in Nat /\ Len(t) \in Nat /\ Len(u) \in Nat /\ Len(v) \in Nat
      /\ Len(s \o u) = Len(s) + Len(u) /\ Len(t \o v) = Len(t) + Len(v)
      /\ \A i \in 1 .. Len(s) + Len(u) :
            (s \o u)[i] = IF i <= Len(s) THEN s[i] ELSE u[i - Len(s)]
      /\ \A i \in 1 .. Len(t) + Len(v) :
            (t \o v)[i] = IF i <= Len(t) THEN t[i] ELSE v[i - Len(t)]
  BY ConcatProperties, LenProperties
<1>4. ASSUME NEW i \in 1 .. Len(s) + Len(u), i <= Len(s)
      PROVE  i \in 1 .. Len(s) /\ h[i] = f[i] /\ f[i] \in 1 .. Len(t)
  <2>1. i \in 1 .. Len(s)
    BY <1>3, <1>4
  <2>2. h[i] = f[i]
    BY <1>4
  <2>3. QED
    BY <2>1, <2>2
<1>5. ASSUME NEW i \in 1 .. Len(s) + Len(u), ~(i <= Len(s))
      PROVE  /\ i - Len(s) \in 1 .. Len(u) /\ h[i] = Len(t) + g[i - Len(s)]
             /\ g[i - Len(s)] \in 1 .. Len(v)
  <2>1. i - Len(s) \in 1 .. Len(u)
    BY <1>3, <1>5
  <2>2. h[i] = Len(t) + g[i - Len(s)]
    BY <1>5
  <2>3. QED
    BY <2>1, <2>2
<1>6. h \in [1 .. Len(s) + Len(u) -> 1 .. Len(t) + Len(v)]
  <2>1. ASSUME NEW i \in 1 .. Len(s) + Len(u) PROVE h[i] \in 1 .. Len(t) + Len(v)
    <3> HIDE DEF h
    <3>1. CASE i <= Len(s)
      <4>1. h[i] \in 1 .. Len(t)
        BY <3>1, <1>4
      <4>2. QED
        BY <4>1, <1>3
    <3>2. CASE ~(i <= Len(s))
      <4>1. PICK k \in 1 .. Len(v) : h[i] = Len(t) + k
        BY <3>2, <1>5
      <4>2. QED
        BY <4>1, <1>3
    <3>3. QED
      BY <3>1, <3>2
  <2>2. h = [i \in 1 .. Len(s) + Len(u) |-> h[i]]
    OBVIOUS
  <2> HIDE DEF h
  <2>3. QED
    BY <2>1, <2>2
<1> HIDE DEF h
<1>7. ASSUME NEW i \in 1 .. Len(s) + Len(u), NEW j \in 1 .. Len(s) + Len(u), i < j
      PROVE  h[i] < h[j]
  <2>1. CASE j <= Len(s)
    <3>1. i <= Len(s)
      BY <2>1, <1>3, <1>7
    <3>2. QED
      BY <2>1, <3>1, <1>1, <1>4, <1>7
  <2>2. CASE i <= Len(s) /\ ~(j <= Len(s))
    <3>1. h[i] \in 1 .. Len(t)
      BY <2>2, <1>4
    <3>2. PICK k \in 1 .. Len(v) : h[j] = Len(t) + k
      BY <2>2, <1>5
    <3>3. QED
      BY <3>1, <3>2, <1>3
  <2>3. CASE ~(i <= Len(s)) /\ ~(j <= Len(s))
    <3>1. i - Len(s) < j - Len(s)
      BY <1>3, <1>7
    <3>2. g[i - Len(s)] < g[j - Len(s)]
      BY <2>3, <3>1, <1>2, <1>5
    <3> DEFINE gi == g[i - Len(s)]
               gj == g[j - Len(s)]
    <3>3. gi < gj /\ gi \in Nat /\ gj \in Nat /\ h[i] = Len(t) + gi /\ h[j] = Len(t) + gj
      BY <2>3, <3>2, <1>5
    <3> HIDE DEF gi, gj
    <3>4. QED
      BY <3>3, <1>3
  <2>4. QED
    BY <2>1, <2>2, <2>3
<1>8. ASSUME NEW i \in 1 .. Len(s) + Len(u) PROVE (s \o u)[i] = (t \o v)[h[i]]
  <2>1. CASE i <= Len(s)
    <3>1. h[i] \in 1 .. Len(t) + Len(v) /\ h[i] = f[i] /\ h[i] <= Len(t) /\ i \in 1 .. Len(s)
      BY <2>1, <1>3, <1>4
    <3>2. (t \o v)[h[i]] = t[f[i]] /\ (s \o u)[i] = s[i]
      BY <2>1, <3>1, <1>3
    <3>3. QED
      BY <3>1, <3>2, <1>1
  <2>2. CASE ~(i <= Len(s))
    <3>1. PICK k \in 1 .. Len(v) : k = g[i - Len(s)] /\ h[i] = Len(t) + k
      BY <2>2, <1>5
    <3>2. h[i] \in 1 .. Len(t) + Len(v) /\ ~(h[i] <= Len(t)) /\ h[i] - Len(t) = k
      BY <3>1, <1>3
    <3>3. u[i - Len(s)] = v[k]
      BY <2>2, <3>1, <1>2, <1>5
    <3>4. QED
      BY <2>2, <3>2, <3>3, <1>3
  <2>3. QED
    BY <2>1, <2>2
<1>9. QED
  BY <1>3, <1>6, <1>7, <1>8 DEF Within

(* What an insertion keeps of a batch is within it.                        *)
LEMMA WithinKept ==
    ASSUME NEW s \in Seq(Entry), NEW n \in 0 .. Len(s), NEW kept \in [1 .. n -> DOMAIN s],
           \A i, j \in 1 .. n : i < j => kept[i] < kept[j]
    PROVE  /\ [i \in 1 .. n |-> s[kept[i]]] \in Seq(Entry)
           /\ Within([i \in 1 .. n |-> s[kept[i]]], s)
<1> DEFINE k == [i \in 1 .. n |-> s[kept[i]]]
<1>1. n \in Nat /\ DOMAIN s = 1 .. Len(s)
  OBVIOUS
<1>2. k \in Seq(Entry) /\ Len(k) = n /\ \A i \in 1 .. n : k[i] = s[kept[i]]
  BY <1>1
<1> HIDE DEF k
<1>3. Within(k, s)
  BY <1>1, <1>2 DEF Within
<1>4. QED
  BY <1>2, <1>3 DEF k

(* The newest rows are within the rows.                                    *)
LEMMA WithinNewest ==
    ASSUME NEW s \in Seq(Entry), NEW n \in Nat
    PROVE  SubSeq(s, n + 1, Len(s)) \in Seq(Entry) /\ Within(SubSeq(s, n + 1, Len(s)), s)
<1> DEFINE k == SubSeq(s, n + 1, Len(s))
           f == [i \in 1 .. Len(k) |-> n + i]
<1>1. /\ k \in Seq(Entry) /\ Len(k) = (IF n + 1 <= Len(s) THEN Len(s) - n ELSE 0)
      /\ \A i \in 1 .. Len(s) - n : k[i] = s[n + i]
  <2>1. n + 1 \in Int /\ Len(s) \in Int /\ \A i \in n + 1 .. Len(s) : s[i] \in Entry
    OBVIOUS
  <2>2. /\ k \in Seq(Entry) /\ Len(k) = (IF n + 1 <= Len(s) THEN Len(s) - (n + 1) + 1 ELSE 0)
        /\ \A i \in 1 .. Len(s) - (n + 1) + 1 : k[i] = s[(n + 1) + i - 1]
    BY <2>1, SubSeqProperties
  <2> HIDE DEF k
  <2>3. QED
    BY <2>1, <2>2
<1> HIDE DEF k
<1>2. /\ f \in [1 .. Len(k) -> 1 .. Len(s)]
      /\ \A i, j \in 1 .. Len(k) : i < j => f[i] < f[j]
      /\ \A i \in 1 .. Len(k) : k[i] = s[f[i]]
  BY <1>1
<1> HIDE DEF f
<1>3. Within(k, s)
  BY <1>2 DEF Within
<1>4. QED
  BY <1>1, <1>3 DEF k

-----------------------------------------------------------------------------
(* The log: entries between their recording and the table.                 *)

(* A request in one of these states is answered or about to be, and will   *)
(* not be recorded again.                                                  *)
Settled == {"answer", "send", "done", "gone"}

OnlySettledRecorded == \A a \in DOMAIN history : pc[history[a]] \in Settled

EntriesRecorded ==
    \A i \in DOMAIN Pipeline : \E a \in DOMAIN history : history[a] = Pipeline[i].request

(* LogKeepsOrder without CHOOSE.                                           *)
InOrder ==
    \A i, j \in DOMAIN Pipeline : i < j =>
        \A a, b \in DOMAIN history :
            history[a] = Pipeline[i].request /\ history[b] = Pipeline[j].request => a < b

LogMatches == OnlySettledRecorded /\ EntriesRecorded /\ InOrder /\ EntriesTellTheAnswer

WritingOnlyInserts == writer # "inserting" => writing = <<>>

LogInvariant == LogMatches /\ WritingOnlyInserts

(* What a step may do to a settled request: answer that it is blocked.     *)
StaysSettled(q) ==
    pc[q] \in Settled =>
        /\ pc'[q] \in Settled
        /\ decision'[q] = decision[q]
        /\ \/ reply'[q] = reply[q]
           \/ decision[q] = "blocked" /\ reply'[q] \in Replies("blocked")

(* The stages of the log hold requests that were recorded.                 *)
LEMMA PipelineTyped ==
    ASSUME TypeOK
    PROVE  /\ Pipeline \in Seq(Entry) /\ Len(Pipeline) \in Nat /\ DOMAIN Pipeline = 1 .. Len(Pipeline)
           /\ \A i \in DOMAIN Pipeline : Pipeline[i] \in Entry
           /\ history \in Seq(Requests) /\ Len(history) \in Nat /\ DOMAIN history = 1 .. Len(history)
           /\ \A a \in DOMAIN history : history[a] \in Requests
<1>1. rows \in Seq(Entry) /\ writing \in Seq(Entry) /\ batch \in Seq(Entry) /\ channel \in Seq(Entry)
  BY DEF TypeOK
<1>2. rows \o writing \in Seq(Entry)
  BY <1>1, ConcatProperties
<1>3. rows \o writing \o batch \in Seq(Entry)
  BY <1>1, <1>2, ConcatProperties
<1>4. Pipeline \in Seq(Entry)
  BY <1>1, <1>3, ConcatProperties DEF Pipeline
<1>5. history \in Seq(Requests)
  BY DEF TypeOK
<1>6. QED
  BY <1>4, <1>5, LenProperties, ElementOfSeq

(* A step that records nothing and leaves a part of the log.               *)
LEMMA LogKept ==
    ASSUME TypeOK, TypeOK', LogMatches, Within(Pipeline', Pipeline), UNCHANGED history,
           \A q \in Requests : StaysSettled(q)
    PROVE  LogMatches'
<1>1. /\ DOMAIN Pipeline = 1 .. Len(Pipeline) /\ DOMAIN Pipeline' = 1 .. Len(Pipeline')
      /\ \A i \in DOMAIN Pipeline : Pipeline[i] \in Entry
      /\ \A a \in DOMAIN history : history[a] \in Requests
  <2>1. DOMAIN Pipeline' = 1 .. Len(Pipeline')
    BY PipelineTyped
  <2>2. QED
    BY <2>1, PipelineTyped
<1>2. PICK f \in [1 .. Len(Pipeline') -> 1 .. Len(Pipeline)] :
         /\ \A i, j \in 1 .. Len(Pipeline') : i < j => f[i] < f[j]
         /\ \A i \in 1 .. Len(Pipeline') : Pipeline'[i] = Pipeline[f[i]]
  BY DEF Within
<1>3. OnlySettledRecorded'
  BY <1>1 DEF LogMatches, OnlySettledRecorded, StaysSettled
<1>4. EntriesRecorded'
  BY <1>1, <1>2 DEF LogMatches, EntriesRecorded
<1>5. InOrder'
  BY <1>1, <1>2 DEF LogMatches, InOrder
<1>6. EntriesTellTheAnswer'
  <2>1. SUFFICES ASSUME NEW i \in DOMAIN Pipeline'
                 PROVE  /\ Pipeline'[i].action = decision'[Pipeline'[i].request]
                        /\ reply'[Pipeline'[i].request] \in Replies(Pipeline'[i].action)
    BY DEF EntriesTellTheAnswer, Replies
  <2>2. PICK k \in DOMAIN Pipeline : Pipeline'[i] = Pipeline[k]
    BY <1>1, <1>2, <2>1
  <2>3. PICK q \in Requests : q = Pipeline[k].request /\ pc[q] \in Settled
    BY <1>1 DEF LogMatches, EntriesRecorded, OnlySettledRecorded
  <2>4. Pipeline[k].action = decision[q] /\ reply[q] \in Replies(Pipeline[k].action)
    BY <2>3 DEF LogMatches, EntriesTellTheAnswer
  <2>5. QED
    BY <2>2, <2>3, <2>4 DEF StaysSettled
<1>7. QED
  BY <1>3, <1>4, <1>5, <1>6 DEF LogMatches

(* A step that records a request: its entry is the last of the log, or is  *)
(* dropped.                                                                *)
LEMMA RecordKeepsLog ==
    ASSUME TypeOK, TypeOK', LogMatches, NEW r \in Requests, NEW action \in Action,
           Record(r, action), UNCHANGED rows, pc[r] \notin Settled, pc'[r] \in Settled,
           decision'[r] = action, reply'[r] \in Replies(action),
           \A q \in Requests : StaysSettled(q)
    PROVE  LogMatches'
<1> DEFINE e == [request |-> r, action |-> action]
           n == Len(history)
<1>1. /\ DOMAIN Pipeline = 1 .. Len(Pipeline) /\ Len(Pipeline) \in Nat
      /\ \A i \in DOMAIN Pipeline : Pipeline[i] \in Entry
      /\ n \in Nat /\ DOMAIN history = 1 .. n
      /\ \A a \in DOMAIN history : history[a] \in Requests
  BY PipelineTyped
<1>2. DOMAIN history' = 1 .. n + 1 /\ history'[n + 1] = r /\ \A a \in 1 .. n : history'[a] = history[a]
  <2>1. history' = Append(history, r) /\ history \in Seq(Requests)
    BY DEF Record, TypeOK
  <2>2. QED
    BY <2>1, AppendProperties, LenProperties
<1>3. Pipeline' = Append(Pipeline, e) \/ Pipeline' = Pipeline
  <2>1. UNCHANGED <<rows, batch, writing>> /\ (channel' = Append(channel, e) \/ channel' = channel)
    BY DEF Record
  <2>2. CASE channel' = Append(channel, e)
    <3>1. e \in Entry
      BY DEF Entry
    <3>2. /\ rows \in Seq(Entry) /\ writing \in Seq(Entry) /\ batch \in Seq(Entry)
          /\ channel \in Seq(Entry) /\ <<e>> \in Seq(Entry)
      BY <3>1 DEF TypeOK
    <3> DEFINE before == rows \o writing \o batch
    <3>3. before \in Seq(Entry)
      BY <3>2, ConcatProperties
    <3> HIDE DEF e, before
    <3>4. Append(channel, e) = channel \o <<e>>
      BY <3>1, <3>2, AppendIsConcat
    <3>5. before \o (channel \o <<e>>) = (before \o channel) \o <<e>>
      BY <3>2, <3>3, ConcatAssociative
    <3>6. (before \o channel) \o <<e>> = Append(before \o channel, e)
      <4>1. before \o channel \in Seq(Entry)
        BY <3>2, <3>3, ConcatProperties
      <4>2. QED
        BY <3>1, <4>1, AppendIsConcat
    <3>7. Pipeline' = before \o channel' /\ Pipeline = before \o channel
      BY <2>1 DEF Pipeline, before
    <3>8. QED
      BY <2>2, <3>4, <3>5, <3>6, <3>7
  <2>3. CASE channel' = channel
    BY <2>1, <2>3 DEF Pipeline
  <2>4. QED
    BY <2>1, <2>2, <2>3
<1>4. ASSUME NEW i \in DOMAIN Pipeline'
      PROVE  \/ i \in DOMAIN Pipeline /\ Pipeline'[i] = Pipeline[i]
             \/ i = Len(Pipeline) + 1 /\ Pipeline'[i] = e
  <2>1. CASE Pipeline' = Append(Pipeline, e)
    <3>1. e \in Entry /\ Pipeline \in Seq(Entry)
      BY PipelineTyped DEF Entry
    <3>2. /\ DOMAIN Append(Pipeline, e) = 1 .. Len(Pipeline) + 1
          /\ \A k \in 1 .. Len(Pipeline) : Append(Pipeline, e)[k] = Pipeline[k]
          /\ Append(Pipeline, e)[Len(Pipeline) + 1] = e
      BY <3>1, AppendProperties, LenProperties
    <3> HIDE DEF e
    <3>3. QED
      BY <1>1, <1>4, <2>1, <3>2
  <2>2. CASE Pipeline' = Pipeline
    BY <1>4, <2>2
  <2>3. QED
    BY <1>3, <2>1, <2>2
<1>5. \A i \in DOMAIN Pipeline : /\ Pipeline[i].request \in Requests
                                 /\ Pipeline[i].request # r /\ pc[Pipeline[i].request] \in Settled
  BY <1>1 DEF LogMatches, EntriesRecorded, OnlySettledRecorded
<1>6. \A a \in DOMAIN history' : \/ a \in DOMAIN history /\ history'[a] = history[a] /\ history'[a] # r
                                 \/ a = n + 1 /\ history'[a] = r
  BY <1>1, <1>2 DEF LogMatches, OnlySettledRecorded
<1>e. e.request = r /\ e.action = action
  OBVIOUS
<1> HIDE DEF e, n
<1>7. OnlySettledRecorded'
  BY <1>1, <1>6 DEF LogMatches, OnlySettledRecorded, StaysSettled
<1>8. EntriesRecorded'
  <2>1. ASSUME NEW i \in DOMAIN Pipeline'
        PROVE  \E a \in DOMAIN history' : history'[a] = Pipeline'[i].request
    <3>1. CASE i \in DOMAIN Pipeline /\ Pipeline'[i] = Pipeline[i]
      <4>1. PICK a \in DOMAIN history : history[a] = Pipeline[i].request
        BY <3>1 DEF LogMatches, EntriesRecorded
      <4>2. a \in DOMAIN history' /\ history'[a] = history[a]
        BY <1>1, <1>2, <4>1
      <4>3. QED
        BY <3>1, <4>1, <4>2
    <3>2. CASE Pipeline'[i] = e
      <4>1. n + 1 \in DOMAIN history' /\ history'[n + 1] = r
        BY <1>1, <1>2
      <4>2. QED
        BY <3>2, <4>1, <1>e
    <3>3. QED
      BY <1>4, <3>1, <3>2
  <2>2. QED
    BY <2>1 DEF EntriesRecorded
<1>9. InOrder'
  <2>1. ASSUME NEW i \in DOMAIN Pipeline', NEW j \in DOMAIN Pipeline', i < j,
               NEW a \in DOMAIN history', NEW b \in DOMAIN history',
               history'[a] = Pipeline'[i].request, history'[b] = Pipeline'[j].request
        PROVE  a < b
    <3>1. i \in DOMAIN Pipeline /\ Pipeline'[i] = Pipeline[i]
      BY <1>1, <1>4, <2>1
    <3>2. a \in DOMAIN history /\ history[a] = Pipeline[i].request
      BY <1>5, <1>6, <2>1, <3>1
    <3>3. CASE j \in DOMAIN Pipeline /\ Pipeline'[j] = Pipeline[j]
      <4>1. b \in DOMAIN history /\ history[b] = Pipeline[j].request
        BY <1>5, <1>6, <2>1, <3>3
      <4>2. QED
        BY <2>1, <3>1, <3>2, <3>3, <4>1 DEF LogMatches, InOrder
    <3>4. CASE Pipeline'[j] = e
      <4>1. b = n + 1
        BY <1>6, <2>1, <3>4, <1>e
      <4>2. QED
        BY <1>1, <3>2, <4>1
    <3>5. QED
      BY <1>4, <3>3, <3>4
  <2>2. QED
    BY <2>1 DEF InOrder
<1>10. EntriesTellTheAnswer'
  <2>1. SUFFICES ASSUME NEW i \in DOMAIN Pipeline'
                 PROVE  /\ Pipeline'[i].action = decision'[Pipeline'[i].request]
                        /\ reply'[Pipeline'[i].request] \in Replies(Pipeline'[i].action)
    BY DEF EntriesTellTheAnswer, Replies
  <2>2. CASE i \in DOMAIN Pipeline /\ Pipeline'[i] = Pipeline[i]
    <3>1. PICK q \in Requests : q = Pipeline[i].request /\ pc[q] \in Settled
      BY <1>5, <2>2
    <3>2. Pipeline[i].action = decision[q] /\ reply[q] \in Replies(Pipeline[i].action)
      BY <2>2, <3>1 DEF LogMatches, EntriesTellTheAnswer
    <3>3. QED
      BY <2>2, <3>1, <3>2 DEF StaysSettled
  <2>3. CASE Pipeline'[i] = e
    BY <2>3, <1>e
  <2>4. QED
    BY <1>4, <2>2, <2>3
<1>11. QED
  BY <1>7, <1>8, <1>9, <1>10 DEF LogMatches

(* Appending in two ways.                                                  *)
Regrouped(s, t, u) == (s \o t) \o u = s \o (t \o u)

LEMMA Regroup == \A s, t, u \in Seq(Entry) : Regrouped(s, t, u)
<1> SUFFICES ASSUME NEW s \in Seq(Entry), NEW t \in Seq(Entry), NEW u \in Seq(Entry)
             PROVE  (s \o t) \o u = s \o (t \o u)
  BY DEF Regrouped
<1> QED BY ConcatAssociative

(* The replies each decision allows.                                       *)
LEMMA RepliesAre ==
    /\ Replies("rewritten") = {"rewrite"}
    /\ Replies("blocked") = {"none", "nxdomain", "sinkhole", "refused"}
    /\ Replies("allowed") = {"upstream"}
    /\ Replies("forwarded") = {"upstream"}
BY DEF Replies

(* What is recorded is changed by nothing but its answer.                  *)
LEMMA SettledStep ==
    ASSUME RequestsTyped, RequestsMatch, [Next]_vars, NEW q \in Requests
    PROVE  StaysSettled(q)
<1>a. /\ reply \in [Requests -> Reply] /\ decision \in [Requests -> Action \cup {"none"}]
      /\ pc \in [Requests -> {"new", "overload", "done", "gone"} \cup InFlight]
      /\ \A r \in Requests : Matches(r)
  BY DEF RequestsTyped, RequestsMatch
<1>1. ASSUME NEW r \in Requests, Reject(r) \/ SendOverload(r) \/ Admit(r) \/ CheckAcl(r)
                                 \/ CheckAllowlist(r) \/ Send(r)
      PROVE  StaysSettled(q)
  BY <1>1, <1>a DEF Reject, SendOverload, Admit, CheckAcl, CheckAllowlist, Send, Answer, Goto, Finish,
     StaysSettled, Settled
<1>2. ASSUME NEW r \in Requests, CheckRewrites(r) \/ CheckBlocklist(r) \/ Forward(r) \/ RecordForwarded(r)
      PROVE  StaysSettled(q)
  BY <1>2, <1>a DEF CheckRewrites, CheckBlocklist, Forward, RecordForwarded, Answer, Goto, Finish,
     StaysSettled, Settled
<1>3. ASSUME NEW r \in Requests, AnswerBlocked(r) PROVE StaysSettled(q)
  <2>1. BlockedResponse(question[r].type) \in Replies("blocked")
    BY RepliesAre DEF BlockedResponse
  <2>2. decision[r] = "blocked"
    BY <1>3, <1>a DEF AnswerBlocked, Matches
  <2>3. QED
    BY <1>3, <1>a, <2>1, <2>2 DEF AnswerBlocked, Answer, Goto, StaysSettled, Settled
<1>4. CASE Restart
  BY <1>4, <1>a DEF Restart, StaysSettled, Settled
<1>5. CASE UNCHANGED request
  BY <1>5 DEF request, StaysSettled
<1>6. CASE Receive \/ Tick \/ Insert \/ Prune \/ Clear \/ Age \/ Configure \/ UNCHANGED vars
  BY <1>5, <1>6 DEF Receive, Tick, Insert, Prune, Clear, Age, Configure, SetAcl, SetRewrite,
     SetAllow, SetBlock, SetMode, Change, vars, request
<1>7. QED
  BY <1>1, <1>2, <1>3, <1>4, <1>6 DEF Next, Handle

(* The log is the part of the database and what is still to come.          *)
LEMMA PartsWithin ==
    ASSUME TypeOK, TypeOK', Within(rows' \o writing', rows \o writing),
           Within(batch' \o channel', batch \o channel)
    PROVE  Within(Pipeline', Pipeline)
<1>1. /\ rows \in Seq(Entry) /\ writing \in Seq(Entry) /\ batch \in Seq(Entry) /\ channel \in Seq(Entry)
      /\ rows' \in Seq(Entry) /\ writing' \in Seq(Entry) /\ batch' \in Seq(Entry) /\ channel' \in Seq(Entry)
  BY DEF TypeOK
<1> DEFINE o == rows \o writing
           o2 == rows' \o writing'
           p == batch \o channel
           p2 == batch' \o channel'
<1>2. o \in Seq(Entry) /\ o2 \in Seq(Entry) /\ p \in Seq(Entry) /\ p2 \in Seq(Entry)
  BY <1>1, ConcatProperties
<1>3. Pipeline = (o \o batch) \o channel /\ Pipeline' = (o2 \o batch') \o channel'
  BY DEF Pipeline
<1>4. Pipeline = o \o p /\ Pipeline' = o2 \o p2
  <2> HIDE DEF o, o2
  <2>1. (o \o batch) \o channel = o \o p
    <3>1. Regrouped(o, batch, channel)
      BY <1>1, <1>2, Regroup
    <3>2. QED
      BY <3>1 DEF Regrouped
  <2>2. (o2 \o batch') \o channel' = o2 \o p2
    <3>1. Regrouped(o2, batch', channel')
      BY <1>1, <1>2, Regroup
    <3>2. QED
      BY <3>1 DEF Regrouped
  <2>3. QED
    BY <1>3, <2>1, <2>2
<1>5. Within(o2, o) /\ Within(p2, p)
  OBVIOUS
<1> HIDE DEF o, o2, p, p2
<1>6. QED
  BY <1>2, <1>4, <1>5, WithinConcat

(* The first entry of the channel becomes the last of the batch.           *)
LEMMA HeadMoves ==
    ASSUME NEW b \in Seq(Entry), NEW c \in Seq(Entry), c # <<>>
    PROVE  Append(b, Head(c)) \o Tail(c) = b \o c
<1> DEFINE h == Head(c)
           t == Tail(c)
<1>1. h \in Entry /\ t \in Seq(Entry) /\ <<h>> \in Seq(Entry)
  BY HeadTailProperties
<1>2. <<h>> \o t = c
  OBVIOUS
<1> HIDE DEF h, t
<1>3. Append(b, h) = b \o <<h>>
  BY <1>1, AppendIsConcat
<1>4. (b \o <<h>>) \o t = b \o (<<h>> \o t)
  <2>1. Regrouped(b, <<h>>, t)
    BY <1>1, Regroup
  <2>2. QED
    BY <2>1 DEF Regrouped
<1>5. QED
  BY <1>2, <1>3, <1>4 DEF h, t

(* Receiving and flushing move entries and leave the log as it is.         *)
LEMMA MovingKeepsPipeline ==
    ASSUME TypeOK, WritingOnlyInserts, Receive \/ Tick
    PROVE  Pipeline' = Pipeline
<1>1. /\ rows \in Seq(Entry) /\ writing \in Seq(Entry) /\ batch \in Seq(Entry) /\ channel \in Seq(Entry)
  BY DEF TypeOK
<1>2. rows' = rows /\ writing = <<>> /\ rows \o writing = rows
  <2>1. rows' = rows /\ writer = "idle"
    BY DEF Receive, Tick, table
  <2>2. writing = <<>>
    BY <2>1 DEF WritingOnlyInserts
  <2>3. QED
    BY <1>1, <2>1, <2>2, ConcatEmptySeq
<1>3. ASSUME NEW b \in Seq(Entry), NEW c \in Seq(Entry), b \o c = batch \o channel, channel' = c,
             StartFlush(b) \/ Collect(b)
      PROVE  Pipeline' = Pipeline
  <2>1. (rows \o b) \o c = (rows \o batch) \o channel
    <3>1. Regrouped(rows, b, c) /\ Regrouped(rows, batch, channel)
      BY <1>1, <1>3, Regroup
    <3>2. QED
      BY <1>3, <3>1, Zenon DEF Regrouped
  <2>2. CASE StartFlush(b)
    <3>1. writing' = b /\ batch' = <<>>
      BY <2>2 DEF StartFlush
    <3>2. rows \o b \in Seq(Entry)
      BY <1>1, ConcatProperties
    <3>3. (rows \o b) \o <<>> = rows \o b
      BY <3>2, ConcatEmptySeq
    <3>4. Pipeline' = (rows \o b) \o c /\ Pipeline = (rows \o batch) \o channel
      BY <1>2, <1>3, <3>1, <3>3 DEF Pipeline
    <3>5. QED
      BY <2>1, <3>4
  <2>3. CASE Collect(b)
    <3>1. batch' = b /\ writing' = writing
      BY <2>3 DEF Collect
    <3>2. Pipeline' = (rows \o b) \o c /\ Pipeline = (rows \o batch) \o channel
      BY <1>2, <1>3, <3>1 DEF Pipeline
    <3>3. QED
      BY <2>1, <3>2
  <2>4. QED
    BY <1>3, <2>2, <2>3
<1>4. CASE Receive
  <2>1. /\ channel # <<>> /\ channel' = Tail(channel)
        /\ StartFlush(Append(batch, Head(channel))) \/ Collect(Append(batch, Head(channel)))
    BY <1>4 DEF Receive
  <2>2. Append(batch, Head(channel)) \in Seq(Entry) /\ Tail(channel) \in Seq(Entry)
    BY <1>1, <2>1, HeadTailProperties, AppendProperties
  <2>3. Append(batch, Head(channel)) \o Tail(channel) = batch \o channel
    BY <1>1, <2>1, HeadMoves
  <2>4. QED
    BY <1>3, <2>1, <2>2, <2>3
<1>5. CASE Tick
  BY <1>1, <1>3, <1>5 DEF Tick
<1>6. QED
  BY <1>4, <1>5

(* Every other step of the writer, and a clearing and a restart, leave a   *)
(* part of the log.                                                        *)
LEMMA RemovingIsWithin ==
    ASSUME TypeOK, TypeOK', WritingOnlyInserts, Insert \/ Prune \/ Clear \/ Restart
    PROVE  Within(Pipeline', Pipeline)
<1>1. /\ rows \in Seq(Entry) /\ writing \in Seq(Entry) /\ batch \in Seq(Entry) /\ channel \in Seq(Entry)
      /\ rows' \in Seq(Entry) /\ <<>> \in Seq(Entry) /\ aged \in Nat
      /\ rows \o writing \in Seq(Entry) /\ batch \o channel \in Seq(Entry)
  <2>1. /\ rows \in Seq(Entry) /\ writing \in Seq(Entry) /\ batch \in Seq(Entry)
        /\ channel \in Seq(Entry) /\ rows' \in Seq(Entry) /\ aged \in Nat
    BY DEF TypeOK
  <2>2. QED
    BY <2>1, ConcatProperties, EmptySeq
<1>2. Within(rows, rows) /\ Within(writing, writing) /\ Within(batch \o channel, batch \o channel)
      /\ Within(<<>>, rows) /\ Within(<<>>, writing)
  BY <1>1, WithinSelf, WithinEmpty
<1>3. CASE Insert
  <2>1. UNCHANGED <<batch, channel>> /\ writing' = <<>>
    BY <1>3 DEF Insert
  <2>2. PICK n \in 0 .. Len(writing) : \E kept \in [1 .. n -> DOMAIN writing] :
           /\ \A i, j \in 1 .. n : i < j => kept[i] < kept[j]
           /\ rows' = rows \o [i \in 1 .. n |-> writing[kept[i]]]
    BY <1>3 DEF Insert
  <2>3. PICK kept \in [1 .. n -> DOMAIN writing] :
           /\ \A i, j \in 1 .. n : i < j => kept[i] < kept[j]
           /\ rows' = rows \o [i \in 1 .. n |-> writing[kept[i]]]
    BY <2>2
  <2> DEFINE k == [i \in 1 .. n |-> writing[kept[i]]]
  <2>4. k \in Seq(Entry) /\ Within(k, writing)
    BY <1>1, <2>3, WithinKept
  <2>5. rows' = rows \o k
    BY <2>3
  <2> HIDE DEF k
  <2>6. Within(rows \o k, rows \o writing)
    BY <1>1, <1>2, <2>4, WithinConcat
  <2>7. rows' \o <<>> = rows \o k
    BY <1>1, <2>5, ConcatEmptySeq
  <2>8. QED
    BY <1>2, <2>1, <2>6, <2>7, PartsWithin
<1>4. CASE Prune \/ Clear
  <2>1. UNCHANGED <<writing, batch, channel>>
    BY <1>4 DEF Prune, Clear, memory
  <2>2. Within(rows', rows)
    <3>1. CASE rows' = SubSeq(rows, aged + 1, Len(rows))
      BY <1>1, <3>1, WithinNewest
    <3>2. CASE rows' = rows \/ rows' = <<>>
      BY <1>2, <3>2
    <3>3. QED
      BY <1>4, <3>1, <3>2 DEF Prune, Clear, table
  <2>3. Within(rows' \o writing, rows \o writing)
    BY <1>1, <1>2, <2>2, WithinConcat
  <2>4. QED
    BY <1>2, <2>1, <2>3, PartsWithin
<1>5. CASE Restart
  <2>1. rows' = rows /\ writing' = <<>> /\ batch' = <<>> /\ channel' = <<>>
    BY <1>5 DEF Restart, table
  <2>2. Within(rows \o <<>>, rows \o writing)
    BY <1>1, <1>2, WithinConcat
  <2>3. Within(<<>> \o <<>>, batch \o channel)
    <3>1. <<>> \o <<>> = <<>>
      BY <1>1, ConcatEmptySeq
    <3>2. QED
      BY <1>1, <3>1, WithinEmpty
  <2>4. QED
    BY <2>1, <2>2, <2>3, PartsWithin
<1>6. QED
  BY <1>3, <1>4, <1>5

(* Every action keeps the order of the log.                                *)
LEMMA LogStep ==
    TypeOK /\ TypeOK' /\ RequestsMatch /\ LogInvariant /\ [Next]_vars => LogInvariant'
<1> SUFFICES ASSUME TypeOK, TypeOK', RequestsMatch, LogInvariant, [Next]_vars PROVE LogInvariant'
  OBVIOUS
<1>a. RequestsTyped
  <2>1. permits \in Nat
    BY PipelineAssumption DEF TypeOK
  <2>2. QED
    BY <2>1, Zenon DEF TypeOK, RequestsTyped
<1>b. \A q \in Requests : StaysSettled(q)
  BY <1>a, SettledStep
<1>c. Within(Pipeline', Pipeline) /\ history' = history => LogMatches'
  BY <1>b, LogKept DEF LogInvariant
<1>d. Pipeline' = Pipeline /\ history' = history => LogMatches'
  BY <1>c, PipelineTyped, WithinSelf
<1>e. WritingOnlyInserts'
  <2>1. CASE UNCHANGED <<writing, writer>>
    BY <2>1 DEF LogInvariant, WritingOnlyInserts
  <2>2. CASE Receive \/ Tick
    BY <2>1, <2>2 DEF Receive, Tick, StartFlush, Collect, WritingOnlyInserts
  <2>3. CASE Insert \/ Restart
    BY <2>3 DEF Insert, Restart, WritingOnlyInserts
  <2>4. CASE Prune
    BY <2>4 DEF Prune, LogInvariant, WritingOnlyInserts
  <2>5. ASSUME NEW r \in Requests, Reject(r) \/ SendOverload(r) \/ Admit(r) \/ Handle(r)
        PROVE  WritingOnlyInserts'
    <3>1. UNCHANGED <<writing, writer>>
      BY <2>5 DEF Reject, SendOverload, Admit, Handle, CheckAcl, CheckRewrites, CheckAllowlist,
         CheckBlocklist, AnswerBlocked, Send, Forward, RecordForwarded, Record, memory
    <3>2. QED
      BY <2>1, <3>1
  <2>6. CASE Configure \/ Clear \/ Age \/ UNCHANGED vars
    BY <2>1, <2>6 DEF Configure, SetAcl, SetRewrite, SetAllow, SetBlock, SetMode, Change, Clear, Age,
       vars, memory
  <2>7. QED
    BY <2>2, <2>3, <2>4, <2>5, <2>6 DEF Next
<1> SUFFICES LogMatches'
  BY <1>e DEF LogInvariant
<1>1. CASE UNCHANGED <<rows, writing, batch, channel, history>>
  <2>1. Pipeline' = Pipeline
    BY <1>1 DEF Pipeline
  <2>2. QED
    BY <1>1, <1>d, <2>1
<1>2. ASSUME NEW r \in Requests, Reject(r) \/ SendOverload(r) \/ Admit(r) \/ CheckAcl(r)
                                 \/ CheckAllowlist(r) \/ AnswerBlocked(r) \/ Send(r) \/ Forward(r)
      PROVE  LogMatches'
  BY <1>1, <1>2 DEF Reject, SendOverload, Admit, CheckAcl, CheckAllowlist, AnswerBlocked, Send, Forward,
     memory, table
<1>3. ASSUME NEW r \in Requests, CheckRewrites(r) PROVE LogMatches'
  <2>1. CASE question[r].type \in rewrites[question[r].name]
    <3>1. /\ Record(r, "rewritten") /\ Answer(r, "rewrite") /\ Goto(r, "send") /\ UNCHANGED rows
          /\ pc[r] = "rewrites"
          /\ decision' = [decision EXCEPT ![r] = "rewritten"]
      BY <1>3, <2>1 DEF CheckRewrites, table
    <3>2. /\ pc[r] \notin Settled /\ pc'[r] \in Settled /\ decision'[r] = "rewritten"
          /\ reply'[r] \in Replies("rewritten")
      BY <3>1, RepliesAre DEF Answer, Goto, Settled, TypeOK
    <3>3. QED
      BY <1>b, <3>1, <3>2, RecordKeepsLog DEF LogInvariant, Action
  <2>2. CASE question[r].type \notin rewrites[question[r].name]
    BY <1>1, <1>3, <2>2 DEF CheckRewrites, memory, table
  <2>3. QED
    BY <2>1, <2>2
<1>4. ASSUME NEW r \in Requests, CheckBlocklist(r) PROVE LogMatches'
  <2>1. CASE question[r].name \in block
    <3>1. /\ Record(r, "blocked") /\ Goto(r, "answer") /\ UNCHANGED <<rows, reply>>
          /\ pc[r] = "blocklist" /\ decision' = [decision EXCEPT ![r] = "blocked"]
      BY <1>4, <2>1 DEF CheckBlocklist, table
    <3>2. reply[r] = "none"
      BY <3>1 DEF RequestsMatch, Matches
    <3>3. /\ pc[r] \notin Settled /\ pc'[r] \in Settled /\ decision'[r] = "blocked"
          /\ reply'[r] \in Replies("blocked")
      BY <3>1, <3>2, RepliesAre DEF Goto, Settled, TypeOK
    <3>4. QED
      BY <1>b, <3>1, <3>3, RecordKeepsLog DEF LogInvariant, Action
  <2>2. CASE question[r].name \notin block
    BY <1>1, <1>4, <2>2 DEF CheckBlocklist, memory, table
  <2>3. QED
    BY <2>1, <2>2
<1>5. ASSUME NEW r \in Requests, RecordForwarded(r) PROVE LogMatches'
  <2>1. /\ Record(r, decision[r]) /\ Finish(r) /\ UNCHANGED <<rows, decision, reply>>
        /\ pc[r] = "log"
    BY <1>5 DEF RecordForwarded, table
  <2>2. decision[r] \in {"allowed", "forwarded"} /\ reply[r] = "upstream"
    BY <2>1 DEF RequestsMatch, Matches
  <2>3. /\ pc[r] \notin Settled /\ pc'[r] \in Settled /\ decision'[r] = decision[r]
        /\ reply'[r] \in Replies(decision[r]) /\ decision[r] \in Action
    BY <2>1, <2>2, RepliesAre DEF Finish, Settled, Action, TypeOK
  <2>4. QED
    BY <1>b, <2>1, <2>3, RecordKeepsLog DEF LogInvariant
<1>6. CASE Receive \/ Tick
  <2>1. Pipeline' = Pipeline
    BY <1>6, MovingKeepsPipeline DEF LogInvariant
  <2>2. history' = history
    BY <1>6 DEF Receive, Tick
  <2>3. QED
    BY <1>d, <2>1, <2>2
<1>7. CASE Insert \/ Prune \/ Clear \/ Restart
  <2>1. Within(Pipeline', Pipeline)
    BY <1>7, RemovingIsWithin DEF LogInvariant
  <2>2. history' = history
    BY <1>7 DEF Insert, Prune, Clear, Restart
  <2>3. QED
    BY <1>c, <2>1, <2>2
<1>8. CASE Configure \/ Age \/ UNCHANGED vars
  BY <1>1, <1>8 DEF Configure, SetAcl, SetRewrite, SetAllow, SetBlock, SetMode, Change, Age, vars,
     memory, table
<1>9. QED
  BY <1>2, <1>3, <1>4, <1>5, <1>6, <1>7, <1>8 DEF Next, Handle

-----------------------------------------------------------------------------

(* AnswersAreRecorded with or without a send: whom the rewrites or the     *)
(* blocklist decided is in the history, where nothing is taken back.       *)
DecidedAreRecorded ==
    \A r \in Requests :
        decision[r] \in {"rewritten", "blocked"} => \E a \in DOMAIN history : history[a] = r

(* The decision and the recording are one step.                            *)
LEMMA RecordedStep ==
    TypeOK /\ RequestsMatch /\ DecidedAreRecorded /\ [Next]_vars => DecidedAreRecorded'
<1> SUFFICES ASSUME TypeOK, RequestsMatch, DecidedAreRecorded, [Next]_vars
             PROVE  DecidedAreRecorded'
  OBVIOUS
<1>a. /\ decision \in [Requests -> Action \cup {"none"}] /\ history \in Seq(Requests)
      /\ \A r \in Requests : Matches(r)
  BY DEF TypeOK, RequestsMatch
<1>1. CASE UNCHANGED <<decision, history>>
  BY <1>1 DEF DecidedAreRecorded
<1>2. ASSUME NEW r \in Requests, history' = Append(history, r),
             \A q \in Requests \ {r} : decision'[q] = decision[q]
      PROVE  DecidedAreRecorded'
  <2>1. /\ DOMAIN history' = 1 .. Len(history) + 1 /\ DOMAIN history = 1 .. Len(history)
        /\ Len(history) \in Nat /\ history'[Len(history) + 1] = r
        /\ \A a \in 1 .. Len(history) : history'[a] = history[a]
    BY <1>2, <1>a, AppendProperties, LenProperties
  <2>2. (\E a \in DOMAIN history' : history'[a] = r) /\ DOMAIN history \subseteq DOMAIN history'
    BY <2>1
  <2>3. \A a \in DOMAIN history : a \in DOMAIN history' /\ history'[a] = history[a]
    BY <2>1, <2>2
  <2>4. QED
    BY <1>2, <2>2, <2>3 DEF DecidedAreRecorded
<1>3. ASSUME NEW r \in Requests, Reject(r) \/ SendOverload(r) \/ Admit(r) \/ CheckAcl(r)
                                 \/ AnswerBlocked(r) \/ Send(r) \/ Forward(r)
      PROVE  DecidedAreRecorded'
  BY <1>1, <1>3 DEF Reject, SendOverload, Admit, CheckAcl, AnswerBlocked, Send, Forward
<1>4. ASSUME NEW r \in Requests, UNCHANGED history, decision' = [decision EXCEPT ![r] = "allowed"]
                                                 \/ decision' = [decision EXCEPT ![r] = "forwarded"]
      PROVE  DecidedAreRecorded'
  BY <1>4, <1>a DEF DecidedAreRecorded
<1>5. ASSUME NEW r \in Requests, CheckAllowlist(r) PROVE DecidedAreRecorded'
  BY <1>1, <1>4, <1>5 DEF CheckAllowlist
<1>6. ASSUME NEW r \in Requests, CheckRewrites(r) \/ RecordForwarded(r) PROVE DecidedAreRecorded'
  BY <1>1, <1>2, <1>6, <1>a DEF CheckRewrites, RecordForwarded, Record
<1>7. ASSUME NEW r \in Requests, CheckBlocklist(r) PROVE DecidedAreRecorded'
  BY <1>2, <1>4, <1>7, <1>a DEF CheckBlocklist, Record
<1>8. CASE Receive \/ Tick \/ Insert \/ Prune \/ Clear \/ Age \/ Restart
  BY <1>1, <1>8 DEF Receive, Tick, Insert, Prune, Clear, Age, Restart, request
<1>9. CASE Configure \/ UNCHANGED vars
  BY <1>1, <1>9 DEF Configure, SetAcl, SetRewrite, SetAllow, SetBlock, SetMode, Change, vars, request
<1>10. QED
  BY <1>3, <1>5, <1>6, <1>7, <1>8, <1>9 DEF Next, Handle

FullInvariant ==
    /\ InductiveInvariant
    /\ TypeOK
    /\ RequestsMatch
    /\ CountersAreTrue
    /\ LogInvariant
    /\ DecidedAreRecorded

(* At the start nothing is logged.                                         *)
LEMMA InitFull == Init => FullInvariant
<1> SUFFICES ASSUME Init PROVE FullInvariant
  OBVIOUS
<1>1. InductiveInvariant
  BY InitInvariant
<1>2. TypeOK
  <2>1. <<>> \in Seq(Entry) /\ <<>> \in Seq(Requests) /\ Len(<<>>) = 0
    OBVIOUS
  <2>2. counted \in [Action \cup {"total"} -> Nat] /\ reply \in [Requests -> Reply]
    BY DEF Init, NothingCounted, Reply
  <2>3. QED
    BY <1>1, <2>1, <2>2, PipelineAssumption DEF Init, TypeOK, InductiveInvariant, RequestsTyped
<1>3. RequestsMatch
  BY DEF Init, RequestsMatch, Matches, Reply
<1>4. CountersAreTrue
  BY CountStart DEF Init
<1>5. LogInvariant
  <2>1. /\ rows = <<>> /\ writing = <<>> /\ batch = <<>> /\ channel = <<>> /\ history = <<>>
    BY DEF Init
  <2>2. Pipeline = <<>>
    BY <2>1, ConcatEmptySeq DEF Pipeline
  <2>3. DOMAIN Pipeline = {} /\ DOMAIN history = {}
    BY <2>1, <2>2
  <2>4. QED
    BY <2>1, <2>3 DEF LogInvariant, LogMatches, OnlySettledRecorded, EntriesRecorded, InOrder,
       EntriesTellTheAnswer, WritingOnlyInserts
<1>6. DecidedAreRecorded
  BY DEF Init, DecidedAreRecorded
<1>7. QED
  BY <1>1, <1>2, <1>3, <1>4, <1>5, <1>6 DEF FullInvariant

(* All parts of the invariant hold of every state.                         *)
LEMMA FullInvariance == Spec => []FullInvariant
<1>1. FullInvariant /\ [Next]_vars => FullInvariant'
  <2> SUFFICES ASSUME FullInvariant, [Next]_vars PROVE FullInvariant'
    OBVIOUS
  <2>1. InductiveInvariant'
    BY StepInvariant DEF FullInvariant
  <2>2. TypeOK'
    BY <2>1, TypeStep DEF FullInvariant
  <2>3. RequestsMatch'
    BY MatchStep DEF FullInvariant, InductiveInvariant
  <2>4. CountersAreTrue'
    BY CountStep DEF FullInvariant
  <2>5. LogInvariant'
    BY <2>2, LogStep DEF FullInvariant
  <2>6. DecidedAreRecorded'
    BY RecordedStep DEF FullInvariant
  <2>7. QED
    BY <2>1, <2>2, <2>3, <2>4, <2>5, <2>6 DEF FullInvariant
<1>2. QED
  BY <1>1, InitFull, PTL DEF Spec

(* Whatever requests, changes, the writer, clearing and restarts do, every *)
(* variable keeps its type: the channel and the batch stay within their    *)
(* limits and the permits within theirs.                                   *)
THEOREM PipelineTypes == Spec => []TypeOK
BY FullInvariance, PTL DEF FullInvariant

(* The counters of the query log and of the rejected requests equal what   *)
(* was decided since the start, whatever the channel dropped.              *)
THEOREM CountersTell == Spec => []CountersAreTrue
BY FullInvariance, PTL DEF FullInvariant

(* The log says of each request what was decided and what kind of answer   *)
(* was made for it, from the entry's recording to its row, past failed     *)
(* sends and restarts, and no rewrite and no blocked answer goes out       *)
(* before its request is recorded.                                         *)
THEOREM LogIsTrue == Spec => []LogTellsTheAnswer
<1>1. FullInvariant => LogTellsTheAnswer
  <2> SUFFICES ASSUME FullInvariant PROVE LogTellsTheAnswer
    OBVIOUS
  <2>1. EntriesTellTheAnswer
    BY DEF FullInvariant, LogInvariant, LogMatches
  <2>2. AnswersAreRecorded
    BY DEF FullInvariant, TypeOK, DecidedAreRecorded, AnswersAreRecorded
  <2>3. QED
    BY <2>1, <2>2 DEF LogTellsTheAnswer
<1>2. QED
  BY <1>1, FullInvariance, PTL

(* Entries stay in the order in which they were recorded on their way from *)
(* the channel over batch and database task to the table.                  *)
THEOREM LogIsOrdered == Spec => []LogKeepsOrder
<1>1. FullInvariant => LogKeepsOrder
  <2> SUFFICES ASSUME FullInvariant PROVE LogKeepsOrder
    OBVIOUS
  <2>1. ASSUME NEW i \in DOMAIN Pipeline
        PROVE  /\ RecordedAt(Pipeline[i].request) \in DOMAIN history
               /\ history[RecordedAt(Pipeline[i].request)] = Pipeline[i].request
    BY DEF FullInvariant, LogInvariant, LogMatches, EntriesRecorded, RecordedAt
  <2>2. QED
    BY <2>1 DEF FullInvariant, LogInvariant, LogMatches, InOrder, LogKeepsOrder
<1>2. QED
  BY <1>1, FullInvariance, PTL

=============================================================================
