---------------------------- MODULE Forwarder_proofs ----------------------------
(***************************************************************************)
(* Proofs about Forwarder, for any number of upstreams, queries, reloads   *)
(* and parallel attempts: the types, the bound on attempts under way, and  *)
(* that SERVFAIL for failed upstreams comes after all were asked.  The     *)
(* inductive invariant adds that a query has no upstream of its generation *)
(* forgotten: each was asked or is waiting to be.                          *)
(***************************************************************************)
EXTENDS Forwarder, FiniteSetTheorems, FunctionTheorems, SequenceTheorems, TLAPS

USE ForwarderAssumption

(* An order of the upstreams of a generation leaves none out.              *)
LEMMA OrderIsComplete ==
    ASSUME TypeOK, NEW g \in Generation, clients[g] # {}, NEW order \in AdaptiveOrder(g)
    PROVE  /\ order \in Seq(Upstreams) /\ order # <<>>
           /\ {order[i] : i \in 1 .. Len(order)} = clients[g]
<1> DEFINE C == clients[g]
           n == Cardinality(C)
<1>1. C \subseteq Upstreams /\ IsFiniteSet(C)
  BY FS_Subset DEF TypeOK
<1>2. n \in Nat /\ n # 0
  BY <1>1, FS_CardinalityType, FS_EmptySet
<1>3. /\ order \in [1 .. n -> C]
      /\ \A i, j \in 1 .. n : i < j => order[i] # order[j]
  BY DEF AdaptiveOrder
<1>4. order \in Seq(Upstreams) /\ Len(order) = n /\ order # <<>>
  BY <1>1, <1>2, <1>3
<1>5. order \in Injection(1 .. n, C)
  <2>1. \A i, j \in 1 .. n : order[i] = order[j] => i = j
    BY <1>2, <1>3
  <2> QED
    BY <1>3, <2>1, Fun_IsInj
<1>6. Cardinality(1 .. n) = n
  BY <1>2, FS_Interval
<1>7. order \in Surjection(1 .. n, C)
  BY <1>1, <1>5, <1>6, FS_Injection
<1>8. \A u \in C : \E i \in 1 .. n : order[i] = u
  BY <1>7 DEF Surjection
<1> QED
  BY <1>3, <1>4, <1>8

(* Asking the first upstream waiting keeps the types and forgets none.     *)
LEMMA LaunchStep ==
    ASSUME NEW r \in Query, r.waiting # <<>>
    PROVE  /\ Launched(r) \in Query
           /\ Launched(r).inFlight = r.inFlight \cup {Head(r.waiting)}
           /\ Launched(r).launched \cup Waiting(Launched(r)) = r.launched \cup Waiting(r)
           /\ Launched(r).pc = r.pc
           /\ Launched(r).generation = r.generation
           /\ Launched(r).strategy = r.strategy
<1> DEFINE s == r.waiting
<1>1. s \in Seq(Upstreams)
  BY DEF Query
<1>2. /\ Head(s) \in Upstreams /\ Tail(s) \in Seq(Upstreams)
      /\ Len(Tail(s)) = Len(s) - 1
      /\ \A i \in 1 .. Len(Tail(s)) : Tail(s)[i] = s[i + 1]
      /\ Head(s) = s[1] /\ Len(s) \in Nat \ {0}
  BY <1>1, HeadTailProperties
<1>3. Launched(r) \in Query
  BY <1>2 DEF Launched, Query
<1>4. {s[i] : i \in 1 .. Len(s)} = {Head(s)} \cup {Tail(s)[i] : i \in 1 .. Len(Tail(s))}
  <2>1. ASSUME NEW i \in 1 .. Len(s)
        PROVE  s[i] = Head(s) \/ \E j \in 1 .. Len(Tail(s)) : s[i] = Tail(s)[j]
    <3>1. CASE i = 1
      BY <3>1, <1>2
    <3>2. CASE i # 1
      <4>1. i - 1 \in 1 .. Len(Tail(s)) /\ Tail(s)[i - 1] = s[i]
        BY <3>2, <1>2
      <4> QED
        BY <4>1
    <3> QED
      BY <3>1, <3>2
  <2>2. \A j \in 1 .. Len(Tail(s)) : j + 1 \in 1 .. Len(s) /\ Tail(s)[j] = s[j + 1]
    BY <1>2
  <2>3. 1 \in 1 .. Len(s) /\ Head(s) = s[1]
    BY <1>2
  <2> QED
    BY <2>1, <2>2, <2>3
<1> QED
  BY <1>3, <1>4 DEF Launched, Query, Waiting

(* One more attempt where a slot is free stays within the limit.           *)
LEMMA SlotBound ==
    ASSUME NEW S \in SUBSET Upstreams, Cardinality(S) < MaxParallel, NEW u \in Upstreams
    PROVE  Cardinality(S \cup {u}) <= MaxParallel
<1>1. IsFiniteSet(S) /\ Cardinality(S) \in Nat
  BY FS_Subset, FS_CardinalityType
<1> QED
  <2>1. Cardinality(S \cup {u}) \in {Cardinality(S), Cardinality(S) + 1}
    BY <1>1, FS_AddElement
  <2> QED
    BY <1>1, <2>1

(* What one query's record has to satisfy.                                 *)
Sound(r) ==
    /\ r \in Query
    /\ r.pc # "idle" => /\ r.generation <= generation
                        /\ r.launched \cup Waiting(r) = clients[r.generation]
    /\ r.pc # "idle" /\ Ranked(r) => Cardinality(r.inFlight) <= MaxParallel
    /\ r.pc = "waiting" => r.inFlight # {}

(* The invariant says of each query that its record is sound.              *)
LEMMA InvariantBySound ==
    /\ InductiveInvariant => \A q \in Queries : Sound(query[q])
    /\ TypeOK /\ (\A q \in Queries : Sound(query[q])) => InductiveInvariant
  BY DEF InductiveInvariant, TypeOK, NoneForgotten, FanOutBounded, Sound

(* The record of an idle query is of its type.                             *)
LEMMA NoQueryType == NoQuery \in Query
  BY DEF NoQuery, Query, Generation, Strategy, Outcome

(* A query that ended is sound, whatever its outcome.                      *)
LEMMA FinishedSound == \A o \in Outcome : Sound(Finished(o))
<1> SUFFICES ASSUME NEW o \in Outcome PROVE Sound(Finished(o))
  OBVIOUS
<1>1. Cardinality({}) <= MaxParallel
  BY FS_EmptySet
<1>2. Finished(o) \in Query /\ Finished(o).pc = "idle" /\ Finished(o).inFlight = {}
  BY NoQueryType DEF Finished, NoQuery, Query
<1> QED
  BY <1>1, <1>2 DEF Sound

(* A step of one query that leaves the clients alone.                      *)
LEMMA OneQueryStep ==
    ASSUME InductiveInvariant, TypeOK', NEW q \in Queries,
           generation' = generation, clients' = clients,
           \A p \in Queries \ {q} : query'[p] = query[p], Sound(query'[q])
    PROVE  InductiveInvariant'
<1>1. \A p \in Queries : Sound(query'[p])
  BY InvariantBySound
<1> QED
  BY <1>1 DEF InductiveInvariant, NoneForgotten, FanOutBounded, Sound, Ranked

(* A query begins.                                                         *)
LEMMA ResolveStep ==
    ASSUME InductiveInvariant, NEW q \in Queries, Resolve(q)
    PROVE  InductiveInvariant'
<1> DEFINE C == clients[generation]
           begun == [NoQuery EXCEPT !.pc = "waiting", !.generation = generation,
                                    !.strategy = strategy]
<1>0. TypeOK
  BY DEF InductiveInvariant
<1>1. generation \in Generation /\ C \subseteq Upstreams /\ strategy \in Strategy
  BY <1>0 DEF TypeOK
<1>2. begun \in Query
  BY <1>1, NoQueryType DEF Query
<1>3. PICK r : query' = [query EXCEPT ![q] = r] /\ Sound(r)
  <2>1. CASE C = {} /\ query' = [query EXCEPT ![q] = Finished("no_upstream")]
    BY <2>1, FinishedSound DEF Outcome
  <2>2. ASSUME C # {}, NEW order \in AdaptiveOrder(generation),
               query' = [query EXCEPT ![q] = Launched([begun EXCEPT !.waiting = order])]
        PROVE  \E r : query' = [query EXCEPT ![q] = r] /\ Sound(r)
    <3> DEFINE b == [begun EXCEPT !.waiting = order]
    <3>1. order \in Seq(Upstreams) /\ order # <<>>
          /\ {order[i] : i \in 1 .. Len(order)} = C
      BY <1>0, <1>1, <2>2, OrderIsComplete
    <3>2. /\ b \in Query /\ b.waiting = order /\ b.inFlight = {} /\ b.launched = {}
          /\ b.generation = generation /\ b.pc = "waiting"
      BY <1>2, <3>1 DEF Query, NoQuery
    <3>3. Waiting(b) = C
      BY <3>1, <3>2 DEF Waiting
    <3>4. Launched(b) \in Query /\ Launched(b).launched \cup Waiting(Launched(b)) = C
          /\ Launched(b).generation = generation
          /\ Launched(b).inFlight = {Head(order)}
      BY <3>1, <3>2, <3>3, LaunchStep
    <3>5. Cardinality({Head(order)}) <= MaxParallel
      <4>1. Cardinality({Head(order)}) = 1
        BY FS_Singleton
      <4> QED
        BY <4>1
    <3>6. Sound(Launched(b))
      BY <1>1, <3>4, <3>5 DEF Sound, Generation
    <3> QED
      BY <2>2, <3>6
  <2>3. ASSUME C # {}, ~Ranked(begun),
               query' = [query EXCEPT ![q] = [begun EXCEPT !.inFlight = C, !.launched = C]]
        PROVE  \E r : query' = [query EXCEPT ![q] = r] /\ Sound(r)
    <3> DEFINE b == [begun EXCEPT !.inFlight = C, !.launched = C]
    <3>1. /\ b \in Query /\ b.waiting = <<>> /\ b.inFlight = C /\ b.launched = C
          /\ b.generation = generation
      BY <1>1, <1>2 DEF Query, NoQuery
    <3>2. Waiting(b) = {}
      BY <3>1 DEF Waiting
    <3>3. ~Ranked(b)
      BY <2>3 DEF Ranked, NoQuery
    <3>4. Sound(b)
      BY <1>1, <2>3, <3>1, <3>2, <3>3 DEF Sound, Generation
    <3> QED
      BY <2>3, <3>4
  <2> QED
    BY <2>1, <2>2, <2>3 DEF Resolve
<1>4. query'[q] = r /\ \A p \in Queries \ {q} : query'[p] = query[p]
  BY <1>0, <1>3 DEF TypeOK
<1>5. TypeOK'
  BY <1>0, <1>3 DEF TypeOK, Resolve, health, Sound
<1> QED
  BY <1>3, <1>4, <1>5, OneQueryStep DEF Resolve

(* A query launches its next attempt.                                      *)
LEMMA HedgeStep ==
    ASSUME InductiveInvariant, NEW q \in Queries, Hedge(q)
    PROVE  InductiveInvariant'
<1> DEFINE r == query[q]
<1>1. TypeOK /\ Sound(r)
  BY InvariantBySound DEF InductiveInvariant
<1>2. r \in Query /\ r.waiting # <<>> /\ r.inFlight \in SUBSET Upstreams
      /\ r.waiting \in Seq(Upstreams) /\ Cardinality(r.inFlight) < MaxParallel
  BY <1>1 DEF Hedge, FreeSlot, Sound, Query
<1>3. Head(r.waiting) \in Upstreams
  BY <1>2, HeadTailProperties
<1>4. Sound(Launched(r))
  BY <1>1, <1>2, <1>3, LaunchStep, SlotBound DEF Sound, Ranked, Hedge
<1>5. TypeOK'
  BY <1>1, <1>4 DEF TypeOK, Hedge, health, Sound
<1>6. query'[q] = Launched(r) /\ \A p \in Queries \ {q} : query'[p] = query[p]
  BY <1>1 DEF Hedge, TypeOK
<1> QED
  BY <1>4, <1>5, <1>6, OneQueryStep DEF Hedge

(* An attempt is answered.                                                 *)
LEMMA AnswerStep ==
    ASSUME InductiveInvariant, NEW q \in Queries, NEW u \in Upstreams, Answer(q, u)
    PROVE  InductiveInvariant'
<1> DEFINE r == query[q]
           s == [r EXCEPT !.pc = "answered", !.at = u, !.seen = failures[r.generation][u]]
<1>1. TypeOK /\ Sound(r) /\ r \in Query /\ r.generation \in Generation
  BY InvariantBySound DEF InductiveInvariant, Sound, Query
<1>a. failures[r.generation][u] \in 0 .. MaxFailures
  BY <1>1 DEF TypeOK
<1>2. s \in Query
  BY <1>1, <1>a DEF Query
<1>3. Sound(s)
  BY <1>1, <1>2 DEF Sound, Ranked, Waiting, Answer, Query
<1>4. query' = [query EXCEPT ![q] = s]
  BY <1>1 DEF Answer, TypeOK, Query
<1>5. latency' \in [Generation -> [Upstreams -> 0 .. MaxLatency]]
  BY <1>1 DEF Answer, TypeOK
<1>6. TypeOK'
  BY <1>1, <1>2, <1>4, <1>5 DEF TypeOK, Answer
<1>7. query'[q] = s /\ \A p \in Queries \ {q} : query'[p] = query[p]
  BY <1>1, <1>4 DEF TypeOK
<1> QED
  BY <1>3, <1>6, <1>7, OneQueryStep DEF Answer

(* An attempt fails.                                                       *)
LEMMA FailStep ==
    ASSUME InductiveInvariant, NEW q \in Queries, NEW u \in Upstreams, Fail(q, u)
    PROVE  InductiveInvariant'
<1> DEFINE r == query[q]
           s == [r EXCEPT !.pc = "failed", !.at = u, !.inFlight = @ \ {u},
                          !.seen = failures[r.generation][u]]
<1>1. TypeOK /\ Sound(r) /\ r \in Query /\ r.generation \in Generation
  BY InvariantBySound DEF InductiveInvariant, Sound, Query
<1>a. failures[r.generation][u] \in 0 .. MaxFailures
  BY <1>1 DEF TypeOK
<1>2. s \in Query
  BY <1>1, <1>a DEF Query
<1>3. IsFiniteSet(r.inFlight) /\ Cardinality(r.inFlight) \in Nat
  BY <1>1, FS_Subset, FS_CardinalityType DEF Query
<1>4. Cardinality(r.inFlight \ {u}) \in Nat
      /\ Cardinality(r.inFlight \ {u}) <= Cardinality(r.inFlight)
  <2>1. r.inFlight \ {u} \in SUBSET r.inFlight
    OBVIOUS
  <2> QED
    BY <1>3, <2>1, FS_Subset, FS_CardinalityType
<1>5. Sound(s)
  BY <1>1, <1>2, <1>3, <1>4 DEF Sound, Ranked, Waiting, Fail, Query
<1>6. query' = [query EXCEPT ![q] = s]
  BY <1>1 DEF Fail, TypeOK, Query
<1>7. TypeOK'
  BY <1>1, <1>2, <1>6 DEF TypeOK, Fail, health
<1>8. query'[q] = s /\ \A p \in Queries \ {q} : query'[p] = query[p]
  BY <1>1, <1>6 DEF TypeOK
<1> QED
  BY <1>5, <1>7, <1>8, OneQueryStep DEF Fail

(* The failures of an upstream stay within 0 .. MaxFailures, though they   *)
(* are written some time after they were read.                             *)
LEMMA SendResponseStep ==
    ASSUME InductiveInvariant, NEW q \in Queries, SendResponse(q)
    PROVE  InductiveInvariant'
<1> DEFINE r == query[q]
<1>1. TypeOK /\ r \in Query /\ r.generation \in Generation /\ r.seen \in 0 .. MaxFailures
  BY InvariantBySound DEF InductiveInvariant, Sound, Query
<1>2. ASSUME r.at \in Upstreams
      PROVE  Forgiven(r.generation, r.at, r.seen) \in 0 .. MaxFailures
  BY <1>1, <1>2 DEF Forgiven, TypeOK
<1>3. failures' \in [Generation -> [Upstreams -> 0 .. MaxFailures]]
  <2> DEFINE n == Forgiven(r.generation, r.at, r.seen)
  <2>1. failures' = [failures EXCEPT ![r.generation][r.at] = n]
    BY DEF SendResponse
  <2>2. failures \in [Generation -> [Upstreams -> 0 .. MaxFailures]]
    BY <1>1 DEF TypeOK
  <2>3. r.at \in Upstreams => n \in 0 .. MaxFailures
    BY <1>2
  <2> HIDE DEF n
  <2> QED
    BY <1>1, <2>1, <2>2, <2>3
<1>4. latency' \in [Generation -> [Upstreams -> 0 .. MaxLatency]]
  <2>1. PICK elapsed \in 0 .. MaxLatency :
            latency' = [latency EXCEPT ![r.generation] =
                [u \in Upstreams |->
                    IF Ranked(r) /\ u \in r.launched \ {r.at} /\ elapsed > @[u]
                    THEN elapsed ELSE @[u]]]
    BY DEF SendResponse
  <2> QED
    BY <1>1, <2>1 DEF TypeOK
<1>5. Sound(Finished("answered"))
  BY FinishedSound DEF Outcome
<1>6. query' = [query EXCEPT ![q] = Finished("answered")]
  BY DEF SendResponse
<1>7. TypeOK'
  BY <1>1, <1>3, <1>4, <1>5, <1>6 DEF TypeOK, SendResponse, Sound
<1>8. /\ query'[q] = Finished("answered")
      /\ \A p \in Queries \ {q} : query'[p] = query[p]
  BY <1>1, <1>6 DEF TypeOK
<1> QED
  BY <1>5, <1>7, <1>8, OneQueryStep DEF SendResponse

(* A failure is written to the counters.                                   *)
LEMMA RecordFailureStep ==
    ASSUME InductiveInvariant, NEW q \in Queries, RecordFailure(q)
    PROVE  InductiveInvariant'
<1> DEFINE r == query[q]
           rest == [r EXCEPT !.pc = "waiting", !.at = NoUpstream, !.seen = 0]
<1>1. TypeOK /\ Sound(r) /\ r \in Query /\ r.seen \in 0 .. MaxFailures
  BY InvariantBySound DEF InductiveInvariant, Sound, Query
<1>2. /\ rest \in Query /\ rest.pc = "waiting" /\ rest.generation = r.generation
      /\ rest.strategy = r.strategy /\ rest.waiting = r.waiting
      /\ rest.inFlight = r.inFlight /\ rest.launched = r.launched
  <2>1. 0 \in 0 .. MaxFailures
    OBVIOUS
  <2> QED
    BY <1>1, <2>1 DEF Query
<1>3. Waiting(rest) = Waiting(r) /\ (Ranked(rest) <=> Ranked(r))
  BY <1>2 DEF Waiting, Ranked
<1> HIDE DEF rest
<1>4. Sound(AfterFailure(r))
  <2>1. CASE FreeSlot(r)
    <3>1. AfterFailure(r) = Launched(rest)
      BY <2>1 DEF AfterFailure, rest
    <3>2. r.waiting # <<>> /\ Cardinality(r.inFlight) < MaxParallel
          /\ r.waiting \in Seq(Upstreams) /\ r.inFlight \in SUBSET Upstreams
      BY <1>1, <2>1 DEF FreeSlot, Query
    <3>3. Head(r.waiting) \in Upstreams
      BY <3>2, HeadTailProperties
    <3>4. Cardinality(r.inFlight \cup {Head(r.waiting)}) <= MaxParallel
      BY <3>2, <3>3, SlotBound
    <3> QED
      BY <1>1, <1>2, <1>3, <3>1, <3>2, <3>4, LaunchStep DEF Sound, RecordFailure
  <2>2. CASE ~FreeSlot(r) /\ r.inFlight # {}
    <3>1. AfterFailure(r) = rest
      BY <2>2 DEF AfterFailure, rest
    <3> QED
      BY <1>1, <1>2, <1>3, <2>2, <3>1 DEF Sound, RecordFailure
  <2>3. CASE ~FreeSlot(r) /\ r.inFlight = {}
    <3>1. AfterFailure(r) = Finished("failed")
      BY <2>3 DEF AfterFailure
    <3> QED
      BY <3>1, FinishedSound DEF Outcome
  <2> QED
    BY <2>1, <2>2, <2>3
<1>5. Charged(r.seen) \in 0 .. MaxFailures
  BY <1>1 DEF Charged
<1>6. failures' \in [Generation -> [Upstreams -> 0 .. MaxFailures]]
  <2>1. failures' = [failures EXCEPT ![r.generation][r.at] = Charged(r.seen)]
    BY DEF RecordFailure
  <2> QED
    BY <1>1, <1>5, <2>1 DEF TypeOK
<1>7. query' = [query EXCEPT ![q] = AfterFailure(r)]
  BY DEF RecordFailure
<1>8. TypeOK'
  BY <1>1, <1>4, <1>6, <1>7 DEF TypeOK, RecordFailure, Sound
<1>9. query'[q] = AfterFailure(r) /\ \A p \in Queries \ {q} : query'[p] = query[p]
  BY <1>1, <1>7 DEF TypeOK
<1> QED
  BY <1>4, <1>8, <1>9, OneQueryStep DEF RecordFailure

(* A query times out.                                                      *)
LEMMA TimeoutStep ==
    ASSUME InductiveInvariant, NEW q \in Queries, Timeout(q)
    PROVE  InductiveInvariant'
<1>1. TypeOK /\ Sound(Finished("timeout"))
  BY FinishedSound DEF InductiveInvariant, Outcome
<1>2. TypeOK'
  BY <1>1 DEF TypeOK, Timeout, health, Sound
<1>3. /\ query'[q] = Finished("timeout")
      /\ \A p \in Queries \ {q} : query'[p] = query[p]
  BY <1>1 DEF TypeOK, Timeout
<1> QED
  BY <1>1, <1>2, <1>3, OneQueryStep DEF Timeout

(* A reload leaves the clients of earlier generations as they were.        *)
LEMMA ReloadStep ==
    ASSUME InductiveInvariant, NEW C \in SUBSET Upstreams, NEW s \in Strategy, Reload(C, s)
    PROVE  InductiveInvariant'
<1>1. TypeOK /\ generation \in Generation /\ generation + 1 \in Generation
  BY DEF InductiveInvariant, TypeOK, Reload, Generation
<1>2. TypeOK'
  BY <1>1 DEF TypeOK, Reload, health
<1>3. ASSUME NEW q \in Queries, query[q].pc # "idle"
      PROVE  /\ query[q].generation <= generation + 1
             /\ clients'[query[q].generation] = clients[query[q].generation]
  <2>1. query[q].generation \in Generation /\ query[q].generation <= generation
    BY <1>1, <1>3 DEF InductiveInvariant, NoneForgotten, TypeOK, Query
  <2> QED
    BY <1>1, <2>1 DEF Reload, TypeOK, Generation
<1>4. NoneForgotten'
  <2> SUFFICES ASSUME NEW q \in Queries, query[q].pc # "idle"
               PROVE  /\ query[q].generation <= generation + 1
                      /\ query[q].launched \cup Waiting(query[q])
                            = clients'[query[q].generation]
    BY DEF NoneForgotten, Reload
  <2> QED
    BY <1>3 DEF InductiveInvariant, NoneForgotten
<1>5. FanOutBounded'
  <2> SUFFICES ASSUME NEW q \in Queries, query[q].pc # "idle", Ranked(query[q])'
               PROVE  Cardinality(query[q].inFlight) <= MaxParallel
    BY DEF InductiveInvariant, FanOutBounded, Reload
  <2> QED
    BY <1>3 DEF InductiveInvariant, FanOutBounded, Ranked, Reload
<1> QED
  BY <1>2, <1>4, <1>5 DEF InductiveInvariant
(* Every action keeps the invariant.                                       *)
LEMMA InvariantStep ==
    ASSUME InductiveInvariant, [Next]_vars
    PROVE  InductiveInvariant'
<1>1. ASSUME NEW q \in Queries, Step(q) PROVE InductiveInvariant'
  BY <1>1, ResolveStep, HedgeStep, AnswerStep, FailStep, SendResponseStep,
     RecordFailureStep, TimeoutStep DEF Step
<1>2. CASE \E C \in SUBSET Upstreams, s \in Strategy : Reload(C, s)
  BY <1>2, ReloadStep
<1>3. ASSUME NEW s \in Strategy, SetStrategy(s) PROVE InductiveInvariant'
  BY <1>3 DEF SetStrategy, InductiveInvariant, TypeOK, NoneForgotten, FanOutBounded,
              Ranked, health
<1>4. CASE UNCHANGED vars
  BY <1>4 DEF vars, health, InductiveInvariant, TypeOK, NoneForgotten, FanOutBounded, Ranked
<1> QED
  BY <1>1, <1>2, <1>3, <1>4 DEF Next

(* At the start no query runs.                                             *)
LEMMA InitialInvariant == Init => InductiveInvariant
<1> SUFFICES ASSUME Init PROVE InductiveInvariant
  OBVIOUS
<1>1. PICK C \in SUBSET Upstreams :
          clients = [g \in Generation |-> IF g = 0 THEN C ELSE {}]
  BY DEF Init
<1>2. TypeOK
  BY <1>1, NoQueryType DEF Init, TypeOK, Generation
<1>3. \A q \in Queries : query[q].pc = "idle"
  BY DEF Init, NoQuery
<1> QED
  BY <1>2, <1>3 DEF InductiveInvariant, NoneForgotten, FanOutBounded

(* A query never forgets an upstream of the list it began with, whatever   *)
(* is reloaded meanwhile (forwarder.rs works on clones of the clients).    *)
THEOREM Accounted == Spec => []InductiveInvariant
  BY InitialInvariant, InvariantStep, PTL DEF Spec

(* Every upstream of its list is waiting, asked or answered for, as long   *)
(* as the query runs (forwarder.rs forward_adaptive).                      *)
THEOREM NoUpstreamForgotten == Spec => []NoneForgotten
  BY Accounted, PTL DEF InductiveInvariant

(* No more attempts under way than max_adaptive_parallel, and some while a *)
(* query waits.                                                            *)
THEOREM FanOut == Spec => []FanOutBounded
  BY Accounted, PTL DEF InductiveInvariant

(* The health counters never underflow nor pass their limit, however       *)
(* concurrent queries interleave their loads and stores.                   *)
THEOREM HealthStaysInRange == Spec => []TypeOK
  BY Accounted, PTL DEF InductiveInvariant

(* SERVFAIL for failed upstreams comes only after every upstream of the    *)
(* generation was asked.                                                   *)
THEOREM GivesUpOnlyAfterAll == Spec => GivesUpLast
<1>1. InductiveInvariant /\ [Next]_vars
        => [\A q \in Queries :
                EndsFailed(q) => query[q].launched = clients[query[q].generation]]_vars
  <2> SUFFICES ASSUME InductiveInvariant, Next, NEW q \in Queries, EndsFailed(q)
               PROVE  query[q].launched = clients[query[q].generation]
    OBVIOUS
  <2>1. TypeOK /\ query[q] \in Query
    BY DEF InductiveInvariant, TypeOK
  <2>2. query'[q] # query[q]
    BY DEF EndsFailed
  <2> USE DEF EndsFailed
  <2>3. PICK p \in Queries : Step(p)
    BY <2>2 DEF Next, Reload, SetStrategy
  <2>4. p = q
    BY <2>1, <2>3 DEF TypeOK, Step, Resolve, Hedge, Answer, SendResponse, Fail,
                      RecordFailure, Timeout
  <2>5. RecordFailure(q)
    <3>1. ~Resolve(q)
      BY DEF Resolve
    <3>2. ~Hedge(q)
      <4>1. Hedge(q) => query'[q] = Launched(query[q])
        BY <2>1 DEF Hedge, TypeOK
      <4>2. Launched(query[q]).pc = query[q].pc
        BY <2>1 DEF Launched, Query
      <4> QED
        BY <4>1, <4>2
    <3>3. ASSUME NEW u \in Upstreams PROVE ~Answer(q, u) /\ ~Fail(q, u)
      <4>1. Answer(q, u) => query'[q].pc = "answered"
        BY <2>1 DEF Answer, TypeOK, Query
      <4>2. Fail(q, u) => query'[q].pc = "failed"
        BY <2>1 DEF Fail, TypeOK, Query
      <4> QED
        BY <4>1, <4>2
    <3>4. ~SendResponse(q) /\ ~Timeout(q)
      BY <2>1 DEF SendResponse, Timeout, Finished, NoQuery, TypeOK
    <3> QED
      BY <2>3, <2>4, <3>1, <3>2, <3>3, <3>4 DEF Step
  <2> DEFINE r == query[q]
  <2>6. query'[q] = AfterFailure(r)
    BY <2>1, <2>5 DEF RecordFailure, TypeOK
  <2>7. ~FreeSlot(r) /\ r.inFlight = {}
    BY <2>1, <2>5, <2>6 DEF AfterFailure, Launched, Query
  <2>8. r.waiting = <<>>
    <3>1. Cardinality({}) = 0
      BY FS_EmptySet
    <3> QED
      BY <2>7, <3>1 DEF FreeSlot
  <2>9. Waiting(r) = {}
    BY <2>8 DEF Waiting
  <2> QED
    BY <2>9 DEF InductiveInvariant, NoneForgotten
<1> QED
  BY <1>1, Accounted, PTL DEF Spec, GivesUpLast
=============================================================================
