------------------------------- MODULE Forwarder -------------------------------
(***************************************************************************)
(* The forwarder (forwarder.rs): a query that is neither blocked nor       *)
(* rewritten is sent to the configured upstream resolvers, to all of them  *)
(* at once (parallel), or, in the order of their health, to the best one   *)
(* first and to a second one when the first is slow (adaptive).            *)
(*                                                                         *)
(* A query works on the generation of clients it found when it began, a    *)
(* reload makes a new generation with fresh health.  Health is kept in     *)
(* atomics that are read and written in two steps, so concurrent queries   *)
(* overwrite each other's updates; of the latency score only the bound     *)
(* matters here, and it is updated in one step.                            *)
(*                                                                         *)
(* Time is in steps of FAILURE_PENALTY_US: a measured latency is any       *)
(* number up to MaxLatency, the upstream timeout, and so is the moving     *)
(* average after it.  Of equally ranked upstreams any may come first.  The *)
(* retry of truncated answers over TCP is part of an attempt.              *)
(***************************************************************************)
EXTENDS Integers, Sequences, FiniteSets

CONSTANTS
    Upstreams,       \* addresses of upstream resolvers
    Queries,         \* queries in progress at the same time
    MaxGeneration,   \* bound on reloads
    MaxParallel,     \* DEFAULT_MAX_ADAPTIVE_PARALLEL
    MaxFailures,     \* most failures an upstream is charged with
    MaxLatency,      \* the upstream timeout
    DefaultLatency,  \* DEFAULT_LATENCY_SCORE_US
    NoUpstream

ASSUME ForwarderAssumption ==
    /\ IsFiniteSet(Upstreams)
    /\ NoUpstream \notin Upstreams
    /\ MaxGeneration \in Nat
    /\ MaxParallel \in Nat \ {0}
    /\ MaxFailures \in Nat
    /\ MaxLatency \in Nat
    /\ DefaultLatency \in 0 .. MaxLatency

VARIABLES
    generation,  \* of the clients new queries use
    clients,     \* the upstreams of each generation
    strategy,    \* adaptive or parallel
    failures,    \* per generation and upstream
    latency,     \* score per generation and upstream
    query        \* what each query is at

health == <<failures, latency>>
vars == <<generation, clients, strategy, health, query>>

Generation == 0 .. MaxGeneration
Strategy == {"adaptive", "parallel"}
Outcome == {"none", "answered", "no_upstream", "failed", "timeout"}

(* waiting: upstreams still to be asked, best first.  at: the upstream     *)
(* whose health is being updated; seen: the failures read for it.  A query *)
(* that ended keeps its outcome only.                                      *)
Query == [pc : {"idle", "waiting", "answered", "failed"}, generation : Generation,
          strategy : Strategy, waiting : Seq(Upstreams), inFlight : SUBSET Upstreams,
          launched : SUBSET Upstreams, at : Upstreams \cup {NoUpstream},
          seen : 0 .. MaxFailures, outcome : Outcome]

NoQuery == [pc |-> "idle", generation |-> 0, strategy |-> "adaptive", waiting |-> <<>>,
            inFlight |-> {}, launched |-> {}, at |-> NoUpstream, seen |-> 0,
            outcome |-> "none"]

TypeOK ==
    /\ generation \in Generation
    /\ clients \in [Generation -> SUBSET Upstreams]
    /\ strategy \in Strategy
    /\ failures \in [Generation -> [Upstreams -> 0 .. MaxFailures]]
    /\ latency \in [Generation -> [Upstreams -> 0 .. MaxLatency]]
    /\ query \in [Queries -> Query]

Init ==
    /\ generation = 0
    /\ clients \in {[g \in Generation |-> IF g = 0 THEN C ELSE {}] : C \in SUBSET Upstreams}
    /\ strategy \in Strategy
    /\ failures = [g \in Generation |-> [u \in Upstreams |-> 0]]
    /\ latency = [g \in Generation |-> [u \in Upstreams |-> DefaultLatency]]
    /\ query = [q \in Queries |-> NoQuery]

-----------------------------------------------------------------------------
(* Configuration.                                                          *)

(* Faulty variant: the clients of queries in progress are replaced.        *)
ReloadInPlace(C, s) ==
    /\ generation < MaxGeneration
    /\ clients' = [clients EXCEPT ![generation] = C]
    /\ strategy' = s
    /\ UNCHANGED <<generation, health, query>>

Reload(C, s) ==
    /\ generation < MaxGeneration
    /\ generation' = generation + 1
    /\ clients' = [clients EXCEPT ![generation + 1] = C]
    /\ strategy' = s
    /\ UNCHANGED <<health, query>>

SetStrategy(s) ==
    /\ s # strategy
    /\ strategy' = s
    /\ UNCHANGED <<generation, clients, health, query>>

-----------------------------------------------------------------------------
(* A query.                                                                *)

RankScore(g, u) == latency[g][u] + failures[g][u]

(* The upstreams of a generation, best first; equals in any order.         *)
AdaptiveOrder(g) ==
    LET n == Cardinality(clients[g]) IN
    {s \in [1 .. n -> clients[g]] :
        \A i, j \in 1 .. n : i < j => s[i] # s[j] /\ RankScore(g, s[i]) <= RankScore(g, s[j])}

(* The first upstream waiting is asked.                                    *)
Launched(r) ==
    [r EXCEPT !.inFlight = @ \cup {Head(r.waiting)},
              !.launched = @ \cup {Head(r.waiting)},
              !.waiting = Tail(@)]

Finished(outcome) == [NoQuery EXCEPT !.outcome = outcome]

Ranked(r) == r.strategy = "adaptive" /\ Cardinality(clients[r.generation]) > 1

(* A lone client is asked whatever the strategy.                           *)
Resolve(q) ==
    /\ query[q].pc = "idle"
    /\ LET C == clients[generation]
           begun == [NoQuery EXCEPT !.pc = "waiting", !.generation = generation,
                                    !.strategy = strategy]
       IN  \/ /\ C = {}
              /\ query' = [query EXCEPT ![q] = Finished("no_upstream")]
           \/ /\ C # {}
              /\ Ranked(begun)
              /\ \E order \in AdaptiveOrder(generation) :
                    query' = [query EXCEPT ![q] = Launched([begun EXCEPT !.waiting = order])]
           \/ /\ C # {}
              /\ ~Ranked(begun)
              /\ query' = [query EXCEPT ![q] = [begun EXCEPT !.inFlight = C, !.launched = C]]
    /\ UNCHANGED <<generation, clients, strategy, health>>

(* Faulty variant: a slot more than there is.                              *)
FreeSlotOrOne(r) == Cardinality(r.inFlight) <= MaxParallel /\ r.waiting # <<>>

FreeSlot(r) == Cardinality(r.inFlight) < MaxParallel /\ r.waiting # <<>>

(* The hedge delay passed without an answer.                               *)
Hedge(q) ==
    /\ query[q].pc = "waiting"
    /\ FreeSlot(query[q])
    /\ query' = [query EXCEPT ![q] = Launched(@)]
    /\ UNCHANGED <<generation, clients, strategy, health>>

(* An attempt succeeds: the latency score is stored, then the failures are *)
(* read ...                                                                *)
Answer(q, u) ==
    /\ query[q].pc = "waiting"
    /\ u \in query[q].inFlight
    /\ LET g == query[q].generation IN
        /\ \E l \in 0 .. MaxLatency : latency' = [latency EXCEPT ![g][u] = l]
        /\ query' = [query EXCEPT ![q].pc = "answered", ![q].at = u,
                                  ![q].seen = failures[g][u]]
    /\ UNCHANGED <<generation, clients, strategy, failures>>

(* Faulty variant: one failure less than there are by now.                 *)
ForgivenLate(g, u, seen) == IF seen > 0 THEN failures[g][u] - 1 ELSE failures[g][u]

Forgiven(g, u, seen) == IF seen > 0 THEN seen - 1 ELSE failures[g][u]

(* ... and stored; the upstreams asked in vain are scored, the client gets *)
(* its answer, and the other attempts are dropped.                         *)
SendResponse(q) ==
    /\ query[q].pc = "answered"
    /\ LET r == query[q]
           g == r.generation
       IN  /\ failures' = [failures EXCEPT ![g][r.at] = Forgiven(g, r.at, r.seen)]
           /\ \E elapsed \in 0 .. MaxLatency :
                latency' = [latency EXCEPT ![g] =
                    [u \in Upstreams |->
                        IF Ranked(r) /\ u \in r.launched \ {r.at} /\ elapsed > @[u]
                        THEN elapsed ELSE @[u]]]
           /\ query' = [query EXCEPT ![q] = Finished("answered")]
    /\ UNCHANGED <<generation, clients, strategy>>

(* An attempt fails: a transport error or the client's own timeout.        *)
Fail(q, u) ==
    /\ query[q].pc = "waiting"
    /\ u \in query[q].inFlight
    /\ query' = [query EXCEPT ![q].pc = "failed", ![q].at = u,
                              ![q].inFlight = @ \ {u},
                              ![q].seen = failures[query[q].generation][u]]
    /\ UNCHANGED <<generation, clients, strategy, health>>

(* Faulty variant: a failure is not charged.                               *)
Uncharged(seen) == seen

Charged(seen) == IF seen < MaxFailures THEN seen + 1 ELSE MaxFailures

(* Faulty variant: the next upstream is not asked.                         *)
AfterFailureGivesUp(r) ==
    IF r.inFlight # {} THEN [r EXCEPT !.pc = "waiting", !.at = NoUpstream, !.seen = 0]
    ELSE Finished("failed")

(* The next upstream is asked at once, or the others are waited for, or    *)
(* the client gets SERVFAIL.                                               *)
AfterFailure(r) ==
    LET rest == [r EXCEPT !.pc = "waiting", !.at = NoUpstream, !.seen = 0] IN
    CASE FreeSlot(r)                     -> Launched(rest)
      [] ~FreeSlot(r) /\ r.inFlight # {} -> rest
      [] OTHER                           -> Finished("failed")

RecordFailure(q) ==
    /\ query[q].pc = "failed"
    /\ LET r == query[q] IN
        /\ failures' = [failures EXCEPT ![r.generation][r.at] = Charged(r.seen)]
        /\ query' = [query EXCEPT ![q] = AfterFailure(r)]
    /\ UNCHANGED <<generation, clients, strategy, latency>>

(* Faulty variant: the timeout only runs while no attempt is under way.    *)
TimeoutBetweenAttempts(q) ==
    /\ query[q].pc = "waiting"
    /\ query[q].inFlight = {}
    /\ query' = [query EXCEPT ![q] = Finished("timeout")]
    /\ UNCHANGED <<generation, clients, strategy, health>>

(* The timeout of the whole query; no upstream is charged for it.          *)
Timeout(q) ==
    /\ query[q].pc = "waiting"
    /\ query' = [query EXCEPT ![q] = Finished("timeout")]
    /\ UNCHANGED <<generation, clients, strategy, health>>

-----------------------------------------------------------------------------

Step(q) ==
    \/ Resolve(q)
    \/ Hedge(q)
    \/ \E u \in Upstreams : Answer(q, u) \/ Fail(q, u)
    \/ SendResponse(q)
    \/ RecordFailure(q)
    \/ Timeout(q)

Next ==
    \/ \E q \in Queries : Step(q)
    \/ \E C \in SUBSET Upstreams, s \in Strategy : Reload(C, s)
    \/ \E s \in Strategy : SetStrategy(s)

Spec == Init /\ [][Next]_vars

(* Timers fire and code that waits for nothing runs on.  Nothing is        *)
(* assumed of upstreams.                                                   *)
Fairness ==
    \A q \in Queries :
        /\ WF_vars(Timeout(q))
        /\ WF_vars(SendResponse(q))
        /\ WF_vars(RecordFailure(q))

FairSpec == Spec /\ Fairness

-----------------------------------------------------------------------------
(* Properties                                                              *)

EndsFailed(q) ==
    query[q].pc # "idle" /\ query'[q].pc = "idle" /\ query'[q].outcome = "failed"

(* SERVFAIL for failed upstreams comes only after every upstream of the    *)
(* generation was asked, whatever came back in which order.                *)
GivesUpLast ==
    [][\A q \in Queries :
            EndsFailed(q) => query[q].launched = clients[query[q].generation]]_vars

(* Adaptive forwarding never has more attempts under way than its limit,   *)
(* and a query that waits, waits for some attempt.                         *)
FanOutBounded ==
    \A q \in Queries :
        /\ query[q].pc # "idle" /\ Ranked(query[q])
              => Cardinality(query[q].inFlight) <= MaxParallel
        /\ query[q].pc = "waiting" => query[q].inFlight # {}

(* Each upstream of its generation a query has asked or has yet to ask,    *)
(* also after the list it began with was replaced.                         *)
Waiting(r) == {r.waiting[i] : i \in 1 .. Len(r.waiting)}

NoneForgotten ==
    \A q \in Queries :
        query[q].pc # "idle" =>
            /\ query[q].generation <= generation
            /\ query[q].launched \cup Waiting(query[q]) = clients[query[q].generation]

InductiveInvariant ==
    /\ TypeOK
    /\ NoneForgotten
    /\ FanOutBounded

(* Every query is answered, with whatever, though no upstream ever reacts. *)
EveryQueryAnswered ==
    \A q \in Queries : query[q].pc # "idle" ~> query[q].pc = "idle"

(* An upstream that fails again and again and never answers ends up behind *)
(* one that answers again and again and never fails                        *)
(* (adaptive_order_penalizes_failing_upstreams), although concurrent       *)
(* queries overwrite each other's updates of its health.                   *)
FailingIsDemoted ==
    \A a, b \in Upstreams :
        /\ <>[](generation = 0)
        /\ []<><<\E q \in Queries : Fail(q, a)>>_vars
        /\ []<><<\E q \in Queries : Answer(q, b)>>_vars
        /\ <>[][~\E q \in Queries : Answer(q, a) \/ Fail(q, b)]_vars
        => <>[](RankScore(0, b) < RankScore(0, a))
=============================================================================
