----------------------------- MODULE Certificates ------------------------------
(***************************************************************************)
(* Certificates by ACME: requests of the API and rounds of the renewal     *)
(* task order a certificate, prove each name by a TXT record at            *)
(* Cloudflare, poll, and store what they get.  The listener keeps what the *)
(* process loaded at its start.  Only a request schedules a restart.       *)
(*                                                                         *)
(* An order of this module is one run of order_certificate and names the   *)
(* certificate it obtains.  The two services are external: any call may    *)
(* fail, with or without effect.  Keys, requests for signature and parsing *)
(* are left out; an unreadable setting is a failed order.                  *)
(***************************************************************************)
EXTENDS Service, Integers

CONSTANTS
    Requests,     \* orders of the API (request, renew)
    Renewals,     \* orders of the renewal task
    Domains, NoDomain,
    NoCert,
    Names2Prove,  \* identifiers an order may have: one, or two with a wildcard
    MaxPolls      \* pending answers taken before a poll gives up

Orders == Requests \cup Renewals
Identifiers == UNION Names2Prove
Records == Orders \X Identifiers

ASSUME CertificatesAssumption ==
    /\ Requests \cap Renewals = {}
    /\ NoDomain \notin Domains /\ NoCert \notin Orders
    /\ MaxPolls \in Nat

VARIABLES
    domain,      \* setting domain
    certs,       \* table certificates
    age,         \* of those: fresh, due for renewal, expired
    acmeError,   \* setting acme_error is not empty
    served,      \* what the HTTPS listener was built with
    renewing,    \* the renewal task runs
    toRenew,     \* domains its round has still to renew
    orderAt, order, \* control state, and what the order knows
    records,     \* TXT records at Cloudflare
    cleanups,    \* tasks that are going to delete one
    excused      \* history: records whose order, deletion or process failed

certRows == <<domain, certs, age, acmeError>>
task == <<renewing, toRenew>>
certVars == <<certRows, served, task, orderAt, order, records, cleanups,
              excused>>

NoOrder == [domain |-> NoDomain, todo |-> {}, polls |-> 0]

CertTypeOK ==
    /\ domain \in Domains \cup {NoDomain}
    /\ certs \in [Domains -> Orders \cup {NoCert}]
    /\ age \in [Domains -> {"fresh", "due", "expired"}]
    /\ acmeError \in BOOLEAN
    /\ served \in Orders \cup {NoCert}
    /\ renewing \in BOOLEAN /\ toRenew \subseteq Domains
    /\ orderAt \in [Orders -> {"idle", "placed", "waiting", "finalized", "issued",
                               "stored", "gone"}]
    /\ order \in [Orders -> [domain : Domains \cup {NoDomain}, todo : SUBSET Identifiers,
                             polls : 0..MaxPolls]]
    /\ records \subseteq Records /\ cleanups \subseteq Records /\ excused \subseteq Records

OrderGoto(p, state) == orderAt' = [orderAt EXCEPT ![p] = state]

(* A request notes an error, the renewal task only logs it.                *)
EndOrder(p, failed) ==
    /\ OrderGoto(p, "gone")
    /\ order' = [order EXCEPT ![p] = NoOrder]
    /\ acmeError' = IF p \in Requests THEN failed ELSE acmeError

-----------------------------------------------------------------------------
Place(p, d, names) ==
    /\ up /\ orderAt[p] = "idle"
    /\ OrderGoto(p, "placed")
    /\ order' = [order EXCEPT ![p] = [domain |-> d, todo |-> names, polls |-> 0]]
    /\ UNCHANGED <<domain, certs, age, served, renewing, records, cleanups, excused,
                   serviceVars>>

Request(p, d, names) ==
    /\ Place(p, d, names)
    /\ acmeError' = FALSE
    /\ UNCHANGED toRenew

(* A round reads what expires within the threshold and then renews one     *)
(* certificate after the other.                                            *)
NoRenewal == \A q \in Renewals : orderAt[q] \in {"idle", "gone"}

Expiring == {d \in Domains : certs[d] # NoCert /\ age[d] # "fresh"}

BeginRound ==
    /\ up /\ renewing /\ toRenew = {} /\ NoRenewal
    /\ toRenew' = Expiring
    /\ UNCHANGED <<certRows, served, renewing, orderAt, order, records, cleanups, excused,
                   serviceVars>>

Renew(p, d, names) ==
    /\ NoRenewal /\ d \in toRenew
    /\ toRenew' = toRenew \ {d}
    /\ Place(p, d, names)
    /\ UNCHANGED acmeError

(* An authorization from an earlier order is still valid.                  *)
AlreadyValid(p, i) ==
    /\ up /\ orderAt[p] = "placed" /\ i \in order[p].todo
    /\ order' = [order EXCEPT ![p].todo = @ \ {i}]
    /\ UNCHANGED <<certRows, served, task, orderAt, records, cleanups, excused, serviceVars>>

(* The record is made; its answer may be lost, and the order with it.      *)
CreateRecord(p, i, answered) ==
    /\ up /\ orderAt[p] = "placed" /\ i \in order[p].todo
    /\ records' = records \cup {<<p, i>>}
    /\ IF answered THEN OrderGoto(p, "waiting") /\ UNCHANGED <<order, acmeError, excused>>
                   ELSE EndOrder(p, TRUE) /\ excused' = excused \cup {<<p, i>>}
    /\ UNCHANGED <<domain, certs, age, served, task, cleanups, serviceVars>>

(* The record the order has made and not yet announced.                    *)
Unannounced(p) == {<<p, i>> : i \in order[p].todo} \cap records

(* Faulty variant: only the first of several records is scheduled for      *)
(* deletion.                                                               *)
SetReadyFirstOnly(p) ==
    /\ up /\ orderAt[p] = "waiting"
    /\ order' = [order EXCEPT ![p].todo = {i \in @ : <<p, i>> \notin records}]
    /\ cleanups' = IF \E i \in Identifiers \ order[p].todo : <<p, i>> \in records
                   THEN cleanups ELSE cleanups \cup Unannounced(p)
    /\ OrderGoto(p, "placed")
    /\ UNCHANGED <<certRows, served, task, records, excused, serviceVars>>

(* The challenge is announced and the deletion of its record spawned.      *)
SetReady(p) ==
    /\ up /\ orderAt[p] = "waiting"
    /\ order' = [order EXCEPT ![p].todo = {i \in @ : <<p, i>> \notin records}]
    /\ cleanups' = cleanups \cup Unannounced(p)
    /\ OrderGoto(p, "placed")
    /\ UNCHANGED <<certRows, served, task, records, excused, serviceVars>>

(* Any call fails, or its answer is not what it should be.                 *)
OrderFails(p) ==
    /\ up /\ orderAt[p] \in {"placed", "waiting", "finalized", "issued"}
    /\ EndOrder(p, TRUE)
    /\ excused' = excused \cup Unannounced(p)
    /\ UNCHANGED <<domain, certs, age, served, task, records, cleanups, serviceVars>>

(* Faulty variant: the count of pending answers starts over.               *)
PollForEver(p, pending, from, to) ==
    /\ up /\ orderAt[p] = from /\ order[p].todo = {}
    /\ OrderGoto(p, IF pending THEN from ELSE to)
    /\ order' = [order EXCEPT ![p].polls = IF pending THEN (@ + 1) % (MaxPolls + 1) ELSE 0]
    /\ UNCHANGED <<domain, certs, age, acmeError, served, task, records, cleanups, excused,
                   serviceVars>>

(* First for the order to be ready, then for the certificate.              *)
Poll(p, pending, from, to) ==
    /\ up /\ orderAt[p] = from /\ order[p].todo = {}
    /\ IF pending /\ order[p].polls = MaxPolls
       THEN EndOrder(p, TRUE)
       ELSE /\ OrderGoto(p, IF pending THEN from ELSE to)
            /\ order' = [order EXCEPT ![p].polls = IF pending THEN @ + 1 ELSE 0]
            /\ UNCHANGED acmeError
    /\ UNCHANGED <<domain, certs, age, served, task, records, cleanups, excused, serviceVars>>

Store(p) ==
    LET d == order[p].domain IN
    /\ up /\ orderAt[p] = "issued"
    /\ certs' = [certs EXCEPT ![d] = p]
    /\ age' = [age EXCEPT ![d] = "fresh"]
    /\ IF p \in Requests THEN OrderGoto(p, "stored") /\ UNCHANGED <<order, acmeError>>
                         ELSE EndOrder(p, FALSE)
    /\ UNCHANGED <<domain, served, task, records, cleanups, excused, serviceVars>>

(* Faulty variant: the restart is left to the operator.                    *)
AnnounceWithoutRestart(p) ==
    /\ up /\ orderAt[p] = "stored"
    /\ EndOrder(p, FALSE)
    /\ UNCHANGED <<domain, certs, age, served, task, records, cleanups, excused, serviceVars>>

AnnounceRestart(p) ==
    /\ up /\ orderAt[p] = "stored"
    /\ EndOrder(p, FALSE)
    /\ ScheduleRestart
    /\ UNCHANGED <<domain, certs, age, served, task, records, cleanups, excused>>

(* A minute after its challenge was announced; the call may fail.          *)
CleanUp(r, deleted) ==
    /\ up /\ r \in cleanups
    /\ cleanups' = cleanups \ {r}
    /\ IF deleted THEN records' = records \ {r} /\ UNCHANGED excused
                  ELSE excused' = excused \cup {r} /\ records' \in {records, records \ {r}}
    /\ UNCHANGED <<certRows, served, task, orderAt, order, serviceVars>>

SetDomain(d) ==
    /\ up /\ domain # d /\ domain' = d
    /\ UNCHANGED <<certs, age, acmeError, served, task, orderAt, order, records, cleanups,
                   excused, serviceVars>>

CertificateAges(d) ==
    /\ certs[d] # NoCert /\ age[d] # "expired"
    /\ age' = [age EXCEPT ![d] = IF @ = "fresh" THEN "due" ELSE "expired"]
    /\ UNCHANGED <<domain, certs, acmeError, served, task, orderAt, order, records, cleanups,
                   excused, serviceVars>>

(* The start serves the stored certificate of the domain, if it is valid.  *)
Valid(d) == IF age[d] = "expired" THEN NoCert ELSE certs[d]

CertRestart ==
    /\ served' = IF domain = NoDomain THEN NoCert ELSE Valid(domain)
    /\ renewing' = (domain # NoDomain) /\ toRenew' = {}
    /\ orderAt' = [p \in Orders |-> IF orderAt[p] = "idle" THEN "idle" ELSE "gone"]
    /\ order' = [p \in Orders |-> NoOrder]
    /\ cleanups' = {}
    /\ excused' = excused \cup cleanups \cup UNION {Unannounced(p) : p \in Orders}
    /\ UNCHANGED <<certRows, records>>

-----------------------------------------------------------------------------
CertInit ==
    /\ domain \in Domains \cup {NoDomain}
    /\ certs = [d \in Domains |-> NoCert] /\ age = [d \in Domains |-> "fresh"]
    /\ acmeError = FALSE /\ served = NoCert
    /\ renewing = (domain # NoDomain) /\ toRenew = {}
    /\ orderAt \in [Orders -> {"idle", "gone"}]
    /\ order = [p \in Orders |-> NoOrder]
    /\ records = {} /\ cleanups = {} /\ excused = {}

Begin(p) ==
    \E d \in Domains, names \in Names2Prove :
        \/ p \in Requests /\ Request(p, d, names)
        \/ p \in Renewals /\ Renew(p, d, names)

OrderStep(p) ==
    \/ \E i \in Identifiers : AlreadyValid(p, i)
    \/ \E i \in Identifiers, answered \in BOOLEAN : CreateRecord(p, i, answered)
    \/ SetReady(p)
    \/ OrderFails(p)
    \/ \E pending \in BOOLEAN : \/ Poll(p, pending, "placed", "finalized")
                                \/ Poll(p, pending, "finalized", "issued")
    \/ Store(p)
    \/ AnnounceRestart(p)

CertStep ==
    \/ \E p \in Orders : Begin(p) \/ OrderStep(p)
    \/ BeginRound
    \/ \E r \in Records, deleted \in BOOLEAN : CleanUp(r, deleted)
    \/ \E d \in Domains : SetDomain(d) \/ CertificateAges(d)

CertNext == CertStep \/ (RestartService(TRUE) /\ CertRestart)

CertSpec == ServiceInit /\ CertInit /\ [][CertNext]_<<serviceVars, certVars>>

-----------------------------------------------------------------------------
(* Properties *)

(* A TXT record that no order is about to announce and no task is going to *)
(* delete stays at Cloudflare only if a call about it failed, or the       *)
(* process ended, between its creation and its deletion: orders that run   *)
(* to their end leave none (acme.rs: a deletion is spawned per record).    *)
RecordsHaveAKeeper ==
    records \subseteq cleanups \cup excused \cup UNION {Unannounced(p) : p \in Orders}

(* An order comes to its end whatever the two services answer: each poll   *)
(* gives up after a bounded number of pending answers (acme.rs).           *)
OrdersEnd ==
    \A p \in Orders : orderAt[p] \in {"placed", "waiting", "finalized", "issued"}
                          ~> orderAt[p] \in {"stored", "gone"}

(* What makes the first inductive: an order that has not begun has no      *)
(* records, one with nothing waiting has announced all it made, and one    *)
(* past its proofs has none left to make.                                  *)
RecordsInvariant ==
    \A p \in Orders :
        /\ orderAt[p] = "idle" => \A i \in Identifiers : <<p, i>> \notin records
        /\ orderAt[p] = "placed" => Unannounced(p) = {}
        /\ orderAt[p] \notin {"placed", "waiting"} => order[p].todo = {}

CertInvariant == CertTypeOK /\ RecordsInvariant /\ RecordsHaveAKeeper
=============================================================================
