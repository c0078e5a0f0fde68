-------------------------- MODULE AdminService_proofs ---------------------------
(***************************************************************************)
(* Proofs about AdminService: what the parts of the process keep by        *)
(* themselves they keep together, for any workload.  A step of the process *)
(* is a step of the credentials or leaves them alone; likewise for the     *)
(* certificates; and the configuration keeps its invariant beside steps    *)
(* that schedule a restart.                                                *)
(***************************************************************************)
EXTENDS AdminService, AdminParts_proofs, TLAPS

USE CertificatesAssumption, UpdateAssumption

(* What can happen to the service beside a component: nothing, or a timer  *)
(* that is set.                                                            *)
Besides == up' = up /\ (up /\ restartDue => restartDue') /\ ServiceTypeOK'

-----------------------------------------------------------------------------
(* Credentials. *)

(* The process, seen from the credentials.                                 *)
LEMMA AdminCredStep == AdminNext => [CredNext]_credVars
<1> SUFFICES ASSUME AdminNext PROVE [CredNext]_credVars
  OBVIOUS
<1>1. CASE Restart
  <2>1. ConfigStarts \in BOOLEAN
    BY DEF ConfigStarts
  <2>2. (\E starts \in BOOLEAN : RestartService(starts)) /\ CredRestart
    BY <1>1, <2>1 DEF Restart
  <2>3. QED
    BY <2>2 DEF CredNext
<1>2. CASE (\E u \in Resets : OpenForReset(u)) /\ SeedRows /\ UNCHANGED <<certVars, updateVars>>
  BY <1>2 DEF CredNext
<1>3. CASE CredStep
  BY <1>3 DEF CredNext
<1>4. CASE UNCHANGED credVars
  BY <1>4
<1>5. QED
  BY <1>1, <1>2, <1>3, <1>4, Zenon DEF AdminNext

-----------------------------------------------------------------------------
(* Configuration. *)

(* The invariant beside steps of other components.                         *)
LEMMA ConfigBesides ==
    ASSUME ConfigInvariant, UNCHANGED configVars, Besides
    PROVE  ConfigInvariant'
<1>1. UNCHANGED <<configStored, configRunning, stage, change, apart>> /\ up' = up
  BY DEF configVars, Besides
<1>2. ServiceTypeOK' /\ ConfigTypeOK' /\ ChangeShape'
  BY <1>1 DEF ConfigInvariant, Besides, ConfigTypeOK, ChangeShape, configStored, configRunning
<1>h. HeldIsStored'
  BY <1>1 DEF ConfigInvariant, HeldIsStored, Holds, Loaded, configStored
<1>3. ASSUME up', NEW c \in Copies \ apart'
      PROVE  Agree(c)' \/ \E p \in Changers : Owes(p, c)'
  <2>1. Agree(c) => Agree(c)'
    BY <1>1, <1>3 DEF Agree, Besides, Loaded, configStored, configRunning
  <2>2. \A p \in Changers : Owes(p, c) => Owes(p, c)'
    BY <1>1 DEF Owes
  <2>3. QED
    BY <1>1, <1>3, <2>1, <2>2 DEF ConfigInvariant, CopiesAgree
<1>4. QED
  BY <1>2, <1>h, <1>3 DEF ConfigInvariant, CopiesAgree

(* The process, seen from the configuration.                               *)
LEMMA AdminConfigStep ==
    ConfigInvariant /\ [AdminNext]_adminVars => ConfigInvariant'
<1> SUFFICES ASSUME ConfigInvariant, [AdminNext]_adminVars PROVE ConfigInvariant'
  OBVIOUS
<1>a. ServiceTypeOK
  BY DEF ConfigInvariant
<1>1. ASSUME ConfigNext PROVE ConfigInvariant'
  <2>1. ConfigInvariant <=> WellFormed /\ CopiesInvariant
    BY DEF ConfigInvariant, WellFormed, CopiesInvariant
  <2>2. WellFormed' /\ CopiesInvariant' => ConfigInvariant'
    BY DEF ConfigInvariant, WellFormed, CopiesInvariant
  <2>3. QED
    BY <1>1, <2>1, <2>2, WellFormedStep, CopiesStep
<1>2. ASSUME UNCHANGED configVars, up' = up,
             restartDue' = restartDue \/ restartDue' = TRUE \/ restartDue' = up
      PROVE  ConfigInvariant'
  <2>1. up \in BOOLEAN /\ restartDue \in BOOLEAN
    BY <1>a DEF ServiceTypeOK
  <2>2. up' \in BOOLEAN /\ restartDue' \in BOOLEAN
    BY <1>2, <2>1
  <2>3. up /\ restartDue => restartDue'
    BY <1>2
  <2>4. Besides
    BY <1>2, <2>2, <2>3 DEF Besides, ServiceTypeOK
  <2>5. QED
    BY <1>2, <2>4, ConfigBesides
<1>3. CASE ConfigStep
  BY <1>1, <1>3 DEF ConfigNext
<1>4. CASE Restart
  BY <1>1, <1>4 DEF ConfigNext, Restart
<1>5. CASE SeedRows
  BY <1>1, <1>5 DEF ConfigNext
<1>6. CASE CredStep /\ UNCHANGED <<configVars, certVars, updateVars>>
  <2>1. up' = up /\ (restartDue' = restartDue \/ restartDue' = up)
    BY <1>6 DEF CredStep, LoginStep, ChangeStep, ResetStep, CheckThrottle, TakeSlot, LockForLogin,
                LockForChange, LockAndCompare, HashUnreadable, Verify, RecordSuccess, RecordFailure,
                WindowEnds, Commit, Refuse, ReplaceKey, ResetHash, ReadBack, ResetKey, ResetCut,
                ResetPrints, serviceVars
  <2>2. QED
    BY <1>2, <1>6, <2>1
<1>7. CASE CertStep /\ UNCHANGED <<configVars, credVars, updateVars>>
  <2>1. up' = up /\ (restartDue' = restartDue \/ restartDue' = TRUE)
    BY <1>7 DEF CertStep, Begin, Request, Renew, Place, OrderStep, AlreadyValid, CreateRecord,
                SetReady, OrderFails, Poll, Store, AnnounceRestart, ScheduleRestart, BeginRound,
                CleanUp, SetDomain, CertificateAges, serviceVars
  <2>2. QED
    BY <1>2, <1>7, <2>1
<1>8. CASE UpdateStep /\ UNCHANGED <<configVars, credVars, certVars>>
  <2>1. up' = up /\ (restartDue' = restartDue \/ restartDue' = TRUE)
    BY <1>8 DEF UpdateStep, ReplaceBinary, AnnounceUpdate, ScheduleRestart, serviceVars
  <2>2. QED
    BY <1>2, <1>8, <2>1
<1>9. CASE UNCHANGED adminVars
  <2>1. UNCHANGED configVars /\ up' = up /\ restartDue' = restartDue
    BY <1>9 DEF adminVars, serviceVars
  <2>2. QED
    BY <1>2, <2>1
<1>10. QED
  BY <1>3, <1>4, <1>5, <1>6, <1>7, <1>8, <1>9, Zenon DEF AdminNext

-----------------------------------------------------------------------------
(* Certificates. *)

(* What an order has unannounced.                                          *)
LEMMA UnannouncedIs ==
    ASSUME NEW p \in Orders, NEW r
    PROVE  r \in Unannounced(p) <=> r \in records /\ \E i \in order[p].todo : r = <<p, i>>
BY DEF Unannounced

(* Deleted later, excused, or still to be announced.                       *)
IsKept(r) == r \in cleanups \/ r \in excused \/ \E p \in Orders : r \in Unannounced(p)

(* The property, record by record.                                         *)
LEMMA KeeperIs == RecordsHaveAKeeper <=> \A r \in records : IsKept(r)
BY DEF RecordsHaveAKeeper, IsKept

CertRecords == RecordsInvariant /\ RecordsHaveAKeeper

(* One order moves on: of its own records it makes at most new ones, and   *)
(* what it no longer has to announce is kept otherwise.                    *)
LEMMA OrderMoves ==
    ASSUME CertTypeOK, CertRecords, NEW p \in Orders,
           \A q \in Orders \ {p} : order'[q] = order[q] /\ orderAt'[q] = orderAt[q],
           records \subseteq records',
           \A r \in records' \ records : \E i \in Identifiers : r = <<p, i>>,
           cleanups \subseteq cleanups', excused \subseteq excused',
           orderAt'[p] # "idle",
           orderAt'[p] = "placed" => Unannounced(p)' = {},
           orderAt'[p] \notin {"placed", "waiting"} => order'[p].todo = {},
           \A r \in records' : r \in Unannounced(p) \/ r \notin records
                => r \in cleanups' \/ r \in excused' \/ r \in Unannounced(p)'
    PROVE  CertRecords'
<1>1. ASSUME NEW q \in Orders \ {p}, NEW i PROVE <<q, i>> \in records' <=> <<q, i>> \in records
  OBVIOUS
<1>2. ASSUME NEW q \in Orders \ {p} PROVE Unannounced(q)' = Unannounced(q)
  BY <1>1 DEF Unannounced
<1>3. RecordsInvariant'
  <2>1. ASSUME NEW q \in Orders \ {p}
        PROVE  /\ orderAt'[q] = "idle" => \A i \in Identifiers : <<q, i>> \notin records'
               /\ orderAt'[q] = "placed" => Unannounced(q)' = {}
               /\ orderAt'[q] \notin {"placed", "waiting"} => order'[q].todo = {}
    BY <1>1, <1>2 DEF CertRecords, RecordsInvariant
  <2>2. QED
    BY <2>1 DEF RecordsInvariant
<1>4. ASSUME NEW r \in records' PROVE IsKept(r)'
  <2>1. CASE r \in Unannounced(p) \/ r \notin records
    BY <2>1 DEF IsKept
  <2>2. CASE r \in records /\ r \notin Unannounced(p)
    <3>1. r \in cleanups \/ r \in excused \/ \E q \in Orders \ {p} : r \in Unannounced(q)
      BY <2>2, KeeperIs DEF CertRecords, IsKept
    <3>2. QED
      BY <1>2, <3>1 DEF IsKept
  <2>3. QED
    BY <2>1, <2>2
<1>5. RecordsHaveAKeeper'
  BY <1>4 DEF RecordsHaveAKeeper, IsKept
<1>6. QED
  BY <1>3, <1>5 DEF CertRecords

(* No step of an order, of the renewal task, of a deletion or a start      *)
(* loses track of a record.                                                *)
LEMMA CertInvariantStep ==
    CertInvariant /\ (CertStep \/ CertRestart \/ UNCHANGED certVars) => CertInvariant'
<1> SUFFICES ASSUME CertInvariant, CertStep \/ CertRestart \/ UNCHANGED certVars
             PROVE  CertInvariant'
  OBVIOUS
<1>. USE DEF OrderGoto, task, certRows
<1>. DEFINE OrderType == [domain : Domains \cup {NoDomain}, todo : SUBSET Identifiers,
                          polls : 0..MaxPolls]
<1>a. /\ CertTypeOK /\ CertRecords
      /\ Requests \subseteq Orders /\ Renewals \subseteq Orders
      /\ NoOrder \in OrderType /\ NoOrder.todo = {}
      /\ \A p \in Orders : order[p] \in OrderType
  BY DEF CertInvariant, CertRecords, Orders, NoOrder, CertTypeOK
<1>b. \A p \in Orders : Unannounced(p) \subseteq records /\ records \subseteq Records
  BY <1>a DEF Unannounced, CertTypeOK
<1>c. CertTypeOK' /\ CertRecords' => CertInvariant'
  BY DEF CertInvariant, CertRecords
<1>p. \A p \in Orders, i \in Identifiers : <<p, i>> \in Records
  BY DEF Records
<1>e. ASSUME NEW p \in Orders, NEW failed \in BOOLEAN, EndOrder(p, failed)
      PROVE  /\ order' \in [Orders -> OrderType] /\ order'[p].todo = {}
             /\ orderAt' = [orderAt EXCEPT ![p] = "gone"] /\ orderAt'[p] = "gone"
             /\ \A q \in Orders \ {p} : order'[q] = order[q] /\ orderAt'[q] = orderAt[q]
             /\ acmeError' \in BOOLEAN
  <2>1. order' = [order EXCEPT ![p] = NoOrder] /\ orderAt' = [orderAt EXCEPT ![p] = "gone"]
    BY <1>e DEF EndOrder
  <2>2. acmeError' = failed \/ acmeError' = acmeError
    BY <1>e DEF EndOrder
  <2>3. acmeError \in BOOLEAN
    BY <1>a DEF CertTypeOK
  <2>4. QED
    BY <1>a, <2>1, <2>2, <2>3 DEF CertTypeOK
<1>f. ASSUME NEW p \in Orders, NEW failed \in BOOLEAN, EndOrder(p, failed),
             records' \subseteq Records, cleanups' \subseteq Records, excused' \subseteq Records,
             certs' \in [Domains -> Orders \cup {NoCert}],
             age' \in [Domains -> {"fresh", "due", "expired"}], UNCHANGED <<domain, served, task>>
      PROVE  CertTypeOK'
  <2>1. order' \in [Orders -> OrderType] /\ acmeError' \in BOOLEAN
        /\ orderAt' = [orderAt EXCEPT ![p] = "gone"]
    BY <1>e, <1>f
  <2>2. orderAt' \in [Orders -> {"idle", "placed", "waiting", "finalized", "issued",
                                 "stored", "gone"}]
    BY <1>a, <2>1 DEF CertTypeOK
  <2>3. QED
    BY <1>a, <1>f, <2>1, <2>2 DEF CertTypeOK
<1>1. ASSUME NEW p \in Orders, NEW d \in Domains, NEW names \in Names2Prove,
             Request(p, d, names) \/ Renew(p, d, names)
      PROVE  CertInvariant'
  <2>0. Place(p, d, names) /\ names \subseteq Identifiers
    BY <1>1 DEF Request, Renew, Identifiers
  <2>1. CertTypeOK'
    <3>1. acmeError' \in BOOLEAN /\ toRenew' \subseteq Domains
      BY <1>1, <1>a DEF Request, Renew, CertTypeOK
    <3>2. QED
      BY <1>a, <2>0, <3>1 DEF Place, CertTypeOK
  <2>2. /\ orderAt[p] = "idle" /\ orderAt'[p] = "placed"
        /\ UNCHANGED <<records, cleanups, excused>>
        /\ \A q \in Orders \ {p} : order'[q] = order[q] /\ orderAt'[q] = orderAt[q]
    BY <1>a, <2>0 DEF Place, CertTypeOK
  <2>3. \A i \in Identifiers : <<p, i>> \notin records
    BY <1>a, <2>2 DEF CertRecords, RecordsInvariant
  <2>4. Unannounced(p) = {} /\ Unannounced(p)' = {}
    BY <1>a, <2>1, <2>2, <2>3 DEF Unannounced, CertTypeOK
  <2>5. QED
    BY <1>a, <1>c, <2>1, <2>2, <2>4, OrderMoves
<1>2. ASSUME NEW p \in Orders, NEW i \in Identifiers, AlreadyValid(p, i) PROVE CertInvariant'
  <2>1. CertTypeOK'
    BY <1>2, <1>a DEF AlreadyValid, CertTypeOK
  <2>2. /\ orderAt[p] = "placed" /\ UNCHANGED <<records, cleanups, excused, orderAt>>
        /\ \A q \in Orders \ {p} : order'[q] = order[q]
        /\ order'[p].todo \subseteq order[p].todo
    BY <1>2, <1>a DEF AlreadyValid, CertTypeOK
  <2>3. Unannounced(p) = {}
    BY <1>a, <2>2 DEF CertRecords, RecordsInvariant
  <2>4. Unannounced(p)' = {}
    BY <2>2, <2>3 DEF Unannounced
  <2>5. QED
    BY <1>a, <1>c, <2>1, <2>2, <2>3, <2>4, OrderMoves
<1>3. ASSUME NEW p \in Orders, NEW i \in Identifiers, NEW answered \in BOOLEAN,
             CreateRecord(p, i, answered)
      PROVE  CertInvariant'
  <2>0. CASE answered
    <3>1. CertTypeOK'
      BY <1>3, <1>a, <1>p, <2>0 DEF CreateRecord, CertTypeOK
    <3>2. /\ orderAt[p] = "placed" /\ i \in order[p].todo /\ UNCHANGED <<cleanups, order, excused>>
          /\ records' = records \cup {<<p, i>>} /\ orderAt'[p] = "waiting"
          /\ \A q \in Orders \ {p} : orderAt'[q] = orderAt[q]
      BY <1>3, <1>a, <2>0 DEF CreateRecord, CertTypeOK
    <3>3. Unannounced(p) = {} /\ <<p, i>> \in Unannounced(p)'
      BY <1>a, <3>2 DEF CertRecords, RecordsInvariant, Unannounced
    <3>4. QED
      BY <1>a, <1>c, <3>1, <3>2, <3>3, OrderMoves
  <2>1. CASE ~answered
    <3>0. EndOrder(p, TRUE) /\ excused' = excused \cup {<<p, i>>}
      BY <1>3, <2>1 DEF CreateRecord
    <3>1. CertTypeOK'
      <4>1. /\ records' \subseteq Records /\ cleanups' \subseteq Records /\ excused' \subseteq Records
            /\ certs' \in [Domains -> Orders \cup {NoCert}]
            /\ age' \in [Domains -> {"fresh", "due", "expired"}] /\ UNCHANGED <<domain, served, task>>
        BY <1>3, <1>a, <1>p, <3>0 DEF CreateRecord, CertTypeOK
      <4>2. QED
        BY <1>f, <3>0, <4>1
    <3>2. /\ orderAt[p] = "placed" /\ i \in order[p].todo /\ cleanups' = cleanups
          /\ records' = records \cup {<<p, i>>}
      BY <1>3 DEF CreateRecord
    <3>3. Unannounced(p) = {}
      BY <1>a, <3>2 DEF CertRecords, RecordsInvariant
    <3>4. /\ orderAt'[p] = "gone" /\ order'[p].todo = {}
          /\ \A q \in Orders \ {p} : order'[q] = order[q] /\ orderAt'[q] = orderAt[q]
      BY <1>e, <3>0
    <3>5. QED
      BY <1>a, <1>c, <3>0, <3>1, <3>2, <3>3, <3>4, OrderMoves
  <2>2. QED
    BY <2>0, <2>1
<1>4. ASSUME NEW p \in Orders, SetReady(p) PROVE CertInvariant'
  <2>1. CertTypeOK'
    BY <1>4, <1>a, <1>b DEF SetReady, CertTypeOK
  <2>2. /\ orderAt[p] = "waiting" /\ orderAt'[p] = "placed"
        /\ UNCHANGED <<records, excused>> /\ cleanups' = cleanups \cup Unannounced(p)
        /\ \A q \in Orders \ {p} : order'[q] = order[q] /\ orderAt'[q] = orderAt[q]
        /\ order'[p].todo = {i \in order[p].todo : <<p, i>> \notin records}
    BY <1>4, <1>a DEF SetReady, CertTypeOK
  <2>3. Unannounced(p)' = {}
    BY <2>2 DEF Unannounced
  <2>4. QED
    BY <1>a, <1>c, <2>1, <2>2, <2>3, OrderMoves
<1>5. ASSUME NEW p \in Orders, OrderFails(p) PROVE CertInvariant'
  <2>1. CertTypeOK'
    <3>1. /\ records' \subseteq Records /\ cleanups' \subseteq Records /\ excused' \subseteq Records
          /\ certs' \in [Domains -> Orders \cup {NoCert}]
          /\ age' \in [Domains -> {"fresh", "due", "expired"}] /\ UNCHANGED <<domain, served, task>>
          /\ EndOrder(p, TRUE)
      BY <1>5, <1>a, <1>b DEF OrderFails, CertTypeOK
    <3>2. QED
      BY <1>f, <3>1
  <2>2. /\ orderAt'[p] = "gone" /\ order'[p].todo = {}
        /\ UNCHANGED <<records, cleanups>> /\ excused' = excused \cup Unannounced(p)
        /\ \A q \in Orders \ {p} : order'[q] = order[q] /\ orderAt'[q] = orderAt[q]
    BY <1>5, <1>e DEF OrderFails
  <2>3. QED
    BY <1>a, <1>c, <2>1, <2>2, OrderMoves
<1>6. ASSUME NEW p \in Orders, NEW pending \in BOOLEAN, NEW from \in {"placed", "finalized"},
             NEW to \in {"finalized", "issued"}, Poll(p, pending, from, to)
      PROVE  CertInvariant'
  <2>0. /\ orderAt[p] = from /\ order[p].todo = {}
        /\ UNCHANGED <<domain, certs, age, served, task, records, cleanups, excused>>
    BY <1>6 DEF Poll
  <2>1. /\ order' \in [Orders -> OrderType] /\ acmeError' \in BOOLEAN /\ order'[p].todo = {}
        /\ orderAt'[p] # "idle"
        /\ orderAt' \in [Orders -> {"idle", "placed", "waiting", "finalized", "issued",
                                    "stored", "gone"}]
        /\ \A q \in Orders \ {p} : order'[q] = order[q] /\ orderAt'[q] = orderAt[q]
    <3>1. CASE pending /\ order[p].polls = MaxPolls
      <4>1. EndOrder(p, TRUE)
        BY <1>6, <3>1 DEF Poll
      <4>2. QED
        BY <1>a, <1>e, <4>1 DEF CertTypeOK
    <3>2. CASE ~(pending /\ order[p].polls = MaxPolls)
      <4>1. /\ order' = [order EXCEPT ![p].polls = IF pending THEN @ + 1 ELSE 0]
            /\ acmeError' = acmeError /\ orderAt' = [orderAt EXCEPT ![p] = IF pending THEN from ELSE to]
        BY <1>6, <3>2 DEF Poll
      <4>2. (IF pending THEN order[p].polls + 1 ELSE 0) \in 0..MaxPolls
        BY <1>a, <3>2
      <4>3. QED
        BY <1>a, <2>0, <4>1, <4>2 DEF CertTypeOK
    <3>3. QED
      BY <3>1, <3>2
  <2>2. CertTypeOK'
    BY <1>a, <2>0, <2>1 DEF CertTypeOK
  <2>3. Unannounced(p) = {} /\ Unannounced(p)' = {}
    BY <2>0, <2>1 DEF Unannounced
  <2>4. QED
    BY <1>a, <1>c, <2>0, <2>1, <2>2, <2>3, OrderMoves
<1>7. ASSUME NEW p \in Orders, Store(p) \/ AnnounceRestart(p) PROVE CertInvariant'
  <2>1. /\ orderAt[p] \in {"issued", "stored"}
        /\ UNCHANGED <<records, cleanups, excused, domain, served, task>>
    BY <1>7 DEF Store, AnnounceRestart
  <2>2. order[p].todo = {} /\ Unannounced(p) = {}
    BY <1>a, <2>1 DEF CertRecords, RecordsInvariant, Unannounced
  <2>3. /\ certs' \in [Domains -> Orders \cup {NoCert}]
        /\ age' \in [Domains -> {"fresh", "due", "expired"}]
        /\ records' \subseteq Records /\ cleanups' \subseteq Records /\ excused' \subseteq Records
    <3>1. CASE Store(p)
      <4>1. certs' = [certs EXCEPT ![order[p].domain] = p]
            /\ age' = [age EXCEPT ![order[p].domain] = "fresh"]
        BY <3>1 DEF Store
      <4>2. QED
        BY <1>a, <2>1, <4>1 DEF CertTypeOK
    <3>2. CASE AnnounceRestart(p)
      <4>1. certs' = certs /\ age' = age
        BY <3>2 DEF AnnounceRestart
      <4>2. QED
        BY <1>a, <2>1, <4>1 DEF CertTypeOK
    <3>3. QED
      BY <1>7, <3>1, <3>2
  <2>4. CASE EndOrder(p, FALSE)
    <3>1. CertTypeOK'
      BY <1>f, <2>1, <2>3, <2>4
    <3>2. /\ orderAt'[p] = "gone" /\ order'[p].todo = {}
          /\ \A q \in Orders \ {p} : order'[q] = order[q] /\ orderAt'[q] = orderAt[q]
      BY <1>e, <2>4
    <3>3. QED
      BY <1>a, <1>c, <2>1, <2>2, <3>1, <3>2, OrderMoves
  <2>5. CASE ~EndOrder(p, FALSE)
    <3>1. orderAt' = [orderAt EXCEPT ![p] = "stored"] /\ UNCHANGED <<order, acmeError>>
      BY <1>7, <2>5 DEF Store, AnnounceRestart
    <3>2. CertTypeOK'
      BY <1>a, <2>1, <2>3, <3>1 DEF CertTypeOK
    <3>3. orderAt'[p] = "stored" /\ \A q \in Orders \ {p} : orderAt'[q] = orderAt[q]
      BY <1>a, <3>1 DEF CertTypeOK
    <3>4. QED
      BY <1>a, <1>c, <2>1, <2>2, <3>1, <3>2, <3>3, OrderMoves
  <2>6. QED
    BY <2>4, <2>5
<1>8. ASSUME UNCHANGED <<orderAt, order, records, cleanups, excused>> PROVE CertRecords'
  <2>1. \A p \in Orders : Unannounced(p)' = Unannounced(p)
    BY <1>8 DEF Unannounced
  <2>2. RecordsInvariant'
    BY <1>8, <1>a, <2>1 DEF CertRecords, RecordsInvariant
  <2>3. RecordsHaveAKeeper'
    BY <1>8, <1>a, <2>1 DEF CertRecords, RecordsHaveAKeeper
  <2>4. QED
    BY <2>2, <2>3 DEF CertRecords
<1>9. CASE BeginRound
  BY <1>9, <1>8, <1>a, <1>c DEF BeginRound, Expiring, CertTypeOK
<1>10. ASSUME NEW d \in Domains, SetDomain(d) \/ CertificateAges(d) PROVE CertInvariant'
  <2>1. UNCHANGED <<orderAt, order, records, cleanups, excused>>
    BY <1>10 DEF SetDomain, CertificateAges
  <2>2. CertTypeOK'
    BY <1>10, <1>a DEF SetDomain, CertificateAges, CertTypeOK
  <2>3. QED
    BY <1>8, <1>c, <2>1, <2>2
<1>11. ASSUME NEW r \in Records, NEW deleted \in BOOLEAN, CleanUp(r, deleted)
       PROVE  CertInvariant'
  <2>1. CertTypeOK'
    BY <1>11, <1>a DEF CleanUp, CertTypeOK
  <2>2. /\ UNCHANGED <<orderAt, order>> /\ records' \subseteq records
        /\ cleanups' = cleanups \ {r} /\ excused \subseteq excused'
        /\ r \in records' => r \in excused'
        /\ \A s \in records \ {r} : s \in records'
    BY <1>11 DEF CleanUp
  <2>3. \A p \in Orders : Unannounced(p)' = Unannounced(p) \cap records'
    BY <2>2 DEF Unannounced
  <2>4. RecordsInvariant'
    BY <1>a, <2>2, <2>3 DEF CertRecords, RecordsInvariant
  <2>5. ASSUME NEW s \in records' PROVE IsKept(s)'
    <3>1. IsKept(s)
      BY <1>a, <2>2, KeeperIs DEF CertRecords
    <3>2. QED
      BY <2>2, <2>3, <3>1 DEF IsKept
  <2>6. RecordsHaveAKeeper'
    BY <2>5 DEF RecordsHaveAKeeper, IsKept
  <2>7. QED
    BY <1>c, <2>1, <2>4, <2>6 DEF CertRecords
<1>12. CASE CertRestart
  <2>1. /\ orderAt' = [p \in Orders |-> IF orderAt[p] = "idle" THEN "idle" ELSE "gone"]
        /\ order' = [p \in Orders |-> NoOrder] /\ cleanups' = {} /\ records' = records
        /\ excused' = excused \cup cleanups \cup UNION {Unannounced(p) : p \in Orders}
    BY <1>12 DEF CertRestart
  <2>2. excused' \subseteq Records
    BY <1>a, <1>b, <2>1 DEF CertTypeOK
  <2>3. CertTypeOK'
    BY <1>12, <1>a, <2>1, <2>2 DEF CertRestart, Valid, CertTypeOK
  <2>4. \A p \in Orders : Unannounced(p)' = {} /\ order'[p].todo = {}
    BY <1>a, <2>1 DEF Unannounced
  <2>5. RecordsInvariant'
    BY <1>a, <2>1, <2>4 DEF CertRecords, RecordsInvariant
  <2>6. RecordsHaveAKeeper'
    BY <1>a, <2>1 DEF CertRecords, RecordsHaveAKeeper
  <2>7. QED
    BY <1>c, <2>3, <2>5, <2>6 DEF CertRecords
<1>13. CASE UNCHANGED certVars
  BY <1>13, <1>8, <1>a, <1>c DEF certVars, CertTypeOK
<1>14. QED
  <2>1. ASSUME NEW p \in Orders, OrderStep(p) PROVE CertInvariant'
    BY <1>2, <1>3, <1>4, <1>5, <1>6, <1>7, <2>1 DEF OrderStep
  <2>2. ASSUME NEW p \in Orders, Begin(p) PROVE CertInvariant'
    BY <1>1, <2>2 DEF Begin
  <2>3. QED
    BY <2>1, <2>2, <1>9, <1>10, <1>11, <1>12, <1>13 DEF CertStep

-----------------------------------------------------------------------------
(* The whole. *)

AdminInvariant == ConfigInvariant /\ CredInvariant /\ CertInvariant /\ UpdateTypeOK

(* A replaced binary is a release.                                         *)
LEMMA UpdateTypeStep ==
    UpdateTypeOK /\ (UpdateStep \/ UpdateRestart \/ UNCHANGED updateVars) => UpdateTypeOK'
<1> SUFFICES ASSUME UpdateTypeOK, UpdateStep \/ UpdateRestart \/ UNCHANGED updateVars
             PROVE  UpdateTypeOK'
  OBVIOUS
<1>1. ASSUME NEW u \in Updates, ReplaceBinary(u) PROVE UpdateTypeOK'
  BY <1>1 DEF ReplaceBinary, UpdateTypeOK
<1>2. ASSUME NEW u \in Updates, AnnounceUpdate(u) PROVE UpdateTypeOK'
  BY <1>2 DEF AnnounceUpdate, UpdateTypeOK
<1>3. CASE UpdateRestart
  BY <1>3 DEF UpdateRestart, UpdateTypeOK
<1>4. CASE UNCHANGED updateVars
  BY <1>4 DEF updateVars, UpdateTypeOK
<1>5. QED
  BY <1>1, <1>2, <1>3, <1>4 DEF UpdateStep

(* Every part starts with its invariant.                                   *)
LEMMA AdminStart == AdminInit => AdminInvariant
<1> SUFFICES ASSUME AdminInit PROVE AdminInvariant
  OBVIOUS
<1>1. ConfigInvariant
  BY ConfigStart DEF AdminInit, ConfigInvariant, WellFormed, CopiesInvariant
<1>2. CredInvariant
  BY CredStart DEF AdminInit
<1>3. CertInvariant
  <2>1. CertInit
    BY DEF AdminInit
  <2>2. CertTypeOK
    <3>1. /\ domain \in Domains \cup {NoDomain} /\ served \in Orders \cup {NoCert}
          /\ certs \in [Domains -> Orders \cup {NoCert}]
          /\ age \in [Domains -> {"fresh", "due", "expired"}]
          /\ toRenew \subseteq Domains
          /\ records \subseteq Records /\ cleanups \subseteq Records /\ excused \subseteq Records
      BY <2>1 DEF CertInit
    <3>2. acmeError \in BOOLEAN /\ renewing \in BOOLEAN
      <4>1. renewing = (domain # NoDomain) /\ acmeError = FALSE
        BY <2>1 DEF CertInit
      <4>2. QED
        BY <4>1, Zenon
    <3>3. orderAt \in [Orders -> {"idle", "placed", "waiting", "finalized", "issued",
                                  "stored", "gone"}]
      BY <2>1 DEF CertInit
    <3>4. order \in [Orders -> [domain : Domains \cup {NoDomain}, todo : SUBSET Identifiers,
                                polls : 0..MaxPolls]]
      BY <2>1 DEF CertInit, NoOrder
    <3>5. QED
      BY <3>1, <3>2, <3>3, <3>4 DEF CertTypeOK
  <2>3. records = {} /\ \A p \in Orders : order[p].todo = {}
    BY <2>1 DEF CertInit, NoOrder
  <2>4. \A p \in Orders : Unannounced(p) = {}
    BY <2>3 DEF Unannounced
  <2>5. QED
    BY <2>2, <2>3, <2>4 DEF CertInvariant, RecordsInvariant, RecordsHaveAKeeper
<1>4. UpdateTypeOK
  BY DEF AdminInit, UpdateInit, UpdateTypeOK
<1>5. QED
  BY <1>1, <1>2, <1>3, <1>4 DEF AdminInvariant

(* Each part keeps it beside the others, and in the common restart.        *)
LEMMA AdminStep == AdminInvariant /\ [AdminNext]_adminVars => AdminInvariant'
<1> SUFFICES ASSUME AdminInvariant, [AdminNext]_adminVars PROVE AdminInvariant'
  OBVIOUS
<1>1. ConfigInvariant'
  BY AdminConfigStep DEF AdminInvariant
<1>2. CredInvariant'
  <2>1. [CredNext]_credVars
    <3>1. CASE AdminNext
      BY <3>1, AdminCredStep
    <3>2. CASE UNCHANGED adminVars
      BY <3>2 DEF adminVars
    <3>3. QED
      BY <3>1, <3>2
  <2>2. QED
    BY <2>1, CredInvariantStep DEF AdminInvariant
<1>3. CertStep \/ CertRestart \/ UNCHANGED certVars
  BY DEF AdminNext, Restart, adminVars
<1>4. UpdateStep \/ UpdateRestart \/ UNCHANGED updateVars
  BY DEF AdminNext, Restart, adminVars
<1>5. CertInvariant' /\ UpdateTypeOK'
  BY <1>3, <1>4, CertInvariantStep, UpdateTypeStep DEF AdminInvariant
<1>6. QED
  BY <1>1, <1>2, <1>5 DEF AdminInvariant

(* The parts together keep what each promises, for any workload.           *)
THEOREM AdminHolds == AdminSpec => []AdminInvariant
BY AdminStart, AdminStep, PTL DEF AdminSpec

(* The state of every part keeps its type.                                 *)
THEOREM AdminTypes == AdminSpec => []AdminTypeOK
<1>1. AdminInvariant => AdminTypeOK
  BY DEF AdminInvariant, AdminTypeOK, ConfigInvariant, CredInvariant, CertInvariant
<1>2. QED
  BY AdminHolds, <1>1, PTL

(* What runs is what is stored, restarts for any reason included (api.rs,  *)
(* sync.rs, main.rs run_server).                                           *)
THEOREM RunningIsStored == AdminSpec => []CopiesAgree
<1>1. AdminInvariant => CopiesAgree
  BY DEF AdminInvariant, ConfigInvariant
<1>2. QED
  BY AdminHolds, <1>1, PTL

(* The throttle keeps its bound in the whole service (auth.rs).            *)
THEOREM ThrottleHolds == AdminSpec => []ThrottleBound
<1>1. AdminInvariant => ThrottleBound
  BY ThrottleFits DEF AdminInvariant
<1>2. QED
  BY AdminHolds, <1>1, PTL

(* Sessions end with their password in the whole service (api.rs           *)
(* change_password, main.rs genpass).                                      *)
THEOREM SessionsFollowPassword == AdminSpec => []SessionsMatchPassword
<1>1. AdminInvariant => SessionsMatchPassword
  BY DEF AdminInvariant, CredInvariant
<1>2. QED
  BY AdminHolds, <1>1, PTL

(* No TXT record is lost track of without a failure (acme.rs).             *)
THEOREM RecordsAreKept == AdminSpec => []RecordsHaveAKeeper
<1>1. AdminInvariant => RecordsHaveAKeeper
  BY DEF AdminInvariant, CertInvariant
<1>2. QED
  BY AdminHolds, <1>1, PTL
=============================================================================
