-------------------------- MODULE ReplicaSync_proofs --------------------------
(***************************************************************************)
(* Proofs about ReplicaSync: whatever a poll skips is held, for any set of *)
(* categories and any number of contents.  The inductive invariant says    *)
(* that along known hash, manifest, snapshot and master's content a        *)
(* category never gets older, so a recorded hash that equals the master's  *)
(* leaves no room for anything else in the replica's database.             *)
(***************************************************************************)
EXTENDS ReplicaSync, TLAPS

(* A new session knows nothing and works on nothing.                       *)
LEMMA SessionStep ==
    ASSUME InductiveInvariant, BeginSession,
           master' = master, held' = held
    PROVE  InductiveInvariant'
<1>1. TypeOK'
  BY ContentsAssumption
  DEF InductiveInvariant, TypeOK, BeginSession, NothingKnown, NoManifest, Contents
<1>2. FetchedAfterHashed'
  BY DEF InductiveInvariant, TypeOK, FetchedAfterHashed, BeginSession, NothingKnown
<1> QED
  BY <1>1, <1>2 DEF InductiveInvariant, BusyWithOne, BeginSession

(* The master moves to a newer content, or the category counts as          *)
(* disturbed.                                                              *)
LEMMA MasterStep ==
    ASSUME InductiveInvariant,
           NEW c \in Categories, NEW v \in Contents, MasterEdit(c, v)
    PROVE  InductiveInvariant'
<1> USE DEF MasterEdit, task
<1>1. TypeOK'
  BY DEF InductiveInvariant, TypeOK
<1>2. BusyWithOne'
  BY DEF InductiveInvariant, BusyWithOne, Contents
<1>3. FetchedAfterHashed'
  <2> SUFFICES ASSUME NEW d \in Categories \ disturbed'
               PROVE  /\ known[d] # None => held[d] \in known[d] .. master'[d]
                      /\ pc \in {"polling", "applying"} => manifest[d] <= master'[d]
                      /\ pc = "applying" /\ current = d
                            => snapshot \in manifest[d] .. master'[d]
    BY DEF FetchedAfterHashed
  <2>1. d \notin disturbed
    OBVIOUS
  <2>2. master[d] \in Int /\ master'[d] \in Int /\ master[d] <= master'[d]
    BY ContentsAssumption DEF InductiveInvariant, TypeOK, Contents
  <2>3. manifest[d] \in Int /\ known[d] \in Int \cup {None}
    BY ContentsAssumption DEF InductiveInvariant, TypeOK, Contents
  <2> QED
    BY <2>1, <2>2, <2>3 DEF InductiveInvariant, FetchedAfterHashed
<1> QED
  BY <1>1, <1>2, <1>3 DEF InductiveInvariant

(* The task records a hash after it applied the snapshot, or after it      *)
(* failed to, which makes the category count as disturbed.                 *)
LEMMA ApplyStep ==
    ASSUME InductiveInvariant, Apply \/ ApplyFails
    PROVE  InductiveInvariant'
<1> USE DEF Record
<1>1. current \in Categories /\ snapshot \in Contents
  BY DEF InductiveInvariant, BusyWithOne, Apply, ApplyFails
<1>2. TypeOK'
  BY <1>1 DEF InductiveInvariant, TypeOK, Apply, ApplyFails
<1>3. BusyWithOne'
  BY DEF BusyWithOne, Apply, ApplyFails
<1>4. FetchedAfterHashed'
  <2> SUFFICES ASSUME NEW d \in Categories \ disturbed'
               PROVE  /\ known'[d] # None => held'[d] \in known'[d] .. master[d]
                      /\ manifest[d] <= master[d]
    BY DEF FetchedAfterHashed, Apply, ApplyFails
  <2>1. d \in Categories \ disturbed /\ pc = "applying"
    BY DEF Apply, ApplyFails
  <2>2. CASE Apply /\ d = current
    BY <2>1, <2>2 DEF InductiveInvariant, TypeOK, FetchedAfterHashed, Apply
  <2>3. CASE d # current
    BY <2>1, <2>3, <1>1 DEF InductiveInvariant, TypeOK, FetchedAfterHashed, Apply, ApplyFails
  <2>4. CASE ApplyFails /\ d = current
    BY <2>4 DEF ApplyFails
  <2> QED
    BY <2>2, <2>3, <2>4
<1> QED
  BY <1>2, <1>3, <1>4 DEF InductiveInvariant

(* The steps that only read or only move the task on.                      *)
LEMMA PollStep ==
    ASSUME InductiveInvariant,
           \/ Login \/ FetchManifest \/ EndPoll
           \/ \E c \in Categories : FetchSnapshot(c) \/ SnapshotFails(c) \/ LocalEdit(c)
    PROVE  InductiveInvariant'
<1>1. CASE Login
  BY <1>1 DEF InductiveInvariant, TypeOK, BusyWithOne, FetchedAfterHashed, Login
<1>2. CASE FetchManifest
  BY <1>2, ContentsAssumption
  DEF InductiveInvariant, TypeOK, BusyWithOne, FetchedAfterHashed, FetchManifest, Contents
<1>3. CASE EndPoll
  BY <1>3, ContentsAssumption
  DEF InductiveInvariant, TypeOK, BusyWithOne, FetchedAfterHashed, EndPoll, NoManifest, Contents
<1>4. ASSUME NEW c \in Categories, FetchSnapshot(c)
      PROVE  InductiveInvariant'
  <2>1. TypeOK' /\ BusyWithOne'
    BY <1>4 DEF InductiveInvariant, TypeOK, BusyWithOne, FetchSnapshot
  <2>2. \A d \in Categories : manifest[d] \in Int /\ master[d] \in Int
    BY DEF InductiveInvariant, TypeOK, Contents
  <2>3. FetchedAfterHashed'
    BY <1>4, <2>2 DEF InductiveInvariant, FetchedAfterHashed, FetchSnapshot
  <2> QED
    BY <2>1, <2>3 DEF InductiveInvariant
<1>5. ASSUME NEW c \in Categories, SnapshotFails(c)
      PROVE  InductiveInvariant'
  BY <1>5 DEF InductiveInvariant, TypeOK, BusyWithOne, FetchedAfterHashed, SnapshotFails
<1>6. ASSUME NEW c \in Categories, LocalEdit(c)
      PROVE  InductiveInvariant'
  <2>1. TypeOK' /\ BusyWithOne'
    BY <1>6 DEF InductiveInvariant, TypeOK, BusyWithOne, LocalEdit, task
  <2>2. FetchedAfterHashed'
    BY <1>6 DEF InductiveInvariant, TypeOK, FetchedAfterHashed, LocalEdit, task
  <2> QED
    BY <2>1, <2>2 DEF InductiveInvariant
<1> QED
  BY <1>1, <1>2, <1>3, <1>4, <1>5, <1>6

(* Every action keeps the invariant.                                       *)
LEMMA InvariantStep ==
    ASSUME InductiveInvariant, [Next]_vars
    PROVE  InductiveInvariant'
<1>1. CASE LoginFails \/ ManifestFails \/ Restart
  BY <1>1, SessionStep DEF LoginFails, ManifestFails, Restart
<1>2. CASE \E c \in Categories, v \in Contents : MasterEdit(c, v)
  BY <1>2, MasterStep
<1>3. CASE Apply \/ ApplyFails
  BY <1>3, ApplyStep
<1>4. CASE \/ Login \/ FetchManifest \/ EndPoll
           \/ \E c \in Categories : FetchSnapshot(c) \/ SnapshotFails(c) \/ LocalEdit(c)
  BY <1>4, PollStep
<1>5. CASE UNCHANGED vars
  BY <1>5 DEF vars, task, InductiveInvariant, TypeOK, BusyWithOne, FetchedAfterHashed
<1> QED
  BY <1>1, <1>2, <1>3, <1>4, <1>5 DEF Next, Session, Poll

(* What a snapshot brought is never older than the hash it is recorded     *)
(* under (sync.rs fetches the manifest first and records its hash last).   *)
THEOREM NeverOlderThanRecorded == Spec => []InductiveInvariant
<1>1. Init => InductiveInvariant
  BY ContentsAssumption
  DEF Init, InductiveInvariant, TypeOK, BusyWithOne, FetchedAfterHashed, Contents,
      NothingKnown, NoManifest
<1>2. InductiveInvariant /\ [Next]_vars => InductiveInvariant'
  BY InvariantStep
<1> QED
  BY <1>1, <1>2, PTL DEF Spec

(* Hashes, contents and what a poll knows stay in their ranges (sync.rs).  *)
THEOREM SyncTypes == Spec => []TypeOK
<1>1. InductiveInvariant => TypeOK
  BY DEF InductiveInvariant
<1> QED
  BY <1>1, NeverOlderThanRecorded, PTL

(* A category a poll skips because its hash is the master's is held by the *)
(* replica, whatever edits came between manifest and snapshot.             *)
THEOREM SkipsOnlyWhatIsHeld == Spec => []SkippedIsHeld
<1>1. InductiveInvariant => SkippedIsHeld
  <2> SUFFICES ASSUME InductiveInvariant,
                      NEW c \in Categories \ disturbed, known[c] = master[c]
               PROVE  held[c] = master[c]
    BY DEF SkippedIsHeld
  <2>1. master[c] \in Int /\ master[c] # None
    BY ContentsAssumption DEF InductiveInvariant, TypeOK, Contents
  <2>2. held[c] \in master[c] .. master[c]
    BY <2>1 DEF InductiveInvariant, FetchedAfterHashed
  <2> QED
    BY <2>1, <2>2
<1> QED
  BY <1>1, NeverOlderThanRecorded, PTL
=============================================================================
