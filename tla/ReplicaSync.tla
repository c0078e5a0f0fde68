------------------------------ MODULE ReplicaSync ------------------------------
(***************************************************************************)
(* A replica that mirrors the configuration of a master (sync.rs) and what *)
(* the master answers it (db.rs, sync_manifest and sync_snapshot).         *)
(*                                                                         *)
(* The replica logs in, then polls.  A poll fetches a manifest, one hash   *)
(* per category, and then, in requests of their own, a snapshot of every   *)
(* category whose hash is not the one it recorded last.  It applies the    *)
(* snapshot and records the hash of the MANIFEST, whatever became of the   *)
(* apply.  Every failed manifest starts a new session, which forgets all   *)
(* recorded hashes.                                                        *)
(*                                                                         *)
(* A content of a category is a number and is its own hash (SHA-256 of the *)
(* sorted rows).  "Foreign" is any content the master never had: what an   *)
(* operator of the replica put there, or settings applied in part.  The    *)
(* content of "settings" is the keys a replica takes over (SKIP holds the  *)
(* others).  The master hashes one category after the other; no property   *)
(* relates the hashes of two categories, so a manifest is read at once.    *)
(* The text /api/sync/status shows is left out.                            *)
(* This module follows a category into the replica's database; how a list  *)
(* gets from there into memory, and under which lock, is in DomainLists.   *)
(***************************************************************************)
EXTENDS Integers

CONSTANTS
    Categories,    \* the categories mirrored
    MaxContent,    \* contents are 0 .. MaxContent
    Foreign,       \* content the master never had
    ApplyMayFail,  \* TRUE: applying a snapshot may fail
    LocalEdits,    \* TRUE: an operator changes the replica itself
    MasterReturns, \* TRUE: the master may go back to an earlier content
    None           \* no hash recorded, no snapshot at hand

ASSUME CategoriesAssumption ==
    Categories \subseteq {"settings", "upstreams", "rewrites", "sources",
                          "blocklist", "allowlist"}

ASSUME ContentsAssumption ==
    /\ MaxContent \in Nat
    /\ Foreign \notin Nat
    /\ None \notin Nat
    /\ {ApplyMayFail, LocalEdits, MasterReturns} \subseteq BOOLEAN

VARIABLES
    master,    \* content of each category on the master
    held,      \* content of each category in the replica's database
    known,     \* known_hashes
    manifest,  \* hashes of the manifest being worked on, 0 between polls
    pending,   \* categories of the manifest still to be looked at
    current,   \* category being fetched and applied
    snapshot,  \* its snapshot
    pc,        \* control state of the sync task
    disturbed  \* history: categories whose recorded hash may not speak for
               \* what the replica holds, since the session began

task == <<known, manifest, pending, current, snapshot, pc>>
vars == <<master, held, task, disturbed>>

Contents == 0 .. MaxContent

TypeOK ==
    /\ master \in [Categories -> Contents]
    /\ held \in [Categories -> Contents \cup {Foreign}]
    /\ known \in [Categories -> Contents \cup {None}]
    /\ manifest \in [Categories -> Contents]
    /\ pending \subseteq Categories
    /\ current \in Categories \cup {None}
    /\ snapshot \in Contents \cup {None}
    /\ pc \in {"connecting", "waiting", "polling", "applying"}
    /\ disturbed \subseteq Categories

NothingKnown == [c \in Categories |-> None]
NoManifest == [c \in Categories |-> 0]

Init ==
    /\ master \in [Categories -> Contents]
    /\ held = [c \in Categories |-> Foreign]
    /\ known = NothingKnown
    /\ manifest = NoManifest
    /\ pending = {}
    /\ current = None
    /\ snapshot = None
    /\ pc = "connecting"
    /\ disturbed = {}

-----------------------------------------------------------------------------
(* The master and the operator of the replica.                             *)

(* Higher numbers stand for contents not seen before, lower ones for       *)
(* contents the master may have had: an entry added and taken out again.   *)
MasterEdit(c, v) ==
    /\ v # master[c]
    /\ MasterReturns \/ v > master[c]
    /\ master' = [master EXCEPT ![c] = v]
    /\ disturbed' = IF v < master[c] THEN disturbed \cup {c} ELSE disturbed
    /\ UNCHANGED <<held, task>>

(* Nothing keeps the REST API of a replica from changing what it mirrors.  *)
LocalEdit(c) ==
    /\ LocalEdits
    /\ held' = [held EXCEPT ![c] = Foreign]
    /\ disturbed' = disturbed \cup {c}
    /\ UNCHANGED <<master, task>>

-----------------------------------------------------------------------------
(* The session.                                                            *)

(* Faulty variant: the hashes of the last session stay recorded.           *)
KeepHashes ==
    /\ pc' = "connecting"
    /\ pending' = {}
    /\ current' = None
    /\ snapshot' = None
    /\ manifest' = NoManifest
    /\ disturbed' = {}
    /\ UNCHANGED known

(* Top of the outer loop: all recorded hashes are forgotten.               *)
BeginSession ==
    /\ known' = NothingKnown
    /\ pc' = "connecting"
    /\ pending' = {}
    /\ current' = None
    /\ snapshot' = None
    /\ manifest' = NoManifest
    /\ disturbed' = {}

Login ==
    /\ pc = "connecting"
    /\ pc' = "waiting"
    /\ UNCHANGED <<master, held, known, manifest, pending, current, snapshot, disturbed>>

(* The loop sleeps and starts over at its top.                             *)
LoginFails ==
    /\ pc = "connecting"
    /\ BeginSession
    /\ UNCHANGED <<master, held>>

(* A session that expired, a master that is down, an answer that is no     *)
(* manifest.                                                               *)
ManifestFails ==
    /\ pc = "waiting"
    /\ BeginSession
    /\ UNCHANGED <<master, held>>

(* The replica's process ends at any point and starts again from its       *)
(* database.                                                               *)
Restart ==
    /\ BeginSession
    /\ UNCHANGED <<master, held>>

-----------------------------------------------------------------------------
(* A poll.                                                                 *)

FetchManifest ==
    /\ pc = "waiting"
    /\ manifest' = master
    /\ pending' = {c \in Categories : known[c] # master[c]}
    /\ pc' = "polling"
    /\ UNCHANGED <<master, held, known, current, snapshot, disturbed>>

(* Categories come in the order of a HashMap, which is any order.          *)
FetchSnapshot(c) ==
    /\ pc = "polling"
    /\ c \in pending
    /\ current' = c
    /\ snapshot' = master[c]
    /\ pc' = "applying"
    /\ UNCHANGED <<master, held, known, manifest, pending, disturbed>>

(* Faulty variant: the hash is recorded although nothing was fetched.      *)
SkipAndRecord(c) ==
    /\ pc = "polling"
    /\ c \in pending
    /\ pending' = pending \ {c}
    /\ known' = [known EXCEPT ![c] = manifest[c]]
    /\ UNCHANGED <<master, held, manifest, current, snapshot, pc, disturbed>>

(* Faulty variant: an answer without a payload is applied.                 *)
ApplyNothing(c) ==
    /\ pc = "polling"
    /\ c \in pending
    /\ current' = c
    /\ pc' = "applying"
    /\ UNCHANGED <<master, held, known, manifest, pending, snapshot, disturbed>>

SnapshotFails(c) ==
    /\ pc = "polling"
    /\ c \in pending
    /\ pending' = pending \ {c}
    /\ UNCHANGED <<master, held, known, manifest, current, snapshot, pc,
                   disturbed>>

(* Faulty variant: the hash the master has by now is recorded.             *)
RecordLatest ==
    /\ known' = [known EXCEPT ![current] = master[current]]
    /\ pending' = pending \ {current}
    /\ current' = None
    /\ snapshot' = None
    /\ pc' = "polling"
    /\ UNCHANGED manifest

(* apply_snapshot reports nothing: its hash is recorded in any case.       *)
Record ==
    /\ known' = [known EXCEPT ![current] = manifest[current]]
    /\ pending' = pending \ {current}
    /\ current' = None
    /\ snapshot' = None
    /\ pc' = "polling"
    /\ UNCHANGED manifest

(* The transaction that replaces the category in the database, or the      *)
(* settings stored key by key.                                             *)
Apply ==
    /\ pc = "applying"
    /\ held' = [held EXCEPT ![current] = snapshot]
    /\ Record
    /\ UNCHANGED <<master, disturbed>>

(* Something fails and is logged: a payload that is not understood, a busy *)
(* database.  A transaction rolls back; of the settings some keys may be   *)
(* stored and others not.                                                  *)
ApplyFails ==
    /\ ApplyMayFail
    /\ pc = "applying"
    /\ \/ UNCHANGED held
       \/ current = "settings" /\ held' = [held EXCEPT !["settings"] = Foreign]
    /\ Record
    /\ disturbed' = disturbed \cup {current}
    /\ UNCHANGED master

EndPoll ==
    /\ pc = "polling"
    /\ pending = {}
    /\ pc' = "waiting"
    /\ manifest' = NoManifest
    /\ UNCHANGED <<master, held, known, pending, current, snapshot, disturbed>>

-----------------------------------------------------------------------------

Session == Login \/ LoginFails \/ ManifestFails \/ Restart

Poll ==
    \/ FetchManifest
    \/ \E c \in Categories : FetchSnapshot(c) \/ SnapshotFails(c)
    \/ Apply
    \/ ApplyFails
    \/ EndPoll

Next ==
    \/ \E c \in Categories, v \in Contents : MasterEdit(c, v)
    \/ \E c \in Categories : LocalEdit(c)
    \/ Session
    \/ Poll

Spec == Init /\ [][Next]_vars

(* The task never stops: its sleeps end, and every request ends by its     *)
(* thirty-second timeout.  A master that is asked for ever answers now and *)
(* then, and so does the replica's database; without that nothing can be   *)
(* said.                                                                   *)
Fairness ==
    /\ WF_vars(EndPoll)
    /\ WF_vars(Apply \/ ApplyFails)
    /\ SF_vars(Login)
    /\ SF_vars(FetchManifest)
    /\ \A c \in Categories : SF_vars(FetchSnapshot(c))
    /\ \A c \in Categories : SF_vars(current = c /\ Apply)

FairSpec == Spec /\ Fairness

-----------------------------------------------------------------------------
(* Properties                                                              *)

(* A category whose recorded hash is the master's is skipped by every poll *)
(* of the session, so it had better be the master's content: true although *)
(* manifest and snapshot are two requests with edits between them, as long *)
(* as no apply failed, the master did not go back, and no one edited the   *)
(* replica.                                                                *)
SkippedIsHeld ==
    \A c \in Categories \ disturbed :
        known[c] = master[c] => held[c] = master[c]

(* Why it is true: what was fetched is never older than the hash it is, or *)
(* will be, recorded under.  With the types this is inductive.             *)
FetchedAfterHashed ==
    \A c \in Categories \ disturbed :
        /\ known[c] # None => held[c] \in known[c] .. master[c]
        /\ pc \in {"polling", "applying"} => manifest[c] <= master[c]
        /\ pc = "applying" /\ current = c => snapshot \in manifest[c] .. master[c]

BusyWithOne == pc = "applying" => current \in Categories /\ snapshot \in Contents

InductiveInvariant == TypeOK /\ BusyWithOne /\ FetchedAfterHashed

(* "only fetches categories whose content hash changed" loses nothing: a   *)
(* category the master leaves alone is mirrored in the end, through failed *)
(* requests, expired sessions and restarts, if the recorded hash speaks    *)
(* for what is held.                                                       *)
QuietCategoryMirrored ==
    \A c \in Categories, v \in Contents :
        <>[](master[c] = v /\ c \notin disturbed) => <>[](held[c] = v)

(* "Clear known hashes on every (re-)auth so any changes that occurred     *)
(* while the master was unreachable are guaranteed to be re-fetched": new  *)
(* sessions repair whatever failed applies, edits of the replica and       *)
(* contents that came back left behind.                                    *)
SessionsRepair ==
    \A c \in Categories, v \in Contents :
        /\ <>[](master[c] = v)
        /\ []<>(pc = "connecting")
        /\ <>[][~\E d \in Categories : LocalEdit(d)]_vars
        => []<>(held[c] = v)

(* A replica "mirrors configuration from a primary instance" (README): a   *)
(* category the master leaves alone is mirrored in the end.                *)
AlwaysMirrors ==
    \A c \in Categories, v \in Contents :
        <>[](master[c] = v) => <>[](held[c] = v)
=============================================================================
