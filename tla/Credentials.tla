------------------------------ MODULE Credentials ------------------------------
(***************************************************************************)
(* The admin password and the sessions signed for it.  The hash and the    *)
(* signing key are rows in SQLite; the running process keeps a copy of the *)
(* key.  A login passes the throttle, takes a slot, and verifies and signs *)
(* under the credential lock; what it was worth is recorded after slot and *)
(* lock are free.  A change of the password holds the lock throughout; a   *)
(* reset (--genpass) is a process of its own and knows no lock.            *)
(*                                                                         *)
(* Passwords and keys are numbers given out once: a password stands for    *)
(* its hash, so setting the same password again is a new one.  Sessions do *)
(* not expire.  The window of failures is a flag that time sets.           *)
(***************************************************************************)
EXTENDS Service, Integers, FiniteSets

CONSTANTS
    Logins,       \* login requests, each made again and again
    Clients,      \* addresses they come from
    Changes,      \* requests that change the password
    Resets,       \* runs of --genpass
    NoUser, NoClient,
    MaxFailures,  \* LOGIN_MAX_FAILURES
    MaxTracked,   \* LOGIN_MAX_TRACKED_CLIENTS
    Slots,        \* LOGIN_MAX_CONCURRENT
    From,         \* the addresses each login may come from
    MaxKeyFaults  \* bound: starts at which the key cannot be read

Users == Logins \cup Changes \cup Resets

ASSUME CredentialsAssumption ==
    /\ IsFiniteSet(Logins) /\ IsFiniteSet(Clients)
    /\ Logins \cap Changes = {} /\ (Logins \cup Changes) \cap Resets = {}
    /\ NoUser \notin Users /\ NoClient \notin Clients
    /\ MaxFailures \in Nat \ {0} /\ MaxTracked \in Nat \ {0} /\ Slots \in Nat
    /\ MaxKeyFaults \in Nat /\ From \in [Logins -> SUBSET Clients]

VARIABLES
    hash, keyDb,       \* rows admin_password_hash and session_secret
    keyRam,            \* session_secret of AuthState
    fresh,             \* numbers given out
    keyFaults,         \* failed readings of the key to come
    sessions,          \* cookies issued: the key, and the password proved
    locked,            \* who holds the credential lock
    failures, old,     \* FailedLogins per client; window over
    tracked,           \* clients with an entry
    userAt, attempt,   \* control state, and what the request knows
    overtaken          \* history: keys in force, or about to be, when a
                       \* reset replaced the hash

credentialRows == <<hash, keyDb>>
throttle == <<failures, old, tracked>>
keys == <<credentialRows, keyRam, fresh, keyFaults, overtaken>>
credVars == <<keys, sessions, locked, throttle, userAt, attempt>>

NoAttempt == [client |-> NoClient, password |-> 0, key |-> 0]

CredTypeOK ==
    /\ hash \in Nat /\ keyDb \in Nat /\ keyRam \in Nat
    /\ fresh \in Nat /\ keyFaults \in Nat
    /\ sessions \subseteq [key : Nat, password : Nat]
    /\ locked \in Users \cup {NoUser}
    /\ tracked \in SUBSET Clients /\ old \in SUBSET Clients
    /\ failures \in [Clients -> Nat]
    /\ userAt \in [Users -> {"idle", "checked", "slot", "locked", "verified",
                             "committed", "opened", "hashed", "confirmed", "keyed", "cut",
                             "gone"}]
    /\ attempt \in [Users -> [client : Clients \cup {NoClient}, password : Nat,
                              key : Nat]]
    /\ overtaken \subseteq Nat

UserGoto(u, state) == userAt' = [userAt EXCEPT ![u] = state]
Quit(u, state) == UserGoto(u, state) /\ attempt' = [attempt EXCEPT ![u] = NoAttempt]

-----------------------------------------------------------------------------
(* Login *)

(* retry_after_at: a full table first drops what is over.                  *)
Kept == IF Cardinality(tracked) >= MaxTracked THEN tracked \ old ELSE tracked

Left(c) == IF c \in old THEN Kept \ {c} ELSE Kept

(* Faulty variant: one more attempt than the limit.                        *)
AdmittedAtLimit(c) == IF c \in Left(c) THEN failures[c] <= MaxFailures
                                       ELSE Cardinality(Left(c)) < MaxTracked

Admitted(c) == IF c \in Left(c) THEN failures[c] < MaxFailures
                                ELSE Cardinality(Left(c)) < MaxTracked

CheckThrottle(u, c) ==
    /\ up /\ userAt[u] = "idle"
    /\ tracked' = Left(c)
    /\ failures' = [x \in Clients |-> IF x \in Left(c) THEN failures[x] ELSE 0]
    /\ old' = old \cap Left(c)
    /\ IF Admitted(c) THEN /\ UserGoto(u, "checked")
                           /\ attempt' = [attempt EXCEPT ![u].client = c]
                      ELSE UNCHANGED <<userAt, attempt>>
    /\ UNCHANGED <<keys, sessions, locked, serviceVars>>

SlotHolders == {u \in Logins : userAt[u] \in {"slot", "locked"}}

TakeSlot(u) ==
    /\ up /\ userAt[u] = "checked"
    /\ IF Cardinality(SlotHolders) < Slots
       THEN UserGoto(u, "slot") /\ UNCHANGED attempt
       ELSE Quit(u, "idle")
    /\ UNCHANGED <<keys, sessions, locked, throttle, serviceVars>>

(* The lock is taken, the hash read and compared: 0 stands for a wrong     *)
(* password.  Any request may know the right one.                          *)
LockAndCompare(u, right) ==
    /\ locked = NoUser /\ locked' = u
    /\ UserGoto(u, "locked")
    /\ attempt' = [attempt EXCEPT ![u].password = IF right THEN hash ELSE 0]
    /\ UNCHANGED <<keys, sessions, throttle, serviceVars>>

LockForLogin(u, right) ==
    /\ up /\ userAt[u] = "slot"
    /\ LockAndCompare(u, right)

Signed(key, password) == [key |-> key, password |-> password]

(* Sign with the running key, leave the lock and the slot.                 *)
Verify(u) ==
    /\ up /\ userAt[u] = "locked"
    /\ locked' = NoUser
    /\ sessions' = IF attempt[u].password = 0 THEN sessions
                   ELSE sessions \cup {Signed(keyRam, attempt[u].password)}
    /\ UserGoto(u, "verified")
    /\ UNCHANGED <<keys, throttle, attempt, serviceVars>>

(* No failure is recorded.                                                 *)
HashUnreadable(u) ==
    /\ up /\ userAt[u] = "slot"
    /\ Quit(u, "idle")
    /\ UNCHANGED <<keys, sessions, locked, throttle, serviceVars>>

RecordSuccess(u) ==
    LET c == attempt[u].client IN
    /\ up /\ userAt[u] = "verified" /\ attempt[u].password # 0
    /\ tracked' = tracked \ {c}
    /\ failures' = [failures EXCEPT ![c] = 0]
    /\ old' = old \ {c}
    /\ Quit(u, "idle")
    /\ UNCHANGED <<keys, sessions, locked, serviceVars>>

RecordFailure(u) ==
    LET c == attempt[u].client IN
    /\ up /\ userAt[u] = "verified" /\ attempt[u].password = 0
    /\ tracked' = tracked \cup {c}
    /\ failures' = [failures EXCEPT ![c] = IF c \in old THEN 1 ELSE @ + 1]
    /\ old' = old \ {c}
    /\ Quit(u, "idle")
    /\ UNCHANGED <<keys, sessions, locked, serviceVars>>

(* LOGIN_FAILURE_WINDOW has passed since the first failure.                *)
WindowEnds(c) ==
    /\ up /\ c \in tracked \ old
    /\ old' = old \cup {c}
    /\ UNCHANGED <<keys, sessions, locked, failures, tracked, userAt, attempt, serviceVars>>

-----------------------------------------------------------------------------
(* Change of the password, by a request with a session *)

Accepted(s) == s.key = keyRam

(* The middleware lets a request with an accepted session through.         *)
Authenticated == \E s \in sessions : Accepted(s)

LockForChange(u, right) ==
    /\ up /\ userAt[u] = "idle"
    /\ Authenticated
    /\ LockAndCompare(u, right)

(* Faulty variant: the update does not compare the hash it replaces, and   *)
(* the key is left as it is.                                               *)
CommitHashOnly(u) ==
    /\ up /\ userAt[u] = "locked"
    /\ attempt[u].password # 0
    /\ fresh' = fresh + 2
    /\ hash' = fresh + 1 /\ UNCHANGED keyDb
    /\ UserGoto(u, "committed")
    /\ attempt' = [attempt EXCEPT ![u].password = fresh + 1, ![u].key = keyDb]
    /\ UNCHANGED <<keyRam, keyFaults, overtaken, sessions, locked, throttle, serviceVars>>

(* update_auth_credentials: both rows, if the hash still is the one read.  *)
Commit(u) ==
    /\ up /\ userAt[u] = "locked"
    /\ attempt[u].password # 0 /\ attempt[u].password = hash
    /\ fresh' = fresh + 2
    /\ hash' = fresh + 1 /\ keyDb' = fresh + 2
    /\ UserGoto(u, "committed")
    /\ attempt' = [attempt EXCEPT ![u].password = fresh + 1, ![u].key = fresh + 2]
    /\ UNCHANGED <<keyRam, keyFaults, overtaken, sessions, locked, throttle, serviceVars>>

(* Wrong password, a conflict, or an error of bcrypt or SQLite.            *)
Refuse(u) ==
    /\ up /\ userAt[u] = "locked"
    /\ locked' = NoUser
    /\ Quit(u, "gone")
    /\ UNCHANGED <<keys, sessions, throttle, serviceVars>>

ReplaceKey(u) ==
    /\ up /\ userAt[u] = "committed"
    /\ keyRam' = attempt[u].key
    /\ sessions' = sessions \cup {Signed(attempt[u].key, attempt[u].password)}
    /\ locked' = NoUser
    /\ Quit(u, "gone")
    /\ UNCHANGED <<credentialRows, fresh, keyFaults, overtaken, throttle, serviceVars>>

-----------------------------------------------------------------------------
(* rustblocker --genpass: defaults seeded, hash, read it back, key, read it *)
(* back, restart.                                                          *)

Committed == {u \in Changes : userAt[u] = "committed"}

OpenForReset(u) ==
    /\ userAt[u] = "idle"
    /\ UserGoto(u, "opened")
    /\ UNCHANGED <<keys, sessions, locked, throttle, attempt, serviceVars>>

ResetHash(u) ==
    /\ userAt[u] = "opened"
    /\ fresh' = fresh + 1
    /\ hash' = fresh + 1
    /\ overtaken' = overtaken \cup {keyDb, keyRam}
                               \cup {attempt[v].key : v \in Committed}
    /\ UserGoto(u, "hashed")
    /\ attempt' = [attempt EXCEPT ![u].password = fresh + 1]
    /\ UNCHANGED <<keyDb, keyRam, keyFaults, sessions, locked, throttle, serviceVars>>

ReadBack(u) ==
    /\ userAt[u] = "hashed"
    /\ hash = attempt[u].password
    /\ UserGoto(u, "confirmed")
    /\ UNCHANGED <<keys, sessions, locked, throttle, attempt, serviceVars>>

ResetKey(u) ==
    /\ userAt[u] = "confirmed"
    /\ fresh' = fresh + 1
    /\ keyDb' = fresh + 1
    /\ UserGoto(u, "keyed")
    /\ attempt' = [attempt EXCEPT ![u].key = fresh + 1]
    /\ UNCHANGED <<hash, keyRam, keyFaults, overtaken, sessions, locked, throttle, serviceVars>>

(* An error, a hash or key that reads back differently, or an interrupt.   *)
ResetCut(u) ==
    /\ userAt[u] \in {"opened", "hashed", "confirmed", "keyed"}
    /\ Quit(u, IF userAt[u] = "opened" THEN "gone" ELSE "cut")
    /\ UNCHANGED <<keys, sessions, locked, throttle, serviceVars>>

(* The password is printed, and the service restarted if it is one.        *)
ResetPrints(u) ==
    /\ userAt[u] = "keyed"
    /\ keyDb = attempt[u].key
    /\ Quit(u, "gone")
    /\ UNCHANGED <<keys, sessions, locked, throttle>>
    /\ UNCHANGED up /\ restartDue' \in {restartDue, up}

-----------------------------------------------------------------------------
(* The start takes the key from its row, or makes one if it cannot.        *)

Lives(u) == u \in Resets \/ userAt[u] \in {"idle", "gone"}

CredRestart ==
    /\ \/ keyRam' = keyDb /\ UNCHANGED <<keyDb, fresh, keyFaults>>
       \/ /\ keyFaults > 0 /\ keyFaults' = keyFaults - 1
          /\ fresh' = fresh + 1
          /\ keyRam' = fresh + 1 /\ keyDb' \in {keyDb, fresh + 1}
    /\ locked' = NoUser
    /\ failures' = [c \in Clients |-> 0] /\ old' = {} /\ tracked' = {}
    /\ userAt' = [u \in Users |-> IF Lives(u) THEN userAt[u]
                                  ELSE IF u \in Logins THEN "idle" ELSE "gone"]
    /\ attempt' = [u \in Users |-> IF Lives(u) THEN attempt[u] ELSE NoAttempt]
    /\ UNCHANGED <<hash, sessions, overtaken>>

CredInit ==
    /\ hash = 1 /\ keyDb = 2 /\ keyRam = 2 /\ fresh = 2
    /\ keyFaults \in 0..MaxKeyFaults
    /\ sessions = {} /\ locked = NoUser
    /\ failures = [c \in Clients |-> 0] /\ old = {} /\ tracked = {}
    /\ userAt \in [Users -> {"idle", "gone"}]
    /\ attempt = [u \in Users |-> NoAttempt]
    /\ overtaken = {}

LoginStep(u) ==
    \/ \E c \in From[u] : CheckThrottle(u, c)
    \/ TakeSlot(u)
    \/ \E right \in BOOLEAN : LockForLogin(u, right)
    \/ HashUnreadable(u)
    \/ Verify(u)
    \/ RecordSuccess(u)
    \/ RecordFailure(u)

ChangeStep(u) ==
    \/ \E right \in BOOLEAN : LockForChange(u, right)
    \/ Commit(u)
    \/ Refuse(u)
    \/ ReplaceKey(u)

ResetStep(u) == ResetHash(u) \/ ReadBack(u) \/ ResetKey(u) \/ ResetCut(u) \/ ResetPrints(u)

CredStep ==
    \/ \E u \in Logins : LoginStep(u)
    \/ \E u \in Changes : ChangeStep(u)
    \/ \E u \in Resets : ResetStep(u)
    \/ \E c \in Clients : WindowEnds(c)

(* Other parts of the process change the variables of the service as well. *)
CredNext ==
    \/ CredStep
    \/ \E u \in Resets : OpenForReset(u)
    \/ (\E starts \in BOOLEAN : RestartService(starts)) /\ CredRestart

CredSpec == CredInit /\ [][CredNext]_credVars

-----------------------------------------------------------------------------
(* Properties *)

(* However requests overlap between the check of the throttle and the      *)
(* record of its outcome, the failures counted against a client exceed     *)
(* the limit by less than the logins that run at once, and so does the     *)
(* table of clients its capacity (auth.rs begin, record_failure).          *)
ThrottleBound ==
    /\ \A c \in Clients : failures[c] < MaxFailures + Cardinality(Logins)
    /\ Cardinality(tracked) < MaxTracked + Cardinality(Logins)

(* A session the running process accepts was given for the password that   *)
(* is stored, except while a change is between its commit and the new      *)
(* key, and under a key that a reset has overtaken; and unless a reset is, *)
(* or was left, unfinished, the stored key is none of those, so that the   *)
(* next start ends these sessions too (api.rs change_password, main.rs     *)
(* genpass).                                                               *)
SessionsMatchPassword ==
    /\ \A s \in sessions : Accepted(s) =>
          s.password = hash \/ keyRam \in overtaken \/ Committed # {}
    /\ keyDb \in overtaken =>
          \E u \in Resets : userAt[u] \in {"hashed", "confirmed", "cut"}

(* What makes them inductive. *)

Working == {u \in Logins : attempt[u].client # NoClient}
InFlight(c) == {u \in Working : attempt[u].client = c}
Unrecorded == {attempt[u].client : u \in Working}

ThrottleInvariant ==
    /\ \A u \in Logins :
          userAt[u] \in {"checked", "slot", "locked", "verified"} <=> u \in Working
    /\ \A c \in Clients : failures[c] + Cardinality(InFlight(c))
                                < MaxFailures + Cardinality(Logins)
    /\ \A c \in Clients \ tracked : failures[c] = 0
    /\ Cardinality(tracked \cup Unrecorded) < MaxTracked + Cardinality(Logins)

HandedOut == {keyDb, keyRam} \cup overtaken \cup {s.key : s \in sessions}
                \cup {attempt[u].key : u \in Committed}

KeyInvariant ==
    /\ \A k \in HandedOut : k <= fresh
    /\ \A u \in Committed :
          /\ locked = u
          /\ (attempt[u].password = hash \/ attempt[u].key \in overtaken)
          /\ \A s \in sessions : s.key # attempt[u].key
    /\ \A s \in sessions : s.key = keyDb => s.password = hash \/ keyDb \in overtaken
    /\ \A u \in Users : userAt[u] = "locked" =>
          /\ locked = u /\ u \notin Resets
          /\ (attempt[u].password \in {0, hash} \/ keyRam \in overtaken)

CredInvariant ==
    CredTypeOK /\ ThrottleInvariant /\ KeyInvariant /\ SessionsMatchPassword
=============================================================================
