------------------------------ MODULE SelfUpdate -------------------------------
(***************************************************************************)
(* The binary replaces itself by the newest stable release and schedules a *)
(* restart.  The feed and the download are external; a release is a        *)
(* number.                                                                 *)
(***************************************************************************)
EXTENDS Service, Naturals

CONSTANTS
    Updates,   \* requests to apply an update
    Releases   \* versions, as numbers

ASSUME UpdateAssumption == Releases \subseteq Nat

VARIABLES
    released,   \* newest stable release
    installed,  \* the binary on disk
    executing,  \* the one that runs
    updateAt    \* control state of each request

updateVars == <<released, installed, executing, updateAt>>

UpdateTypeOK ==
    /\ {released, installed, executing} \subseteq Releases
    /\ updateAt \in [Updates -> {"idle", "replaced", "gone"}]

(* update_from_feed: of the stable entries the newest, if it is newer than *)
(* what runs.                                                              *)
UpdateAvailable == released > executing

ReplaceBinary(u) ==
    /\ up /\ updateAt[u] = "idle"
    /\ UpdateAvailable
    /\ installed' = released
    /\ updateAt' = [updateAt EXCEPT ![u] = "replaced"]
    /\ UNCHANGED <<released, executing, serviceVars>>

AnnounceUpdate(u) ==
    /\ up /\ updateAt[u] = "replaced"
    /\ updateAt' = [updateAt EXCEPT ![u] = "gone"]
    /\ ScheduleRestart
    /\ UNCHANGED <<released, installed, executing>>

UpdateRestart ==
    /\ executing' = installed
    /\ updateAt' = [u \in Updates |-> IF updateAt[u] = "idle" THEN "idle" ELSE "gone"]
    /\ UNCHANGED <<released, installed>>

UpdateInit ==
    /\ released \in Releases /\ installed \in Releases /\ executing = installed
    /\ updateAt \in [Updates -> {"idle", "gone"}]

UpdateStep == \E u \in Updates : ReplaceBinary(u) \/ AnnounceUpdate(u)
=============================================================================
