-------------------------------- MODULE Service --------------------------------
(***************************************************************************)
(* The process as its components see it: it runs or it does not, and a     *)
(* timer that ends it may be set.  Nothing in the process survives its     *)
(* end; the supervisor starts it anew.                                     *)
(***************************************************************************)

VARIABLES
    up,          \* the process runs
    restartDue   \* a timer of schedule_restart is set

serviceVars == <<up, restartDue>>

ServiceTypeOK == up \in BOOLEAN /\ restartDue \in BOOLEAN

ServiceInit == up = TRUE /\ restartDue = FALSE

ScheduleRestart == restartDue' = TRUE /\ up' = up

(* process::exit, and a start that succeeds or not; timers are gone.       *)
RestartService(starts) ==
    /\ up
    /\ up' = starts
    /\ restartDue' = FALSE
=============================================================================
