----------------------------- MODULE AcceptanceRun -----------------------------
(***************************************************************************)
(* cargo xtask mock-deploy: a tester runs steps against an installed       *)
(* server, by HTTP and by ssh, and puts back what it changed.  A step is a *)
(* sequence of calls; what becomes of a call that fails is written at each *)
(* of them.  Whatever the run returns, a slave mode it suspended is        *)
(* restored at the end, and the exit code sums up.                         *)
(*                                                                         *)
(* A call is a record:                                                     *)
(*   where    "host" needs a shell, "api" the running service as well, and *)
(*            "insert" inserts rows that the failing triggers refuse       *)
(*   puts     things it makes different from what they were                *)
(*   undoes   things it puts back                                          *)
(*   teaches  what its answer tells (an id, that a thing is to be undone)  *)
(*   guard    the call is made only if these are known                     *)
(*   finds    leftovers that make the answer one that is not wanted        *)
(*   wrong    reaction to an answer that is not the wanted one             *)
(*   none     reaction to no usable answer: it had its effect or had not   *)
(* A reaction goes on, notes a failure and goes on ("fail"), at the        *)
(* closing calls of the step ("close") or the next step ("return"), or     *)
(* ends the run ("abort", the ? of the code).  Requests of a kind in a row *)
(* are one call, repetitions of a step one step.                           *)
(***************************************************************************)
EXTENDS Naturals, Sequences, FiniteSets

CONSTANTS
    Targets,     \* the servers a run may meet
    Script,      \* for each, the steps: [run, close], sequences of calls
    MaxFaults    \* bound: calls that fail in one run

Reactions == {"go on", "fail", "close", "return", "abort"}
SlaveMode == "slave mode"
Stopped == "service stopped"
Triggers == "failing triggers"

CallType ==
    [where : {"host", "api", "insert"}, puts : SUBSET STRING, undoes : SUBSET STRING,
     teaches : SUBSET STRING, guard : SUBSET STRING, finds : SUBSET STRING,
     wrong : Reactions, none : Reactions]

(* A call that suspends the slave mode tells so, or ends the run.          *)
Careful(c) == SlaveMode \in c.puts => SlaveMode \in c.teaches /\ c.none = "abort"

CarefulCalls == {c \in CallType : Careful(c)}

ASSUME ScriptAssumption ==
    \A t \in Targets : Script[t] \in Seq([run : Seq(CarefulCalls), close : Seq(CarefulCalls)])

ASSUME FaultsAssumption == MaxFaults \in Nat

(* What a start of the service clears.                                     *)
Volatile == {Stopped, "login lockout"}

(* restore_slave_mode: an update, then a restart.                          *)
Restoration ==
    LET call == [where |-> "host", puts |-> {}, undoes |-> {SlaveMode}, teaches |-> {},
                 guard |-> {SlaveMode}, finds |-> {}, wrong |-> "abort", none |-> "abort"]
    IN  [run |-> <<call, [call EXCEPT !.undoes = Volatile]>>, close |-> <<>>]

VARIABLES
    target,   \* the server of this run
    at,       \* the step, and the call within it
    left,     \* things that are different from what they were
    known,    \* what answers told
    failed,   \* Runner.failed
    broken,   \* which of run and restore_slave_mode returned an error
    faults    \* calls that failed without a cause in the state

runVars == <<target, at, left, known, failed, broken, faults>>

AllSteps == [t \in Targets |-> Append(Script[t], Restoration)]
Steps == AllSteps[target]
Restoring == Len(Steps)
Ended == at[1] > Restoring
Step == Steps[at[1]]
Calls == Step.run \o Step.close
Current == Calls[at[2]]
Made == Current.guard \subseteq known

(* What the scripts mention.                                               *)
Mentioned(c) == c.puts \cup c.undoes \cup c.teaches \cup c.guard \cup c.finds
CallsOf(step) ==
    {step.run[j] : j \in DOMAIN step.run} \cup {step.close[j] : j \in DOMAIN step.close}
ThingsOf(step) == UNION {Mentioned(c) : c \in CallsOf(step)}
Things == {SlaveMode} \cup Volatile \cup
    UNION {UNION {ThingsOf(Script[t][i]) : i \in DOMAIN Script[t]} : t \in Targets}

AcceptanceTypeOK ==
    /\ target \in Targets
    /\ at \in (1..Restoring + 1) \X (Nat \ {0})
    /\ ~Ended => at[2] <= Len(Calls) + 1
    /\ left \subseteq Things /\ known \subseteq Things
    /\ failed \in BOOLEAN
    /\ broken \subseteq {"run", "restore"}
    /\ faults \in 0..MaxFaults

-----------------------------------------------------------------------------
(* Faulty variant: the slave mode is restored after a good run only.       *)
AfterAbortNoRestore == <<Restoring + 1, 1>>

(* Whatever ends the run, the restoration is next, and nothing after it.   *)
AfterAbort == IF at[1] < Restoring THEN <<Restoring, 1>> ELSE <<Restoring + 1, 1>>

(* Faulty variant: the closing calls are passed over, by one too many.     *)
AfterLate(reaction) ==
    IF reaction = "abort" THEN AfterAbort
    ELSE IF reaction = "return" THEN <<at[1] + 1, 1>>
    ELSE IF reaction = "close" /\ at[2] <= Len(Step.run) THEN <<at[1], Len(Calls) + 2>>
    ELSE <<at[1], at[2] + 1>>

After(reaction) ==
    IF reaction = "abort" THEN AfterAbort
    ELSE IF reaction = "return" THEN <<at[1] + 1, 1>>
    ELSE IF reaction = "close" /\ at[2] <= Len(Step.run) THEN <<at[1], Len(Step.run) + 1>>
    ELSE <<at[1], at[2] + 1>>

(* Faulty variant: a step that breaks off is skipped and not failed.       *)
ReactSkipping(reaction) ==
    /\ at' = After(reaction)
    /\ failed' = (failed \/ reaction = "fail" \/ (reaction = "abort" /\ at[1] = Restoring))
    /\ broken' = IF reaction # "abort" THEN broken
                 ELSE broken \cup {IF at[1] = Restoring THEN "restore" ELSE "run"}
    /\ UNCHANGED target

React(reaction) ==
    /\ at' = After(reaction)
    /\ failed' = (failed \/ reaction \in {"fail", "close", "return"}
                         \/ (reaction = "abort" /\ at[1] = Restoring))
    /\ broken' = IF reaction # "abort" THEN broken
                 ELSE broken \cup {IF at[1] = Restoring THEN "restore" ELSE "run"}
    /\ UNCHANGED target

Calling == ~Ended /\ at[2] <= Len(Calls) /\ Made

Unreachable == Current.where # "host" /\ Stopped \in left
Refused ==
    \/ Current.where = "insert" /\ Triggers \in left
    \/ Current.finds \cap left # {}

Effect == (left \cup Current.puts) \ Current.undoes

(* The last call of a good restoration forgets that there is one to do.    *)
Told ==
    IF at = <<Restoring, Len(Calls)>> THEN known \ {SlaveMode} ELSE known \cup Current.teaches

Succeed ==
    /\ Calling
    /\ ~Unreachable /\ ~Refused
    /\ left' = Effect /\ known' = Told
    /\ React("go on")
    /\ UNCHANGED faults

(* A fault is counted unless the state leaves no other outcome.            *)
Fault(caused) ==
    /\ caused \/ faults < MaxFaults
    /\ faults' = IF caused THEN faults ELSE faults + 1

WrongAnswer ==
    /\ Calling
    /\ ~Unreachable /\ Fault(Refused)
    /\ React(Current.wrong)
    /\ UNCHANGED <<left, known>>

NoAnswer ==
    /\ Calling
    /\ Fault(Unreachable)
    /\ left' \in IF Unreachable \/ Refused THEN {left} ELSE {left, Effect}
    /\ React(Current.none)
    /\ UNCHANGED known

PassOver ==
    /\ ~Ended /\ at[2] <= Len(Calls) /\ ~Made
    /\ at' = <<at[1], at[2] + 1>>
    /\ UNCHANGED <<target, left, known, failed, broken, faults>>

NextStep ==
    /\ ~Ended /\ at[2] > Len(Calls)
    /\ at' = <<at[1] + 1, 1>>
    /\ UNCHANGED <<target, left, known, failed, broken, faults>>

AcceptanceInit ==
    /\ target \in Targets
    /\ at = <<1, 1>>
    /\ left = {} /\ known = {}
    /\ failed = FALSE /\ broken = {}
    /\ faults = 0

AcceptanceNext == Succeed \/ WrongAnswer \/ NoAnswer \/ PassOver \/ NextStep

AcceptanceSpec == AcceptanceInit /\ [][AcceptanceNext]_runVars

(* A summary with a failure and an error returned both make it 1.          *)
ExitCode == IF failed \/ broken # {} THEN 1 ELSE 0

-----------------------------------------------------------------------------
(* Properties *)

(* A replica whose slave mode the run suspended is a replica again when    *)
(* the run has ended, wherever it broke off; unless a call of the          *)
(* restoration itself failed, or the answer to the suspension was lost, so *)
(* that the run does not know of it.  Then the exit code tells (core.rs    *)
(* mock_deploy, suspend_slave_mode, restore_slave_mode).                   *)
SlaveModeComesBack ==
    Ended /\ SlaveMode \in left =>
        /\ ExitCode = 1
        /\ "restore" \in broken \/ ("run" \in broken /\ SlaveMode \notin known)

-----------------------------------------------------------------------------
(* What the text of a script says of a thing x that a run changes: can x   *)
(* be left at an end with exit code 0?                                     *)

CallsIn(t, i) == AllSteps[t][i].run \o AllSteps[t][i].close
Places(t) == UNION {{i} \X DOMAIN CallsIn(t, i) : i \in DOMAIN AllSteps[t]}
CallAt(t, p) == CallsIn(t, p[1])[p[2]]
EndOf(t) == <<Len(AllSteps[t]) + 1, 1>>
Before(p, q) == p[1] < q[1] \/ (p[1] = q[1] /\ p[2] < q[2])
Between(t, p, q) == {r \in Places(t) : Before(p, r) /\ Before(r, q)}

(* Every call that makes x different tells so, or stops going on.          *)
Traced(t, x) ==
    \A p \in Places(t) :
        x \in CallAt(t, p).puts => x \in CallAt(t, p).teaches /\ CallAt(t, p).none # "go on"

(* If this call succeeds, x is not left.                                   *)
Clears(c, x) ==
    \/ x \in c.undoes
    \/ x \notin c.puts /\ \/ x \in c.finds
                          \/ x = Triggers /\ c.where = "insert"
                          \/ x = Stopped /\ c.where # "host"

(* A run that knows what is given does not get past q with x left, or a    *)
(* failure is noted.                                                       *)
Settles(t, q, x, given) ==
    LET c == CallAt(t, q) IN
    /\ Clears(c, x)
    /\ c.guard \subseteq {x} \cup given
    /\ \A r \in Places(t) : given \cap CallAt(t, r).teaches # {} => Before(r, q)
    /\ c.none # "go on"
    /\ c.wrong # "go on" \/ (x = Stopped /\ c.where # "host")

(* The service runs at q, or a failure has been noted.                     *)
Serving(t, q) ==
    /\ Traced(t, Stopped)
    /\ \A p \in Places(t) : Stopped \in CallAt(t, p).puts /\ Before(p, q) =>
           \E r \in Between(t, p, q) : Settles(t, r, Stopped, {})

(* A run does not get past q with x left, or a failure is noted, or q has  *)
(* failed without a cause in the state.                                    *)
Hinders(t, q, x) ==
    LET c == CallAt(t, q) IN
    /\ Clears(c, x)
    /\ c.guard \subseteq {x}
    /\ c.none # "go on" \/ c.where = "host" \/ Serving(t, q)
    /\ c.wrong # "go on" \/ (c.where # "insert" /\ c.finds = {})

Watched(t, x, given) ==
    /\ Traced(t, x)
    /\ \A p \in Places(t) : x \in CallAt(t, p).puts =>
           \/ \E q \in Between(t, p, EndOf(t)) : Settles(t, q, x, given)
           \/ Cardinality({q \in Between(t, p, EndOf(t)) : Hinders(t, q, x)}) > MaxFaults
=============================================================================
