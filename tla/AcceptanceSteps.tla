---------------------------- MODULE AcceptanceSteps ----------------------------
(***************************************************************************)
(* The steps of mock-deploy, one definition per function of the code, for  *)
(* a standalone server whose upstream strategy is the adaptive one and for *)
(* a replica with another one.  sqlite3 is on the target or can be         *)
(* installed.  Steps that are switched on by the environment are on.       *)
(* Measurements are requests with an answer that is wanted or not.         *)
(***************************************************************************)
EXTENDS AcceptanceRun

Call(where, puts, undoes, wrong, none) ==
    [where |-> where, puts |-> puts, undoes |-> undoes, teaches |-> puts,
     guard |-> {}, finds |-> {}, wrong |-> wrong, none |-> none]

Look(where, wrong, none) == Call(where, {}, {}, wrong, none)
Put(where, x, wrong, none) == Call(where, {x}, {}, wrong, none)
Undo(where, x, wrong, none) == Call(where, {}, {x}, wrong, none)
UndoKnown(x, wrong, none) == [Undo("api", x, wrong, none) EXCEPT !.guard = {x}]
Learn(x, wrong, none) == [Look("api", wrong, none) EXCEPT !.teaches = {x}]
Audit(things, none) == [Look("api", "fail", none) EXCEPT !.finds = things]
Restart(reaction) == Call("host", {}, Volatile, reaction, reaction)

StepOf(calls) == [run |-> calls, close |-> <<>>]
Closing(calls, closing) == [run |-> calls, close |-> closing]

-----------------------------------------------------------------------------
(* core.rs *)

detect_target == StepOf(<<Look("host", "abort", "abort")>>)
build == StepOf(<<Look("host", "abort", "abort")>>)

suspend_slave_mode(t) == StepOf(
    IF t = "standalone" THEN <<Look("host", "abort", "abort")>>
    ELSE <<Look("host", "abort", "abort"),
           Put("host", SlaveMode, "abort", "abort"),
           Restart("abort")>>)

(* Stop and start hide the outcome of the command (|| true).               *)
deploy == StepOf(<<
    Put("host", Stopped, "go on", "fail"),
    Put("host", "upload", "abort", "abort"),
    Undo("host", "upload", "abort", "abort"),
    Look("host", "abort", "abort"),
    Undo("host", Stopped, "go on", "abort"),
    Look("api", "fail", "fail")>>)

login == StepOf(<<Look("api", "fail", "abort")>>)

auth_login_throttle == StepOf(<<
    Look("api", "fail", "abort"),
    Put("api", "login lockout", "fail", "abort"),
    Look("api", "fail", "abort"),
    Restart("abort"),
    Look("api", "fail", "abort")>>)

(* An error with a JSON body passes for settings, with defaults for what   *)
(* it does not tell.                                                       *)
settings == StepOf(<<Learn("settings", "go on", "abort")>>)

acl_validation == StepOf(<<Look("api", "fail", "abort")>>)
resource_baseline == StepOf(<<Look("host", "fail", "fail")>>)

(* The strategy is set twice; the second is the original one, or a third   *)
(* request restores it and nobody looks at its answer.                     *)
Strategy(t, probe) ==
    LET strategy == "forward strategy" IN
    IF t = "standalone"
    THEN <<Put("api", strategy, "fail", "abort"), probe,
           Undo("api", strategy, "fail", "abort"), probe>>
    ELSE <<Put("api", strategy, "fail", "abort"), probe,
           Put("api", strategy, "fail", "abort"), probe,
           [Undo("api", strategy, "go on", "go on") EXCEPT !.guard = {"settings"}]>>

forward_strategy(t) == StepOf(Strategy(t, Look("api", "fail", "abort")))
forward_strategy_dns(t) == StepOf(Strategy(t, Look("api", "fail", "fail")))

adaptive_hedge_delay == StepOf(<<
    Put("api", "hedge delay", "fail", "abort"),
    Look("api", "fail", "abort"),
    [Undo("api", "hedge delay", "fail", "abort") EXCEPT !.guard = {"settings"}],
    Look("api", "fail", "abort")>>)

chaos_class_refusal == StepOf(<<Look("api", "fail", "fail")>>)
version == StepOf(<<Look("api", "fail", "abort")>>)
db_api == StepOf(<<Look("api", "fail", "abort")>>)
stats_concurrency == StepOf(<<Look("api", "fail", "fail")>>)

-----------------------------------------------------------------------------
(* api_smoke.rs: nothing here ends the run. *)

Fails(where) == Look(where, "fail", "fail")
Needs(where) == Look(where, "return", "return")
Sets(where, x) == Put(where, x, "fail", "fail")
Needed(where, x) == Put(where, x, "return", "return")
Checked(where, x) == Undo(where, x, "fail", "fail")
CheckedId(x) == UndoKnown(x, "fail", "fail")
Ignored(where, x) == Undo(where, x, "go on", "go on")
IgnoredId(x) == UndoKnown(x, "go on", "go on")

password_generation == StepOf(<<
    Needs("host"), Needed("host", "genpass scratch"), Fails("host"),
    Checked("host", "genpass scratch")>>)

(* The mode that was set is never read: NXDOMAIN, null_ip, and null_ip     *)
(* once more as what is "restored", so none of the three undoes anything.  *)
block_response_modes == StepOf(<<
    Needed("insert", "block entry"),
    Sets("insert", "response mode"),
    Sets("insert", "response mode"),
    CheckedId("block entry"),
    Sets("insert", "response mode")>>)

persistence_failure_guards == Closing(
    <<Needs("host"), Needed("insert", "sentinel"),
      Put("host", Triggers, "close", "close"), Fails("api"),
      Checked("host", Triggers)>>,
    <<IgnoredId("sentinel")>>)

bulk_import_failure_rollback == StepOf(<<
    Needs("host"), Needed("host", "bulk trigger"), Fails("api"),
    Checked("host", "bulk trigger"), Fails("api")>>)

startup_policy_read_failure == StepOf(<<
    Needs("host"), Needed("host", "startup scratch"), Fails("host"),
    Checked("host", "startup scratch")>>)

(* The service itself prunes the rows.                                     *)
query_log_prune == StepOf(<<
    Needs("host"), Needed("host", "expired rows"), Checked("api", "expired rows")>>)

allowlist_delete == StepOf(<<Sets("insert", "allow entry"), CheckedId("allow entry")>>)

allowlist_stats == StepOf(<<
    Learn("counter", "fail", "fail"),
    Sets("insert", "stats entry"), Fails("api"),
    [IgnoredId("stats entry") EXCEPT !.guard = {"stats entry", "counter"}]>>)

upstream_protocol_fidelity == StepOf(<<Fails("api")>>)

configured_upstream_port == Closing(
    <<Needs("api"), Needed("host", "proof resolver"),
      Look("host", "close", "close"),
      Put("api", "upstream rows", "go on", "go on"),
      Sets("insert", "proof upstream"), Fails("api")>>,
    <<IgnoredId("proof upstream"), Ignored("insert", "upstream rows"),
      Ignored("host", "proof resolver")>>)

update_detection == StepOf(<<Fails("api")>>)
db_concurrency == StepOf(<<Needs("api"), Fails("api")>>)

list_mutation_serialization == StepOf(<<
    Needed("host", "race file"), Sets("api", "race source"), Sets("insert", "race entry"),
    Fails("api"), CheckedId("race source"), CheckedId("race entry"),
    Ignored("host", "race file")>>)

import_hot_reload == StepOf(<<
    Sets("insert", "imported entries"), Fails("api"), Checked("api", "imported entries")>>)

dns_rewrite == StepOf(<<
    Sets("insert", "rewrite"), Fails("api"), CheckedId("rewrite")>>)

dns_wildcard == StepOf(<<
    Sets("insert", "wildcard entry"), Fails("api"), CheckedId("wildcard entry")>>)

check_resource_snapshot == StepOf(<<Fails("host")>>)

(* Lists that cannot be read count as not empty, rewrites as none.         *)
dns_burst == StepOf(<<
    Sets("insert", "burst entries"), Sets("insert", "burst rewrite"), Fails("api"),
    Checked("api", "burst entries"), IgnoredId("burst rewrite"),
    Audit({"burst entries"}, "fail"), Audit({"burst rewrite"}, "go on")>>)

hot_reload_under_load == StepOf(<<
    Sets("insert", "hot entry"), Fails("api"), CheckedId("hot entry")>>)

(* Read after a failed removal only; a reading after a good one changes no *)
(* verdict for the better.                                                 *)
import_memory_loop == StepOf(<<
    Sets("insert", "memory entries"), Ignored("api", "memory entries"),
    Audit({"memory entries"}, "fail"), Fails("host")>>)

(* Names that carry the tag of the run.                                    *)
cleanup_audit == StepOf(<<
    Audit({"block entry", "sentinel", "race source", "race entry", "burst entries",
           "hot entry", "memory entries"}, "fail"),
    Audit({"burst rewrite"}, "go on")>>)

-----------------------------------------------------------------------------
(* baselines.rs.  A removal by sqlite3 takes the rows of the list, not     *)
(* those that say they were entered by hand, and restarts the service.     *)

Imported(x, none) == Call("insert", {x, "manual rows"}, {}, "close", none)
BySqlite(x, reaction) == Call("host", {}, {x} \cup Volatile, reaction, reaction)

BaselineRun == StepOf(<<Look("api", "abort", "abort")>>)

run_domainstore == Closing(
    <<Look("host", "close", "close"), Imported("store entries", "close"),
      Look("api", "close", "abort"), Fails("api")>>,
    <<[BySqlite("store entries", "return") EXCEPT !.guard = {"store entries"}],
      [Audit({"store entries"}, "abort") EXCEPT !.guard = {"store entries"}]>>)

run_resolver_cache == StepOf(<<Fails("api")>>)

run_sticky == Closing(
    <<Put("host", "sticky files", "close", "close"), Look("host", "close", "close"),
      Put("api", "sticky source", "close", "abort"), Look("api", "close", "close"),
      Put("api", "error source", "fail", "abort"), IgnoredId("error source"),
      Look("api", "close", "abort"),
      Look("api", "fail", "abort"), Restart("go on"), Look("api", "go on", "abort")>>,
    <<IgnoredId("sticky source"), Restart("go on"), Ignored("host", "sticky files")>>)

run_remove_compact == Closing(
    <<Look("host", "close", "close"), Imported("compact entries", "abort"),
      Look("api", "close", "close"), Look("api", "close", "abort"),
      Put("insert", "churn entry", "close", "abort"),
      UndoKnown("churn entry", "fail", "abort"),
      Audit({"churn entry"}, "fail")>>,
    <<BySqlite("compact entries", "go on"), BySqlite("churn entry", "go on")>>)

run_sync_apply == Closing(
    <<Imported("master entries", "abort"), Put("host", "slave process", "close", "close"),
      Look("api", "close", "close"), Look("api", "close", "abort"), Fails("api")>>,
    <<BySqlite("master entries", "go on"), Ignored("host", "slave process")>>)

-----------------------------------------------------------------------------
(* stress_https.rs *)

dns_concurrency_stress == Closing(
    <<Put("host", "side process", "close", "close"), Look("host", "close", "close"),
      Fails("host")>>,
    <<Ignored("host", "side process")>>)

blocklist_stress == Closing(
    <<Look("host", "close", "close"), Imported("stress entries", "close"),
      Look("api", "close", "abort"), Look("host", "close", "close")>>,
    <<[BySqlite("stress entries", "return") EXCEPT !.guard = {"stress entries"}],
      [Audit({"stress entries"}, "abort") EXCEPT !.guard = {"stress entries"}]>>)

(* What it configures and orders is there to stay.                         *)
cloudflare_https == StepOf(<<
    Put("api", "https settings", "fail", "abort"), Look("api", "fail", "abort"),
    Put("api", "certificate", "fail", "abort"), Fails("api")>>)

auth_password_roundtrip == StepOf(<<
    Look("api", "fail", "abort"),
    Put("insert", "password", "fail", "abort"), Look("api", "fail", "abort"),
    Undo("insert", "password", "fail", "abort"), Audit({"password"}, "abort"),
    Look("api", "fail", "abort")>>)

dns_flood_capacity == StepOf(<<Fails("host")>>)

-----------------------------------------------------------------------------
Smoke == <<
    password_generation, block_response_modes, persistence_failure_guards,
    bulk_import_failure_rollback, startup_policy_read_failure, query_log_prune,
    allowlist_delete, allowlist_stats, upstream_protocol_fidelity,
    configured_upstream_port, update_detection, db_concurrency,
    list_mutation_serialization, import_hot_reload, dns_rewrite, dns_wildcard,
    check_resource_snapshot, dns_burst, hot_reload_under_load, import_memory_loop,
    cleanup_audit, check_resource_snapshot>>

Baselines == <<
    BaselineRun, run_domainstore, run_resolver_cache, run_sticky, run_remove_compact,
    run_sync_apply>>

StressHttps == <<
    dns_concurrency_stress, blocklist_stress, cloudflare_https, auth_password_roundtrip,
    dns_flood_capacity>>

Core(t) == <<
    detect_target, build, suspend_slave_mode(t), deploy, login, auth_login_throttle,
    settings, acl_validation, resource_baseline, forward_strategy(t), adaptive_hedge_delay,
    forward_strategy_dns(t), chaos_class_refusal, version, db_api, stats_concurrency>>

ScriptDef == [t \in {"standalone", "replica"} |-> Core(t) \o Smoke \o Baselines \o StressHttps]

-----------------------------------------------------------------------------
(* Things nobody checks, or that are there to stay: a run may leave them   *)
(* and end with exit code 0, the response mode after every run against a   *)
(* server that answered NXDOMAIN, which is the default.                    *)
Unchecked ==
    {"stats entry", "proof upstream", "upstream rows", "proof resolver", "race file",
     "sticky files", "sticky source", "error source", "compact entries", "master entries",
     "slave process", "side process", "manual rows", "response mode", "https settings",
     "certificate"}

(* Things put back as the settings said, if they could be read.            *)
PutBackAsRead ==
    IF "settings" \notin known THEN {"hedge delay", "forward strategy"}
    ELSE IF target = "replica" THEN {"forward strategy"} ELSE {}

(* All others are watched; the rewrite of the burst only as far as three   *)
(* calls that look for it do not all fail.                                 *)
ASSUME StepsAreWatched ==
    \A t \in Targets, x \in Things \ (Unchecked \cup {SlaveMode}) :
        \/ Watched(t, x, {})
        \/ x = "hedge delay" /\ Watched(t, x, {"settings"})
        \/ x = "forward strategy" /\ t = "replica"

(* Exit code 0 speaks true: the service runs, in the mode and with the     *)
(* password it had, no trigger fails its writes, and of what the run       *)
(* changed nothing is left but what the code nowhere checks or means to    *)
(* stay; with up to MaxFaults calls failing anywhere (core.rs mock_deploy, *)
(* api_smoke.rs cleanup_audit).                                            *)
ExitZeroIsClean == Ended /\ ExitCode = 0 => left \subseteq Unchecked \cup PutBackAsRead
=============================================================================
