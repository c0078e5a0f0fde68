----------------------------- MODULE RunningConfig -----------------------------
(***************************************************************************)
(* Rewrites, upstreams and settings: rows in SQLite, and the copies the    *)
(* running process answers from.  A request (api.rs) or the replica's task *)
(* (sync.rs) commits its rows and then changes the running copy; no lock   *)
(* spans the two.  A reload of the forwarder reads the table and the       *)
(* settings of the forwarder, and installs them later.                     *)
(*                                                                         *)
(* A process of this module is one request, or one category the replica    *)
(* applies.  A request that the access list, validation or the database     *)
(* refuses changes nothing and is no step.  The reading of a reload is one *)
(* step: no property relates two settings or a setting and the upstreams.  *)
(* Spelling of names (lower case, final dot) is the same in both places    *)
(* and left out.                                                           *)
(***************************************************************************)
EXTENDS Service

CONSTANTS
    Editors,      \* requests that add, delete or update something
    Mirrors,      \* categories the replica's task applies
    Names,        \* names with a rewrite rule
    Rules,        \* addresses of a rule
    NoRule,
    Upstreams,    \* rows of the upstreams table
    Unparsable,   \* those whose address is no IP address
    SeedUpstream, \* the row seed_defaults inserts into an empty table
    Keys,         \* settings
    Values,       \* values a setting's parser takes
    Default,      \* the one used for a value it does not take
    Malformed,    \* a value the parser refuses
    Unbindable,   \* listen settings that parse and cannot be bound
    DbMayFail     \* TRUE: reads and writes may fail

Validated == {"forward_strategy", "block_response_mode", "allowed_networks",
              "adaptive_hedge_delay_ms", "listen_address", "listen_port"}
NeedsRestart == {"listen_address", "listen_port"}
OfForwarder == {"forward_strategy", "adaptive_hedge_delay_ms", "upstream_timeout_secs"}
NodeLocal == NeedsRestart \cup {"allowed_networks"}
KnownKeys == Validated \cup OfForwarder
                \cup {"sinkhole_ipv4", "sinkhole_ipv6", "stats_retention_days"}

ASSUME ConfigAssumption ==
    /\ Keys \subseteq KnownKeys
    /\ NoRule \notin Rules
    /\ Unparsable \subseteq Upstreams
    /\ SeedUpstream \in Upstreams \ Unparsable
    /\ Default \in Values \ Unbindable
    /\ Malformed \notin Values
    /\ Unbindable \subseteq Values
    /\ DbMayFail \in BOOLEAN
    /\ Editors \cap Mirrors = {}
    /\ "upstreams" \notin Names /\ Keys \cap Names = {}

Changers == Editors \cup Mirrors
ForwarderKeys == Keys \cap OfForwarder
Copies == Names \cup {"upstreams"} \cup Keys

VARIABLES
    rulesDb, rulesRam,  \* table rewrites, RewriteMap
    rowsDb, rowsRam,    \* table upstreams, clients of the forwarder
    setDb, setRam,      \* table settings, the running values
    stage,              \* control state of each process
    change,             \* what it is about to install
    apart               \* history: copies that, since the start, an overlap, a
                        \* value without effect or a failed reading may have
                        \* left different from their rows

configStored == <<rulesDb, rowsDb, setDb>>
configRunning == <<rulesRam, rowsRam, setRam>>
configVars == <<configStored, configRunning, stage, change, apart>>

NoChange == [copies |-> {}, rules |-> [n \in Names |-> NoRule], rows |-> {},
             values |-> [k \in Keys |-> Default]]

Loaded(k) == IF setDb[k] \in Values THEN setDb[k] ELSE Default

ConfigTypeOK ==
    /\ rulesDb \in [Names -> Rules \cup {NoRule}]
    /\ rulesRam \in [Names -> Rules \cup {NoRule}]
    /\ rowsDb \in SUBSET Upstreams /\ rowsRam \in SUBSET (Upstreams \ Unparsable)
    /\ setDb \in [Keys -> Values \cup {Malformed}] /\ setRam \in [Keys -> Values]
    /\ stage \in [Changers -> {"idle", "written", "reload", "read", "gone"}]
    /\ change \in [Changers -> [copies : SUBSET Copies,
                                rules : [Names -> Rules \cup {NoRule}],
                                rows : SUBSET Upstreams,
                                values : [Keys -> Values \cup {Malformed}]]]
    /\ apart \in SUBSET Copies

(* A process holds a copy from its own commit, or from its reading, to the *)
(* moment it installs what it holds.                                       *)
Holds(p, c) ==
    \/ stage[p] \in {"written", "reload"} /\ c \in change[p].copies
    \/ stage[p] = "read" /\ c \in {"upstreams"} \cup ForwarderKeys

(* Copies that p writes to while another process holds them.               *)
Overlapped(p, cs) == {c \in cs : \E q \in Changers \ {p} : Holds(q, c)}

-----------------------------------------------------------------------------
(* Requests: rewrites. *)

Goto(p, state) == stage' = [stage EXCEPT ![p] = state]

Finish(p) == Goto(p, "gone") /\ change' = [change EXCEPT ![p] = NoChange]

(* INSERT OR IGNORE: a known name keeps its row, and the running map is    *)
(* going to be overwritten.                                                *)
AddRewrite(p, n, r) ==
    /\ up /\ stage[p] = "idle"
    /\ rulesDb' = IF rulesDb[n] = NoRule THEN [rulesDb EXCEPT ![n] = r] ELSE rulesDb
    /\ apart' = apart \cup Overlapped(p, {n})
                      \cup (IF rulesDb[n] \in {NoRule, r} THEN {} ELSE {n})
    /\ change' = [change EXCEPT ![p] = [NoChange EXCEPT !.copies = {n}, !.rules[n] = r]]
    /\ Goto(p, "written")
    /\ UNCHANGED <<rowsDb, setDb, configRunning, serviceVars>>

DeleteRewrite(p, n) ==
    /\ up /\ stage[p] = "idle"
    /\ rulesDb[n] # NoRule
    /\ rulesDb' = [rulesDb EXCEPT ![n] = NoRule]
    /\ apart' = apart \cup Overlapped(p, {n})
    /\ change' = [change EXCEPT ![p] = [NoChange EXCEPT !.copies = {n}]]
    /\ Goto(p, "written")
    /\ UNCHANGED <<rowsDb, setDb, configRunning, serviceVars>>

InstallRules(p) ==
    /\ up /\ stage[p] = "written"
    /\ change[p].copies \cap Names # {}
    /\ rulesRam' = [n \in Names |-> IF n \in change[p].copies THEN change[p].rules[n]
                                                           ELSE rulesRam[n]]
    /\ Finish(p)
    /\ UNCHANGED <<configStored, rowsRam, setRam, serviceVars, apart>>

-----------------------------------------------------------------------------
(* Requests: upstreams, and the reload of the forwarder. *)

ChangeUpstreams(p, rows) ==
    /\ up /\ stage[p] = "idle"
    /\ rowsDb' = rows
    /\ apart' = apart \cup Overlapped(p, {"upstreams"})
    /\ Goto(p, "reload")
    /\ UNCHANGED <<rulesDb, setDb, configRunning, serviceVars>>

(* The port is checked, the address is not.                                *)
AddUpstream(p, row) ==
    /\ row \notin rowsDb
    /\ ChangeUpstreams(p, rowsDb \cup {row})
    /\ change' = [change EXCEPT ![p] = NoChange]

DeleteUpstream(p, row) ==
    /\ row \in rowsDb
    /\ ChangeUpstreams(p, rowsDb \ {row})
    /\ change' = [change EXCEPT ![p] = NoChange]

(* A failed reading of the table counts as no upstreams, one of a setting  *)
(* as its default.                                                         *)
FailedReads == IF DbMayFail THEN SUBSET ({"upstreams"} \cup ForwarderKeys) ELSE {{}}

(* The replica installs the rows it was given, a request those of the table. *)
ReadForReload(p) ==
    /\ up /\ stage[p] = "reload"
    /\ \E failed \in FailedReads :
        LET given == "upstreams" \in change[p].copies
        IN  /\ change' = [change EXCEPT
                ![p].rows = IF given THEN change[p].rows
                            ELSE IF "upstreams" \in failed THEN {} ELSE rowsDb,
                ![p].values = [k \in Keys |-> IF k \in failed \/ k \notin ForwarderKeys
                                              THEN Default ELSE Loaded(k)]]
            /\ apart' = apart \cup (IF given THEN failed \ {"upstreams"} ELSE failed)
    /\ Goto(p, "read")
    /\ UNCHANGED <<configStored, configRunning, serviceVars>>

(* Faulty variant: addresses are not parsed before the clients are taken.  *)
InstallReloadUnparsed(p) ==
    /\ up /\ stage[p] = "read"
    /\ rowsRam' = change[p].rows
    /\ setRam' = [k \in Keys |-> IF k \in ForwarderKeys THEN change[p].values[k] ELSE setRam[k]]
    /\ Finish(p)
    /\ UNCHANGED <<configStored, rulesRam, serviceVars, apart>>

(* One address that is no IP address refuses the reload as a whole.        *)
InstallReload(p) ==
    /\ up /\ stage[p] = "read"
    /\ IF change[p].rows \cap Unparsable = {}
       THEN /\ rowsRam' = change[p].rows
            /\ setRam' = [k \in Keys |-> IF k \in ForwarderKeys THEN change[p].values[k]
                                                                ELSE setRam[k]]
            /\ apart' = apart
       ELSE /\ apart' = apart \cup {"upstreams"}
                              \cup (IF p \in Mirrors THEN ForwarderKeys ELSE {})
            /\ UNCHANGED <<rowsRam, setRam>>
    /\ Finish(p)
    /\ UNCHANGED <<configStored, rulesRam, serviceVars>>

-----------------------------------------------------------------------------
(* Requests: settings. *)

(* A value its parser refuses is stored all the same, and a new timeout    *)
(* leaves the clients with the one they were built with.                   *)
TakesEffect(k, v) == v \in Values /\ k # "upstream_timeout_secs"

UpdateSetting(p, k, v) ==
    /\ up /\ stage[p] = "idle"
    /\ k \in Validated => v \in Values
    /\ setDb' = [setDb EXCEPT ![k] = v]
    /\ apart' = apart \cup Overlapped(p, {k}) \cup (IF TakesEffect(k, v) THEN {} ELSE {k})
    /\ change' = [change EXCEPT ![p] = [NoChange EXCEPT !.copies = {k}, !.values[k] = v]]
    /\ Goto(p, "written")
    /\ UNCHANGED <<rulesDb, rowsDb, configRunning, serviceVars>>

(* Faulty variant: the restart a listen setting needs is forgotten.        *)
InstallSettingNoRestart(p, k) ==
    /\ up /\ stage[p] = "written" /\ k \in change[p].copies
    /\ setRam' = IF k \in NeedsRestart \/ change[p].values[k] \notin Values THEN setRam
                 ELSE [setRam EXCEPT ![k] = change[p].values[k]]
    /\ Finish(p)
    /\ UNCHANGED <<configStored, rulesRam, rowsRam, serviceVars, apart>>

InstallSetting(p, k) ==
    /\ up /\ stage[p] = "written" /\ k \in change[p].copies
    /\ IF k \in NeedsRestart THEN ScheduleRestart ELSE UNCHANGED serviceVars
    /\ setRam' = IF k \in NeedsRestart \/ change[p].values[k] \notin Values THEN setRam
                 ELSE [setRam EXCEPT ![k] = change[p].values[k]]
    /\ Finish(p)
    /\ UNCHANGED <<configStored, rulesRam, rowsRam, apart>>

RequestRestart(p) ==
    /\ up /\ stage[p] = "idle"
    /\ ScheduleRestart
    /\ Finish(p)
    /\ UNCHANGED <<configStored, configRunning, apart>>

-----------------------------------------------------------------------------
(* The replica's task: one transaction per category, then memory. *)

MirrorRewrites(m, rules) ==
    /\ up /\ stage[m] = "idle"
    /\ rulesDb' = rules
    /\ apart' = apart \cup Overlapped(m, Names)
    /\ change' = [change EXCEPT ![m] = [NoChange EXCEPT !.copies = Names, !.rules = rules]]
    /\ Goto(m, "written")
    /\ UNCHANGED <<rowsDb, setDb, configRunning, serviceVars>>

MirrorUpstreams(m, rows) ==
    /\ ChangeUpstreams(m, rows)
    /\ change' = [change EXCEPT ![m] = [NoChange EXCEPT !.copies = {"upstreams"}, !.rows = rows]]

(* Every key the node does not keep for itself is stored, with errors only *)
(* logged; of those, memory takes over the forwarder's.                    *)
MirrorSettings(m, values) ==
    /\ up /\ stage[m] = "idle"
    /\ \E failed \in IF DbMayFail THEN SUBSET Keys ELSE {{}} :
        LET taken == (Keys \ NodeLocal) \ failed
        IN  /\ setDb' = [k \in Keys |-> IF k \in taken THEN values[k] ELSE setDb[k]]
            /\ apart' = apart \cup Overlapped(m, taken) \cup (taken \ OfForwarder)
    /\ change' = [change EXCEPT ![m] = NoChange]
    /\ Goto(m, "reload")
    /\ UNCHANGED <<rulesDb, rowsDb, configRunning, serviceVars>>

-----------------------------------------------------------------------------
(* run_server: everything that runs is loaded from the rows, and one row   *)
(* that does not parse or bind ends the start.                             *)

SeededRows == IF rowsDb = {} THEN {SeedUpstream} ELSE rowsDb

(* Another process, --genpass, opens the database and seeds it as well.    *)
SeedRows ==
    /\ rowsDb' = SeededRows
    /\ apart' = IF rowsDb = {} THEN apart \cup {"upstreams"} ELSE apart
    /\ UNCHANGED <<rulesDb, setDb, configRunning, stage, change, serviceVars>>

ConfigStarts ==
    /\ SeededRows \cap Unparsable = {}
    /\ \A k \in Keys \cap NeedsRestart : setDb[k] \notin Unbindable

ConfigRestart ==
    /\ rowsDb' = SeededRows
    /\ stage' = [p \in Changers |-> IF stage[p] = "idle" THEN "idle" ELSE "gone"]
    /\ apart' = {}
    /\ IF ConfigStarts
       THEN /\ rulesRam' = rulesDb
            /\ rowsRam' = SeededRows
            /\ setRam' = [k \in Keys |-> Loaded(k)]
       ELSE UNCHANGED configRunning
    /\ change' = [p \in Changers |-> NoChange]
    /\ UNCHANGED <<rulesDb, setDb>>

-----------------------------------------------------------------------------
ConfigInit ==
    /\ rulesDb = [n \in Names |-> NoRule] /\ rulesRam = rulesDb
    /\ rowsDb = {SeedUpstream} /\ rowsRam = rowsDb
    /\ setDb = [k \in Keys |-> Default] /\ setRam = setDb
    /\ stage \in [Changers -> {"idle", "gone"}]
    /\ change = [p \in Changers |-> NoChange]
    /\ apart = {}

ProcessStep(p) ==
    \/ InstallRules(p)
    \/ ReadForReload(p)
    \/ InstallReload(p)
    \/ \E k \in Keys : InstallSetting(p, k)

RequestStep(p) ==
    \/ \E n \in Names, r \in Rules : AddRewrite(p, n, r)
    \/ \E n \in Names : DeleteRewrite(p, n)
    \/ \E row \in Upstreams : AddUpstream(p, row) \/ DeleteUpstream(p, row)
    \/ \E k \in Keys, v \in Values \cup {Malformed} : UpdateSetting(p, k, v)
    \/ RequestRestart(p)

MirrorStep(m) ==
    \/ \E rules \in [Names -> Rules \cup {NoRule}] : MirrorRewrites(m, rules)
    \/ \E rows \in SUBSET Upstreams : MirrorUpstreams(m, rows)
    \/ \E values \in [Keys -> Values] : MirrorSettings(m, values)

(* What this component does but for the seeding of its table.              *)
ConfigStep ==
    \/ \E p \in Changers : ProcessStep(p)
    \/ \E p \in Editors : RequestStep(p)
    \/ \E m \in Mirrors : MirrorStep(m)

ConfigNext == ConfigStep \/ SeedRows \/ (RestartService(ConfigStarts) /\ ConfigRestart)

ConfigSpec == ServiceInit /\ ConfigInit /\ [][ConfigNext]_<<serviceVars, configVars>>

-----------------------------------------------------------------------------
(* Properties *)

(* Who is going to change the running copy.  A request about upstreams     *)
(* reloads the forwarder's settings as well, and owes them nothing.        *)
Owes(p, c) ==
    \/ stage[p] = "written" /\ c \in change[p].copies
    \/ /\ stage[p] \in {"reload", "read"}
       /\ c = "upstreams" \/ (p \in Mirrors /\ c \in ForwarderKeys)

Agree(c) ==
    /\ c \in Names => rulesRam[c] = rulesDb[c]
    /\ c = "upstreams" => rowsRam = rowsDb
    /\ c \in Keys => setRam[c] = Loaded(c) \/ (c \in NeedsRestart /\ restartDue)

(* A rule, a setting or the list of upstreams the process runs with is the *)
(* one in the database, once nobody is about to install it, unless since   *)
(* the start overlapping operations wrote it, its value was refused or     *)
(* without effect, or it was read in vain (api.rs, sync.rs: commit first,  *)
(* memory afterwards, without a lock; main.rs: everything anew at the      *)
(* start).                                                                 *)
CopiesAgree ==
    up => \A c \in Copies \ apart : Agree(c) \/ \E p \in Changers : Owes(p, c)

(* What makes it inductive: what a process holds of a copy that is not     *)
(* apart is what the database holds; it holds things of one kind, and of   *)
(* the settings it has read, values the parser takes.                      *)
HeldIsStored ==
    \A p \in Changers, c \in Copies \ apart : up /\ Holds(p, c) =>
        /\ c \in Names => change[p].rules[c] = rulesDb[c]
        /\ c = "upstreams" => change[p].rows = rowsDb
        /\ c \in Keys => change[p].values[c] = Loaded(c)

ChangeShape ==
    \A p \in Changers :
        /\ stage[p] = "written" =>
              change[p].copies \subseteq Names \/ \E k \in Keys : change[p].copies = {k}
        /\ stage[p] \in {"reload", "read"} => change[p].copies \subseteq {"upstreams"}
        /\ stage[p] = "read" => \A k \in Keys : change[p].values[k] \in Values

ConfigInvariant ==
    ServiceTypeOK /\ ConfigTypeOK /\ ChangeShape /\ HeldIsStored /\ CopiesAgree
=============================================================================
