---------------------------- MODULE AdminParts_proofs ----------------------------
(***************************************************************************)
(* Proofs about the parts AdminService is composed of, each by itself.     *)
(* RunningConfig, for every number of requests, mirrored categories,       *)
(* rewrites, upstreams and settings: what runs is what is stored, wherever *)
(* no overlap and no refused or unread value excuses it.  Credentials, for *)
(* every number of logins, clients, changes and resets of the password:    *)
(* the throttle keeps its bound, and sessions end with the password they   *)
(* were given for.                                                         *)
(***************************************************************************)
EXTENDS RunningConfig, Credentials, FiniteSetTheorems, TLAPS

-----------------------------------------------------------------------------
(* RunningConfig                                                           *)

USE ConfigAssumption

(* The three kinds of copies do not overlap.                               *)
LEMMA KindsDiffer ==
    /\ "upstreams" \notin Names /\ "upstreams" \notin Keys /\ Keys \cap Names = {}
    /\ ForwarderKeys \subseteq Keys /\ ForwarderKeys \cap NeedsRestart = {}
    /\ Copies = Names \cup {"upstreams"} \cup Keys
BY DEF KnownKeys, Validated, OfForwarder, NeedsRestart, ForwarderKeys, Copies

(* A start takes a value the parser takes.                                 *)
LEMMA LoadedIsValue == \A k \in Keys : Loaded(k) \in Values
BY DEF Loaded

(* What a request may hold.                                                *)
ChangeType == [copies : SUBSET Copies, rules : [Names -> Rules \cup {NoRule}],
               rows : SUBSET Upstreams, values : [Keys -> Values \cup {Malformed}]]

(* A request that holds nothing is of its type.                            *)
LEMMA NoChangeType == NoChange \in ChangeType
BY KindsDiffer DEF NoChange, ChangeType

(* What a request about one rule holds.                                    *)
LEMMA RuleChange ==
    ASSUME NEW n \in Names, NEW r \in Rules \cup {NoRule}
    PROVE  /\ [NoChange EXCEPT !.copies = {n}, !.rules[n] = r] \in ChangeType
           /\ [NoChange EXCEPT !.copies = {n}, !.rules[n] = r].copies = {n}
           /\ [NoChange EXCEPT !.copies = {n}, !.rules[n] = r].rules[n] = r
<1>. DEFINE a == [NoChange EXCEPT !.copies = {n}]
            b == [a EXCEPT !.rules[n] = r]
<1>1. a \in ChangeType /\ a.copies = {n}
  BY KindsDiffer, NoChangeType DEF ChangeType
<1>2. b \in ChangeType /\ b.copies = {n} /\ b.rules[n] = r
  BY <1>1 DEF ChangeType
<1>3. [NoChange EXCEPT !.copies = {n}, !.rules[n] = r] = b
  BY NoChangeType DEF ChangeType
<1>4. QED
  BY <1>2, <1>3

(* What a request about one setting holds.                                 *)
LEMMA SettingChange ==
    ASSUME NEW k \in Keys, NEW v \in Values \cup {Malformed}
    PROVE  /\ [NoChange EXCEPT !.copies = {k}, !.values[k] = v] \in ChangeType
           /\ [NoChange EXCEPT !.copies = {k}, !.values[k] = v].copies = {k}
           /\ [NoChange EXCEPT !.copies = {k}, !.values[k] = v].values[k] = v
<1>. DEFINE a == [NoChange EXCEPT !.copies = {k}]
            b == [a EXCEPT !.values[k] = v]
<1>1. a \in ChangeType /\ a.copies = {k}
  BY KindsDiffer, NoChangeType DEF ChangeType
<1>2. b \in ChangeType /\ b.copies = {k} /\ b.values[k] = v
  BY <1>1 DEF ChangeType
<1>3. [NoChange EXCEPT !.copies = {k}, !.values[k] = v] = b
  BY NoChangeType DEF ChangeType
<1>4. QED
  BY <1>2, <1>3

-----------------------------------------------------------------------------
(* The row of a copy is left as it is.                                     *)
SameRow(c) ==
    /\ c \in Names => rulesDb'[c] = rulesDb[c]
    /\ c = "upstreams" => rowsDb' = rowsDb
    /\ c \in Keys => setDb'[c] = setDb[c]

(* A process holds what is stored.                                         *)
HoldsRow(p, c) ==
    /\ c \in Names => change[p].rules[c] = rulesDb[c]
    /\ c = "upstreams" => change[p].rows = rowsDb
    /\ c \in Keys => change[p].values[c] = Loaded(c)

CopiesInvariant == HeldIsStored /\ CopiesAgree

(* A commit: what is written is held from here on, and whoever held it     *)
(* before is overtaken.                                                    *)
LEMMA CommitStep ==
    ASSUME ConfigTypeOK, CopiesInvariant, NEW p \in Changers, stage[p] = "idle",
           NEW cs \in SUBSET Copies, NEW state \in {"written", "reload"},
           stage' = [stage EXCEPT ![p] = state],
           \A q \in Changers \ {p} : change'[q] = change[q],
           up, UNCHANGED <<configRunning, serviceVars>>,
           apart \cup Overlapped(p, cs) \subseteq apart',
           \A c \in Copies \ apart' : IF c \in cs THEN Owes(p, c)' ELSE SameRow(c),
           \A c \in Copies \ apart' : Holds(p, c)' => HoldsRow(p, c)'
    PROVE  CopiesInvariant'
<1>1. ASSUME NEW q \in Changers \ {p}, NEW c \in Copies \ apart'
      PROVE  (Holds(q, c)' <=> Holds(q, c)) /\ (Owes(q, c)' <=> Owes(q, c))
  BY DEF Holds, Owes, ConfigTypeOK
<1>2. ASSUME NEW q \in Changers, NEW c \in Copies \ apart', Holds(q, c)'
      PROVE  HoldsRow(q, c)'
  <2>1. CASE q = p
    BY <1>2, <2>1
  <2>2. CASE q # p
    <3>1. Holds(q, c) /\ c \notin apart
      BY <1>1, <1>2, <2>2
    <3>2. c \notin cs
      BY <3>1, <2>2 DEF Overlapped
    <3>3. SameRow(c) /\ HoldsRow(q, c)
      BY <3>1, <3>2 DEF CopiesInvariant, HeldIsStored, HoldsRow
    <3>4. change'[q] = change[q]
      BY <2>2
    <3>5. QED
      BY <3>3, <3>4 DEF SameRow, HoldsRow, Loaded
  <2>3. QED
    BY <2>1, <2>2
<1>3. ASSUME NEW c \in Copies \ apart'
      PROVE  Agree(c)' \/ \E q \in Changers : Owes(q, c)'
  <2>1. CASE c \in cs
    BY <2>1
  <2>2. CASE c \notin cs
    <3>1. SameRow(c) /\ c \notin apart
      BY <2>2
    <3>2. ~Owes(p, c)
      BY DEF Owes
    <3>3. CASE Agree(c)
      <4>1. Agree(c)'
        BY <3>1, <3>3 DEF Agree, SameRow, Loaded, configRunning, serviceVars
      <4>2. QED
        BY <4>1
    <3>4. CASE ~Agree(c)
      <4>1. PICK q \in Changers \ {p} : Owes(q, c)
        BY <3>1, <3>2, <3>4 DEF CopiesInvariant, CopiesAgree
      <4>2. QED
        BY <1>1, <4>1
    <3>5. QED
      BY <3>3, <3>4
  <2>3. QED
    BY <2>1, <2>2
<1>4. QED
  BY <1>2, <1>3 DEF CopiesInvariant, HeldIsStored, HoldsRow, CopiesAgree

(* The last step of a process: what it owed is as stored, or put apart.    *)
LEMMA InstallStep ==
    ASSUME ConfigTypeOK, CopiesInvariant, NEW p \in Changers, Finish(p),
           up, up' = up, UNCHANGED configStored, apart \subseteq apart',
           \A c \in Copies \ apart' : Agree(c) \/ Owes(p, c) => Agree(c)'
    PROVE  CopiesInvariant'
<1>1. ASSUME NEW q \in Changers, NEW c \in Copies \ apart'
      PROVE  /\ Holds(q, c)' <=> q # p /\ Holds(q, c)
             /\ Owes(q, c)' <=> q # p /\ Owes(q, c)
             /\ q # p => change'[q] = change[q]
  BY DEF Holds, Owes, Finish, Goto, ConfigTypeOK
<1>2. ASSUME NEW q \in Changers, NEW c \in Copies \ apart', Holds(q, c)'
      PROVE  HoldsRow(q, c)'
  <2>1. q # p /\ Holds(q, c) /\ change'[q] = change[q] /\ c \notin apart
    BY <1>1, <1>2
  <2>2. HoldsRow(q, c)
    BY <2>1 DEF CopiesInvariant, HeldIsStored, HoldsRow
  <2>3. QED
    BY <2>1, <2>2 DEF HoldsRow, Loaded, configStored
<1>3. ASSUME NEW c \in Copies \ apart'
      PROVE  Agree(c)' \/ \E q \in Changers : Owes(q, c)'
  <2>1. CASE Agree(c) \/ Owes(p, c)
    BY <2>1
  <2>2. CASE ~(Agree(c) \/ Owes(p, c))
    <3>1. PICK q \in Changers : Owes(q, c)
      BY <2>2 DEF CopiesInvariant, CopiesAgree
    <3>2. QED
      BY <1>1, <2>2, <3>1
  <2>3. QED
    BY <2>1, <2>2
<1>4. QED
  BY <1>2, <1>3 DEF CopiesInvariant, HeldIsStored, HoldsRow, CopiesAgree

-----------------------------------------------------------------------------
(* Types. *)

WellFormed == ServiceTypeOK /\ ConfigTypeOK /\ ChangeShape

(* What a request, the replica or a start leaves is well formed.           *)
LEMMA WellFormedStep ==
    WellFormed /\ [ConfigNext]_<<serviceVars, configVars>> => WellFormed'
<1> SUFFICES ASSUME WellFormed, [ConfigNext]_<<serviceVars, configVars>> PROVE WellFormed'
  OBVIOUS
<1>. USE DEF Goto, Finish, configStored, configRunning, serviceVars
<1>a. /\ ServiceTypeOK /\ ConfigTypeOK /\ ChangeShape
      /\ change \in [Changers -> ChangeType] /\ NoChange \in ChangeType
      /\ \A p \in Changers : change[p] \in ChangeType
  BY NoChangeType DEF WellFormed, ConfigTypeOK, ChangeType
<1>b. /\ Editors \subseteq Changers /\ Mirrors \subseteq Changers
      /\ \A p \in Changers, cs \in SUBSET Copies : Overlapped(p, cs) \subseteq Copies
  BY DEF Changers, Overlapped
<1>c. ASSUME rulesDb' \in [Names -> Rules \cup {NoRule}],
             rulesRam' \in [Names -> Rules \cup {NoRule}],
             rowsDb' \in SUBSET Upstreams, rowsRam' \in SUBSET (Upstreams \ Unparsable),
             setDb' \in [Keys -> Values \cup {Malformed}], setRam' \in [Keys -> Values],
             apart' \in SUBSET Copies, ServiceTypeOK',
             NEW p \in Changers, NEW ch \in ChangeType,
             NEW state \in {"idle", "written", "reload", "read", "gone"},
             stage' = [stage EXCEPT ![p] = state], change' = [change EXCEPT ![p] = ch],
             state = "written" => ch.copies \subseteq Names \/ \E k \in Keys : ch.copies = {k},
             state \in {"reload", "read"} => ch.copies \subseteq {"upstreams"},
             state = "read" => \A k \in Keys : ch.values[k] \in Values
      PROVE  WellFormed'
  <2>1. change' \in [Changers -> ChangeType] /\ change'[p] = ch /\ stage'[p] = state
        /\ \A q \in Changers \ {p} : change'[q] = change[q] /\ stage'[q] = stage[q]
    BY <1>a, <1>c DEF ConfigTypeOK
  <2>2. ConfigTypeOK'
    BY <1>a, <1>c, <2>1 DEF ConfigTypeOK, ChangeType
  <2>3. ChangeShape'
    BY <1>a, <1>c, <2>1 DEF ChangeShape
  <2>4. QED
    BY <1>c, <2>2, <2>3 DEF WellFormed
<1>1. ASSUME NEW p \in Editors, NEW n \in Names, NEW r \in Rules, AddRewrite(p, n, r)
      PROVE  WellFormed'
  <2>. DEFINE ch == [NoChange EXCEPT !.copies = {n}, !.rules[n] = r]
  <2>1. ch \in ChangeType /\ ch.copies \subseteq Names
    <3>1. r \in Rules \cup {NoRule}
      OBVIOUS
    <3>2. ch \in ChangeType /\ ch.copies = {n}
      BY <3>1, RuleChange
    <3>3. QED
      BY <3>2
  <2>2. change' = [change EXCEPT ![p] = ch]
    BY <1>1 DEF AddRewrite
  <2>3. apart' \in SUBSET Copies
    BY <1>1, <1>a, <1>b, KindsDiffer DEF AddRewrite, ConfigTypeOK
  <2>. HIDE DEF ch
  <2>4. QED
    BY <1>1, <1>a, <1>b, <1>c, <2>1, <2>2, <2>3 DEF AddRewrite, ConfigTypeOK, ServiceTypeOK
<1>2. ASSUME NEW p \in Editors, NEW n \in Names, DeleteRewrite(p, n) PROVE WellFormed'
  <2>. DEFINE ch == [NoChange EXCEPT !.copies = {n}]
  <2>1. ch \in ChangeType /\ ch.copies \subseteq Names
    BY <1>a, KindsDiffer DEF ChangeType
  <2>2. change' = [change EXCEPT ![p] = ch]
    BY <1>2 DEF DeleteRewrite
  <2>3. apart' \in SUBSET Copies
    BY <1>2, <1>a, <1>b, KindsDiffer DEF DeleteRewrite, ConfigTypeOK
  <2>. HIDE DEF ch
  <2>4. QED
    BY <1>2, <1>a, <1>b, <1>c, <2>1, <2>2, <2>3 DEF DeleteRewrite, ConfigTypeOK, ServiceTypeOK
<1>3. ASSUME NEW p \in Changers, InstallRules(p) PROVE WellFormed'
  <2>1. rulesRam' \in [Names -> Rules \cup {NoRule}]
    BY <1>3, <1>a DEF InstallRules, ConfigTypeOK, ChangeType
  <2>2. QED
    BY <1>3, <1>a, <1>c, <2>1 DEF InstallRules, ConfigTypeOK, ServiceTypeOK
<1>4. ASSUME NEW p \in Changers, NEW rows \in SUBSET Upstreams, ChangeUpstreams(p, rows),
             NEW ch \in ChangeType, change' = [change EXCEPT ![p] = ch],
             ch.copies \subseteq {"upstreams"}
      PROVE  WellFormed'
  <2>1. apart' \in SUBSET Copies
    BY <1>4, <1>a, <1>b, KindsDiffer DEF ChangeUpstreams, ConfigTypeOK
  <2>2. QED
    BY <1>4, <1>a, <1>c, <2>1 DEF ChangeUpstreams, ConfigTypeOK, ServiceTypeOK
<1>5. ASSUME NEW p \in Editors, NEW row \in Upstreams,
             AddUpstream(p, row) \/ DeleteUpstream(p, row)
      PROVE  WellFormed'
  <2>1. NoChange.copies \subseteq {"upstreams"} /\ rowsDb \in SUBSET Upstreams
    BY <1>a DEF NoChange, ConfigTypeOK
  <2>2. QED
    BY <1>4, <1>5, <1>a, <1>b, <2>1 DEF AddUpstream, DeleteUpstream
<1>6. ASSUME NEW m \in Mirrors, NEW rows \in SUBSET Upstreams, MirrorUpstreams(m, rows)
      PROVE  WellFormed'
  <2>. DEFINE ch == [NoChange EXCEPT !.copies = {"upstreams"}, !.rows = rows]
  <2>1. ch \in ChangeType /\ ch.copies \subseteq {"upstreams"}
    BY <1>a, KindsDiffer DEF ChangeType
  <2>2. change' = [change EXCEPT ![m] = ch]
    BY <1>6 DEF MirrorUpstreams
  <2>. HIDE DEF ch
  <2>3. QED
    BY <1>4, <1>6, <1>b, <2>1, <2>2 DEF MirrorUpstreams
<1>7. ASSUME NEW p \in Changers, ReadForReload(p) PROVE WellFormed'
  <2>. DEFINE given == "upstreams" \in change[p].copies
  <2>1. PICK failed \in SUBSET Copies :
            /\ change' = [change EXCEPT
                ![p].rows = IF given THEN change[p].rows
                            ELSE IF "upstreams" \in failed THEN {} ELSE rowsDb,
                ![p].values = [k \in Keys |-> IF k \in failed \/ k \notin ForwarderKeys
                                              THEN Default ELSE Loaded(k)]]
            /\ apart' \subseteq apart \cup failed
    BY <1>7, KindsDiffer DEF ReadForReload, FailedReads
  <2>. DEFINE rows == IF given THEN change[p].rows
                      ELSE IF "upstreams" \in failed THEN {} ELSE rowsDb
              values == [k \in Keys |-> IF k \in failed \/ k \notin ForwarderKeys
                                        THEN Default ELSE Loaded(k)]
              ch == [change[p] EXCEPT !.rows = rows, !.values = values]
  <2>2. rows \in SUBSET Upstreams /\ values \in [Keys -> Values]
    BY <1>a, LoadedIsValue DEF ChangeType, ConfigTypeOK
  <2>3. change' = [change EXCEPT ![p].rows = rows, ![p].values = values]
    BY <2>1
  <2>. HIDE DEF rows, values, given
  <2>4. ch \in ChangeType /\ ch.copies = change[p].copies /\ ch.values = values
    BY <1>a, <2>2 DEF ChangeType
  <2>5. change' = [change EXCEPT ![p] = ch]
    BY <1>a, <2>3
  <2>6. apart' \in SUBSET Copies
    BY <1>a, <2>1 DEF ConfigTypeOK
  <2>7. ch.copies \subseteq {"upstreams"} /\ \A k \in Keys : ch.values[k] \in Values
    BY <1>7, <1>a, <2>2, <2>4 DEF ReadForReload, ChangeShape
  <2>. HIDE DEF ch
  <2>8. QED
    BY <1>7, <1>a, <1>c, <2>4, <2>5, <2>6, <2>7 DEF ReadForReload, ConfigTypeOK, ServiceTypeOK
<1>8. ASSUME NEW p \in Changers, InstallReload(p) PROVE WellFormed'
  <2>1. apart' \in SUBSET Copies
    BY <1>8, <1>a, KindsDiffer DEF InstallReload, ConfigTypeOK
  <2>2. rowsRam' \in SUBSET (Upstreams \ Unparsable)
    BY <1>8, <1>a DEF InstallReload, ChangeType, ConfigTypeOK
  <2>3. setRam' \in [Keys -> Values]
    BY <1>8, <1>a DEF InstallReload, ChangeShape, ConfigTypeOK
  <2>4. QED
    BY <1>8, <1>a, <1>c, <2>1, <2>2, <2>3 DEF InstallReload, ConfigTypeOK, ServiceTypeOK
<1>9. ASSUME NEW p \in Editors, NEW k \in Keys, NEW v \in Values \cup {Malformed},
             UpdateSetting(p, k, v)
      PROVE  WellFormed'
  <2>. DEFINE ch == [NoChange EXCEPT !.copies = {k}, !.values[k] = v]
  <2>1. ch \in ChangeType /\ ch.copies = {k}
    BY SettingChange
  <2>2. change' = [change EXCEPT ![p] = ch]
    BY <1>9 DEF UpdateSetting
  <2>3. apart' \in SUBSET Copies
    BY <1>9, <1>a, <1>b, KindsDiffer DEF UpdateSetting, ConfigTypeOK
  <2>. HIDE DEF ch
  <2>4. QED
    BY <1>9, <1>a, <1>b, <1>c, <2>1, <2>2, <2>3 DEF UpdateSetting, ConfigTypeOK, ServiceTypeOK
<1>10. ASSUME NEW p \in Changers, NEW k \in Keys, InstallSetting(p, k) PROVE WellFormed'
  <2>1. setRam' \in [Keys -> Values]
    BY <1>10, <1>a DEF InstallSetting, ConfigTypeOK
  <2>2. ServiceTypeOK'
    BY <1>10, <1>a DEF InstallSetting, ScheduleRestart, ServiceTypeOK
  <2>3. QED
    BY <1>10, <1>a, <1>c, <2>1, <2>2 DEF InstallSetting, ConfigTypeOK
<1>11. ASSUME NEW p \in Editors, RequestRestart(p) PROVE WellFormed'
  BY <1>11, <1>a, <1>b, <1>c DEF RequestRestart, ScheduleRestart, ConfigTypeOK, ServiceTypeOK
<1>12. ASSUME NEW m \in Mirrors, NEW rules \in [Names -> Rules \cup {NoRule}],
              MirrorRewrites(m, rules)
       PROVE  WellFormed'
  <2>. DEFINE ch == [NoChange EXCEPT !.copies = Names, !.rules = rules]
  <2>1. ch \in ChangeType /\ ch.copies = Names
    BY <1>a, KindsDiffer DEF ChangeType
  <2>2. change' = [change EXCEPT ![m] = ch]
    BY <1>12 DEF MirrorRewrites
  <2>3. apart' \in SUBSET Copies
    BY <1>12, <1>a, <1>b, KindsDiffer DEF MirrorRewrites, ConfigTypeOK
  <2>. HIDE DEF ch
  <2>4. QED
    BY <1>12, <1>a, <1>b, <1>c, <2>1, <2>2, <2>3 DEF MirrorRewrites, ConfigTypeOK, ServiceTypeOK
<1>13. ASSUME NEW m \in Mirrors, NEW values \in [Keys -> Values], MirrorSettings(m, values)
       PROVE  WellFormed'
  <2>1. PICK failed \in SUBSET Keys :
            LET taken == (Keys \ NodeLocal) \ failed
            IN  /\ setDb' = [k \in Keys |-> IF k \in taken THEN values[k] ELSE setDb[k]]
                /\ apart' = apart \cup Overlapped(m, taken) \cup (taken \ OfForwarder)
    BY <1>13 DEF MirrorSettings
  <2>2. setDb' \in [Keys -> Values \cup {Malformed}]
    BY <1>a, <2>1 DEF ConfigTypeOK
  <2>3. apart' \in SUBSET Copies
    BY <1>a, <1>b, <2>1, KindsDiffer DEF ConfigTypeOK
  <2>4. NoChange.copies \subseteq {"upstreams"}
    BY DEF NoChange
  <2>5. QED
    BY <1>13, <1>a, <1>b, <1>c, <2>2, <2>3, <2>4 DEF MirrorSettings, ConfigTypeOK, ServiceTypeOK
<1>14. CASE SeedRows
  <2>1. apart' \in SUBSET Copies /\ rowsDb' \in SUBSET Upstreams
    BY <1>14, <1>a, KindsDiffer DEF SeedRows, SeededRows, ConfigTypeOK
  <2>2. QED
    BY <1>14, <1>a, <2>1 DEF SeedRows, ConfigTypeOK, ServiceTypeOK, ChangeShape, WellFormed
<1>15. CASE RestartService(ConfigStarts) /\ ConfigRestart
  <2>1. ServiceTypeOK'
    BY <1>15 DEF RestartService, ConfigStarts, ServiceTypeOK
  <2>2. rowsDb' \in SUBSET Upstreams /\ rowsRam' \in SUBSET (Upstreams \ Unparsable)
    BY <1>15, <1>a DEF ConfigRestart, ConfigStarts, SeededRows, ConfigTypeOK
  <2>3. rulesRam' \in [Names -> Rules \cup {NoRule}] /\ setRam' \in [Keys -> Values]
        /\ UNCHANGED <<rulesDb, setDb>> /\ apart' = {}
    BY <1>15, <1>a, LoadedIsValue DEF ConfigRestart, ConfigTypeOK
  <2>4. /\ change' = [p \in Changers |-> NoChange] /\ change' \in [Changers -> ChangeType]
        /\ stage' = [p \in Changers |-> IF stage[p] = "idle" THEN "idle" ELSE "gone"]
    BY <1>15, <1>a DEF ConfigRestart
  <2>5. ConfigTypeOK'
    BY <1>a, <2>2, <2>3, <2>4 DEF ConfigTypeOK, ChangeType
  <2>6. ChangeShape'
    BY <2>4 DEF ChangeShape
  <2>7. QED
    BY <2>1, <2>5, <2>6 DEF WellFormed
<1>16. CASE UNCHANGED <<serviceVars, configVars>>
  BY <1>16, <1>a DEF configVars, ConfigTypeOK, ServiceTypeOK, ChangeShape, WellFormed
<1>17. QED
  BY <1>1, <1>2, <1>3, <1>5, <1>6, <1>7, <1>8, <1>9, <1>10, <1>11, <1>12, <1>13, <1>14, <1>15,
     <1>16, <1>b
     DEF ConfigNext, ConfigStep, ProcessStep, RequestStep, MirrorStep

-----------------------------------------------------------------------------
(* Copies and rows. *)

(* No step of a request, the replica or a start lets them drift apart.     *)
LEMMA CopiesStep ==
    WellFormed /\ WellFormed' /\ CopiesInvariant /\ [ConfigNext]_<<serviceVars, configVars>>
        => CopiesInvariant'
<1> SUFFICES ASSUME WellFormed, WellFormed', CopiesInvariant,
                    [ConfigNext]_<<serviceVars, configVars>>
             PROVE  CopiesInvariant'
  OBVIOUS
<1>a. /\ ConfigTypeOK /\ ConfigTypeOK' /\ ChangeShape
      /\ Editors \subseteq Changers /\ Mirrors \subseteq Changers
  BY DEF WellFormed, Changers
<1>1. ASSUME NEW p \in Editors, NEW n \in Names, NEW r \in Rules, AddRewrite(p, n, r)
      PROVE  CopiesInvariant'
  <2>. DEFINE ch == [NoChange EXCEPT !.copies = {n}, !.rules[n] = r]
  <2>0. r \in Rules \cup {NoRule}
    OBVIOUS
  <2>1. ch.copies = {n} /\ ch.rules[n] = r
    BY <2>0, RuleChange
  <2>2. change' = [change EXCEPT ![p] = ch]
    BY <1>1 DEF AddRewrite
  <2>. HIDE DEF ch
  <2>3. /\ change'[p] = ch /\ \A q \in Changers \ {p} : change'[q] = change[q]
        /\ stage' = [stage EXCEPT ![p] = "written"] /\ stage'[p] = "written"
    BY <1>1, <1>a, <2>2 DEF AddRewrite, Goto, ConfigTypeOK
  <2>4. \A c \in Copies \ apart' : IF c \in {n} THEN Owes(p, c)' ELSE SameRow(c)
    BY <1>1, <1>a, <2>1, <2>3, SMTT(30) DEF AddRewrite, Owes, SameRow, ConfigTypeOK
  <2>5. \A c \in Copies \ apart' : Holds(p, c)' => HoldsRow(p, c)'
    <3>1. \A c : Holds(p, c)' => c = n
      BY <2>1, <2>3 DEF Holds
    <3>2. n \notin apart' => rulesDb[n] \in {NoRule, r}
      BY <1>1 DEF AddRewrite
    <3>3. n \notin apart' => rulesDb'[n] = r
      BY <1>1, <1>a, <3>2 DEF AddRewrite, ConfigTypeOK
    <3>4. QED
      BY <2>1, <2>3, <3>1, <3>3, KindsDiffer DEF HoldsRow
  <2>6. {n} \in SUBSET Copies /\ apart \cup Overlapped(p, {n}) \subseteq apart'
    BY <1>1, KindsDiffer DEF AddRewrite
  <2>7. up /\ stage[p] = "idle" /\ UNCHANGED <<configRunning, serviceVars>>
    BY <1>1 DEF AddRewrite
  <2>8. QED
    BY <1>a, <2>3, <2>4, <2>5, <2>6, <2>7, CommitStep
<1>2. ASSUME NEW p \in Editors, NEW n \in Names, DeleteRewrite(p, n) PROVE CopiesInvariant'
  <2>. DEFINE ch == [NoChange EXCEPT !.copies = {n}]
  <2>1. ch.copies = {n} /\ ch.rules[n] = NoRule
    BY DEF NoChange
  <2>2. change' = [change EXCEPT ![p] = ch]
    BY <1>2 DEF DeleteRewrite
  <2>. HIDE DEF ch
  <2>3. /\ change'[p] = ch /\ \A q \in Changers \ {p} : change'[q] = change[q]
        /\ stage' = [stage EXCEPT ![p] = "written"] /\ stage'[p] = "written"
    BY <1>2, <1>a, <2>2 DEF DeleteRewrite, Goto, ConfigTypeOK
  <2>4. \A c \in Copies \ apart' : IF c \in {n} THEN Owes(p, c)' ELSE SameRow(c)
    BY <1>2, <1>a, <2>1, <2>3, SMTT(30) DEF DeleteRewrite, Owes, SameRow, ConfigTypeOK
  <2>5. \A c \in Copies \ apart' : Holds(p, c)' => HoldsRow(p, c)'
    BY <1>2, <1>a, <2>1, <2>3, KindsDiffer, SMTT(30) DEF DeleteRewrite, Holds, HoldsRow, ConfigTypeOK
  <2>6. {n} \in SUBSET Copies /\ apart \cup Overlapped(p, {n}) \subseteq apart'
    BY <1>2, KindsDiffer DEF DeleteRewrite
  <2>7. up /\ stage[p] = "idle" /\ UNCHANGED <<configRunning, serviceVars>>
    BY <1>2 DEF DeleteRewrite
  <2>8. QED
    BY <1>a, <2>3, <2>4, <2>5, <2>6, <2>7, CommitStep
<1>3. ASSUME NEW m \in Mirrors, NEW rules \in [Names -> Rules \cup {NoRule}],
             MirrorRewrites(m, rules)
      PROVE  CopiesInvariant'
  <2>. DEFINE ch == [NoChange EXCEPT !.copies = Names, !.rules = rules]
  <2>1. ch.copies = Names /\ ch.rules = rules
    BY DEF NoChange
  <2>2. change' = [change EXCEPT ![m] = ch]
    BY <1>3 DEF MirrorRewrites
  <2>. HIDE DEF ch
  <2>3. /\ change'[m] = ch /\ \A q \in Changers \ {m} : change'[q] = change[q]
        /\ stage' = [stage EXCEPT ![m] = "written"] /\ stage'[m] = "written"
    BY <1>3, <1>a, <2>2 DEF MirrorRewrites, Goto, ConfigTypeOK
  <2>4. \A c \in Copies \ apart' : IF c \in Names THEN Owes(m, c)' ELSE SameRow(c)
    BY <1>3, <1>a, <2>1, <2>3, SMTT(30) DEF MirrorRewrites, Owes, SameRow, ConfigTypeOK
  <2>5. \A c \in Copies \ apart' : Holds(m, c)' => HoldsRow(m, c)'
    BY <1>3, <1>a, <2>1, <2>3, KindsDiffer, SMTT(30) DEF MirrorRewrites, Holds, HoldsRow, ConfigTypeOK
  <2>6. Names \in SUBSET Copies /\ apart \cup Overlapped(m, Names) \subseteq apart'
    BY <1>3, KindsDiffer DEF MirrorRewrites
  <2>7. up /\ stage[m] = "idle" /\ UNCHANGED <<configRunning, serviceVars>>
    BY <1>3 DEF MirrorRewrites
  <2>8. QED
    BY <1>a, <2>3, <2>4, <2>5, <2>6, <2>7, CommitStep
<1>4. ASSUME NEW p \in Changers, NEW rows, ChangeUpstreams(p, rows), NEW ch,
             change' = [change EXCEPT ![p] = ch],
             "upstreams" \in ch.copies => ch.rows = rows,
             ch.copies \subseteq {"upstreams"}
      PROVE  CopiesInvariant'
  <2>1. /\ change'[p] = ch /\ \A q \in Changers \ {p} : change'[q] = change[q]
        /\ stage' = [stage EXCEPT ![p] = "reload"] /\ stage'[p] = "reload"
        /\ rowsDb' = rows
    BY <1>4, <1>a DEF ChangeUpstreams, Goto, ConfigTypeOK
  <2>2. \A c \in Copies \ apart' : IF c \in {"upstreams"} THEN Owes(p, c)' ELSE SameRow(c)
    BY <1>4, <2>1, KindsDiffer, SMTT(30) DEF ChangeUpstreams, Owes, SameRow
  <2>3. \A c \in Copies \ apart' : Holds(p, c)' => HoldsRow(p, c)'
    BY <1>4, <2>1, KindsDiffer, SMTT(30) DEF Holds, HoldsRow
  <2>4. {"upstreams"} \in SUBSET Copies /\ apart \cup Overlapped(p, {"upstreams"}) \subseteq apart'
    BY <1>4, KindsDiffer DEF ChangeUpstreams
  <2>5. up /\ stage[p] = "idle" /\ UNCHANGED <<configRunning, serviceVars>>
    BY <1>4 DEF ChangeUpstreams
  <2>6. QED
    BY <1>a, <2>1, <2>2, <2>3, <2>4, <2>5, CommitStep
<1>5. ASSUME NEW p \in Editors, NEW row \in Upstreams,
             AddUpstream(p, row) \/ DeleteUpstream(p, row)
      PROVE  CopiesInvariant'
  <2>1. NoChange.copies = {}
    BY DEF NoChange
  <2>2. QED
    BY <1>4, <1>5, <1>a, <2>1 DEF AddUpstream, DeleteUpstream
<1>6. ASSUME NEW m \in Mirrors, NEW rows \in SUBSET Upstreams, MirrorUpstreams(m, rows)
      PROVE  CopiesInvariant'
  <2>. DEFINE ch == [NoChange EXCEPT !.copies = {"upstreams"}, !.rows = rows]
  <2>1. ch.copies = {"upstreams"} /\ ch.rows = rows
    BY DEF NoChange
  <2>2. change' = [change EXCEPT ![m] = ch]
    BY <1>6 DEF MirrorUpstreams
  <2>. HIDE DEF ch
  <2>3. ChangeUpstreams(m, rows) /\ m \in Changers
    BY <1>6, <1>a DEF MirrorUpstreams
  <2>4. QED
    BY <1>4, <2>1, <2>2, <2>3
<1>7. ASSUME NEW p \in Editors, NEW k \in Keys, NEW v \in Values \cup {Malformed},
             UpdateSetting(p, k, v)
      PROVE  CopiesInvariant'
  <2>. DEFINE ch == [NoChange EXCEPT !.copies = {k}, !.values[k] = v]
  <2>1. ch.copies = {k} /\ ch.values[k] = v
    BY SettingChange
  <2>2. change' = [change EXCEPT ![p] = ch]
    BY <1>7 DEF UpdateSetting
  <2>. HIDE DEF ch
  <2>3. /\ change'[p] = ch /\ \A q \in Changers \ {p} : change'[q] = change[q]
        /\ stage' = [stage EXCEPT ![p] = "written"] /\ stage'[p] = "written"
    BY <1>7, <1>a, <2>2 DEF UpdateSetting, Goto, ConfigTypeOK
  <2>4. \A c \in Copies \ apart' : IF c \in {k} THEN Owes(p, c)' ELSE SameRow(c)
    BY <1>7, <1>a, <2>1, <2>3, SMTT(30) DEF UpdateSetting, Owes, SameRow, ConfigTypeOK
  <2>5. \A c \in Copies \ apart' : Holds(p, c)' => HoldsRow(p, c)'
    <3>1. k \notin apart' => v \in Values
      BY <1>7, KindsDiffer DEF UpdateSetting, TakesEffect
    <3>2. setDb'[k] = v
      BY <1>7, <1>a DEF UpdateSetting, ConfigTypeOK
    <3>3. \A c : Holds(p, c)' => c = k
      BY <2>1, <2>3 DEF Holds
    <3>4. QED
      BY <2>1, <2>3, <3>1, <3>2, <3>3, KindsDiffer DEF HoldsRow, Loaded
  <2>6. {k} \in SUBSET Copies /\ apart \cup Overlapped(p, {k}) \subseteq apart'
    BY <1>7, KindsDiffer DEF UpdateSetting
  <2>7. up /\ stage[p] = "idle" /\ UNCHANGED <<configRunning, serviceVars>>
    BY <1>7 DEF UpdateSetting
  <2>8. QED
    BY <1>a, <2>3, <2>4, <2>5, <2>6, <2>7, CommitStep
<1>8. ASSUME NEW m \in Mirrors, NEW values \in [Keys -> Values], MirrorSettings(m, values)
      PROVE  CopiesInvariant'
  <2>1. PICK failed \in SUBSET Keys :
            LET taken == (Keys \ NodeLocal) \ failed
            IN  /\ setDb' = [k \in Keys |-> IF k \in taken THEN values[k] ELSE setDb[k]]
                /\ apart' = apart \cup Overlapped(m, taken) \cup (taken \ OfForwarder)
    BY <1>8 DEF MirrorSettings
  <2>. DEFINE taken == (Keys \ NodeLocal) \ failed
  <2>2. /\ change'[m].copies = {} /\ \A q \in Changers \ {m} : change'[q] = change[q]
        /\ stage' = [stage EXCEPT ![m] = "reload"] /\ stage'[m] = "reload"
    BY <1>8, <1>a DEF MirrorSettings, Goto, NoChange, ConfigTypeOK
  <2>3. \A c \in Copies \ apart' : IF c \in taken THEN Owes(m, c)' ELSE SameRow(c)
    BY <1>8, <2>1, <2>2, KindsDiffer, SMTT(30) DEF MirrorSettings, Owes, SameRow, ForwarderKeys
  <2>4. \A c \in Copies \ apart' : Holds(m, c)' => HoldsRow(m, c)'
    BY <2>2 DEF Holds
  <2>5. taken \in SUBSET Copies /\ apart \cup Overlapped(m, taken) \subseteq apart'
    BY <2>1, KindsDiffer
  <2>6. up /\ stage[m] = "idle" /\ UNCHANGED <<configRunning, serviceVars>>
    BY <1>8 DEF MirrorSettings
  <2>7. QED
    BY <1>a, <2>2, <2>3, <2>4, <2>5, <2>6, CommitStep
<1>9. ASSUME NEW p \in Changers, InstallRules(p) PROVE CopiesInvariant'
  <2>1. change[p].copies \subseteq Names
    BY <1>9, <1>a, KindsDiffer DEF InstallRules, ChangeShape
  <2>2. ASSUME NEW c \in Copies \ apart', Agree(c) \/ Owes(p, c) PROVE Agree(c)'
    <3>1. CASE c \in Names /\ c \in change[p].copies
      <4>1. change[p].rules[c] = rulesDb[c]
        BY <1>9, <3>1 DEF InstallRules, Holds, CopiesInvariant, HeldIsStored
      <4>2. QED
        BY <1>9, <3>1, <4>1, KindsDiffer DEF InstallRules, Agree, configStored
    <3>2. CASE ~(c \in Names /\ c \in change[p].copies)
      <4>1. Agree(c)
        BY <1>9, <2>1, <2>2, <3>2 DEF Owes, InstallRules
      <4>2. QED
        BY <1>9, <3>2, <4>1 DEF InstallRules, Agree, configStored, serviceVars, Loaded
    <3>3. QED
      BY <3>1, <3>2
  <2>3. up /\ up' = up /\ UNCHANGED configStored /\ apart \subseteq apart' /\ Finish(p)
    BY <1>9 DEF InstallRules, serviceVars
  <2>4. QED
    BY <1>a, <2>2, <2>3, InstallStep
<1>10. ASSUME NEW p \in Changers, ReadForReload(p) PROVE CopiesInvariant'
  <2>. DEFINE given == "upstreams" \in change[p].copies
  <2>1. PICK failed \in SUBSET ({"upstreams"} \cup ForwarderKeys) :
            /\ change' = [change EXCEPT
                ![p].rows = IF given THEN change[p].rows
                            ELSE IF "upstreams" \in failed THEN {} ELSE rowsDb,
                ![p].values = [k \in Keys |-> IF k \in failed \/ k \notin ForwarderKeys
                                              THEN Default ELSE Loaded(k)]]
            /\ apart' = apart \cup (IF given THEN failed \ {"upstreams"} ELSE failed)
    BY <1>10 DEF ReadForReload, FailedReads
  <2>. DEFINE rows == IF given THEN change[p].rows
                      ELSE IF "upstreams" \in failed THEN {} ELSE rowsDb
              values == [k \in Keys |-> IF k \in failed \/ k \notin ForwarderKeys
                                        THEN Default ELSE Loaded(k)]
  <2>2. change' = [change EXCEPT ![p].rows = rows, ![p].values = values]
    BY <2>1
  <2>. HIDE DEF rows, values
  <2>3. /\ change'[p].rows = rows /\ change'[p].values = values
        /\ change'[p].copies = change[p].copies
        /\ \A q \in Changers \ {p} : change'[q] = change[q]
    BY <1>a, <2>2 DEF ConfigTypeOK
  <2>4. /\ stage[p] = "reload" /\ stage'[p] = "read"
        /\ \A q \in Changers \ {p} : stage'[q] = stage[q]
        /\ up /\ up' = up /\ UNCHANGED <<configStored, configRunning, serviceVars>>
        /\ apart \subseteq apart'
    BY <1>10, <1>a, <2>1 DEF ReadForReload, Goto, serviceVars, ConfigTypeOK
  <2>5. ASSUME NEW q \in Changers, NEW c \in Copies \ apart', Holds(q, c)'
        PROVE  HoldsRow(q, c)'
    <3>1. CASE q = p
      <4>1. c = "upstreams" \/ c \in ForwarderKeys
        BY <2>4, <2>5, <3>1 DEF Holds
      <4>2. CASE c = "upstreams"
        <5>1. given => change[p].rows = rowsDb
          BY <2>4, <4>2 DEF Holds, CopiesInvariant, HeldIsStored
        <5>2. rows = rowsDb
          BY <2>1, <4>2, <5>1 DEF rows
        <5>3. QED
          BY <2>3, <2>4, <3>1, <4>2, <5>2, KindsDiffer DEF HoldsRow, configStored
      <4>3. CASE c \in ForwarderKeys
        <5>1. c \in Keys /\ values[c] = Loaded(c)
          BY <2>1, <4>3, KindsDiffer DEF values
        <5>2. QED
          BY <2>3, <2>4, <3>1, <5>1, KindsDiffer DEF HoldsRow, configStored, Loaded
      <4>4. QED
        BY <4>1, <4>2, <4>3
    <3>2. CASE q # p
      <4>1. change'[q] = change[q] /\ stage'[q] = stage[q]
        BY <2>3, <2>4, <3>2
      <4>2. Holds(q, c)
        BY <2>5, <4>1 DEF Holds
      <4>3. HoldsRow(q, c)
        BY <2>4, <4>2 DEF CopiesInvariant, HeldIsStored, HoldsRow
      <4>4. QED
        BY <2>4, <4>1, <4>3 DEF HoldsRow, configStored, Loaded
    <3>3. QED
      BY <3>1, <3>2
  <2>6. ASSUME NEW c \in Copies \ apart'
        PROVE  Agree(c)' \/ \E q \in Changers : Owes(q, c)'
    <3>1. \A q \in Changers : Owes(q, c) => Owes(q, c)'
      BY <2>3, <2>4 DEF Owes
    <3>2. Agree(c) => Agree(c)'
      BY <2>4 DEF Agree, configStored, configRunning, serviceVars, Loaded
    <3>3. QED
      BY <2>4, <3>1, <3>2 DEF CopiesInvariant, CopiesAgree
  <2>7. QED
    BY <2>5, <2>6 DEF CopiesInvariant, HeldIsStored, HoldsRow, CopiesAgree
<1>11. ASSUME NEW p \in Changers, InstallReload(p) PROVE CopiesInvariant'
  <2>1. /\ stage[p] = "read" /\ up /\ up' = up /\ UNCHANGED configStored /\ apart \subseteq apart'
        /\ Finish(p) /\ UNCHANGED <<rulesRam, serviceVars>>
    BY <1>11 DEF InstallReload, serviceVars
  <2>2. ASSUME NEW c \in Copies \ apart', Agree(c) \/ Owes(p, c) PROVE Agree(c)'
    <3>1. CASE change[p].rows \cap Unparsable = {}
      <4>1. rowsRam' = change[p].rows
            /\ setRam' = [k \in Keys |-> IF k \in ForwarderKeys THEN change[p].values[k]
                                                                ELSE setRam[k]]
        BY <1>11, <3>1 DEF InstallReload
      <4>2. CASE c = "upstreams" \/ c \in ForwarderKeys
        <5>1. HoldsRow(p, c)
          BY <2>1, <4>2 DEF Holds, CopiesInvariant, HeldIsStored, HoldsRow
        <5>2. QED
          BY <2>1, <4>1, <4>2, <5>1, KindsDiffer DEF Agree, HoldsRow, configStored, Loaded
      <4>3. CASE ~(c = "upstreams" \/ c \in ForwarderKeys)
        <5>1. Agree(c)
          BY <2>1, <2>2, <4>3 DEF Owes
        <5>2. QED
          BY <2>1, <4>1, <4>3, <5>1 DEF Agree, configStored, serviceVars, Loaded
      <4>4. QED
        BY <4>2, <4>3
    <3>2. CASE change[p].rows \cap Unparsable # {}
      <4>1. Agree(c)
        BY <1>11, <2>1, <2>2, <3>2 DEF InstallReload, Owes
      <4>2. UNCHANGED <<rowsRam, setRam>>
        BY <1>11, <3>2 DEF InstallReload
      <4>3. QED
        BY <2>1, <4>1, <4>2 DEF Agree, configStored, serviceVars, Loaded
    <3>3. QED
      BY <3>1, <3>2
  <2>3. QED
    BY <1>a, <2>1, <2>2, InstallStep
<1>12. ASSUME NEW p \in Changers, NEW k \in Keys, InstallSetting(p, k) PROVE CopiesInvariant'
  <2>1. change[p].copies = {k} /\ stage[p] = "written"
    BY <1>12, <1>a, KindsDiffer DEF InstallSetting, ChangeShape
  <2>2. /\ up /\ up' = up /\ UNCHANGED configStored /\ apart \subseteq apart'
        /\ Finish(p) /\ UNCHANGED <<rulesRam, rowsRam>>
        /\ restartDue => restartDue'
    <3>1. restartDue' = TRUE \/ restartDue' = restartDue
      BY <1>12 DEF InstallSetting, ScheduleRestart, serviceVars
    <3>2. /\ up /\ up' = up /\ UNCHANGED configStored /\ apart \subseteq apart'
          /\ Finish(p) /\ UNCHANGED <<rulesRam, rowsRam>>
      BY <1>12 DEF InstallSetting, ScheduleRestart, serviceVars
    <3>3. restartDue => restartDue'
      BY <3>1
    <3>4. QED
      BY <3>2, <3>3, Zenon
  <2>3. ASSUME NEW c \in Copies \ apart', Agree(c) \/ Owes(p, c) PROVE Agree(c)'
    <3>1. CASE c = k
      <4>1. change[p].values[k] = Loaded(k)
        BY <2>1, <2>2, <3>1 DEF Holds, CopiesInvariant, HeldIsStored
      <4>2. Loaded(k)' = Loaded(k) /\ Loaded(k) \in Values
        BY <2>2, LoadedIsValue DEF Loaded, configStored
      <4>3. CASE k \in NeedsRestart
        <5>1. restartDue'
          BY <1>12, <4>3 DEF InstallSetting, ScheduleRestart
        <5>2. QED
          BY <3>1, <4>3, <5>1, KindsDiffer DEF Agree
      <4>4. CASE k \notin NeedsRestart
        <5>1. setRam'[k] = Loaded(k)
          BY <1>12, <1>a, <4>1, <4>2, <4>4 DEF InstallSetting, ConfigTypeOK
        <5>2. QED
          BY <3>1, <4>2, <5>1, KindsDiffer DEF Agree
      <4>5. QED
        BY <4>3, <4>4
    <3>2. CASE c # k
      <4>1. Agree(c)
        BY <2>1, <2>3, <3>2 DEF Owes
      <4>2. c \in Keys => setRam'[c] = setRam[c]
        BY <1>12, <1>a, <3>2 DEF InstallSetting, ConfigTypeOK
      <4>3. QED
        BY <2>2, <4>1, <4>2 DEF Agree, configStored, Loaded
    <3>3. QED
      BY <3>1, <3>2
  <2>4. QED
    BY <1>a, <2>2, <2>3, InstallStep
<1>13. ASSUME NEW p \in Editors, RequestRestart(p) PROVE CopiesInvariant'
  <2>1. /\ up /\ up' = up /\ UNCHANGED configStored /\ apart \subseteq apart' /\ Finish(p)
        /\ UNCHANGED configRunning /\ restartDue' /\ stage[p] = "idle"
    BY <1>13 DEF RequestRestart, ScheduleRestart
  <2>2. \A c \in Copies \ apart' : Agree(c) \/ Owes(p, c) => Agree(c)'
    BY <2>1 DEF Agree, Owes, configStored, configRunning, Loaded
  <2>3. QED
    BY <1>a, <2>1, <2>2, InstallStep
<1>14. CASE SeedRows
  <2>1. /\ UNCHANGED <<rulesDb, setDb, configRunning, stage, change, serviceVars>>
        /\ apart \subseteq apart' /\ ("upstreams" \notin apart' => rowsDb' = rowsDb)
    BY <1>14 DEF SeedRows, SeededRows
  <2>2. \A q \in Changers, c \in Copies \ apart' :
            /\ Holds(q, c)' <=> Holds(q, c)
            /\ Owes(q, c)' <=> Owes(q, c)
            /\ HoldsRow(q, c) => HoldsRow(q, c)'
            /\ Agree(c) => Agree(c)'
    BY <2>1 DEF Holds, Owes, HoldsRow, Agree, configRunning, serviceVars, Loaded
  <2>3. up' = up
    BY <2>1 DEF serviceVars
  <2>4. HeldIsStored'
    BY <2>1, <2>2, <2>3 DEF CopiesInvariant, HeldIsStored, HoldsRow
  <2>5. \A c \in Copies \ apart' : Agree(c) => Agree(c)'
    BY <2>1 DEF Agree, configRunning, serviceVars, Loaded
  <2>6. CopiesAgree'
    BY <2>1, <2>2, <2>3, <2>5 DEF CopiesInvariant, CopiesAgree
  <2>7. QED
    BY <2>4, <2>6 DEF CopiesInvariant
<1>15. CASE RestartService(ConfigStarts) /\ ConfigRestart
  <2>1. \A q \in Changers : stage'[q] \in {"idle", "gone"}
    BY <1>15 DEF ConfigRestart
  <2>2. HeldIsStored'
    BY <2>1 DEF HeldIsStored, Holds
  <2>3. ASSUME up', NEW c \in Copies PROVE Agree(c)'
    <3>1. ConfigStarts
      BY <1>15, <2>3 DEF RestartService
    <3>2. /\ rulesRam' = rulesDb /\ rowsRam' = rowsDb' /\ setRam' = [k \in Keys |-> Loaded(k)]
          /\ UNCHANGED <<rulesDb, setDb>>
      BY <1>15, <3>1 DEF ConfigRestart
    <3>3. QED
      BY <3>2 DEF Agree, Loaded
  <2>4. QED
    BY <2>2, <2>3 DEF CopiesInvariant, CopiesAgree
<1>16. CASE UNCHANGED <<serviceVars, configVars>>
  BY <1>16 DEF serviceVars, configVars, configStored, configRunning, CopiesInvariant, HeldIsStored,
               CopiesAgree, Holds, Owes, Agree, Loaded
<1>17. QED
  BY <1>1, <1>2, <1>3, <1>5, <1>6, <1>7, <1>8, <1>9, <1>10, <1>11, <1>12, <1>13, <1>14, <1>15,
     <1>16, <1>a
     DEF ConfigNext, ConfigStep, ProcessStep, RequestStep, MirrorStep

-----------------------------------------------------------------------------
(* At first both sides hold the defaults.                                  *)
LEMMA ConfigStart == ServiceInit /\ ConfigInit => WellFormed /\ CopiesInvariant
<1> SUFFICES ASSUME ServiceInit, ConfigInit PROVE WellFormed /\ CopiesInvariant
  OBVIOUS
<1>1. \A p \in Changers : stage[p] \in {"idle", "gone"}
  BY DEF ConfigInit
<1>2. ServiceTypeOK /\ ChangeShape
  BY <1>1 DEF ServiceInit, ServiceTypeOK, ChangeShape
<1>3. ConfigTypeOK
  BY NoChangeType DEF ConfigInit, ConfigTypeOK, ChangeType
<1>4. HeldIsStored
  BY <1>1 DEF HeldIsStored, Holds
<1>5. CopiesAgree
  BY DEF ConfigInit, CopiesAgree, Agree, Loaded
<1>6. QED
  BY <1>2, <1>3, <1>4, <1>5 DEF WellFormed, CopiesInvariant

(* The strengthened invariant, and with it the copies, for the component   *)
(* by itself.                                                              *)
THEOREM ConfigHolds == ConfigSpec => []ConfigInvariant
<1>1. ConfigInvariant <=> WellFormed /\ CopiesInvariant
  BY DEF ConfigInvariant, WellFormed, CopiesInvariant
<1>2. ServiceInit /\ ConfigInit => ConfigInvariant
  BY <1>1, ConfigStart
<1>3. ConfigInvariant /\ [ConfigNext]_<<serviceVars, configVars>> => ConfigInvariant'
  <2>1. WellFormed' /\ CopiesInvariant' => ConfigInvariant'
    BY DEF ConfigInvariant, WellFormed, CopiesInvariant
  <2>2. QED
    BY <1>1, <2>1, WellFormedStep, CopiesStep
<1>4. QED
  BY <1>2, <1>3, PTL DEF ConfigSpec

-----------------------------------------------------------------------------
(* Credentials                                                             *)

HIDE ConfigAssumption
USE CredentialsAssumption

(* What a request of the API, a reset or a start leaves is well typed.     *)
LEMMA CredTypeStep ==
    CredTypeOK /\ ThrottleInvariant /\ [CredNext]_credVars => CredTypeOK'
<1> SUFFICES ASSUME CredTypeOK, ThrottleInvariant, [CredNext]_credVars PROVE CredTypeOK'
  OBVIOUS
<1>. USE DEF UserGoto, Quit, NoAttempt, credentialRows, throttle, keys
<1>a. NoAttempt \in [client : Clients \cup {NoClient}, password : Nat, key : Nat]
  OBVIOUS
<1>b. ASSUME NEW u \in Users, NEW right \in BOOLEAN, LockAndCompare(u, right)
      PROVE  CredTypeOK'
  BY <1>b DEF LockAndCompare, CredTypeOK
<1>1. ASSUME NEW u \in Logins, NEW c \in From[u], CheckThrottle(u, c) PROVE CredTypeOK'
  <2>1. c \in Clients /\ u \in Users
    BY DEF Users
  <2>2. tracked' \in SUBSET Clients /\ old' \in SUBSET Clients
    BY <1>1 DEF CheckThrottle, Left, Kept, CredTypeOK
  <2>3. failures' \in [Clients -> Nat]
    BY <1>1 DEF CheckThrottle, CredTypeOK
  <2>4. QED
    BY <1>1, <2>1, <2>2, <2>3, SMTT(30) DEF CheckThrottle, CredTypeOK
<1>2. ASSUME NEW u \in Logins, TakeSlot(u) PROVE CredTypeOK'
  BY <1>2, <1>a DEF TakeSlot, CredTypeOK, Users
<1>3. ASSUME NEW u \in Logins, NEW right \in BOOLEAN, LockForLogin(u, right) PROVE CredTypeOK'
  BY <1>3, <1>b DEF LockForLogin, Users
<1>4. ASSUME NEW u \in Logins, HashUnreadable(u) PROVE CredTypeOK'
  BY <1>4, <1>a DEF HashUnreadable, CredTypeOK, Users
<1>5. ASSUME NEW u \in Logins, Verify(u) PROVE CredTypeOK'
  BY <1>5 DEF Verify, Signed, CredTypeOK, Users
<1>6. ASSUME NEW u \in Logins, RecordSuccess(u) PROVE CredTypeOK'
  BY <1>6, <1>a DEF RecordSuccess, CredTypeOK, Users
<1>8. ASSUME NEW u \in Changes, NEW right \in BOOLEAN, LockForChange(u, right) PROVE CredTypeOK'
  BY <1>8, <1>b DEF LockForChange, Users
<1>9. ASSUME NEW u \in Changes, Commit(u) PROVE CredTypeOK'
  <2>1. u \in Users /\ fresh + 1 \in Nat /\ fresh + 2 \in Nat
    BY DEF CredTypeOK, Users
  <2>2. attempt' \in [Users -> [client : Clients \cup {NoClient}, password : Nat, key : Nat]]
    <3>. DEFINE T == [client : Clients \cup {NoClient}, password : Nat, key : Nat]
                ch == [attempt[u] EXCEPT !.password = fresh + 1, !.key = fresh + 2]
    <3>1. attempt \in [Users -> T] /\ attempt[u] \in T
      BY <2>1 DEF CredTypeOK
    <3>2. ch \in T
      BY <2>1, <3>1
    <3>3. attempt' = [attempt EXCEPT ![u] = ch]
      BY <1>9 DEF Commit
    <3>. HIDE DEF T, ch
    <3>4. attempt' \in [Users -> T]
      BY <3>1, <3>2, <3>3
    <3>5. QED
      BY <3>4 DEF T
  <2>3. QED
    BY <1>9, <2>1, <2>2, SMTT(30) DEF Commit, CredTypeOK
<1>10. ASSUME NEW u \in Changes, Refuse(u) PROVE CredTypeOK'
  BY <1>10, <1>a DEF Refuse, CredTypeOK, Users
<1>11. ASSUME NEW u \in Changes, ReplaceKey(u) PROVE CredTypeOK'
  BY <1>11, <1>a DEF ReplaceKey, Signed, CredTypeOK, Users
<1>12. ASSUME NEW u \in Resets, OpenForReset(u) PROVE CredTypeOK'
  BY <1>12 DEF OpenForReset, CredTypeOK, Users
<1>13. ASSUME NEW u \in Resets, ResetHash(u) PROVE CredTypeOK'
  <2>1. overtaken' \subseteq Nat
    BY <1>13 DEF ResetHash, CredTypeOK, Committed, Users
  <2>2. QED
    BY <1>13, <2>1 DEF ResetHash, CredTypeOK, Users
<1>14. ASSUME NEW u \in Resets, ReadBack(u) PROVE CredTypeOK'
  BY <1>14 DEF ReadBack, CredTypeOK, Users
<1>15. ASSUME NEW u \in Resets, ResetKey(u) PROVE CredTypeOK'
  BY <1>15 DEF ResetKey, CredTypeOK, Users
<1>16. ASSUME NEW u \in Resets, ResetCut(u) PROVE CredTypeOK'
  BY <1>16, <1>a DEF ResetCut, CredTypeOK, Users
<1>17. ASSUME NEW u \in Resets, ResetPrints(u) PROVE CredTypeOK'
  BY <1>17, <1>a DEF ResetPrints, CredTypeOK, Users
<1>18. ASSUME NEW c \in Clients, WindowEnds(c) PROVE CredTypeOK'
  BY <1>18 DEF WindowEnds, CredTypeOK
<1>19. CASE CredRestart
  <2>1. userAt' \in [Users -> {"idle", "checked", "slot", "locked", "verified", "committed",
                               "opened", "hashed", "confirmed", "keyed", "cut", "gone"}]
    BY <1>19 DEF CredRestart, CredTypeOK
  <2>2. attempt' \in [Users -> [client : Clients \cup {NoClient}, password : Nat, key : Nat]]
    BY <1>19, <1>a DEF CredRestart, CredTypeOK
  <2>3. QED
    BY <1>19, <2>1, <2>2 DEF CredRestart, CredTypeOK
<1>20. CASE UNCHANGED credVars
  BY <1>20 DEF credVars, CredTypeOK
<1>7. ASSUME NEW u \in Logins, RecordFailure(u) PROVE CredTypeOK'
  <2>1. u \in Users
    BY DEF Users
  <2>3. attempt[u].client \in Clients
    <3>1. userAt[u] = "verified"
      BY <1>7 DEF RecordFailure
    <3>2. u \in Working
      BY <3>1 DEF ThrottleInvariant
    <3>3. QED
      BY <2>1, <3>2 DEF Working, CredTypeOK
  <2>2. failures' \in [Clients -> Nat]
    BY <1>7, <2>3 DEF RecordFailure, CredTypeOK
  <2>4. /\ tracked' = tracked \cup {attempt[u].client} /\ old' \subseteq old
        /\ tracked \subseteq Clients /\ old \subseteq Clients
    BY <1>7 DEF RecordFailure, CredTypeOK
  <2>5. QED
    BY <1>7, <2>1, <2>2, <2>3, <2>4 DEF RecordFailure, CredTypeOK
<1>21. QED
  BY <1>1, <1>2, <1>3, <1>4, <1>5, <1>6, <1>7, <1>8, <1>9, <1>10, <1>11, <1>12, <1>13, <1>14,
     <1>15, <1>16, <1>17, <1>18, <1>19, <1>20
     DEF CredNext, CredStep, LoginStep, ChangeStep, ResetStep

-----------------------------------------------------------------------------
(* The keys: one step per action that changes a key, the hash, a session,  *)
(* the lock, or what a locked or committed request knows.                  *)
KeysHold == KeyInvariant /\ SessionsMatchPassword

(* A step that touches neither keys, hash nor sessions, locks nobody and   *)
(* commits nothing, leaves nothing committed, and forgets no reset.        *)
LEMMA KeysUntouched ==
    ASSUME CredTypeOK, KeysHold,
           UNCHANGED <<hash, keyDb, keyRam, fresh, overtaken, sessions>>,
           \A v \in Users :
               userAt'[v] = "locked" \/ (v \in Changes /\ userAt'[v] = "committed") =>
               userAt'[v] = userAt[v] /\ attempt'[v] = attempt[v] /\ locked' = locked,
           \A v \in Changes : userAt[v] = "committed" => userAt'[v] = "committed",
           \A v \in Resets : userAt[v] \in {"hashed", "confirmed", "cut"} =>
               userAt'[v] \in {"hashed", "confirmed", "cut"}
    PROVE  KeysHold'
<1>1. Committed' = Committed /\ \A v \in Committed : v \in Users
  BY DEF Committed, Users
<1>2. \A v \in Committed : attempt'[v] = attempt[v] /\ locked' = locked
  BY <1>1 DEF Committed
<1>3. \A k \in HandedOut' : k <= fresh'
  <2>1. HandedOut' = HandedOut
    BY <1>1, <1>2 DEF HandedOut
  <2>2. QED
    BY <2>1 DEF KeysHold, KeyInvariant
<1>4. KeyInvariant'
  BY <1>1, <1>2, <1>3 DEF KeysHold, KeyInvariant
<1>5. SessionsMatchPassword'
  BY <1>1 DEF KeysHold, SessionsMatchPassword, Accepted
<1>6. QED
  BY <1>4, <1>5 DEF KeysHold

(* Every key in use is a number that was given out.                        *)
LEMMA KeysBounded ==
    ASSUME CredTypeOK, KeysHold
    PROVE  /\ fresh \in Nat /\ HandedOut \subseteq Nat
           /\ \A k \in HandedOut : k <= fresh
           /\ fresh + 1 \notin HandedOut
           /\ (\A s \in sessions : s.key # fresh + 1) /\ fresh + 1 \notin overtaken
<1>1. fresh \in Nat
  BY DEF CredTypeOK
<1>2. HandedOut \subseteq Nat
  <2>1. \A v \in Committed : v \in Users
    BY DEF Committed, Users
  <2>2. \A v \in Committed : attempt[v].key \in Nat
    BY <2>1 DEF CredTypeOK
  <2>3. (\A s \in sessions : s.key \in Nat) /\ keyDb \in Nat /\ keyRam \in Nat
        /\ overtaken \subseteq Nat
    BY DEF CredTypeOK
  <2>4. QED
    BY <2>2, <2>3 DEF HandedOut
<1>3. \A k \in HandedOut : k <= fresh
  BY DEF KeysHold, KeyInvariant
<1>4. fresh + 1 \notin HandedOut
  BY <1>1, <1>2, <1>3
<1>5. QED
  BY <1>1, <1>2, <1>3, <1>4 DEF HandedOut

(* Only the holder of the lock is locked or committed.                     *)
LEMMA OneHolder ==
    ASSUME KeysHold, NEW u \in Users, NEW v \in Users,
           userAt[u] = "locked" \/ (u \in Changes /\ userAt[u] = "committed"),
           userAt[v] = "locked" \/ (v \in Changes /\ userAt[v] = "committed")
    PROVE  u = v /\ locked = u
  BY DEF KeysHold, KeyInvariant, Committed

(* A step keeps what the invariant says of session keys.                   *)
LEMMA KeyStep ==
    CredTypeOK /\ KeysHold /\ [CredNext]_credVars => KeysHold'
<1> SUFFICES ASSUME CredTypeOK, KeysHold, [CredNext]_credVars PROVE KeysHold'
  OBVIOUS
<1>. USE DEF UserGoto, Quit, credentialRows, throttle, keys
<1>t. userAt \in [Users -> {"idle", "checked", "slot", "locked", "verified", "committed",
                            "opened", "hashed", "confirmed", "keyed", "cut", "gone"}]
      /\ DOMAIN attempt = Users
  BY DEF CredTypeOK
<1>d. Logins \subseteq Users /\ Changes \subseteq Users /\ Resets \subseteq Users
      /\ NoUser \notin Users
  BY DEF Users
<1>1. ASSUME NEW u \in Logins, NEW c \in From[u], CheckThrottle(u, c) PROVE KeysHold'
  BY <1>1, <1>t, <1>d, KeysUntouched DEF CheckThrottle
<1>2. ASSUME NEW u \in Logins, TakeSlot(u) PROVE KeysHold'
  BY <1>2, <1>t, <1>d, KeysUntouched DEF TakeSlot
<1>3. ASSUME NEW u \in Logins, HashUnreadable(u) PROVE KeysHold'
  BY <1>3, <1>t, <1>d, KeysUntouched DEF HashUnreadable
<1>4. ASSUME NEW u \in Logins, RecordSuccess(u) PROVE KeysHold'
  BY <1>4, <1>t, <1>d, KeysUntouched DEF RecordSuccess
<1>5. ASSUME NEW u \in Logins, RecordFailure(u) PROVE KeysHold'
  BY <1>5, <1>t, <1>d, KeysUntouched DEF RecordFailure
<1>6. ASSUME NEW c \in Clients, WindowEnds(c) PROVE KeysHold'
  BY <1>6, <1>t, <1>d, KeysUntouched DEF WindowEnds
<1>7. ASSUME NEW u \in Resets, OpenForReset(u) PROVE KeysHold'
  BY <1>7, <1>t, <1>d, KeysUntouched DEF OpenForReset
<1>8. ASSUME NEW u \in Resets, ReadBack(u) PROVE KeysHold'
  BY <1>8, <1>t, <1>d, KeysUntouched DEF ReadBack
<1>9. ASSUME NEW u \in Resets, ResetCut(u) PROVE KeysHold'
  BY <1>9, <1>t, <1>d, KeysUntouched DEF ResetCut
<1>10. ASSUME NEW u \in Resets, ResetPrints(u) PROVE KeysHold'
  BY <1>10, <1>t, <1>d, KeysUntouched DEF ResetPrints
<1>11. ASSUME NEW u \in Changes, Refuse(u) PROVE KeysHold'
  <2>1. userAt[u] = "locked" /\ userAt' = [userAt EXCEPT ![u] = "gone"]
        /\ attempt' = [attempt EXCEPT ![u] = NoAttempt]
    BY <1>11 DEF Refuse
  <2>2. \A v \in Users : ~(userAt'[v] = "locked" \/ (v \in Changes /\ userAt'[v] = "committed"))
    BY <2>1, <1>t, <1>d, OneHolder
  <2>3. \A v \in Changes \cup Resets : v # u => userAt'[v] = userAt[v]
    BY <2>1, <1>t, <1>d
  <2>4. \A v \in Changes : userAt[v] = "committed" => userAt'[v] = "committed"
    BY <2>1, <2>3
  <2>5. \A v \in Resets : userAt[v] \in {"hashed", "confirmed", "cut"} =>
            userAt'[v] \in {"hashed", "confirmed", "cut"}
    BY <2>1, <2>3
  <2>6. UNCHANGED <<hash, keyDb, keyRam, fresh, overtaken, sessions>>
    BY <1>11 DEF Refuse
  <2>7. QED
    BY <2>2, <2>4, <2>5, <2>6, KeysUntouched
<1>12. CASE UNCHANGED credVars
  BY <1>12, <1>t, <1>d, KeysUntouched DEF credVars
<1>b. ASSUME NEW u \in Users, NEW right \in BOOLEAN, u \notin Resets, userAt[u] # "committed",
             LockAndCompare(u, right)
      PROVE  KeysHold'
  <2>1. /\ locked = NoUser /\ locked' = u /\ userAt' = [userAt EXCEPT ![u] = "locked"]
        /\ attempt' = [attempt EXCEPT ![u].password = IF right THEN hash ELSE 0]
        /\ UNCHANGED <<hash, keyDb, keyRam, fresh, overtaken, sessions>>
    BY <1>b DEF LockAndCompare
  <2>2. \A v \in Users : userAt[v] # "locked" /\ ~(v \in Changes /\ userAt[v] = "committed")
    BY <2>1, <1>d, OneHolder
  <2>3. Committed = {} /\ Committed' = {}
    BY <2>1, <2>2, <1>t, <1>d DEF Committed
  <2>4. KeyInvariant'
    <3>1. \A k \in HandedOut' : k <= fresh'
      <4>1. HandedOut' = HandedOut
        BY <2>1, <2>3 DEF HandedOut
      <4>2. QED
        BY <2>1, <4>1 DEF KeysHold, KeyInvariant
    <3>2. \A v \in Users : userAt'[v] = "locked" => v = u
      BY <2>1, <2>2, <1>t
    <3>3. attempt'[u].password \in {0, hash'}
      BY <2>1 DEF CredTypeOK
    <3>4. QED
      BY <1>b, <2>1, <2>3, <3>1, <3>2, <3>3 DEF KeysHold, KeyInvariant
  <2>5. SessionsMatchPassword'
    BY <2>1, <2>3, <1>t, <1>b DEF KeysHold, SessionsMatchPassword, Accepted
  <2>6. QED
    BY <2>4, <2>5 DEF KeysHold
<1>13. ASSUME NEW u \in Logins, NEW right \in BOOLEAN, LockForLogin(u, right) PROVE KeysHold'
  BY <1>13, <1>b, <1>d DEF LockForLogin
<1>14. ASSUME NEW u \in Changes, NEW right \in BOOLEAN, LockForChange(u, right) PROVE KeysHold'
  BY <1>14, <1>b, <1>d DEF LockForChange
<1>15. ASSUME NEW u \in Logins, Verify(u) PROVE KeysHold'
  <2>1. /\ userAt[u] = "locked" /\ userAt' = [userAt EXCEPT ![u] = "verified"]
        /\ UNCHANGED <<hash, keyDb, keyRam, fresh, overtaken, attempt>>
        /\ sessions' \subseteq sessions \cup
                 (IF attempt[u].password = 0 THEN {} ELSE {Signed(keyRam, attempt[u].password)})
    BY <1>15 DEF Verify
  <2>2. \A v \in Users : ~(userAt'[v] = "locked" \/ (v \in Changes /\ userAt'[v] = "committed"))
    BY <2>1, <1>t, <1>d, OneHolder
  <2>3. Committed' = {}
    BY <2>2, <1>d DEF Committed
  <2>4. Committed = {}
    BY <2>1, <1>t, <1>d, OneHolder DEF Committed
  <2>5. \A s \in sessions' : s \in sessions \/ (s.key = keyRam /\
                                (s.password = hash \/ keyRam \in overtaken))
    <3>1. attempt[u].password \in {0, hash} \/ keyRam \in overtaken
      BY <2>1, <1>d DEF KeysHold, KeyInvariant
    <3>2. QED
      BY <2>1, <3>1 DEF Signed
  <2>6. KeyInvariant'
    <3>1. \A k \in HandedOut' : k <= fresh'
      <4>1. HandedOut' \subseteq HandedOut
        BY <2>1, <2>3, <2>5 DEF HandedOut
      <4>2. QED
        BY <2>1, <4>1 DEF KeysHold, KeyInvariant
    <3>2. \A s \in sessions' : s.key = keyDb' => s.password = hash' \/ keyDb' \in overtaken'
      BY <2>1, <2>5 DEF KeysHold, KeyInvariant
    <3>3. QED
      BY <2>2, <2>3, <3>1, <3>2 DEF KeyInvariant
  <2>7. SessionsMatchPassword'
    BY <2>1, <2>4, <2>5, <1>t, <1>d DEF KeysHold, SessionsMatchPassword, Accepted
  <2>8. QED
    BY <2>6, <2>7 DEF KeysHold
<1>16. ASSUME NEW u \in Changes, Commit(u) PROVE KeysHold'
  <2>1. /\ userAt[u] = "locked" /\ userAt' = [userAt EXCEPT ![u] = "committed"]
        /\ fresh' = fresh + 2 /\ hash' = fresh + 1 /\ keyDb' = fresh + 2
        /\ UNCHANGED <<keyRam, overtaken, sessions, locked>>
    BY <1>16 DEF Commit
  <2>2. attempt'[u].password = fresh + 1 /\ attempt'[u].key = fresh + 2
    BY <1>16, <1>d DEF Commit, CredTypeOK
  <2>3. locked = u /\ \A v \in Users : userAt[v] = "locked" => v = u
    BY <2>1, <1>d, OneHolder
  <2>4. Committed = {} /\ Committed' = {u} /\ \A v \in Users : userAt'[v] # "locked"
    <3>1. \A v \in Changes : userAt[v] # "committed"
      BY <2>1, <1>d, OneHolder
    <3>2. QED
      BY <2>1, <2>3, <3>1, <1>t, <1>d DEF Committed
  <2>5. /\ fresh \in Nat /\ overtaken \subseteq Nat /\ keyRam \in Nat
        /\ \A s \in sessions : s.key \in Nat
    BY DEF CredTypeOK
  <2>6. keyRam <= fresh /\ (\A k \in overtaken : k <= fresh) /\ \A s \in sessions : s.key <= fresh
    BY DEF KeysHold, KeyInvariant, HandedOut
  <2>7. KeyInvariant'
    <3>1. HandedOut' \subseteq {fresh + 2, keyRam} \cup overtaken \cup {s.key : s \in sessions}
      BY <2>1, <2>2, <2>4 DEF HandedOut
    <3>2. \A k \in HandedOut' : k <= fresh'
      BY <2>1, <2>5, <2>6, <3>1
    <3>3. \A s \in sessions : s.key # fresh + 2
      BY <2>5, <2>6
    <3>4. QED
      BY <2>1, <2>2, <2>3, <2>4, <3>2, <3>3 DEF KeyInvariant
  <2>8. SessionsMatchPassword'
    <3>1. keyDb' \notin overtaken'
      BY <2>1, <2>5, <2>6
    <3>2. QED
      BY <2>4, <3>1 DEF SessionsMatchPassword
  <2>9. QED
    BY <2>7, <2>8 DEF KeysHold
<1>17. ASSUME NEW u \in Changes, ReplaceKey(u) PROVE KeysHold'
  <2>1. /\ userAt[u] = "committed" /\ userAt' = [userAt EXCEPT ![u] = "gone"]
        /\ keyRam' = attempt[u].key
        /\ sessions' = sessions \cup {Signed(attempt[u].key, attempt[u].password)}
        /\ UNCHANGED <<hash, keyDb, fresh, overtaken>>
    BY <1>17 DEF ReplaceKey
  <2>2. u \in Committed
    BY <2>1 DEF Committed
  <2>3. \A v \in Users : ~(userAt'[v] = "locked" \/ (v \in Changes /\ userAt'[v] = "committed"))
    BY <2>1, <1>t, <1>d, OneHolder
  <2>4. Committed' = {}
    BY <2>3, <1>d DEF Committed
  <2>5. /\ attempt[u].password = hash \/ attempt[u].key \in overtaken
        /\ \A s \in sessions : s.key # attempt[u].key
    BY <2>2 DEF KeysHold, KeyInvariant
  <2>6. KeyInvariant'
    <3>1. HandedOut' \subseteq HandedOut
      BY <2>1, <2>2, <2>4 DEF HandedOut, Signed
    <3>2. \A k \in HandedOut' : k <= fresh'
      BY <2>1, <3>1 DEF KeysHold, KeyInvariant
    <3>3. \A s \in sessions' : s.key = keyDb' => s.password = hash' \/ keyDb' \in overtaken'
      BY <2>1, <2>5 DEF Signed, KeysHold, KeyInvariant
    <3>4. QED
      BY <2>3, <2>4, <3>2, <3>3 DEF KeyInvariant
  <2>7. SessionsMatchPassword'
    <3>1. \A s \in sessions' : s.key = keyRam' => s.password = hash' \/ keyRam' \in overtaken'
      BY <2>1, <2>5 DEF Signed
    <3>2. \A v \in Resets : userAt'[v] = userAt[v] \/ v = u
      BY <2>1, <1>t, <1>d
    <3>3. QED
      BY <2>1, <3>1, <3>2, <1>d DEF SessionsMatchPassword, Accepted, KeysHold
  <2>8. QED
    BY <2>6, <2>7 DEF KeysHold
<1>18. ASSUME NEW u \in Resets, ResetHash(u) PROVE KeysHold'
  <2>1. /\ userAt[u] = "opened" /\ userAt' = [userAt EXCEPT ![u] = "hashed"]
        /\ fresh' = fresh + 1 /\ hash' = fresh + 1
        /\ overtaken' = overtaken \cup {keyDb, keyRam} \cup {attempt[v].key : v \in Committed}
        /\ UNCHANGED <<keyDb, keyRam, sessions, locked>>
        /\ attempt' = [attempt EXCEPT ![u].password = fresh + 1]
    BY <1>18 DEF ResetHash
  <2>2. /\ Committed' = Committed
        /\ \A v \in Committed : attempt'[v] = attempt[v]
        /\ \A v \in Users : userAt'[v] = "locked" => userAt[v] = "locked"
    BY <2>1, <1>t, <1>d DEF Committed
  <2>3. KeyInvariant'
    <3>1. HandedOut' \subseteq HandedOut
      BY <2>1, <2>2 DEF HandedOut
    <3>2. \A k \in HandedOut' : k <= fresh'
      BY <2>1, <3>1, KeysBounded
    <3>3. QED
      BY <2>1, <2>2, <3>2, <1>d DEF KeysHold, KeyInvariant
  <2>4. SessionsMatchPassword'
    BY <2>1, <1>t, <1>d DEF SessionsMatchPassword
  <2>5. QED
    BY <2>3, <2>4 DEF KeysHold
<1>19. ASSUME NEW u \in Resets, ResetKey(u) PROVE KeysHold'
  <2>1. /\ userAt[u] = "confirmed" /\ userAt' = [userAt EXCEPT ![u] = "keyed"]
        /\ fresh' = fresh + 1 /\ keyDb' = fresh + 1
        /\ UNCHANGED <<hash, keyRam, overtaken, sessions, locked>>
        /\ attempt' = [attempt EXCEPT ![u].key = fresh + 1]
    BY <1>19 DEF ResetKey
  <2>2. /\ Committed' = Committed
        /\ \A v \in Committed : attempt'[v] = attempt[v]
        /\ \A v \in Users : userAt'[v] = "locked" =>
               userAt[v] = "locked" /\ v # u /\ attempt'[v] = attempt[v]
    BY <2>1, <1>t, <1>d DEF Committed
  <2>3. HandedOut \subseteq Nat /\ fresh \in Nat /\ \A k \in HandedOut : k <= fresh
    BY KeysBounded
  <2>4. (\A s \in sessions : s.key # fresh + 1) /\ fresh + 1 \notin overtaken
    BY KeysBounded
  <2>5. KeyInvariant'
    <3>1. HandedOut' \subseteq HandedOut \cup {fresh + 1}
      BY <2>1, <2>2 DEF HandedOut
    <3>2. \A k \in HandedOut' : k <= fresh'
      BY <2>1, <2>3, <3>1
    <3>3. \A v \in Committed' :
              /\ locked' = v /\ (attempt'[v].password = hash' \/ attempt'[v].key \in overtaken')
              /\ \A s \in sessions' : s.key # attempt'[v].key
      <4>1. \A v \in Committed :
                /\ locked = v /\ (attempt[v].password = hash \/ attempt[v].key \in overtaken)
                /\ \A s \in sessions : s.key # attempt[v].key
        BY DEF KeysHold, KeyInvariant
      <4>2. UNCHANGED <<hash, overtaken, sessions, locked>>
        BY <2>1
      <4>3. QED
        BY <2>2, <4>1, <4>2
    <3>4. \A s \in sessions' : s.key # keyDb'
      BY <2>1, <2>4
    <3>5. \A v \in Users : userAt'[v] = "locked" =>
              /\ locked' = v /\ v \notin Resets
              /\ (attempt'[v].password \in {0, hash'} \/ keyRam' \in overtaken')
      BY <2>1, <2>2 DEF KeysHold, KeyInvariant
    <3>6. QED
      BY <3>2, <3>3, <3>4, <3>5 DEF KeyInvariant
  <2>6. SessionsMatchPassword'
    BY <2>1, <2>2, <2>4 DEF KeysHold, SessionsMatchPassword, Accepted
  <2>7. QED
    BY <2>5, <2>6 DEF KeysHold
<1>20. CASE CredRestart
  <2>1. UNCHANGED <<hash, sessions, overtaken>>
    BY <1>20 DEF CredRestart
  <2>2. \A v \in Users : ~(userAt'[v] = "locked" \/ (v \in Changes /\ userAt'[v] = "committed"))
    <3>1. \A v \in Resets : userAt[v] # "locked"
      BY <1>d DEF KeysHold, KeyInvariant
    <3>2. QED
      BY <1>20, <3>1, <1>d DEF CredRestart, Lives
  <2>3. Committed' = {}
    BY <2>2, <1>d DEF Committed
  <2>4. HandedOut \subseteq Nat /\ fresh \in Nat /\ \A k \in HandedOut : k <= fresh
    BY KeysBounded
  <2>5. (\A s \in sessions : s.key # fresh + 1) /\ fresh + 1 \notin overtaken
    BY KeysBounded
  <2>6. /\ keyDb' = keyDb \/ keyDb' = fresh + 1
        /\ keyRam' = keyDb \/ keyRam' = fresh + 1
        /\ fresh' = fresh \/ fresh' = fresh + 1
        /\ fresh' = fresh => keyDb' = keyDb /\ keyRam' = keyDb
    BY <1>20, <2>4 DEF CredRestart
  <2>7. KeyInvariant'
    <3>1. HandedOut' \subseteq HandedOut \cup {keyDb', keyRam'}
      BY <2>1, <2>3 DEF HandedOut
    <3>2. keyDb \in HandedOut
      BY DEF HandedOut
    <3>3. \A k \in HandedOut' : k <= fresh'
      BY <2>4, <2>6, <3>1, <3>2
    <3>4. \A s \in sessions' : s.key = keyDb' => s.password = hash' \/ keyDb' \in overtaken'
      BY <2>1, <2>5, <2>6 DEF KeysHold, KeyInvariant
    <3>5. QED
      BY <2>2, <2>3, <3>3, <3>4 DEF KeyInvariant
  <2>8. SessionsMatchPassword'
    <3>1. \A s \in sessions' : s.key = keyRam' => s.password = hash' \/ keyRam' \in overtaken'
      BY <2>1, <2>5, <2>6 DEF KeysHold, KeyInvariant
    <3>2. \A v \in Resets : userAt'[v] = userAt[v]
      BY <1>20, <1>d DEF CredRestart, Lives
    <3>3. keyDb' \in overtaken' => keyDb \in overtaken
      BY <2>1, <2>5, <2>6
    <3>4. QED
      BY <3>1, <3>2, <3>3 DEF KeysHold, SessionsMatchPassword, Accepted
  <2>9. QED
    BY <2>7, <2>8 DEF KeysHold
<1>21. QED
  BY <1>1, <1>2, <1>3, <1>4, <1>5, <1>6, <1>7, <1>8, <1>9, <1>10, <1>11, <1>12, <1>13, <1>14,
     <1>15, <1>16, <1>17, <1>18, <1>19, <1>20
     DEF CredNext, CredStep, LoginStep, ChangeStep, ResetStep

-----------------------------------------------------------------------------
(* The throttle: each login under way counts as a failure to come.         *)
Engaged == {"checked", "slot", "locked", "verified"}

(* Logins under way and clients are finite in number, so are their sets.   *)
LEMMA Finiteness ==
    ASSUME CredTypeOK
    PROVE  /\ Cardinality(Logins) \in Nat
           /\ \A c \in Clients : IsFiniteSet(InFlight(c)) /\ Cardinality(InFlight(c)) \in Nat
                                 /\ Cardinality(InFlight(c)) <= Cardinality(Logins)
           /\ IsFiniteSet(Working) /\ Cardinality(Working) <= Cardinality(Logins)
           /\ Unrecorded \subseteq Clients
           /\ \A S \in SUBSET Clients : IsFiniteSet(S) /\ Cardinality(S) \in Nat
<1>1. Cardinality(Logins) \in Nat
  BY FS_CardinalityType
<1>2. ASSUME NEW S \in SUBSET Logins
      PROVE  IsFiniteSet(S) /\ Cardinality(S) \in Nat /\ Cardinality(S) <= Cardinality(Logins)
  BY FS_Subset, FS_CardinalityType
<1>3. Working \in SUBSET Logins /\ \A c \in Clients : InFlight(c) \in SUBSET Logins
  BY DEF Working, InFlight
<1>4. Unrecorded \subseteq Clients
  BY DEF Unrecorded, Working, CredTypeOK, Users
<1>5. ASSUME NEW S \in SUBSET Clients PROVE IsFiniteSet(S) /\ Cardinality(S) \in Nat
  BY FS_Subset, FS_CardinalityType
<1>6. QED
  BY <1>1, <1>2, <1>3, <1>4, <1>5

(* The clients of some logins are no more than all logins.                 *)
LEMMA FewClients ==
    ASSUME NEW W \in SUBSET Logins, NEW f
    PROVE  Cardinality({f[w].client : w \in W}) <= Cardinality(Logins)
<1>. DEFINE g == [w \in W |-> f[w].client]
            T == {f[w].client : w \in W}
<1>1. g \in Surjection(W, T)
  BY DEF Surjection
<1>2. IsFiniteSet(W) /\ Cardinality(W) <= Cardinality(Logins)
      /\ Cardinality(Logins) \in Nat /\ Cardinality(W) \in Nat
  BY FS_Subset, FS_CardinalityType
<1>3. IsFiniteSet(T) /\ Cardinality(T) <= Cardinality(W)
  BY <1>1, <1>2, FS_Surjection
<1>4. Cardinality(T) \in Nat
  BY <1>3, FS_CardinalityType
<1>. HIDE DEF T
<1>5. Cardinality(T) <= Cardinality(Logins)
  BY <1>2, <1>3, <1>4
<1>6. QED
  BY <1>5 DEF T

(* A step that leaves the throttle and what is under way as they are.      *)
LEMMA ThrottleUntouched ==
    ASSUME CredTypeOK, ThrottleInvariant, UNCHANGED <<failures, tracked>>,
           \A u \in Logins : /\ attempt'[u].client = attempt[u].client
                             /\ userAt'[u] \in Engaged <=> userAt[u] \in Engaged
    PROVE  ThrottleInvariant'
<1>1. Working' = Working
  BY DEF Working
<1>2. (\A c \in Clients : InFlight(c)' = InFlight(c)) /\ Unrecorded' = Unrecorded
  BY <1>1 DEF InFlight, Unrecorded, Working
<1>3. QED
  BY <1>1, <1>2 DEF ThrottleInvariant, Engaged

(* A login that leaves, with or without a failure recorded.                *)
LEMMA LoginLeaves ==
    ASSUME CredTypeOK, CredTypeOK', ThrottleInvariant, NEW u \in Working,
           attempt' = [attempt EXCEPT ![u] = NoAttempt],
           userAt' = [userAt EXCEPT ![u] = "idle"],
           \A c \in Clients : failures'[c] <= failures[c] + (IF c = attempt[u].client THEN 1 ELSE 0),
           tracked' \subseteq tracked \cup {attempt[u].client},
           \A c \in Clients \ tracked' : failures'[c] = 0
    PROVE  ThrottleInvariant'
<1>1. u \in Logins /\ Logins \subseteq Users
  BY DEF Working, Users
<1>2. Working' = Working \ {u} /\ \A v \in Working' : attempt'[v] = attempt[v]
  BY <1>1 DEF Working, CredTypeOK, NoAttempt
<1>3. \A v \in Logins : userAt'[v] \in Engaged <=> v \in Working'
  BY <1>1, <1>2 DEF ThrottleInvariant, Engaged, CredTypeOK
<1>4. ASSUME NEW c \in Clients
      PROVE  failures'[c] + Cardinality(InFlight(c)') < MaxFailures + Cardinality(Logins)
  <2>1. InFlight(c)' = InFlight(c) \ {u}
    BY <1>2 DEF InFlight
  <2>2. u \in InFlight(c) <=> c = attempt[u].client
    BY DEF InFlight
  <2>3. /\ IsFiniteSet(InFlight(c)) /\ Cardinality(InFlight(c)) \in Nat
        /\ Cardinality(Logins) \in Nat
    BY Finiteness
  <2>4. Cardinality(InFlight(c)') =
            IF c = attempt[u].client THEN Cardinality(InFlight(c)) - 1
                                     ELSE Cardinality(InFlight(c))
    BY <2>1, <2>2, <2>3, FS_RemoveElement
  <2>5. failures[c] \in Nat /\ failures'[c] \in Nat
    BY DEF CredTypeOK
  <2>6. failures[c] + Cardinality(InFlight(c)) < MaxFailures + Cardinality(Logins)
    BY DEF ThrottleInvariant
  <2>7. failures'[c] <= failures[c] + (IF c = attempt[u].client THEN 1 ELSE 0)
    OBVIOUS
  <2>8. QED
    BY <2>3, <2>4, <2>5, <2>6, <2>7
<1>5. Cardinality((tracked \cup Unrecorded)') < MaxTracked + Cardinality(Logins)
  <2>1. (tracked \cup Unrecorded)' \subseteq tracked \cup Unrecorded
    BY <1>2 DEF Unrecorded
  <2>2. tracked \cup Unrecorded \in SUBSET Clients
    BY Finiteness DEF CredTypeOK
  <2>3. Cardinality((tracked \cup Unrecorded)') <= Cardinality(tracked \cup Unrecorded)
    BY <2>1, <2>2, Finiteness, FS_Subset
  <2>4. /\ Cardinality((tracked \cup Unrecorded)') \in Nat
        /\ Cardinality(tracked \cup Unrecorded) \in Nat /\ Cardinality(Logins) \in Nat
    BY <2>1, <2>2, Finiteness
  <2>5. QED
    BY <2>3, <2>4 DEF ThrottleInvariant
<1>6. QED
  BY <1>3, <1>4, <1>5 DEF ThrottleInvariant, Engaged

(* The check of the throttle, that admits a login or does not.             *)
LEMMA CheckStep ==
    ASSUME CredTypeOK, CredTypeOK', ThrottleInvariant, NEW u \in Logins, NEW c \in From[u],
           CheckThrottle(u, c)
    PROVE  ThrottleInvariant'
<1>1. c \in Clients /\ u \in Users /\ c # NoClient
  BY DEF Users
<1>2. /\ tracked' = Left(c) /\ Left(c) \subseteq tracked /\ tracked \subseteq Clients
      /\ \A x \in Clients : failures'[x] = IF x \in Left(c) THEN failures[x] ELSE 0
      /\ userAt[u] = "idle"
  BY DEF CheckThrottle, Left, Kept, CredTypeOK
<1>3. u \notin Working
  BY <1>2 DEF ThrottleInvariant
<1>4. CASE Admitted(c)
  <2>1. userAt' = [userAt EXCEPT ![u] = "checked"]
        /\ attempt' = [attempt EXCEPT ![u].client = c]
    BY <1>4 DEF CheckThrottle, UserGoto
  <2>2. /\ Working' = Working \cup {u}
        /\ \A v \in Working : attempt'[v].client = attempt[v].client
        /\ attempt'[u].client = c
    BY <1>1, <1>3, <2>1 DEF Working, CredTypeOK, Users
  <2>3. \A v \in Logins : userAt'[v] \in Engaged <=> v \in Working'
    BY <1>1, <2>1, <2>2 DEF ThrottleInvariant, Engaged, CredTypeOK
  <2>4. ASSUME NEW x \in Clients
        PROVE  failures'[x] + Cardinality(InFlight(x)') < MaxFailures + Cardinality(Logins)
    <3>a. InFlight(x)' \in SUBSET Logins
      BY <2>2 DEF InFlight, Working
    <3>b. Cardinality(InFlight(x)') \in Nat /\ Cardinality(InFlight(x)') <= Cardinality(Logins)
      BY <3>a, FS_Subset, FS_CardinalityType
    <3>0. /\ Cardinality(Logins) \in Nat /\ Cardinality(InFlight(x)) \in Nat
          /\ failures[x] \in Nat
      BY Finiteness DEF CredTypeOK
    <3>1. CASE x = c
      <4>1. failures'[x] < MaxFailures /\ failures'[x] \in Nat
        BY <1>2, <1>4, <3>0, <3>1 DEF Admitted
      <4>2. QED
        BY <3>0, <3>b, <4>1
    <3>2. CASE x # c
      <4>1. InFlight(x)' = InFlight(x)
        BY <1>3, <2>2, <3>2 DEF InFlight
      <4>2. failures'[x] <= failures[x] /\ failures'[x] \in Nat
        BY <1>2, <3>0
      <4>3. failures[x] + Cardinality(InFlight(x)) < MaxFailures + Cardinality(Logins)
        BY DEF ThrottleInvariant
      <4>4. QED
        BY <3>0, <4>1, <4>2, <4>3
    <3>3. QED
      BY <3>1, <3>2
  <2>5. Unrecorded' = Unrecorded \cup {c}
    BY <1>3, <2>2 DEF Unrecorded
  <2>6. Cardinality((tracked \cup Unrecorded)') < MaxTracked + Cardinality(Logins)
    <3>0. /\ tracked \cup Unrecorded \in SUBSET Clients /\ Left(c) \in SUBSET Clients
          /\ Unrecorded' \in SUBSET Clients /\ Cardinality(Logins) \in Nat
      BY <1>1, <1>2, <2>5, Finiteness
    <3>1. CASE c \in Left(c)
      <4>1. (tracked \cup Unrecorded)' \subseteq tracked \cup Unrecorded
        BY <1>2, <2>5, <3>1
      <4>2. /\ Cardinality((tracked \cup Unrecorded)') <= Cardinality(tracked \cup Unrecorded)
            /\ Cardinality((tracked \cup Unrecorded)') \in Nat
            /\ Cardinality(tracked \cup Unrecorded) \in Nat
        BY <3>0, <4>1, Finiteness, FS_Subset
      <4>3. QED
        BY <3>0, <4>2 DEF ThrottleInvariant
    <3>2. CASE c \notin Left(c)
      <4>1. Cardinality(Left(c)) < MaxTracked
        BY <1>4, <3>2 DEF Admitted
      <4>2. Cardinality(Unrecorded') <= Cardinality(Logins)
        <5>1. Working' \in SUBSET Logins /\ Unrecorded' = {attempt'[w].client : w \in Working'}
          BY DEF Working, Unrecorded
        <5>2. QED
          BY <5>1, FewClients
      <4>3. /\ Cardinality(Left(c)) \in Nat /\ Cardinality(Unrecorded') \in Nat
            /\ Cardinality(Left(c) \cap Unrecorded') \in Nat
            /\ IsFiniteSet(Left(c)) /\ IsFiniteSet(Unrecorded')
        BY <3>0, Finiteness
      <4>4. Cardinality(Left(c) \cup Unrecorded') =
                Cardinality(Left(c)) + Cardinality(Unrecorded') - Cardinality(Left(c) \cap Unrecorded')
        BY <4>3, FS_Union
      <4>5. (tracked \cup Unrecorded)' = Left(c) \cup Unrecorded'
        BY <1>2
      <4>6. Cardinality(Left(c) \cup Unrecorded') < MaxTracked + Cardinality(Logins)
        <5>. DEFINE l == Cardinality(Left(c))
                    n == Cardinality(Unrecorded')
                    b == Cardinality(Left(c) \cap Unrecorded')
                    t == Cardinality(Left(c) \cup Unrecorded')
                    m == Cardinality(Logins)
        <5>1. l < MaxTracked /\ n <= m /\ t = l + n - b /\ l \in Nat /\ n \in Nat /\ b \in Nat
              /\ m \in Nat /\ MaxTracked \in Nat
          BY <3>0, <4>1, <4>2, <4>3, <4>4
        <5>. HIDE DEF l, n, b, t, m
        <5>2. t < MaxTracked + m
          BY <5>1
        <5>3. QED
          BY <5>2 DEF t, m
      <4>7. QED
        BY <4>5, <4>6
    <3>3. QED
      BY <3>1, <3>2
  <2>7. \A x \in Clients \ tracked' : failures'[x] = 0
    BY <1>2
  <2>8. QED
    BY <2>3, <2>4, <2>6, <2>7 DEF ThrottleInvariant, Engaged
<1>5. CASE ~Admitted(c)
  <2>1. UNCHANGED <<userAt, attempt>>
    BY <1>5 DEF CheckThrottle
  <2>2. Working' = Working /\ Unrecorded' = Unrecorded /\ \A x \in Clients : InFlight(x)' = InFlight(x)
    BY <2>1 DEF Working, Unrecorded, InFlight
  <2>3. ASSUME NEW x \in Clients
        PROVE  failures'[x] + Cardinality(InFlight(x)') < MaxFailures + Cardinality(Logins)
    <3>1. failures'[x] <= failures[x] /\ failures'[x] \in Nat /\ failures[x] \in Nat
      BY <1>2 DEF CredTypeOK
    <3>2. Cardinality(Logins) \in Nat /\ Cardinality(InFlight(x)) \in Nat
      BY Finiteness
    <3>3. failures[x] + Cardinality(InFlight(x)) < MaxFailures + Cardinality(Logins)
      BY DEF ThrottleInvariant
    <3>4. QED
      BY <2>2, <3>1, <3>2, <3>3
  <2>4. Cardinality((tracked \cup Unrecorded)') < MaxTracked + Cardinality(Logins)
    <3>1. (tracked \cup Unrecorded)' \subseteq tracked \cup Unrecorded
          /\ tracked \cup Unrecorded \in SUBSET Clients
      BY <1>2, <2>2, Finiteness
    <3>2. /\ Cardinality((tracked \cup Unrecorded)') <= Cardinality(tracked \cup Unrecorded)
          /\ Cardinality((tracked \cup Unrecorded)') \in Nat
          /\ Cardinality(tracked \cup Unrecorded) \in Nat /\ Cardinality(Logins) \in Nat
      BY <3>1, Finiteness, FS_Subset
    <3>3. QED
      BY <3>2 DEF ThrottleInvariant
  <2>5. QED
    BY <1>2, <2>1, <2>2, <2>3, <2>4 DEF ThrottleInvariant
<1>6. QED
  BY <1>4, <1>5

(* Before the first attempt both limits have room.                          *)
LEMMA RoomAtFirst ==
    /\ Cardinality({}) < MaxTracked + Cardinality(Logins)
    /\ 0 + Cardinality({}) < MaxFailures + Cardinality(Logins)
<1>. DEFINE n == Cardinality(Logins)
            e == Cardinality({})
<1>1. e = 0
  BY FS_EmptySet, Zenon
<1>2. n \in Nat
  BY FS_CardinalityType
<1>. HIDE DEF n, e
<1>3. e < MaxTracked + n /\ 0 + e < MaxFailures + n
  BY <1>1, <1>2
<1>4. QED
  BY <1>3 DEF n, e

(* No step of a request, of a reset, or a start breaks the throttle.        *)
LEMMA ThrottleStep ==
    CredTypeOK /\ CredTypeOK' /\ ThrottleInvariant /\ [CredNext]_credVars => ThrottleInvariant'
<1> SUFFICES ASSUME CredTypeOK, CredTypeOK', ThrottleInvariant, [CredNext]_credVars
             PROVE  ThrottleInvariant'
  OBVIOUS
<1>a. Logins \cap Changes = {} /\ Logins \cap Resets = {} /\ Logins \subseteq Users
      /\ Changes \subseteq Users /\ Resets \subseteq Users
  BY DEF Users
<1>b. ASSUME NEW u \in Users \ Logins,
             \A v \in Users \ {u} : userAt'[v] = userAt[v] /\ attempt'[v] = attempt[v],
             UNCHANGED <<failures, tracked>>
      PROVE  ThrottleInvariant'
  BY <1>a, <1>b, ThrottleUntouched
<1>1. ASSUME NEW u \in Logins, NEW c \in From[u], CheckThrottle(u, c) PROVE ThrottleInvariant'
  BY <1>1, CheckStep
<1>2. ASSUME NEW u \in Logins, userAt[u] \in Engaged, Quit(u, "idle"),
             UNCHANGED throttle
      PROVE  ThrottleInvariant'
  <2>1. u \in Working
    BY <1>2 DEF ThrottleInvariant, Engaged
  <2>2. \A x \in Clients : failures'[x] \in Nat /\ failures'[x] = failures[x]
    BY <1>2 DEF throttle, CredTypeOK
  <2>3. \A x \in Clients : failures'[x] <= failures[x] + (IF x = attempt[u].client THEN 1 ELSE 0)
    BY <2>2
  <2>4. \A x \in Clients \ tracked' : failures'[x] = 0
    BY <1>2 DEF throttle, ThrottleInvariant
  <2>5. QED
    BY <1>2, <2>1, <2>3, <2>4, LoginLeaves DEF Quit, UserGoto, throttle
<1>3. ASSUME NEW u \in Logins, TakeSlot(u) PROVE ThrottleInvariant'
  <2>1. CASE Cardinality(SlotHolders) < Slots
    BY <1>3, <2>1, <1>a, ThrottleUntouched DEF TakeSlot, UserGoto, throttle, CredTypeOK, Engaged
  <2>2. CASE ~(Cardinality(SlotHolders) < Slots)
    BY <1>3, <2>2, <1>2 DEF TakeSlot, Engaged
  <2>3. QED
    BY <2>1, <2>2
<1>4. ASSUME NEW u \in Logins, NEW right \in BOOLEAN, LockForLogin(u, right)
      PROVE  ThrottleInvariant'
  <2>1. /\ userAt[u] = "slot" /\ userAt' = [userAt EXCEPT ![u] = "locked"]
        /\ \A v \in Users : attempt'[v].client = attempt[v].client
        /\ UNCHANGED <<failures, tracked>>
    BY <1>4 DEF LockForLogin, LockAndCompare, UserGoto, throttle, CredTypeOK
  <2>2. QED
    BY <2>1, <1>a, ThrottleUntouched DEF Engaged, CredTypeOK
<1>5. ASSUME NEW u \in Logins, HashUnreadable(u) PROVE ThrottleInvariant'
  BY <1>5, <1>2 DEF HashUnreadable, Engaged
<1>6. ASSUME NEW u \in Logins, Verify(u) PROVE ThrottleInvariant'
  BY <1>6, <1>a, ThrottleUntouched DEF Verify, UserGoto, throttle, CredTypeOK, Engaged
<1>7. ASSUME NEW u \in Logins, RecordSuccess(u) \/ RecordFailure(u) PROVE ThrottleInvariant'
  <2>. DEFINE c == attempt[u].client
  <2>1. u \in Working /\ Quit(u, "idle")
    BY <1>7 DEF RecordSuccess, RecordFailure, ThrottleInvariant
  <2>2. c \in Clients
    BY <2>1, <1>a DEF Working, CredTypeOK
  <2>3. \A x \in Clients : failures[x] \in Nat
    BY DEF CredTypeOK
  <2>4. \A x \in Clients : failures'[x] <= failures[x] + (IF x = c THEN 1 ELSE 0)
    <3>1. CASE RecordSuccess(u)
      BY <3>1, <2>2, <2>3 DEF RecordSuccess, CredTypeOK
    <3>2. CASE RecordFailure(u)
      BY <3>2, <2>2, <2>3 DEF RecordFailure, CredTypeOK
    <3>3. QED
      BY <1>7, <3>1, <3>2
  <2>5. tracked' \subseteq tracked \cup {c}
    BY <1>7 DEF RecordSuccess, RecordFailure
  <2>6. \A x \in Clients \ tracked' : failures'[x] = 0
    BY <1>7, <2>2 DEF RecordSuccess, RecordFailure, ThrottleInvariant, CredTypeOK
  <2>7. QED
    BY <2>1, <2>4, <2>5, <2>6, LoginLeaves DEF Quit, UserGoto
<1>8. ASSUME NEW c \in Clients, WindowEnds(c) PROVE ThrottleInvariant'
  BY <1>8, ThrottleUntouched DEF WindowEnds
<1>9. ASSUME NEW u \in Changes, NEW right \in BOOLEAN, LockForChange(u, right)
      PROVE  ThrottleInvariant'
  BY <1>9, <1>a, <1>b DEF LockForChange, LockAndCompare, UserGoto, throttle, CredTypeOK
<1>10. ASSUME NEW u \in Changes, Commit(u) PROVE ThrottleInvariant'
  BY <1>10, <1>a, <1>b DEF Commit, UserGoto, throttle, CredTypeOK
<1>11. ASSUME NEW u \in Changes, Refuse(u) PROVE ThrottleInvariant'
  BY <1>11, <1>a, <1>b DEF Refuse, Quit, UserGoto, throttle, CredTypeOK
<1>12. ASSUME NEW u \in Changes, ReplaceKey(u) PROVE ThrottleInvariant'
  BY <1>12, <1>a, <1>b DEF ReplaceKey, Quit, UserGoto, throttle, CredTypeOK
<1>13. ASSUME NEW u \in Resets, OpenForReset(u) PROVE ThrottleInvariant'
  BY <1>13, <1>a, <1>b DEF OpenForReset, UserGoto, throttle, CredTypeOK
<1>14. ASSUME NEW u \in Resets, ResetHash(u) PROVE ThrottleInvariant'
  BY <1>14, <1>a, <1>b DEF ResetHash, UserGoto, throttle, CredTypeOK
<1>15. ASSUME NEW u \in Resets, ReadBack(u) PROVE ThrottleInvariant'
  BY <1>15, <1>a, <1>b DEF ReadBack, UserGoto, throttle, CredTypeOK
<1>16. ASSUME NEW u \in Resets, ResetKey(u) PROVE ThrottleInvariant'
  BY <1>16, <1>a, <1>b DEF ResetKey, UserGoto, throttle, CredTypeOK
<1>17. ASSUME NEW u \in Resets, ResetCut(u) PROVE ThrottleInvariant'
  BY <1>17, <1>a, <1>b DEF ResetCut, Quit, UserGoto, throttle, CredTypeOK
<1>18. ASSUME NEW u \in Resets, ResetPrints(u) PROVE ThrottleInvariant'
  BY <1>18, <1>a, <1>b DEF ResetPrints, Quit, UserGoto, throttle, CredTypeOK
<1>19. CASE CredRestart
  <2>1. \A v \in Logins : userAt'[v] \notin Engaged
    BY <1>19, <1>a DEF CredRestart, Lives, Engaged, CredTypeOK
  <2>2. \A v \in Logins : attempt'[v].client = NoClient
    BY <1>19, <1>a DEF CredRestart, Lives, NoAttempt, ThrottleInvariant, Working
  <2>3. Working' = {} /\ Unrecorded' = {} /\ \A x \in Clients : InFlight(x)' = {}
    BY <2>2 DEF Working, Unrecorded, InFlight
  <2>4. tracked' = {} /\ \A x \in Clients : failures'[x] = 0
    BY <1>19 DEF CredRestart
  <2>6. (tracked \cup Unrecorded)' = {}
    BY <2>3, <2>4
  <2>7. Cardinality((tracked \cup Unrecorded)') < MaxTracked + Cardinality(Logins)
    BY <2>6, RoomAtFirst, Zenon
  <2>8. \A x \in Clients : failures'[x] + Cardinality(InFlight(x)') < MaxFailures + Cardinality(Logins)
    BY <2>3, <2>4, RoomAtFirst, Zenon
  <2>9. QED
    BY <2>1, <2>3, <2>4, <2>7, <2>8 DEF ThrottleInvariant, Engaged
<1>20. CASE UNCHANGED credVars
  BY <1>20, ThrottleUntouched DEF credVars, throttle
<1>21. QED
  BY <1>1, <1>3, <1>4, <1>5, <1>6, <1>7, <1>8, <1>9, <1>10, <1>11, <1>12, <1>13, <1>14,
     <1>15, <1>16, <1>17, <1>18, <1>19, <1>20
     DEF CredNext, CredStep, LoginStep, ChangeStep, ResetStep

-----------------------------------------------------------------------------
(* A new process has no sessions and nothing under way.                     *)
LEMMA CredStart == CredInit => CredInvariant
<1> SUFFICES ASSUME CredInit PROVE CredInvariant
  OBVIOUS
<1>1. CredTypeOK
  BY DEF CredInit, CredTypeOK, NoAttempt
<1>2. Working = {} /\ Unrecorded = {} /\ \A x \in Clients : InFlight(x) = {}
  BY DEF CredInit, Working, Unrecorded, InFlight, NoAttempt, Users
<1>4. tracked \cup Unrecorded = {} /\ \A x \in Clients : failures[x] = 0
  BY <1>2 DEF CredInit
<1>5. /\ Cardinality(tracked \cup Unrecorded) < MaxTracked + Cardinality(Logins)
      /\ \A x \in Clients : failures[x] + Cardinality(InFlight(x)) < MaxFailures + Cardinality(Logins)
  BY <1>2, <1>4, RoomAtFirst, Zenon
<1>6. \A v \in Logins : userAt[v] \notin {"checked", "slot", "locked", "verified"}
  BY DEF CredInit, Users
<1>7. ThrottleInvariant
  BY <1>2, <1>4, <1>5, <1>6 DEF ThrottleInvariant
<1>8. Committed = {} /\ \A u \in Users : userAt[u] # "locked"
  BY DEF CredInit, Committed, Users
<1>9. KeyInvariant
  <2>1. HandedOut = {2} /\ fresh = 2
    BY <1>8 DEF CredInit, HandedOut
  <2>2. QED
    BY <1>8, <2>1 DEF CredInit, KeyInvariant
<1>10. SessionsMatchPassword
  BY DEF CredInit, SessionsMatchPassword
<1>11. QED
  BY <1>1, <1>7, <1>9, <1>10 DEF CredInvariant

(* The strengthened invariant is inductive.                                 *)
LEMMA CredInvariantStep == CredInvariant /\ [CredNext]_credVars => CredInvariant'
<1> SUFFICES ASSUME CredInvariant, [CredNext]_credVars PROVE CredInvariant'
  OBVIOUS
<1>1. CredTypeOK'
  BY CredTypeStep DEF CredInvariant
<1>2. ThrottleInvariant'
  BY <1>1, ThrottleStep DEF CredInvariant
<1>3. KeysHold'
  BY <1>1, KeyStep DEF CredInvariant, KeysHold
<1>4. QED
  BY <1>1, <1>2, <1>3 DEF CredInvariant, KeysHold

(* It holds throughout, restarts and resets included.                       *)
THEOREM CredentialsHold == CredSpec => []CredInvariant
<1>1. CredInvariant /\ [CredNext]_credVars => CredInvariant'
  BY CredInvariantStep
<1>2. QED
  BY CredStart, <1>1, PTL DEF CredSpec

(* Every part of the state keeps its type (auth.rs AuthState).              *)
THEOREM CredentialTypes == CredSpec => []CredTypeOK
<1>1. CredInvariant => CredTypeOK
  BY DEF CredInvariant
<1>2. QED
  BY CredentialsHold, <1>1, PTL

(* What the invariant says of the failures and the table alone.             *)
LEMMA ThrottleFits == CredInvariant => ThrottleBound
<1> SUFFICES ASSUME CredInvariant PROVE ThrottleBound
  OBVIOUS
<1>1. CredTypeOK /\ ThrottleInvariant
  BY DEF CredInvariant
<1>2. ASSUME NEW c \in Clients PROVE failures[c] < MaxFailures + Cardinality(Logins)
  <2>1. failures[c] \in Nat /\ Cardinality(InFlight(c)) \in Nat /\ Cardinality(Logins) \in Nat
    BY <1>1, Finiteness DEF CredTypeOK
  <2>2. failures[c] + Cardinality(InFlight(c)) < MaxFailures + Cardinality(Logins)
    BY <1>1 DEF ThrottleInvariant
  <2>3. QED
    BY <2>1, <2>2
<1>3. Cardinality(tracked) < MaxTracked + Cardinality(Logins)
  <2>1. tracked \cup Unrecorded \in SUBSET Clients /\ tracked \in SUBSET Clients
    BY <1>1, Finiteness DEF CredTypeOK
  <2>2. Cardinality(tracked) <= Cardinality(tracked \cup Unrecorded)
    BY <1>1, <2>1, Finiteness, FS_Subset
  <2>3. /\ Cardinality(tracked) \in Nat /\ Cardinality(tracked \cup Unrecorded) \in Nat
        /\ Cardinality(Logins) \in Nat
    BY <1>1, <2>1, Finiteness
  <2>4. QED
    BY <1>1, <2>2, <2>3 DEF ThrottleInvariant
<1>4. QED
  BY <1>2, <1>3 DEF ThrottleBound

(* Overlapping logins exceed the limits of the throttle by less than their  *)
(* own number (auth.rs begin, record_failure).                              *)
THEOREM ThrottleIsBounded == CredSpec => []ThrottleBound
BY CredentialsHold, ThrottleFits, PTL

(* What sessions are worth follows the password that is stored (api.rs      *)
(* change_password, main.rs genpass).                                       *)
THEOREM SessionsEndWithPassword == CredSpec => []SessionsMatchPassword
<1>1. CredInvariant => SessionsMatchPassword
  BY DEF CredInvariant
<1>2. QED
  BY CredentialsHold, <1>1, PTL
=============================================================================
