----------------------------- MODULE AdminService ------------------------------
(***************************************************************************)
(* The parts of the process an administrator works on, together: settings, *)
(* credentials, certificates and the binary.  They meet in the restart.    *)
(* Each of them may schedule one, and it happens to all at once: what they *)
(* have in memory and are in the middle of is lost, and each loads its     *)
(* rows anew.  A restart may also come unasked, at any moment.             *)
(*                                                                         *)
(* Parts that share nothing else need not be explored side by side: a      *)
(* workload says who is active and what the outside holds in store.        *)
(***************************************************************************)
EXTENDS RunningConfig, Credentials, Certificates, SelfUpdate

CONSTANT Workloads  \* set of [active, keyFaults, domain, released]

adminVars == <<serviceVars, configVars, credVars, certVars, updateVars>>

Active ==
    {p \in Changers : stage[p] = "idle"} \cup {u \in Users : userAt[u] = "idle"}
        \cup {p \in Orders : orderAt[p] = "idle"} \cup {u \in Updates : updateAt[u] = "idle"}

AdminInit ==
    /\ ServiceInit /\ ConfigInit /\ CredInit /\ CertInit /\ UpdateInit
    /\ [active |-> Active, keyFaults |-> keyFaults, domain |-> domain,
        released |-> released] \in Workloads

Restart ==
    /\ RestartService(ConfigStarts)
    /\ ConfigRestart /\ CredRestart /\ CertRestart /\ UpdateRestart

AdminNext ==
    \/ ConfigStep /\ UNCHANGED <<credVars, certVars, updateVars>>
    \/ CredStep /\ UNCHANGED <<configVars, certVars, updateVars>>
    \/ CertStep /\ UNCHANGED <<configVars, credVars, updateVars>>
    \/ UpdateStep /\ UNCHANGED <<configVars, credVars, certVars>>
    \/ (\E u \in Resets : OpenForReset(u)) /\ SeedRows /\ UNCHANGED <<certVars, updateVars>>
    \/ Restart

(* A handler or a task that was begun.                                     *)
Onward ==
    \/ (\E p \in Changers : ProcessStep(p)) /\ UNCHANGED <<credVars, certVars, updateVars>>
    \/ (\E p \in Orders : OrderStep(p)) /\ UNCHANGED <<configVars, credVars, updateVars>>
    \/ (\E u \in Updates : AnnounceUpdate(u)) /\ UNCHANGED <<configVars, credVars, certVars>>

(* A timer that is set goes off; of what was begun something goes on:      *)
(* calls of the database return, those of Cloudflare time out, and those   *)
(* of the ACME directory, for which the code sets no timeout, are assumed  *)
(* to end.                                                                 *)
AdminSpec ==
    /\ AdminInit /\ [][AdminNext]_adminVars
    /\ WF_adminVars(restartDue /\ Restart) /\ WF_adminVars(Onward)

-----------------------------------------------------------------------------
AdminTypeOK == ServiceTypeOK /\ ConfigTypeOK /\ CredTypeOK /\ CertTypeOK /\ UpdateTypeOK

ListenTakesEffect ==
    \A k \in Keys \cap NeedsRestart :
        setRam[k] # Loaded(k) ~> setRam[k] = Loaded(k) \/ ~up

OrderedIsServed ==
    \A p \in Requests, d \in Domains :
        orderAt[p] = "stored" /\ certs[d] = p /\ domain = d
            ~> served = p \/ certs[d] # p \/ domain # d \/ age[d] = "expired" \/ ~up

UpdateTakesEffect == installed # executing ~> installed = executing \/ ~up

(* What needs a restart gets one, whatever else is restarted or cut short  *)
(* meanwhile: a listen address or port that was saved, a certificate that  *)
(* was ordered, a binary that was replaced come into effect, unless the    *)
(* service does not start at all (api.rs schedule_restart, README.md:124). *)
ChangesTakeEffect == ListenTakesEffect /\ OrderedIsServed /\ UpdateTakesEffect
=============================================================================
