---------------------------- MODULE MCAdminService -----------------------------
(***************************************************************************)
(* Workloads of AdminService: overlapping changes of the configuration,    *)
(* crowded logins, a change and a reset of the password, orders beside the *)
(* renewal task, an update beside another reason to restart.               *)
(***************************************************************************)
EXTENDS AdminService

CONSTANTS edit1, edit2, mirror, login1, login2, newpass, genpass, order1, renewal, update,
          home, near, far, site

AddressesDef == [u \in Logins |-> IF u = login1 THEN {home} ELSE {home, near, far}]

Workload(active) == [active |-> active, keyFaults |-> 0, domain |-> site, released |-> 1]

WorkloadsDef ==
    {Workload({edit1, edit2}), Workload({edit1, mirror}), Workload({edit1, genpass}),
     Workload({login1, login2}),
     Workload({login1, newpass, genpass}),
     [Workload({login1, genpass}) EXCEPT !.keyFaults = 1],
     [Workload({order1, renewal}) EXCEPT !.domain = NoDomain],
     [Workload({edit1, update}) EXCEPT !.released = 2]}
=============================================================================
