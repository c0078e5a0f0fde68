---------------------------- MODULE MCQueryPipeline ----------------------------
(* The questions of the finite instance: r1 looks up a type that has no    *)
(* sinkhole address, r2 has no question, and r3 comes from another client, *)
(* for a lookup or of a class that is not served.                          *)
EXTENDS QueryPipeline

CONSTANTS r1, r2, r3, lan, guest, name

Ask(client, kinds, type) ==
    [client : {client}, kind : kinds, name : {name}, type : {type}]

MCAsked ==
    [r \in Requests |->
        CASE r = r1 -> Ask(lan, {"in"}, "other")
          [] r = r2 -> Ask(lan, {"empty"}, "A")
          [] OTHER -> Ask(guest, {"in", "not_in"}, "A")]

=============================================================================
