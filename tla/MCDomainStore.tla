----------------------------- MODULE MCDomainStore -----------------------------
(***************************************************************************)
(* An instance of DomainStore for TLC: ba lies below a, and their hashes   *)
(* collide.  Sizes let several holes of a fit before a rebuild.            *)
(***************************************************************************)
EXTENDS DomainStore, TLC

CONSTANTS a, ba

MCNames == {a, ba}
MCHash == a :> 1 @@ ba :> 1
MCSize == a :> 3 @@ ba :> 12
MCParents == a :> {} @@ ba :> {a}
=============================================================================
