---------------------------- MODULE MCDomainLists ----------------------------
(***************************************************************************)
(* Instances of DomainLists for TLC.                                       *)
(***************************************************************************)
EXTENDS DomainLists, TLC

(* Domains are interchangeable, and so are tasks of the same kind.         *)
Symmetry == Permutations(Domains) \cup Permutations(Tasks \ (Refreshers \cup SyncTasks))
=============================================================================
