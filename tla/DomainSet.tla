------------------------------- MODULE DomainSet -------------------------------
(***************************************************************************)
(* What a domain store promises (lists.rs, DomainStore): it is a set of    *)
(* entries, each a name to be matched exactly or a wildcard over the names *)
(* below it.  DomainLists uses stores as such sets.                        *)
(***************************************************************************)
CONSTANTS Names
VARIABLES
    entries,
    last  \* the last operation: what it was, the entries given, its answer

Kinds == {"exact", "wild"}

Init == entries = {} /\ last = <<"none", {}, FALSE>>

(* insert answers whether the entry is new.                                *)
Insert(e) ==
    /\ entries' = entries \cup {e}
    /\ last' = <<"insert", {e}, e \notin entries>>

Remove(e) ==
    /\ entries' = entries \ {e}
    /\ last' = <<"remove", {e}, FALSE>>

Merge(E) ==
    /\ entries' = entries \cup E
    /\ last' = <<"merge", E, FALSE>>

Replace(E) ==
    /\ entries' = E
    /\ last' = <<"replace", E, FALSE>>

Next ==
    \/ \E e \in Kinds \X Names : Insert(e) \/ Remove(e)
    \/ \E E \in SUBSET (Kinds \X Names) : Merge(E) \/ Replace(E)

Spec == Init /\ [][Next]_<<entries, last>>
=============================================================================
