------------------------------ MODULE DomainStore ------------------------------
(***************************************************************************)
(* The in-memory domain store (lists.rs, DomainStore): names packed one    *)
(* after the other in an arena, and two indexes, of exact names and of     *)
(* wildcards, from the hash of a name to the places in the arena of the    *)
(* names with that hash.  Removing a name drops its places from the index  *)
(* and leaves a hole in the arena; once holes make up more than a quarter  *)
(* of it, or nothing is left, arena and indexes are built anew.            *)
(*                                                                         *)
(* A place is the number of a name in the arena rather than its byte       *)
(* offset; a name takes Size[n] bytes, its two bytes of length included.   *)
(* Names arrive normalised (normalize_domain) with "*." already stripped   *)
(* from wildcards.  Left out: names of more than 65535 bytes, which the    *)
(* store refuses, and an arena of 4 GiB, where offsets wrap.               *)
(***************************************************************************)
EXTENDS Integers, Sequences, FiniteSets, Functions

CONSTANTS
    Names,     \* names the store may hold
    Hash,      \* the hash of each name; hashes may collide
    Size,      \* the bytes each name takes; its length fits in a u16
    Parents,   \* the names each name lies below: its proper suffixes
    MaxImport  \* most entries of an imported list

MaxSize == 65535 + 2

ASSUME NamesAssumption ==
    /\ IsFiniteSet(Names)
    /\ DOMAIN Hash = Names
    /\ Size \in [Names -> 1 .. MaxSize]
    /\ Parents \in [Names -> SUBSET Names]
    /\ \A n \in Names : n \notin Parents[n]
    /\ MaxImport \in Nat

VARIABLES
    store,  \* the struct
    last    \* the last operation: what it was, the entries given, its answer

vars == <<store, last>>

Kinds == {"exact", "wild"}
Hashes == {Hash[n] : n \in Names}
EmptyStore == [arena     |-> <<>>,
               index     |-> [k \in Kinds |-> [h \in Hashes |-> {}]],
               count     |-> [k \in Kinds |-> 0],
               deadBytes |-> 0]

TypeOK ==
    /\ store \in [arena : Seq(Names), index : [Kinds -> [Hashes -> SUBSET Nat]],
                  count : [Kinds -> Nat], deadBytes : Nat]
    /\ \A k \in Kinds, h \in Hashes : store.index[k][h] \subseteq DOMAIN store.arena
    /\ last \in {"none", "insert", "remove", "merge", "replace"}
                \X (SUBSET (Kinds \X Names)) \X BOOLEAN

Init == store = EmptyStore /\ last = <<"none", {}, FALSE>>

-----------------------------------------------------------------------------
(* Lookup.                                                                 *)

(* Faulty variant: equal hashes are taken for equal names.                 *)
ContainsHash(st, k, n) == st.index[k][Hash[n]] # {}

ContainsIn(st, k, n) == \E i \in st.index[k][Hash[n]] : st.arena[i] = n

(* A query matches its own name, or a wildcard over a name it lies below.  *)
Matches(st, n) ==
    \/ ContainsIn(st, "exact", n)
    \/ \E p \in Parents[n] : ContainsIn(st, "wild", p)

-----------------------------------------------------------------------------
(* Insertion.  An entry is <<kind, name>>.                                 *)

InsertNormalized(st, e) ==
    IF ContainsIn(st, e[1], e[2])
    THEN st
    ELSE [st EXCEPT !.arena = Append(@, e[2]),
                    !.index[e[1]][Hash[e[2]]] = @ \cup {Len(st.arena) + 1},
                    !.count[e[1]] = @ + 1]

OfKind(k, E) == {e \in E : e[1] = k}

(* What the loop over InsertNormalized makes of st and of entries none of  *)
(* which st contains and no two of which are equal.                        *)
InsertAll(st, entries) ==
    LET place(i) == Len(st.arena) + i
        under(k, h) == {i \in DOMAIN entries : entries[i][1] = k /\ Hash[entries[i][2]] = h}
    IN  [arena     |-> st.arena \o [i \in DOMAIN entries |-> entries[i][2]],
         index     |-> [k \in Kinds |-> [h \in Hashes |->
                           st.index[k][h] \cup {place(i) : i \in under(k, h)}]],
         count     |-> [k \in Kinds |->
                           st.count[k] + Cardinality(OfKind(k, Range(entries)))],
         deadBytes |-> st.deadBytes]

(* The entries the loop inserts; the others it passes over.                *)
Fresh(st, E) == {e \in E : ~ContainsIn(st, e[1], e[2])}

(* An index is a HashMap: its names come in any order.                     *)
InAnyOrder(E) == Injection(1 .. Cardinality(E), E)

ExactFirst(E) ==
    {exact \o wild : exact \in InAnyOrder(OfKind("exact", E)),
                     wild \in InAnyOrder(OfKind("wild", E))}

Insert(e) ==
    /\ store' = InsertNormalized(store, e)
    /\ last' = <<"insert", {e}, ~ContainsIn(store, e[1], e[2])>>

(* bulk import: the entries of a store built aside.                        *)
Merge(E) ==
    /\ \E entries \in ExactFirst(Fresh(store, E)) : store' = InsertAll(store, entries)
    /\ last' = <<"merge", E, FALSE>>

(* refresh, deletion of a source, snapshot, start: a store built from a    *)
(* table takes the place of this one.                                      *)
ReplaceWith(E) ==
    /\ \E entries \in InAnyOrder(E) : store' = InsertAll(EmptyStore, entries)
    /\ last' = <<"replace", E, FALSE>>

-----------------------------------------------------------------------------
(* Removal.                                                                *)

(* How many bytes the names at these places take.                          *)
Bytes(places, arena) == Cardinality(UNION {{i} \X (1 .. Size[arena[i]]) : i \in places})

ArenaLen(st) == Bytes(DOMAIN st.arena, st.arena)

IsEmpty(st) == st.count["exact"] + st.count["wild"] = 0

(* What iterating over the indexes yields.                                 *)
Entries(st) ==
    UNION {{<<k, st.arena[i]>> : i \in st.index[k][h]} : k \in Kinds, h \in Hashes}

Freed(st, e) == {i \in st.index[e[1]][Hash[e[2]]] : st.arena[i] = e[2]}

(* Faulty variant: the whole entry of the hash is dropped.                 *)
RemoveHash(st, e) ==
    [st EXCEPT !.index[e[1]][Hash[e[2]]] = {},
               !.count[e[1]] = @ - Cardinality(Freed(st, e)),
               !.deadBytes = @ + Bytes(Freed(st, e), st.arena)]

(* Faulty variant: the hole is not counted.                                *)
RemoveUncounted(st, e) ==
    [st EXCEPT !.index[e[1]][Hash[e[2]]] = @ \ Freed(st, e),
               !.count[e[1]] = @ - Cardinality(Freed(st, e))]

RemoveFromIndex(st, e) ==
    [st EXCEPT !.index[e[1]][Hash[e[2]]] = @ \ Freed(st, e),
               !.count[e[1]] = @ - Cardinality(Freed(st, e)),
               !.deadBytes = @ + Bytes(Freed(st, e), st.arena)]

(* Faulty variant: the holes are dropped and the indexes kept.             *)
CompactArenaOnly(st) ==
    {[st EXCEPT !.arena = entries, !.deadBytes = 0] :
        entries \in InAnyOrder({e[2] : e \in Entries(st)})}

(* All stores a rebuild may end with.                                      *)
Compact(st) ==
    {InsertAll(EmptyStore, entries) : entries \in ExactFirst(Entries(st))}

TooManyHoles(st) == 4 * st.deadBytes > ArenaLen(st)

Remove(e) ==
    /\ LET removed == RemoveFromIndex(store, e)
       IN  IF Freed(store, e) # {} /\ (IsEmpty(removed) \/ TooManyHoles(removed))
           THEN store' \in Compact(removed)
           ELSE store' = removed
    /\ last' = <<"remove", {e}, FALSE>>

-----------------------------------------------------------------------------

Imports == {E \in SUBSET (Kinds \X Names) : Cardinality(E) <= MaxImport}

Next ==
    \/ \E e \in Kinds \X Names : Insert(e) \/ Remove(e)
    \/ \E E \in Imports : Merge(E) \/ ReplaceWith(E)

Spec == Init /\ [][Next]_vars

-----------------------------------------------------------------------------
(* Properties                                                              *)

(* The store is a set of entries, through collisions of hashes, holes and  *)
(* rebuilds: no operation loses an entry or brings one back, and insert    *)
(* answers whether its entry is new.                                       *)
Set == INSTANCE DomainSet WITH entries <- Entries(store)

IsASetOfEntries == Set!Spec

(* A lookup through the hash finds exactly what the store holds, and a     *)
(* wildcard covers the names below it but not its own name.                *)
LookupIsMembership ==
    \A n \in Names :
        Matches(store, n) <=> \/ <<"exact", n>> \in Entries(store)
                              \/ \E p \in Parents[n] : <<"wild", p>> \in Entries(store)

(* The counters that steer the rebuild stay true: counts are the sizes of  *)
(* the indexes, every byte of the arena is either reachable or counted as  *)
(* a hole, and holes never pass a quarter of the arena.                    *)
Places(k) == UNION {store.index[k][h] : h \in Hashes}

CountersAreTrue ==
    /\ \A k \in Kinds :
          store.count[k] = Cardinality(OfKind(k, Entries(store)))
    /\ store.deadBytes + Bytes(Places("exact") \cup Places("wild"), store.arena) = ArenaLen(store)
    /\ ~TooManyHoles(store)
=============================================================================
