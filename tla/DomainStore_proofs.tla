--------------------------- MODULE DomainStore_proofs ---------------------------
(* Proofs about DomainStore, for any finite set of names and any hash, with *)
(* whatever collisions: the packed store is a set of entries, a lookup       *)
(* through the hash is membership in it, and the counters that steer the     *)
(* rebuilds stay true.                                                       *)
EXTENDS DomainStore, FiniteSetTheorems, SequenceTheorems, TLAPS

AllEntries == Kinds \X Names

StoreRecords ==
    [arena : Seq(Names), index : [Kinds -> [Hashes -> SUBSET Nat]],
     count : [Kinds -> Nat], deadBytes : Nat]

PlacesIn(st, k) == UNION {st.index[k][h] : h \in Hashes}

(* The places some index leads to; the others are holes.                   *)
Reachable(st) == PlacesIn(st, "exact") \cup PlacesIn(st, "wild")

(* Every indexed place is in the arena and filed under the hash of its     *)
(* name; no index has a name twice, and no place is in both indexes.       *)
Filed(st) ==
    /\ st \in StoreRecords
    /\ \A k \in Kinds, h \in Hashes : st.index[k][h] \subseteq DOMAIN st.arena
    /\ \A k \in Kinds, h \in Hashes : \A i \in st.index[k][h] : Hash[st.arena[i]] = h
    /\ \A k \in Kinds, h \in Hashes : \A i, j \in st.index[k][h] :
          st.arena[i] = st.arena[j] => i = j
    /\ PlacesIn(st, "exact") \cap PlacesIn(st, "wild") = {}

Counted(st) == \A k \in Kinds : st.count[k] = Cardinality(OfKind(k, Entries(st)))

BytesAddUp(st) == st.deadBytes + Bytes(Reachable(st), st.arena) = ArenaLen(st)

Sound(st) == Filed(st) /\ Counted(st) /\ BytesAddUp(st)

InductiveInvariant ==
    /\ Sound(store)
    /\ ~TooManyHoles(store)
    /\ last \in {"none", "insert", "remove", "merge", "replace"} \X (SUBSET AllEntries) \X BOOLEAN

-----------------------------------------------------------------------------
(* What a store contains                                                   *)

(* A name is in the arena or nowhere: what an index leads to is a name.    *)
LEMMA ReachableNames ==
    ASSUME NEW st, Filed(st), NEW k \in Kinds, NEW h \in Hashes, NEW i \in st.index[k][h]
    PROVE  /\ i \in DOMAIN st.arena
           /\ st.arena[i] \in Names
           /\ Hash[st.arena[i]] = h
<1>1. st.arena \in Seq(Names)
  BY DEF Filed, StoreRecords
<1> QED BY <1>1 DEF Filed

(* A name's hash is one of the hashes.                                     *)
LEMMA HashTyped == \A n \in Names : Hash[n] \in Hashes
BY DEF Hashes

(* A lookup through the hash finds exactly what iterating over the indexes *)
(* yields.                                                                 *)
LEMMA EntriesAreContained ==
    ASSUME NEW st, Filed(st)
    PROVE  /\ Entries(st) \subseteq AllEntries
           /\ \A k \in Kinds, n \in Names : <<k, n>> \in Entries(st) <=> ContainsIn(st, k, n)
           /\ \A e \in AllEntries : e \in Entries(st) <=> ContainsIn(st, e[1], e[2])
<1>1. Entries(st) \subseteq AllEntries
  BY ReachableNames DEF Entries, AllEntries
<1>2. ASSUME NEW k \in Kinds, NEW n \in Names
      PROVE  <<k, n>> \in Entries(st) <=> ContainsIn(st, k, n)
  <2>1. ASSUME <<k, n>> \in Entries(st)
        PROVE  ContainsIn(st, k, n)
    <3>1. PICK kk \in Kinds, h \in Hashes : \E i \in st.index[kk][h] : <<k, n>> = <<kk, st.arena[i]>>
      BY <2>1 DEF Entries
    <3>2. PICK i \in st.index[k][h] : n = st.arena[i]
      BY <3>1
    <3>3. Hash[n] = h
      BY <3>2, ReachableNames
    <3> QED BY <3>2, <3>3 DEF ContainsIn
  <2>2. ASSUME ContainsIn(st, k, n)
        PROVE  <<k, n>> \in Entries(st)
    <3>1. PICK i \in st.index[k][Hash[n]] : st.arena[i] = n
      BY <2>2 DEF ContainsIn
    <3>2. <<k, n>> \in {<<k, st.arena[j]>> : j \in st.index[k][Hash[n]]}
      BY <3>1
    <3> DEFINE Under(kk, h) == {<<kk, st.arena[j]>> : j \in st.index[kk][h]}
    <3>3. Under(k, Hash[n]) \in {Under(kk, h) : kk \in Kinds, h \in Hashes}
      BY HashTyped
    <3>4. <<k, n>> \in Under(k, Hash[n])
      BY <3>2
    <3>5. Entries(st) = UNION {Under(kk, h) : kk \in Kinds, h \in Hashes}
      BY DEF Entries
    <3> HIDE DEF Under
    <3> QED BY <3>3, <3>4, <3>5
  <2> QED BY <2>1, <2>2
<1>3. ASSUME NEW e \in AllEntries
      PROVE  e \in Entries(st) <=> ContainsIn(st, e[1], e[2])
  BY <1>2 DEF AllEntries
<1> QED BY <1>1, <1>2, <1>3

(* There are finitely many entries.                                        *)
LEMMA KindsFinite == IsFiniteSet(AllEntries)
<1>1. IsFiniteSet(Kinds)
  <2>1. IsFiniteSet({"exact"}) /\ IsFiniteSet({"wild"})
    BY FS_Singleton
  <2>2. Kinds = {"exact"} \cup {"wild"}
    BY DEF Kinds
  <2> QED BY <2>1, <2>2, FS_Union, Zenon
<1>2. IsFiniteSet(Names)
  BY NamesAssumption
<1> QED BY <1>1, <1>2, FS_Product, Zenon DEF AllEntries

(* Sets of entries are finite, and so is the number of them of each kind.  *)
LEMMA OfKindFinite ==
    ASSUME NEW E \in SUBSET AllEntries, NEW k
    PROVE  IsFiniteSet(OfKind(k, E)) /\ Cardinality(OfKind(k, E)) \in Nat
<1>1. IsFiniteSet(OfKind(k, E))
  BY KindsFinite, FS_Subset DEF OfKind
<1> QED BY <1>1, FS_CardinalityType

-----------------------------------------------------------------------------
(* Bytes                                                                   *)

BytesOf(places, arena) == UNION {{i} \X (1 .. Size[arena[i]]) : i \in places}

(* The bytes of names in the arena can be counted.                         *)
LEMMA BytesFinite ==
    ASSUME NEW arena \in Seq(Names), NEW places \in SUBSET DOMAIN arena
    PROVE  /\ IsFiniteSet(BytesOf(places, arena))
           /\ Bytes(places, arena) = Cardinality(BytesOf(places, arena))
           /\ Bytes(places, arena) \in Nat
<1>1. IsFiniteSet(DOMAIN arena)
  <2>1. DOMAIN arena = 1 .. Len(arena) /\ Len(arena) \in Nat
    OBVIOUS
  <2> QED BY <2>1, FS_Interval
<1>2. IsFiniteSet(1 .. MaxSize)
  <2>1. 1 \in Int /\ MaxSize \in Int
    BY DEF MaxSize
  <2> QED BY <2>1, FS_Interval, Zenon
<1>3. IsFiniteSet((DOMAIN arena) \X (1 .. MaxSize))
  <2> DEFINE S == DOMAIN arena
             T == 1 .. MaxSize
  <2>1. IsFiniteSet(S) /\ IsFiniteSet(T)
    BY <1>1, <1>2
  <2> HIDE DEF S, T
  <2>2. IsFiniteSet(S \X T)
    BY <2>1, FS_Product
  <2> QED BY <2>2 DEF S, T
<1>4. BytesOf(places, arena) \subseteq (DOMAIN arena) \X (1 .. MaxSize)
  <2>1. ASSUME NEW i \in places
        PROVE  1 .. Size[arena[i]] \subseteq 1 .. MaxSize
    <3>1. arena[i] \in Names
      OBVIOUS
    <3>2. Size[arena[i]] \in 1 .. MaxSize
      BY <3>1, NamesAssumption, Zenon
    <3>3. \A m \in Int : \A n \in 1 .. m : 1 .. n \subseteq 1 .. m
      OBVIOUS
    <3>4. MaxSize \in Int
      BY DEF MaxSize
    <3> QED BY <3>2, <3>3, <3>4, Zenon
  <2>2. ASSUME NEW i \in places
        PROVE  {i} \X (1 .. Size[arena[i]]) \subseteq (DOMAIN arena) \X (1 .. MaxSize)
    <3> DEFINE S == 1 .. Size[arena[i]]
               T == 1 .. MaxSize
    <3>1. S \subseteq T /\ i \in DOMAIN arena
      BY <2>1
    <3> HIDE DEF S, T
    <3>2. {i} \X S \subseteq (DOMAIN arena) \X T
      BY <3>1
    <3> QED BY <3>2 DEF S, T
  <2> QED BY <2>2, Zenon DEF BytesOf
<1>5. IsFiniteSet(BytesOf(places, arena))
  BY <1>3, <1>4, FS_Subset
<1> QED BY <1>5, FS_CardinalityType DEF Bytes, BytesOf

(* Names at different places share no bytes.                               *)
LEMMA BytesOfDisjoint ==
    ASSUME NEW arena \in Seq(Names), NEW p \in SUBSET DOMAIN arena, NEW q \in SUBSET DOMAIN arena,
           p \cap q = {}
    PROVE  Bytes(p \cup q, arena) = Bytes(p, arena) + Bytes(q, arena)
<1>1. BytesOf(p \cup q, arena) = BytesOf(p, arena) \cup BytesOf(q, arena)
  BY DEF BytesOf
<1>2. BytesOf(p, arena) \cap BytesOf(q, arena) = {}
  BY DEF BytesOf
<1>3. Cardinality(BytesOf(p, arena) \cap BytesOf(q, arena)) = 0
  BY <1>2, FS_EmptySet, Zenon
<1>4. Cardinality(BytesOf(p, arena) \cup BytesOf(q, arena)) =
      Cardinality(BytesOf(p, arena)) + Cardinality(BytesOf(q, arena))
      - Cardinality(BytesOf(p, arena) \cap BytesOf(q, arena))
  BY BytesFinite, FS_Union
<1>5. p \cup q \in SUBSET DOMAIN arena
  OBVIOUS
<1>6. Bytes(p, arena) = Cardinality(BytesOf(p, arena)) /\ Bytes(p, arena) \in Nat
  BY BytesFinite
<1>7. Bytes(q, arena) = Cardinality(BytesOf(q, arena)) /\ Bytes(q, arena) \in Nat
  BY BytesFinite
<1>8. Bytes(p \cup q, arena) = Cardinality(BytesOf(p \cup q, arena))
  BY <1>5, BytesFinite, Zenon
<1>9. \A x, y, z : x \in Nat /\ y \in Nat /\ z = 0 => x + y - z = x + y
  OBVIOUS
<1>10. Cardinality(BytesOf(p \cup q, arena)) =
       Cardinality(BytesOf(p, arena)) + Cardinality(BytesOf(q, arena))
  BY <1>1, <1>3, <1>4, <1>6, <1>7, <1>9, Zenon
<1> QED BY <1>6, <1>7, <1>8, <1>10, Zenon

(* Only the names at the places count.                                     *)
LEMMA BytesOfSame ==
    ASSUME NEW arena, NEW other, NEW places,
           \A i \in places : arena[i] = other[i]
    PROVE  Bytes(places, arena) = Bytes(places, other)
<1>1. BytesOf(places, arena) = BytesOf(places, other)
  BY DEF BytesOf
<1> QED BY <1>1 DEF Bytes, BytesOf

(* No names, no bytes.                                                     *)
LEMMA BytesOfNone ==
    ASSUME NEW arena
    PROVE  Bytes({}, arena) = 0
<1>1. BytesOf({}, arena) = {}
  BY DEF BytesOf
<1> QED BY <1>1, FS_EmptySet, Zenon DEF Bytes, BytesOf

-----------------------------------------------------------------------------
(* Insertion                                                               *)

(* What the loop over InsertNormalized may be given whole: entries none of *)
(* which the store contains, each once.                                    *)
Insertable(st, entries) ==
    /\ entries \in Seq(AllEntries)
    /\ \A i, j \in DOMAIN entries : entries[i] = entries[j] => i = j
    /\ \A e \in Range(entries) : ~ContainsIn(st, e[1], e[2])

(* The arena keeps its names and gets the new ones behind them.            *)
LEMMA InsertedArena ==
    ASSUME NEW st \in StoreRecords, NEW entries \in Seq(AllEntries)
    PROVE  LET new == InsertAll(st, entries)
           IN  /\ new.arena \in Seq(Names)
               /\ Len(new.arena) = Len(st.arena) + Len(entries)
               /\ \A i \in DOMAIN st.arena : new.arena[i] = st.arena[i]
               /\ \A i \in DOMAIN entries : new.arena[Len(st.arena) + i] = entries[i][2]
<1> DEFINE names == [i \in DOMAIN entries |-> entries[i][2]]
<1>1. names \in Seq(Names) /\ Len(names) = Len(entries) /\ DOMAIN names = DOMAIN entries
  BY DEF AllEntries
<1>2. st.arena \in Seq(Names)
  BY DEF StoreRecords
<1>3. InsertAll(st, entries).arena = st.arena \o names
  BY DEF InsertAll
<1>4. \A i \in DOMAIN entries : names[i] = entries[i][2]
  OBVIOUS
<1> HIDE DEF names
<1> DEFINE arena == st.arena
<1>5. /\ arena \o names \in Seq(Names)
      /\ Len(arena \o names) = Len(arena) + Len(names)
      /\ \A i \in DOMAIN arena : (arena \o names)[i] = arena[i]
      /\ \A i \in DOMAIN names : (arena \o names)[Len(arena) + i] = names[i]
  <2>1. arena \in Seq(Names)
    BY <1>2
  <2> HIDE DEF arena
  <2> QED BY <2>1, <1>1
<1> QED BY <1>1, <1>3, <1>4, <1>5

(* An index keeps its places and gets those of the new names of its kind,  *)
(* each under the hash of its name.                                        *)
LEMMA InsertedIndex ==
    ASSUME NEW st \in StoreRecords, NEW entries \in Seq(AllEntries),
           NEW k \in Kinds, NEW h \in Hashes, NEW i
    PROVE  i \in InsertAll(st, entries).index[k][h] <=>
              \/ i \in st.index[k][h]
              \/ \E j \in DOMAIN entries : /\ i = Len(st.arena) + j
                                           /\ entries[j][1] = k
                                           /\ Hash[entries[j][2]] = h
<1> DEFINE under == {j \in DOMAIN entries : entries[j][1] = k /\ Hash[entries[j][2]] = h}
<1>1. InsertAll(st, entries).index[k][h] = st.index[k][h] \cup {Len(st.arena) + j : j \in under}
  BY DEF InsertAll
<1> QED BY <1>1

(* What the insertions build is a store.                                   *)
LEMMA InsertedTypes ==
    ASSUME NEW st \in StoreRecords, NEW entries \in Seq(AllEntries)
    PROVE  InsertAll(st, entries) \in StoreRecords
<1> DEFINE new == InsertAll(st, entries)
<1>1. new.arena \in Seq(Names)
  BY InsertedArena
<1>2. ASSUME NEW k \in Kinds, NEW h \in Hashes
      PROVE  new.index[k][h] \in SUBSET Nat
  <2>1. st.index[k][h] \subseteq Nat /\ Len(st.arena) \in Nat
    BY DEF StoreRecords
  <2>2. \A j \in DOMAIN entries : Len(st.arena) + j \in Nat
    BY <2>1
  <2> QED BY <2>1, <2>2, InsertedIndex
<1>3. new.index \in [Kinds -> [Hashes -> SUBSET Nat]]
  <2>1. new.index = [k \in Kinds |-> [h \in Hashes |-> new.index[k][h]]]
    BY DEF InsertAll
  <2> HIDE DEF new
  <2> QED BY <2>1, <1>2
<1>4. new.count \in [Kinds -> Nat]
  <2>1. Range(entries) \in SUBSET AllEntries
    BY DEF Range
  <2>2. \A k \in Kinds : Cardinality(OfKind(k, Range(entries))) \in Nat
    BY <2>1, OfKindFinite
  <2>3. \A k \in Kinds : st.count[k] \in Nat
    BY DEF StoreRecords
  <2> QED BY <2>2, <2>3 DEF InsertAll
<1>5. new.deadBytes \in Nat
  BY DEF InsertAll, StoreRecords
<1>6. new = [arena |-> new.arena, index |-> new.index, count |-> new.count,
             deadBytes |-> new.deadBytes]
  BY DEF InsertAll
<1> HIDE DEF new
<1>7. \A a \in Seq(Names), x \in [Kinds -> [Hashes -> SUBSET Nat]], c \in [Kinds -> Nat], d \in Nat :
         [arena |-> a, index |-> x, count |-> c, deadBytes |-> d] \in StoreRecords
  BY DEF StoreRecords
<1> QED BY <1>1, <1>3, <1>4, <1>5, <1>6, <1>7 DEF new

(* The entries inserted are contained from now on, and no others.          *)
LEMMA InsertedContains ==
    ASSUME NEW st, Filed(st), NEW entries \in Seq(AllEntries), NEW k \in Kinds, NEW n \in Names
    PROVE  ContainsIn(InsertAll(st, entries), k, n) <=>
              ContainsIn(st, k, n) \/ <<k, n>> \in Range(entries)
<1> DEFINE new == InsertAll(st, entries)
<1>1. st \in StoreRecords
  BY DEF Filed
<1>2. Hash[n] \in Hashes
  BY HashTyped
<1>3. \A i : i \in new.index[k][Hash[n]] <=>
              \/ i \in st.index[k][Hash[n]]
              \/ \E j \in DOMAIN entries : /\ i = Len(st.arena) + j
                                           /\ entries[j][1] = k
                                           /\ Hash[entries[j][2]] = Hash[n]
  BY <1>1, <1>2, InsertedIndex
<1>4. /\ \A i \in DOMAIN st.arena : new.arena[i] = st.arena[i]
      /\ \A i \in DOMAIN entries : new.arena[Len(st.arena) + i] = entries[i][2]
  BY <1>1, InsertedArena
<1>5. \A i \in st.index[k][Hash[n]] : i \in DOMAIN st.arena
  BY <1>2 DEF Filed
<1>6. \A j \in DOMAIN entries : entries[j] = <<entries[j][1], entries[j][2]>>
  BY DEF AllEntries
<1> HIDE DEF new
<1>7. ASSUME ContainsIn(new, k, n)
      PROVE  ContainsIn(st, k, n) \/ <<k, n>> \in Range(entries)
  <2>1. PICK i \in new.index[k][Hash[n]] : new.arena[i] = n
    BY <1>7 DEF ContainsIn
  <2>2. CASE i \in st.index[k][Hash[n]]
    BY <2>1, <2>2, <1>4, <1>5 DEF ContainsIn
  <2>3. CASE \E j \in DOMAIN entries : i = Len(st.arena) + j /\ entries[j][1] = k
    BY <2>1, <2>3, <1>4, <1>6 DEF Range
  <2> QED BY <2>1, <2>2, <2>3, <1>3
<1>8. ASSUME ContainsIn(st, k, n)
      PROVE  ContainsIn(new, k, n)
  BY <1>8, <1>3, <1>4, <1>5 DEF ContainsIn
<1>9. ASSUME <<k, n>> \in Range(entries)
      PROVE  ContainsIn(new, k, n)
  <2>1. PICK j \in DOMAIN entries : entries[j] = <<k, n>>
    BY <1>9 DEF Range
  <2>2. entries[j][1] = k /\ entries[j][2] = n
    BY <2>1
  <2>3. Len(st.arena) + j \in new.index[k][Hash[n]] /\ new.arena[Len(st.arena) + j] = n
    BY <2>2, <1>3, <1>4
  <2> QED BY <2>3 DEF ContainsIn
<1> QED BY <1>7, <1>8, <1>9 DEF new

(* The insertions add their entries and no other.                          *)
LEMMA InsertedEntries ==
    ASSUME NEW st, Filed(st), NEW entries \in Seq(AllEntries), Filed(InsertAll(st, entries))
    PROVE  Entries(InsertAll(st, entries)) = Entries(st) \cup Range(entries)
<1> DEFINE new == InsertAll(st, entries)
<1>1. Range(entries) \subseteq AllEntries
  BY DEF Range
<1>2. Entries(new) \subseteq AllEntries /\ Entries(st) \subseteq AllEntries
  BY EntriesAreContained
<1>3. ASSUME NEW k \in Kinds, NEW n \in Names
      PROVE  <<k, n>> \in Entries(new) <=> <<k, n>> \in Entries(st) \cup Range(entries)
  <2>1. <<k, n>> \in Entries(new) <=> ContainsIn(new, k, n)
    BY EntriesAreContained
  <2>2. <<k, n>> \in Entries(st) <=> ContainsIn(st, k, n)
    BY EntriesAreContained
  <2> QED BY <2>1, <2>2, InsertedContains
<1>4. \A e \in AllEntries : \E k \in Kinds, n \in Names : e = <<k, n>>
  BY DEF AllEntries
<1> HIDE DEF new
<1>5. Entries(new) = Entries(st) \cup Range(entries)
  BY <1>1, <1>2, <1>3, <1>4
<1> QED BY <1>5 DEF new

(* Indexed places are places of the arena.                                 *)
LEMMA PlacesInArena ==
    ASSUME NEW st, Filed(st)
    PROVE  /\ st.arena \in Seq(Names)
           /\ \A k \in Kinds : PlacesIn(st, k) \subseteq DOMAIN st.arena
           /\ Reachable(st) \subseteq DOMAIN st.arena
           /\ DOMAIN st.arena = 1 .. Len(st.arena)
           /\ Len(st.arena) \in Nat
<1>1. st.arena \in Seq(Names)
  BY DEF Filed, StoreRecords
<1>2. \A k \in Kinds : PlacesIn(st, k) \subseteq DOMAIN st.arena
  BY DEF Filed, PlacesIn
<1>3. Reachable(st) \subseteq DOMAIN st.arena
  BY <1>2 DEF Reachable, Kinds
<1> DEFINE arena == st.arena
<1> HIDE DEF arena
<1>4. arena \in Seq(Names) => DOMAIN arena = 1 .. Len(arena) /\ Len(arena) \in Nat
  OBVIOUS
<1> QED BY <1>1, <1>2, <1>3, <1>4 DEF arena

(* The places a loop over InsertNormalized fills.                          *)
NewPlaces(st, entries) == (Len(st.arena) + 1) .. (Len(st.arena) + Len(entries))

(* The insertions lead to all the places they add.                         *)
LEMMA InsertedPlaces ==
    ASSUME NEW st, Filed(st), NEW entries \in Seq(AllEntries)
    PROVE  LET new == InsertAll(st, entries)
           IN  /\ DOMAIN new.arena = DOMAIN st.arena \cup NewPlaces(st, entries)
               /\ DOMAIN st.arena \cap NewPlaces(st, entries) = {}
               /\ Reachable(new) = Reachable(st) \cup NewPlaces(st, entries)
               /\ PlacesIn(new, "exact") \cap PlacesIn(new, "wild") = {}
<1> DEFINE new == InsertAll(st, entries)
           len == Len(st.arena)
<1>1. st \in StoreRecords
  BY DEF Filed
<1>2. /\ new.arena \in Seq(Names)
      /\ Len(new.arena) = len + Len(entries)
  BY <1>1, InsertedArena
<1>3. len \in Nat /\ DOMAIN st.arena = 1 .. len /\ DOMAIN entries = 1 .. Len(entries) /\ Len(entries) \in Nat
  BY PlacesInArena
<1>4. \A k \in Kinds, h \in Hashes : \A i :
         i \in new.index[k][h] <=>
            \/ i \in st.index[k][h]
            \/ \E j \in DOMAIN entries : i = len + j /\ entries[j][1] = k /\ Hash[entries[j][2]] = h
  BY <1>1, InsertedIndex
<1>5. \A k \in Kinds : PlacesIn(st, k) \subseteq DOMAIN st.arena
  BY PlacesInArena
<1>6. DOMAIN new.arena = 1 .. (len + Len(entries))
  <2> DEFINE arena == new.arena
  <2>1. arena \in Seq(Names) /\ Len(arena) = len + Len(entries)
    BY <1>2
  <2> HIDE DEF arena, new
  <2>2. DOMAIN arena = 1 .. (len + Len(entries))
    BY <2>1
  <2> QED BY <2>2 DEF arena
<1>7. \A j \in DOMAIN entries : entries[j][1] \in Kinds /\ Hash[entries[j][2]] \in Hashes
  BY HashTyped DEF AllEntries
<1> HIDE DEF new, len
<1>8. \A k \in Kinds : \A i :
         i \in PlacesIn(new, k) <=>
            i \in PlacesIn(st, k) \/ \E j \in DOMAIN entries : i = len + j /\ entries[j][1] = k
  BY <1>4, <1>7 DEF PlacesIn
<1>9. NewPlaces(st, entries) = {len + j : j \in DOMAIN entries}
  <2>1. ASSUME NEW i \in (len + 1) .. (len + Len(entries))
        PROVE  i - len \in DOMAIN entries /\ i = len + (i - len)
    BY <1>3
  <2>2. \A j \in DOMAIN entries : len + j \in (len + 1) .. (len + Len(entries))
    BY <1>3
  <2>3. NewPlaces(st, entries) = (len + 1) .. (len + Len(entries))
    BY DEF NewPlaces, len
  <2> QED BY <2>1, <2>2, <2>3
<1>10. DOMAIN new.arena = DOMAIN st.arena \cup NewPlaces(st, entries)
  BY <1>3, <1>6 DEF NewPlaces, len
<1>11. DOMAIN st.arena \cap NewPlaces(st, entries) = {}
  BY <1>3 DEF NewPlaces, len
<1>12. Reachable(new) = Reachable(st) \cup NewPlaces(st, entries)
  BY <1>7, <1>8, <1>9 DEF Reachable, Kinds
<1>13. PlacesIn(new, "exact") \cap PlacesIn(new, "wild") = {}
  <2>1. PlacesIn(st, "exact") \cap PlacesIn(st, "wild") = {}
    BY DEF Filed
  <2>2. "exact" \in Kinds /\ "wild" \in Kinds /\ "exact" # "wild"
    BY DEF Kinds
  <2> SUFFICES ASSUME NEW i, i \in PlacesIn(new, "exact"), i \in PlacesIn(new, "wild")
               PROVE  FALSE
    OBVIOUS
  <2>3. \A k \in Kinds, j \in DOMAIN entries : i \in PlacesIn(st, k) => i # len + j
    BY <1>3, <1>5
  <2>4. \A j, l \in DOMAIN entries : i = len + j /\ i = len + l => j = l
    BY <1>3
  <2> QED BY <1>8, <2>1, <2>2, <2>3, <2>4
<1> QED BY <1>10, <1>11, <1>12, <1>13 DEF new

(* The insertions file what they add under its hash, once.                 *)
LEMMA InsertedFiled ==
    ASSUME NEW st, Filed(st), NEW entries, Insertable(st, entries)
    PROVE  Filed(InsertAll(st, entries))
<1> DEFINE new == InsertAll(st, entries)
           len == Len(st.arena)
<1>1. st \in StoreRecords /\ entries \in Seq(AllEntries)
  BY DEF Filed, Insertable
<1>2. new \in StoreRecords
  BY <1>1, InsertedTypes
<1>3. /\ \A i \in DOMAIN st.arena : new.arena[i] = st.arena[i]
      /\ \A i \in DOMAIN entries : new.arena[len + i] = entries[i][2]
  BY <1>1, InsertedArena
<1>4. \A k \in Kinds, h \in Hashes : \A i :
         i \in new.index[k][h] <=>
            \/ i \in st.index[k][h]
            \/ \E j \in DOMAIN entries : i = len + j /\ entries[j][1] = k /\ Hash[entries[j][2]] = h
  BY <1>1, InsertedIndex
<1>5. /\ DOMAIN new.arena = DOMAIN st.arena \cup NewPlaces(st, entries)
      /\ Reachable(new) = Reachable(st) \cup NewPlaces(st, entries)
      /\ PlacesIn(new, "exact") \cap PlacesIn(new, "wild") = {}
  BY <1>1, InsertedPlaces
<1>6. \A j \in DOMAIN entries : len + j \in NewPlaces(st, entries)
  <2>1. len \in Nat /\ DOMAIN entries = 1 .. Len(entries) /\ Len(entries) \in Nat
    BY <1>1, PlacesInArena
  <2> QED BY <2>1 DEF NewPlaces
<1>7. \A k \in Kinds, h \in Hashes : \A i \in st.index[k][h] :
         /\ i \in DOMAIN st.arena
         /\ st.arena[i] \in Names
         /\ Hash[st.arena[i]] = h
  BY ReachableNames
<1> HIDE DEF new, len
<1>8. \A k \in Kinds, h \in Hashes : new.index[k][h] \subseteq DOMAIN new.arena
  BY <1>4, <1>5, <1>6, <1>7
<1>9. \A k \in Kinds, h \in Hashes : \A i \in new.index[k][h] : Hash[new.arena[i]] = h
  BY <1>3, <1>4, <1>7
<1>10. ASSUME NEW k \in Kinds, NEW h \in Hashes,
              NEW i \in new.index[k][h], NEW j \in new.index[k][h], new.arena[i] = new.arena[j]
       PROVE  i = j
  <2>1. ASSUME NEW x \in st.index[k][h], NEW y \in DOMAIN entries,
               entries[y][1] = k, st.arena[x] = entries[y][2]
        PROVE  FALSE
    <3>1. ContainsIn(st, k, entries[y][2])
      BY <2>1, <1>7 DEF ContainsIn
    <3>2. entries[y] \in Range(entries)
      BY DEF Range
    <3> QED BY <2>1, <3>1, <3>2 DEF Insertable
  <2>2. CASE i \in st.index[k][h] /\ j \in st.index[k][h]
    BY <2>2, <1>10, <1>3, <1>7 DEF Filed
  <2>3. CASE i \in st.index[k][h] /\ j \notin st.index[k][h]
    BY <2>3, <2>1, <1>10, <1>3, <1>4, <1>7
  <2>4. CASE i \notin st.index[k][h] /\ j \in st.index[k][h]
    BY <2>4, <2>1, <1>10, <1>3, <1>4, <1>7
  <2>5. CASE i \notin st.index[k][h] /\ j \notin st.index[k][h]
    <3>1. PICK x \in DOMAIN entries : i = len + x /\ entries[x][1] = k
      BY <2>5, <1>4
    <3>2. PICK y \in DOMAIN entries : j = len + y /\ entries[y][1] = k
      BY <2>5, <1>4
    <3>3. entries[x][2] = entries[y][2]
      BY <3>1, <3>2, <1>3, <1>10
    <3>4. entries[x] = entries[y]
      BY <1>1, <3>1, <3>2, <3>3 DEF AllEntries
    <3> QED BY <3>1, <3>2, <3>4 DEF Insertable
  <2> QED BY <2>2, <2>3, <2>4, <2>5
<1>11. Filed(new)
  BY <1>2, <1>5, <1>8, <1>9, <1>10 DEF Filed
<1> QED BY <1>11 DEF new

(* Insertion counts what it adds.                                          *)
LEMMA InsertedCounted ==
    ASSUME NEW st, Filed(st), Counted(st), NEW entries, Insertable(st, entries)
    PROVE  Counted(InsertAll(st, entries))
<1> DEFINE new == InsertAll(st, entries)
           E == Entries(st)
           R == Range(entries)
<1>1. entries \in Seq(AllEntries)
  BY DEF Insertable
<1>2. Entries(new) = E \cup R
  BY <1>1, InsertedFiled, InsertedEntries
<1>3. E \in SUBSET AllEntries /\ R \in SUBSET AllEntries
  BY <1>1, EntriesAreContained DEF Range
<1>4. E \cap R = {}
  BY <1>3, EntriesAreContained DEF Insertable
<1>5. \A k \in Kinds : new.count[k] = Cardinality(OfKind(k, E)) + Cardinality(OfKind(k, R))
  BY DEF InsertAll, Counted
<1> HIDE DEF new, E, R
<1>6. ASSUME NEW k \in Kinds
      PROVE  Cardinality(OfKind(k, E \cup R)) = Cardinality(OfKind(k, E)) + Cardinality(OfKind(k, R))
  <2>1. OfKind(k, E \cup R) = OfKind(k, E) \cup OfKind(k, R)
    BY DEF OfKind
  <2>2. OfKind(k, E) \cap OfKind(k, R) = {}
    BY <1>4 DEF OfKind
  <2>3. /\ IsFiniteSet(OfKind(k, E)) /\ Cardinality(OfKind(k, E)) \in Nat
        /\ IsFiniteSet(OfKind(k, R)) /\ Cardinality(OfKind(k, R)) \in Nat
    BY <1>3, OfKindFinite
  <2>4. Cardinality(OfKind(k, E) \cap OfKind(k, R)) = 0
    BY <2>2, FS_EmptySet, Zenon
  <2>5. Cardinality(OfKind(k, E) \cup OfKind(k, R)) =
        Cardinality(OfKind(k, E)) + Cardinality(OfKind(k, R)) - Cardinality(OfKind(k, E) \cap OfKind(k, R))
    BY <2>3, FS_Union, Zenon
  <2>6. \A x, y, z : x \in Nat /\ y \in Nat /\ z = 0 => x + y - z = x + y
    OBVIOUS
  <2> QED BY <2>1, <2>3, <2>4, <2>5, <2>6, Zenon
<1>7. Counted(new)
  BY <1>2, <1>5, <1>6 DEF Counted
<1> QED BY <1>7 DEF new

(* It leaves the holes as they are, in an arena that only grows.           *)
LEMMA InsertedBytes ==
    ASSUME NEW st, Filed(st), NEW entries \in Seq(AllEntries)
    PROVE  LET new == InsertAll(st, entries)
           IN  /\ BytesAddUp(st) => BytesAddUp(new)
               /\ new.deadBytes = st.deadBytes
               /\ ArenaLen(st) \in Nat /\ ArenaLen(new) \in Nat
               /\ ArenaLen(st) <= ArenaLen(new)
<1> DEFINE new == InsertAll(st, entries)
           added == Bytes(NewPlaces(st, entries), new.arena)
<1>1. st \in StoreRecords /\ st.deadBytes \in Nat
  BY DEF Filed, StoreRecords
<1>2. /\ new.arena \in Seq(Names)
      /\ \A i \in DOMAIN st.arena : new.arena[i] = st.arena[i]
  BY <1>1, InsertedArena
<1>3. /\ DOMAIN new.arena = DOMAIN st.arena \cup NewPlaces(st, entries)
      /\ DOMAIN st.arena \cap NewPlaces(st, entries) = {}
      /\ Reachable(new) = Reachable(st) \cup NewPlaces(st, entries)
  BY InsertedPlaces
<1>4. st.arena \in Seq(Names) /\ Reachable(st) \subseteq DOMAIN st.arena
  BY PlacesInArena
<1>5. new.deadBytes = st.deadBytes
  BY DEF InsertAll
<1> HIDE DEF new
<1>6. Bytes(DOMAIN st.arena, new.arena) = Bytes(DOMAIN st.arena, st.arena)
  BY <1>2, BytesOfSame
<1>7. Bytes(Reachable(st), new.arena) = Bytes(Reachable(st), st.arena)
  BY <1>2, <1>4, BytesOfSame
<1>8. Bytes(DOMAIN new.arena, new.arena) = Bytes(DOMAIN st.arena, new.arena) + added
  BY <1>2, <1>3, BytesOfDisjoint
<1>9. Bytes(Reachable(new), new.arena) = Bytes(Reachable(st), new.arena) + added
  <2>1. Reachable(st) \cap NewPlaces(st, entries) = {}
    BY <1>3, <1>4
  <2> QED BY <1>2, <1>3, <1>4, <2>1, BytesOfDisjoint
<1>10. added \in Nat
  BY <1>2, <1>3, BytesFinite
<1>11. Bytes(DOMAIN st.arena, st.arena) \in Nat /\ Bytes(Reachable(st), st.arena) \in Nat
  BY <1>4, BytesFinite
<1> HIDE DEF added
<1>12. /\ BytesAddUp(st) => BytesAddUp(new)
       /\ ArenaLen(st) \in Nat /\ ArenaLen(new) \in Nat
       /\ ArenaLen(st) <= ArenaLen(new)
  BY <1>1, <1>5, <1>6, <1>7, <1>8, <1>9, <1>10, <1>11 DEF BytesAddUp, ArenaLen
<1> QED BY <1>5, <1>12 DEF new

(* So insertions of fresh entries keep the store sound.                    *)
LEMMA InsertedSound ==
    ASSUME NEW st, Sound(st), NEW entries, Insertable(st, entries)
    PROVE  /\ Sound(InsertAll(st, entries))
           /\ Entries(InsertAll(st, entries)) = Entries(st) \cup Range(entries)
           /\ ~TooManyHoles(st) => ~TooManyHoles(InsertAll(st, entries))
<1> DEFINE new == InsertAll(st, entries)
<1>1. entries \in Seq(AllEntries) /\ Filed(st) /\ Counted(st) /\ BytesAddUp(st)
  BY DEF Insertable, Sound
<1>2. Filed(new) /\ Counted(new) /\ BytesAddUp(new)
  BY <1>1, InsertedFiled, InsertedCounted, InsertedBytes
<1>3. Entries(new) = Entries(st) \cup Range(entries)
  BY <1>1, <1>2, InsertedEntries
<1>4. ~TooManyHoles(st) => ~TooManyHoles(new)
  <2>1. st.deadBytes \in Nat
    BY <1>1 DEF Filed, StoreRecords
  <2>2. /\ new.deadBytes = st.deadBytes
        /\ ArenaLen(st) \in Nat /\ ArenaLen(new) \in Nat
        /\ ArenaLen(st) <= ArenaLen(new)
    BY <1>1, InsertedBytes
  <2> HIDE DEF new
  <2> QED BY <2>1, <2>2 DEF TooManyHoles
<1> QED BY <1>2, <1>3, <1>4 DEF Sound

(* The empty store.                                                        *)
LEMMA EmptySound ==
    /\ Sound(EmptyStore)
    /\ Entries(EmptyStore) = {}
    /\ \A k \in Kinds, n \in Names : ~ContainsIn(EmptyStore, k, n)
    /\ ~TooManyHoles(EmptyStore)
<1> DEFINE st == EmptyStore
<1>1. /\ st.arena = <<>> /\ st.deadBytes = 0
      /\ \A k \in Kinds : st.count[k] = 0
      /\ \A k \in Kinds, h \in Hashes : st.index[k][h] = {}
  BY DEF EmptyStore
<1>2. st \in StoreRecords
  <2>1. <<>> \in Seq(Names)
    OBVIOUS
  <2> QED BY <2>1 DEF EmptyStore, StoreRecords
<1> HIDE DEF st
<1>3. \A k \in Kinds : PlacesIn(st, k) = {}
  BY <1>1 DEF PlacesIn
<1>4. Reachable(st) = {} /\ DOMAIN st.arena = {}
  BY <1>1, <1>3 DEF Reachable, Kinds
<1>5. Filed(st)
  BY <1>1, <1>2, <1>3 DEF Filed, Kinds
<1>6. \A k \in Kinds, n \in Names : ~ContainsIn(st, k, n)
  BY <1>1, HashTyped DEF ContainsIn
<1>7. Entries(st) = {}
  BY <1>5, <1>6, EntriesAreContained DEF AllEntries
<1>8. Counted(st)
  <2>1. \A k \in Kinds : OfKind(k, {}) = {}
    BY DEF OfKind
  <2>2. Cardinality({}) = 0
    BY FS_EmptySet, Zenon
  <2> QED BY <1>1, <1>7, <2>1, <2>2 DEF Counted
<1>9. Bytes({}, st.arena) = 0
  BY BytesOfNone
<1>10. BytesAddUp(st) /\ ~TooManyHoles(st)
  BY <1>1, <1>4, <1>9 DEF BytesAddUp, TooManyHoles, ArenaLen
<1> QED BY <1>5, <1>6, <1>7, <1>8, <1>10 DEF Sound, st

-----------------------------------------------------------------------------
(* InsertAll is the loop over InsertNormalized                             *)

(* A loop that has nothing left to insert has changed nothing.             *)
LEMMA LoopStart ==
    ASSUME NEW st \in StoreRecords
    PROVE  InsertAll(st, <<>>) = st
<1> DEFINE new == InsertAll(st, <<>>)
<1>1. <<>> \in Seq(AllEntries) /\ DOMAIN <<>> = {}
  OBVIOUS
<1>2. new.arena = st.arena
  <2>1. [i \in DOMAIN <<>> |-> <<>>[i][2]] = <<>>
    OBVIOUS
  <2>2. new.arena = st.arena \o [i \in DOMAIN <<>> |-> <<>>[i][2]]
    BY DEF InsertAll
  <2>3. st.arena \in Seq(Names)
    BY DEF StoreRecords
  <2>4. \A s \in Seq(Names) : s \o <<>> = s
    OBVIOUS
  <2> HIDE DEF new
  <2> QED BY <2>1, <2>2, <2>3, <2>4
<1>3. new.index = st.index
  <2>1. \A k \in Kinds, h \in Hashes : new.index[k][h] = st.index[k][h]
    <3> SUFFICES ASSUME NEW k \in Kinds, NEW h \in Hashes
                 PROVE  \A i : i \in new.index[k][h] <=> i \in st.index[k][h]
      OBVIOUS
    <3> QED BY <1>1, InsertedIndex
  <2>2. new.index = [k \in Kinds |-> [h \in Hashes |-> new.index[k][h]]]
    BY DEF InsertAll
  <2>3. st.index \in [Kinds -> [Hashes -> SUBSET Nat]]
    BY DEF StoreRecords
  <2> HIDE DEF new
  <2> QED BY <2>1, <2>2, <2>3
<1>4. new.count = st.count
  <2>1. \A k \in Kinds : OfKind(k, Range(<<>>)) = {}
    BY <1>1 DEF OfKind, Range
  <2>2. Cardinality({}) = 0
    BY FS_EmptySet, Zenon
  <2>3. \A k \in Kinds : Cardinality(OfKind(k, Range(<<>>))) = 0
    BY <2>1, <2>2
  <2>4. st.count \in [Kinds -> Nat]
    BY DEF StoreRecords
  <2>5. new.count = [k \in Kinds |-> st.count[k] + Cardinality(OfKind(k, Range(<<>>)))]
    BY DEF InsertAll
  <2> HIDE DEF new
  <2> QED BY <2>3, <2>4, <2>5
<1>5. new.deadBytes = st.deadBytes
  BY DEF InsertAll
<1>6. new = [arena |-> new.arena, index |-> new.index, count |-> new.count,
             deadBytes |-> new.deadBytes]
  BY DEF InsertAll
<1>7. st = [arena |-> st.arena, index |-> st.index, count |-> st.count,
            deadBytes |-> st.deadBytes]
  BY DEF StoreRecords
<1> HIDE DEF new
<1>8. new = st
  BY <1>2, <1>3, <1>4, <1>5, <1>6, <1>7
<1> QED BY <1>8 DEF new

(* One more entry is one more turn of the loop.                            *)
LEMMA LoopStep ==
    ASSUME NEW st, Filed(st), NEW entries \in Seq(AllEntries), NEW e \in AllEntries,
           Insertable(st, Append(entries, e))
    PROVE  InsertAll(st, Append(entries, e)) = InsertNormalized(InsertAll(st, entries), e)
<1> DEFINE more == Append(entries, e)
           before == InsertAll(st, entries)
           after == InsertAll(st, more)
           last1 == Len(entries) + 1
<1>1. st \in StoreRecords /\ more \in Seq(AllEntries)
  BY DEF Filed
<1>2. /\ DOMAIN more = DOMAIN entries \cup {last1}
      /\ last1 \notin DOMAIN entries
      /\ \A i \in DOMAIN entries : more[i] = entries[i]
      /\ more[last1] = e
      /\ Len(more) = Len(entries) + 1
      /\ Len(entries) \in Nat
  OBVIOUS
<1>3. before \in StoreRecords /\ after \in StoreRecords
  BY <1>1, InsertedTypes
<1>4. e[1] \in Kinds /\ e[2] \in Names /\ Hash[e[2]] \in Hashes /\ e = <<e[1], e[2]>>
  BY HashTyped DEF AllEntries
<1>5. e \notin Range(entries)
  BY <1>2 DEF Insertable, Range
<1>6. Range(more) = Range(entries) \cup {e}
  BY <1>2 DEF Range
<1>7. ~ContainsIn(before, e[1], e[2])
  <2>1. ~ContainsIn(st, e[1], e[2])
    BY <1>6 DEF Insertable
  <2> QED BY <2>1, <1>4, <1>5, InsertedContains
<1>8. Len(before.arena) = Len(st.arena) + Len(entries) /\ Len(st.arena) \in Nat
  BY <1>1, InsertedArena, PlacesInArena
<1>9. InsertNormalized(before, e) =
         [before EXCEPT !.arena = Append(@, e[2]),
                        !.index[e[1]][Hash[e[2]]] = @ \cup {Len(before.arena) + 1},
                        !.count[e[1]] = @ + 1]
  BY <1>7 DEF InsertNormalized
<1>10. after.arena = Append(before.arena, e[2])
  <2> DEFINE names == [i \in DOMAIN entries |-> entries[i][2]]
             moreNames == [i \in DOMAIN more |-> more[i][2]]
             arena == st.arena
  <2>1. names \in Seq(Names) /\ Len(names) = Len(entries)
    BY DEF AllEntries
  <2>6. moreNames = Append(names, e[2])
    <3>1. Append(names, e[2]) \in Seq(Names) /\ Len(Append(names, e[2])) = last1
      BY <2>1, <1>4
    <3>2. moreNames \in Seq(Names) /\ Len(moreNames) = last1
      <4>1. DOMAIN more = 1 .. last1 /\ last1 \in Nat
        BY <1>2
      <4>2. \A i \in DOMAIN more : more[i][2] \in Names
        BY <1>1 DEF AllEntries
      <4> HIDE DEF more, last1
      <4> QED BY <4>1, <4>2
    <3>3. ASSUME NEW i \in 1 .. last1
          PROVE  moreNames[i] = Append(names, e[2])[i]
      <4>1. i \in DOMAIN more /\ moreNames[i] = more[i][2]
        BY <1>2
      <4>2. CASE i = last1
        BY <4>1, <4>2, <2>1, <1>2, <1>4
      <4>3. CASE i # last1
        <5>1. i \in DOMAIN entries /\ i \in 1 .. Len(names)
          BY <4>1, <4>3, <2>1, <1>2
        <5>2. Append(names, e[2])[i] = names[i]
          BY <5>1, <2>1, <1>4
        <5> QED BY <4>1, <5>1, <5>2, <1>2
      <4> QED BY <4>2, <4>3
    <3> HIDE DEF moreNames, names
    <3> QED BY <3>1, <3>2, <3>3, SeqEqual
  <2>2. arena \in Seq(Names)
    BY <1>1 DEF StoreRecords
  <2>3. after.arena = arena \o moreNames /\ before.arena = arena \o names
    BY DEF InsertAll
  <2> HIDE DEF names, moreNames, arena, after, before
  <2>4. arena \o Append(names, e[2]) = Append(arena \o names, e[2])
    BY <2>1, <2>2, <1>4
  <2> QED BY <2>6, <2>3, <2>4
<1>11. ASSUME NEW k \in Kinds, NEW h \in Hashes
       PROVE  after.index[k][h] = IF k = e[1] /\ h = Hash[e[2]]
                                  THEN before.index[k][h] \cup {Len(before.arena) + 1}
                                  ELSE before.index[k][h]
  <2>1. \A i : i \in after.index[k][h] <=>
                  \/ i \in st.index[k][h]
                  \/ \E j \in DOMAIN more : /\ i = Len(st.arena) + j
                                            /\ more[j][1] = k
                                            /\ Hash[more[j][2]] = h
    <3> HIDE DEF more
    <3> QED BY <1>1, InsertedIndex
  <2>2. \A i : i \in before.index[k][h] <=>
                  \/ i \in st.index[k][h]
                  \/ \E j \in DOMAIN entries : /\ i = Len(st.arena) + j
                                               /\ entries[j][1] = k
                                               /\ Hash[entries[j][2]] = h
    BY <1>1, InsertedIndex
  <2>3. Len(before.arena) + 1 = Len(st.arena) + last1
    <3>1. Len(entries) \in Nat /\ Len(st.arena) \in Nat
      BY <1>8, <1>2
    <3>2. \A x, y \in Nat : (x + y) + 1 = x + (y + 1)
      OBVIOUS
    <3> HIDE DEF before
    <3> QED BY <1>8, <3>1, <3>2, Zenon DEF last1
  <2>4. \A j \in DOMAIN more : j \in DOMAIN entries \/ j = last1
    BY <1>2
  <2>a. /\ last1 \in DOMAIN more /\ more[last1] = e
        /\ \A j \in DOMAIN entries : j \in DOMAIN more /\ more[j] = entries[j]
    BY <1>2
  <2> HIDE DEF before, after, more, last1
  <2>5. \A i : i \in after.index[k][h] <=>
                  \/ i \in before.index[k][h]
                  \/ i = Len(st.arena) + last1 /\ e[1] = k /\ Hash[e[2]] = h
    BY <2>a, <2>1, <2>2, <2>4
  <2>6. CASE k = e[1] /\ h = Hash[e[2]]
    BY <2>3, <2>5, <2>6
  <2>7. CASE ~(k = e[1] /\ h = Hash[e[2]])
    BY <2>5, <2>7
  <2> QED BY <2>6, <2>7
<1>12. ASSUME NEW k \in Kinds
       PROVE  after.count[k] = IF k = e[1] THEN before.count[k] + 1 ELSE before.count[k]
  <2> DEFINE R == Range(entries)
  <2>1. after.count[k] = st.count[k] + Cardinality(OfKind(k, R \cup {e}))
    BY <1>6 DEF InsertAll
  <2>2. before.count[k] = st.count[k] + Cardinality(OfKind(k, R))
    BY DEF InsertAll
  <2>3. R \in SUBSET AllEntries /\ e \notin R
    BY <1>5 DEF Range
  <2>4. st.count[k] \in Nat
    BY <1>1 DEF StoreRecords
  <2> HIDE DEF R, before, after
  <2>5. IsFiniteSet(OfKind(k, R)) /\ Cardinality(OfKind(k, R)) \in Nat
    BY <2>3, OfKindFinite
  <2>6. CASE k = e[1]
    <3>1. OfKind(k, R \cup {e}) = OfKind(k, R) \cup {e} /\ e \notin OfKind(k, R)
      BY <2>3, <2>6 DEF OfKind
    <3>2. Cardinality(OfKind(k, R \cup {e})) = Cardinality(OfKind(k, R)) + 1
      BY <3>1, <2>5, FS_AddElement
    <3> QED BY <2>1, <2>2, <2>4, <2>5, <2>6, <3>2
  <2>7. CASE k # e[1]
    <3>1. OfKind(k, R \cup {e}) = OfKind(k, R)
      BY <2>7 DEF OfKind
    <3> QED BY <2>1, <2>2, <2>7, <3>1
  <2> QED BY <2>6, <2>7
<1>13. after.deadBytes = before.deadBytes
  BY DEF InsertAll
<1> HIDE DEF before, after, more
<1>14. /\ InsertNormalized(before, e).arena = after.arena
       /\ InsertNormalized(before, e).deadBytes = after.deadBytes
  BY <1>3, <1>9, <1>10, <1>13 DEF StoreRecords
<1>15. InsertNormalized(before, e).index = after.index
  <2> DEFINE index == [before.index EXCEPT ![e[1]][Hash[e[2]]] = @ \cup {Len(before.arena) + 1}]
  <2>1. InsertNormalized(before, e).index = index
    BY <1>3, <1>9 DEF StoreRecords
  <2>2. /\ before.index \in [Kinds -> [Hashes -> SUBSET Nat]]
        /\ after.index \in [Kinds -> [Hashes -> SUBSET Nat]]
    BY <1>3 DEF StoreRecords
  <2>7. \A k \in Kinds, h \in Hashes :
           index[k][h] = IF k = e[1] /\ h = Hash[e[2]]
                         THEN before.index[k][h] \cup {Len(before.arena) + 1}
                         ELSE before.index[k][h]
    BY <2>2, <1>4
  <2>3. \A k \in Kinds, h \in Hashes : index[k][h] = after.index[k][h]
    <3> SUFFICES ASSUME NEW k \in Kinds, NEW h \in Hashes
                 PROVE  index[k][h] = after.index[k][h]
      OBVIOUS
    <3> HIDE DEF index
    <3>1. CASE k = e[1] /\ h = Hash[e[2]]
      BY <2>7, <1>11, <3>1
    <3>2. CASE ~(k = e[1] /\ h = Hash[e[2]])
      <4>1. index[k][h] = before.index[k][h]
        BY <2>7, <3>2, Zenon
      <4>2. after.index[k][h] = before.index[k][h]
        BY <1>11, <3>2, Zenon
      <4> QED BY <4>1, <4>2
    <3> QED BY <3>1, <3>2
  <2>4. /\ DOMAIN index = Kinds
        /\ \A k \in Kinds : index[k] = [h \in Hashes |-> index[k][h]]
    BY <2>2, <1>4
  <2>5. \A k \in Kinds : index[k] = after.index[k]
    BY <2>2, <2>3, <2>4
  <2>6. index = [k \in Kinds |-> index[k]]
    BY <2>2
  <2> HIDE DEF index
  <2> QED BY <2>1, <2>2, <2>5, <2>6
<1>16. InsertNormalized(before, e).count = after.count
  <2>1. InsertNormalized(before, e).count = [before.count EXCEPT ![e[1]] = @ + 1]
    BY <1>3, <1>9 DEF StoreRecords
  <2>2. before.count \in [Kinds -> Nat] /\ after.count \in [Kinds -> Nat]
    BY <1>3 DEF StoreRecords
  <2> QED BY <2>1, <2>2, <1>4, <1>12
<1>17. InsertNormalized(before, e) \in [arena : {after.arena}, index : {after.index},
                                        count : {after.count}, deadBytes : {after.deadBytes}]
  <2>1. DOMAIN InsertNormalized(before, e) = DOMAIN before
    BY <1>9
  <2>2. InsertNormalized(before, e) = [f \in DOMAIN before |-> InsertNormalized(before, e)[f]]
    BY <1>9
  <2>3. DOMAIN before = {"arena", "index", "count", "deadBytes"}
    BY <1>3 DEF StoreRecords
  <2> QED BY <2>2, <2>3, <1>14, <1>15, <1>16
<1>18. after = [arena |-> after.arena, index |-> after.index, count |-> after.count,
                deadBytes |-> after.deadBytes]
  BY <1>3 DEF StoreRecords
<1>19. after = InsertNormalized(before, e)
  BY <1>17, <1>18
<1> QED BY <1>19 DEF after, before, more

(* A single insertion of what is not there is a loop of one turn.          *)
LEMMA InsertOne ==
    ASSUME NEW st, Filed(st), NEW e \in AllEntries, ~ContainsIn(st, e[1], e[2])
    PROVE  /\ Insertable(st, <<e>>)
           /\ Range(<<e>>) = {e}
           /\ InsertNormalized(st, e) = InsertAll(st, <<e>>)
<1>1. <<e>> \in Seq(AllEntries) /\ DOMAIN <<e>> = {1} /\ <<e>>[1] = e
  OBVIOUS
<1>2. Range(<<e>>) = {e}
  BY <1>1 DEF Range
<1>3. Insertable(st, <<e>>)
  BY <1>1, <1>2 DEF Insertable
<1>4. <<>> \in Seq(AllEntries) /\ Append(<<>>, e) = <<e>>
  OBVIOUS
<1>5. InsertAll(st, <<>>) = st
  BY LoopStart DEF Filed
<1>6. InsertAll(st, <<e>>) = InsertNormalized(InsertAll(st, <<>>), e)
  BY <1>3, <1>4, LoopStep
<1> QED BY <1>2, <1>3, <1>5, <1>6

-----------------------------------------------------------------------------
(* The orders a loop may take                                              *)

(* An order of a set lists each member once, and nothing else.             *)
LEMMA OrdersList ==
    ASSUME NEW E \in SUBSET AllEntries, NEW entries \in InAnyOrder(E)
    PROVE  /\ entries \in Seq(AllEntries)
           /\ \A i, j \in DOMAIN entries : entries[i] = entries[j] => i = j
           /\ Range(entries) = E
<1> DEFINE D == 1 .. Cardinality(E)
<1>1. IsFiniteSet(E) /\ Cardinality(E) \in Nat
  BY KindsFinite, FS_Subset, FS_CardinalityType
<1>2. entries \in Injection(D, E)
  BY DEF InAnyOrder
<1>3. entries \in [D -> E] /\ \A i, j \in D : entries[i] = entries[j] => i = j
  BY <1>2 DEF Injection, IsInjective
<1>4. Cardinality(D) = Cardinality(E)
  <2>1. 1 \in Int /\ Cardinality(E) \in Int
    BY <1>1
  <2>2. Cardinality(D) = IF 1 > Cardinality(E) THEN 0 ELSE Cardinality(E) - 1 + 1
    BY <2>1, FS_Interval
  <2> QED BY <1>1, <2>2
<1>5. entries \in Surjection(D, E)
  BY <1>1, <1>2, <1>4, FS_Injection
<1>6. Range(entries) = E
  BY <1>3, <1>5 DEF Range, Surjection
<1>7. entries \in Seq(AllEntries)
  BY <1>1, <1>3
<1> QED BY <1>3, <1>6, <1>7

(* So does the order of the loops of merge and compact, the exact names    *)
(* first.                                                                  *)
LEMMA ExactFirstLists ==
    ASSUME NEW E \in SUBSET AllEntries, NEW entries \in ExactFirst(E)
    PROVE  /\ entries \in Seq(AllEntries)
           /\ \A i, j \in DOMAIN entries : entries[i] = entries[j] => i = j
           /\ Range(entries) = E
<1>1. PICK exact \in InAnyOrder(OfKind("exact", E)), wild \in InAnyOrder(OfKind("wild", E)) :
         entries = exact \o wild
  BY DEF ExactFirst
<1>2. /\ OfKind("exact", E) \in SUBSET AllEntries
      /\ OfKind("wild", E) \in SUBSET AllEntries
      /\ OfKind("exact", E) \cup OfKind("wild", E) = E
      /\ OfKind("exact", E) \cap OfKind("wild", E) = {}
  BY DEF OfKind, AllEntries, Kinds
<1>3. /\ exact \in Seq(AllEntries)
      /\ \A i, j \in DOMAIN exact : exact[i] = exact[j] => i = j
      /\ Range(exact) = OfKind("exact", E)
  BY <1>2, OrdersList
<1>4. /\ wild \in Seq(AllEntries)
      /\ \A i, j \in DOMAIN wild : wild[i] = wild[j] => i = j
      /\ Range(wild) = OfKind("wild", E)
  BY <1>2, OrdersList
<1>5. entries \in Seq(AllEntries)
  BY <1>1, <1>3, <1>4
<1>6. /\ \A i \in DOMAIN exact : i \in DOMAIN entries /\ entries[i] = exact[i]
      /\ \A j \in DOMAIN wild : Len(exact) + j \in DOMAIN entries /\ entries[Len(exact) + j] = wild[j]
  BY <1>1, <1>3, <1>4
<1>7. ASSUME NEW i \in DOMAIN entries
      PROVE  i \in DOMAIN exact \/ \E j \in DOMAIN wild : i = Len(exact) + j
  <2>1. i \in Nat /\ i >= 1 /\ i <= Len(exact) + Len(wild)
    BY <1>1, <1>3, <1>4
  <2>2. /\ DOMAIN exact = 1 .. Len(exact) /\ Len(exact) \in Nat
        /\ DOMAIN wild = 1 .. Len(wild) /\ Len(wild) \in Nat
    BY <1>3, <1>4
  <2>3. CASE i <= Len(exact)
    BY <2>1, <2>2, <2>3
  <2>4. CASE i > Len(exact)
    <3>1. i - Len(exact) \in DOMAIN wild /\ i = Len(exact) + (i - Len(exact))
      BY <2>1, <2>2, <2>4
    <3> QED BY <3>1
  <2> QED BY <2>1, <2>2, <2>3, <2>4
<1>8. \A x, y : x \in Range(exact) /\ y \in Range(wild) => x # y
  BY <1>2, <1>3, <1>4
<1>9. /\ \A i \in DOMAIN exact : exact[i] \in Range(exact)
      /\ \A i \in DOMAIN wild : wild[i] \in Range(wild)
  BY DEF Range
<1>10. \A i, j \in DOMAIN entries : entries[i] = entries[j] => i = j
  BY <1>3, <1>4, <1>6, <1>7, <1>8, <1>9
<1>11. Range(entries) = Range(exact) \cup Range(wild)
  BY <1>6, <1>7 DEF Range
<1> QED BY <1>2, <1>3, <1>4, <1>5, <1>10, <1>11

-----------------------------------------------------------------------------
(* What the operations make of a sound store                               *)

(* insert                                                                  *)
LEMMA InsertIsSound ==
    ASSUME NEW st, Sound(st), NEW e \in AllEntries
    PROVE  /\ Sound(InsertNormalized(st, e))
           /\ Entries(InsertNormalized(st, e)) = Entries(st) \cup {e}
           /\ ~TooManyHoles(st) => ~TooManyHoles(InsertNormalized(st, e))
<1>1. Filed(st)
  BY DEF Sound
<1>2. CASE ContainsIn(st, e[1], e[2])
  <2>1. e \in Entries(st)
    BY <1>1, <1>2, EntriesAreContained
  <2>2. InsertNormalized(st, e) = st
    BY <1>2 DEF InsertNormalized
  <2> QED BY <2>1, <2>2
<1>3. CASE ~ContainsIn(st, e[1], e[2])
  <2>1. /\ Insertable(st, <<e>>) /\ Range(<<e>>) = {e}
        /\ InsertNormalized(st, e) = InsertAll(st, <<e>>)
    BY <1>1, <1>3, InsertOne
  <2> QED BY <2>1, InsertedSound
<1> QED BY <1>2, <1>3

(* merge                                                                   *)
LEMMA MergeIsSound ==
    ASSUME NEW st, Sound(st), NEW E \in SUBSET AllEntries,
           NEW entries \in ExactFirst(Fresh(st, E))
    PROVE  /\ Sound(InsertAll(st, entries))
           /\ Entries(InsertAll(st, entries)) = Entries(st) \cup E
           /\ ~TooManyHoles(st) => ~TooManyHoles(InsertAll(st, entries))
<1>1. Filed(st)
  BY DEF Sound
<1>2. Fresh(st, E) \in SUBSET AllEntries
  BY DEF Fresh
<1>3. Insertable(st, entries) /\ Range(entries) = Fresh(st, E)
  BY <1>2, ExactFirstLists DEF Insertable, Fresh
<1>4. Entries(st) \cup Fresh(st, E) = Entries(st) \cup E
  BY <1>1, EntriesAreContained DEF Fresh
<1> QED BY <1>3, <1>4, InsertedSound

(* A store built from nothing: replace and compact.                        *)
LEMMA BuiltIsSound ==
    ASSUME NEW E \in SUBSET AllEntries,
           NEW entries \in InAnyOrder(E) \cup ExactFirst(E)
    PROVE  /\ Sound(InsertAll(EmptyStore, entries))
           /\ Entries(InsertAll(EmptyStore, entries)) = E
           /\ ~TooManyHoles(InsertAll(EmptyStore, entries))
<1>1. /\ entries \in Seq(AllEntries)
      /\ \A i, j \in DOMAIN entries : entries[i] = entries[j] => i = j
      /\ Range(entries) = E
  BY OrdersList, ExactFirstLists
<1>2. Insertable(EmptyStore, entries)
  BY <1>1, EmptySound DEF Insertable, AllEntries
<1>3. Sound(EmptyStore) /\ Entries(EmptyStore) = {} /\ ~TooManyHoles(EmptyStore)
  BY EmptySound
<1>4. /\ Sound(InsertAll(EmptyStore, entries))
      /\ Entries(InsertAll(EmptyStore, entries)) = Entries(EmptyStore) \cup Range(entries)
      /\ ~TooManyHoles(EmptyStore) => ~TooManyHoles(InsertAll(EmptyStore, entries))
  BY <1>2, <1>3, InsertedSound
<1> QED BY <1>1, <1>3, <1>4

(* remove_from_index finds an entry at one place or nowhere.               *)
LEMMA FreedPlaces ==
    ASSUME NEW st, Filed(st), NEW e \in AllEntries
    PROVE  /\ Freed(st, e) \subseteq PlacesIn(st, e[1])
           /\ IF e \in Entries(st) THEN \E i : Freed(st, e) = {i} ELSE Freed(st, e) = {}
           /\ \A h \in Hashes : h # Hash[e[2]] => st.index[e[1]][h] \cap Freed(st, e) = {}
           /\ \A k \in Kinds : k # e[1] => PlacesIn(st, k) \cap Freed(st, e) = {}
<1>1. e[1] \in Kinds /\ e[2] \in Names /\ Hash[e[2]] \in Hashes
  BY HashTyped DEF AllEntries
<1>2. Freed(st, e) \subseteq PlacesIn(st, e[1])
  BY <1>1 DEF Freed, PlacesIn
<1>3. IF e \in Entries(st) THEN \E i : Freed(st, e) = {i} ELSE Freed(st, e) = {}
  <2>1. e \in Entries(st) <=> ContainsIn(st, e[1], e[2])
    BY EntriesAreContained
  <2>2. \A i, j \in Freed(st, e) : i = j
    BY <1>1 DEF Freed, Filed
  <2>3. ContainsIn(st, e[1], e[2]) <=> Freed(st, e) # {}
    BY DEF ContainsIn, Freed
  <2> HIDE DEF Freed
  <2> QED BY <2>1, <2>2, <2>3
<1>4. \A h \in Hashes : h # Hash[e[2]] => st.index[e[1]][h] \cap Freed(st, e) = {}
  BY <1>1 DEF Freed, Filed
<1>5. \A k \in Kinds : k # e[1] => PlacesIn(st, k) \cap Freed(st, e) = {}
  BY <1>1, <1>2 DEF Filed, Kinds
<1> QED BY <1>2, <1>3, <1>4, <1>5

(* The fields of a store after remove_from_index.                          *)
LEMMA RemovedFields ==
    ASSUME NEW st, Filed(st), NEW e \in AllEntries
    PROVE  LET removed == RemoveFromIndex(st, e)
           IN  /\ removed.arena = st.arena
               /\ removed.deadBytes = st.deadBytes + Bytes(Freed(st, e), st.arena)
               /\ removed.index = [st.index EXCEPT ![e[1]][Hash[e[2]]] = @ \ Freed(st, e)]
               /\ removed.count = [st.count EXCEPT ![e[1]] = @ - Cardinality(Freed(st, e))]
               /\ DOMAIN removed = {"arena", "index", "count", "deadBytes"}
<1>1. /\ st = [arena |-> st.arena, index |-> st.index, count |-> st.count, deadBytes |-> st.deadBytes]
      /\ st.index \in [Kinds -> [Hashes -> SUBSET Nat]]
      /\ st.count \in [Kinds -> Nat]
  BY DEF Filed, StoreRecords
<1> QED BY <1>1 DEF RemoveFromIndex

(* It takes its places out of its index, whatever their hash, and leaves   *)
(* the other index alone.                                                  *)
LEMMA RemovedIndex ==
    ASSUME NEW st, Filed(st), NEW e \in AllEntries
    PROVE  LET removed == RemoveFromIndex(st, e)
           IN  /\ \A h \in Hashes : removed.index[e[1]][h] = st.index[e[1]][h] \ Freed(st, e)
               /\ \A k \in Kinds, h \in Hashes : k # e[1] => removed.index[k][h] = st.index[k][h]
<1> DEFINE index == RemoveFromIndex(st, e).index
           F == Freed(st, e)
<1>1. e[1] \in Kinds /\ Hash[e[2]] \in Hashes
  BY HashTyped DEF AllEntries
<1>2. st.index \in [Kinds -> [Hashes -> SUBSET Nat]]
  BY DEF Filed, StoreRecords
<1>3. \A h \in Hashes : h # Hash[e[2]] => st.index[e[1]][h] \cap F = {}
  BY FreedPlaces
<1>4. index = [st.index EXCEPT ![e[1]][Hash[e[2]]] = @ \ F]
  BY RemovedFields
<1> HIDE DEF index, F
<1>5. ASSUME NEW h \in Hashes
      PROVE  index[e[1]][h] = st.index[e[1]][h] \ F
  <2>1. CASE h = Hash[e[2]]
    BY <2>1, <1>1, <1>2, <1>4
  <2>2. CASE h # Hash[e[2]]
    <3>1. index[e[1]][h] = st.index[e[1]][h]
      BY <2>2, <1>1, <1>2, <1>4
    <3> QED BY <2>2, <3>1, <1>3
  <2> QED BY <2>1, <2>2
<1>6. \A k \in Kinds, h \in Hashes : k # e[1] => index[k][h] = st.index[k][h]
  BY <1>1, <1>2, <1>4
<1> QED BY <1>5, <1>6 DEF index, F

(* A removal takes the freed places from its index alone.                  *)
LEMMA RemovedPlaces ==
    ASSUME NEW st, Filed(st), NEW e \in AllEntries
    PROVE  LET removed == RemoveFromIndex(st, e)
           IN  /\ \A k \in Kinds : PlacesIn(removed, k) = PlacesIn(st, k) \ Freed(st, e)
               /\ Reachable(removed) = Reachable(st) \ Freed(st, e)
               /\ Freed(st, e) \subseteq Reachable(st)
<1> DEFINE removed == RemoveFromIndex(st, e)
           F == Freed(st, e)
<1>1. /\ F \subseteq PlacesIn(st, e[1])
      /\ \A k \in Kinds : k # e[1] => PlacesIn(st, k) \cap F = {}
  BY FreedPlaces
<1>2. /\ \A h \in Hashes : removed.index[e[1]][h] = st.index[e[1]][h] \ F
      /\ \A k \in Kinds, h \in Hashes : k # e[1] => removed.index[k][h] = st.index[k][h]
  BY RemovedIndex
<1>3. e[1] \in Kinds
  BY DEF AllEntries
<1> HIDE DEF removed, F
<1>4. ASSUME NEW k \in Kinds
      PROVE  PlacesIn(removed, k) = PlacesIn(st, k) \ F
  <2>1. CASE k = e[1]
    <3>1. \A h \in Hashes : removed.index[k][h] = st.index[k][h] \ F
      BY <2>1, <1>2
    <3> QED BY <3>1 DEF PlacesIn
  <2>2. CASE k # e[1]
    <3>1. \A h \in Hashes : removed.index[k][h] = st.index[k][h]
      BY <2>2, <1>2
    <3>2. PlacesIn(removed, k) = PlacesIn(st, k)
      BY <3>1 DEF PlacesIn
    <3> QED BY <2>2, <3>2, <1>1
  <2> QED BY <2>1, <2>2
<1>5. Reachable(removed) = Reachable(st) \ F
  BY <1>4 DEF Reachable, Kinds
<1>6. F \subseteq Reachable(st)
  BY <1>1, <1>3 DEF Reachable, Kinds
<1> QED BY <1>4, <1>5, <1>6 DEF removed, F

(* A count never falls below what it counts: the subtraction in            *)
(* remove_from_index does not saturate.                                    *)
LEMMA RemovedTypes ==
    ASSUME NEW st, Filed(st), Counted(st), NEW e \in AllEntries
    PROVE  RemoveFromIndex(st, e) \in StoreRecords
<1> DEFINE removed == RemoveFromIndex(st, e)
           F == Freed(st, e)
<1>1. /\ removed.arena = st.arena
      /\ removed.deadBytes = st.deadBytes + Bytes(F, st.arena)
      /\ removed.index = [st.index EXCEPT ![e[1]][Hash[e[2]]] = @ \ F]
      /\ removed.count = [st.count EXCEPT ![e[1]] = @ - Cardinality(F)]
      /\ DOMAIN removed = {"arena", "index", "count", "deadBytes"}
  BY RemovedFields
<1>2. /\ st.arena \in Seq(Names)
      /\ st.index \in [Kinds -> [Hashes -> SUBSET Nat]]
      /\ st.count \in [Kinds -> Nat]
      /\ st.deadBytes \in Nat
  BY DEF Filed, StoreRecords
<1>3. Cardinality(F) \in {0, 1} /\ (Cardinality(F) = 1 => e \in Entries(st))
  <2>1. IF e \in Entries(st) THEN \E i : F = {i} ELSE F = {}
    BY FreedPlaces
  <2>2. Cardinality({}) = 0
    BY FS_EmptySet, Zenon
  <2>3. \A i : Cardinality({i}) = 1
    BY FS_Singleton
  <2> HIDE DEF F
  <2>4. CASE e \in Entries(st)
    BY <2>1, <2>3, <2>4
  <2>5. CASE e \notin Entries(st)
    BY <2>1, <2>2, <2>5
  <2> QED BY <2>4, <2>5
<1>4. e \in Entries(st) => st.count[e[1]] # 0
  <2>1. Entries(st) \in SUBSET AllEntries
    BY EntriesAreContained
  <2>2. IsFiniteSet(OfKind(e[1], Entries(st)))
    BY <2>1, OfKindFinite
  <2>3. e \in Entries(st) => OfKind(e[1], Entries(st)) # {}
    BY DEF OfKind
  <2>4. e \in Entries(st) => Cardinality(OfKind(e[1], Entries(st))) # 0
    BY <2>2, <2>3, FS_EmptySet
  <2> QED BY <2>4 DEF Counted, AllEntries
<1>5. F \subseteq DOMAIN st.arena
  <2>1. F \subseteq PlacesIn(st, e[1]) /\ e[1] \in Kinds
    BY FreedPlaces DEF AllEntries
  <2> HIDE DEF F
  <2> QED BY <2>1, PlacesInArena
<1>6. Bytes(F, st.arena) \in Nat
  BY <1>2, <1>5, BytesFinite
<1>7. e[1] \in Kinds /\ Hash[e[2]] \in Hashes
  BY HashTyped DEF AllEntries
<1>8. removed = [f \in DOMAIN removed |-> removed[f]]
  BY DEF RemoveFromIndex
<1> HIDE DEF removed, F
<1>9. removed.index \in [Kinds -> [Hashes -> SUBSET Nat]]
  BY <1>1, <1>2, <1>7
<1>10. removed.count \in [Kinds -> Nat]
  BY <1>1, <1>2, <1>3, <1>4, <1>7
<1>11. removed.arena \in Seq(Names) /\ removed.deadBytes \in Nat
  BY <1>1, <1>2, <1>6
<1>12. DOMAIN removed = {"arena", "index", "count", "deadBytes"}
  BY <1>1
<1>13. removed \in StoreRecords
  BY <1>8, <1>9, <1>10, <1>11, <1>12 DEF StoreRecords
<1> QED BY <1>13 DEF removed

(* What a removal leaves stays where it is filed.                          *)
LEMMA RemovedFiled ==
    ASSUME NEW st, Filed(st), Counted(st), NEW e \in AllEntries
    PROVE  /\ Filed(RemoveFromIndex(st, e))
           /\ Entries(RemoveFromIndex(st, e)) = Entries(st) \ {e}
<1> DEFINE removed == RemoveFromIndex(st, e)
           F == Freed(st, e)
<1>1. removed \in StoreRecords
  BY RemovedTypes
<1>2. /\ removed.arena = st.arena
      /\ \A h \in Hashes : removed.index[e[1]][h] = st.index[e[1]][h] \ F
      /\ \A k \in Kinds, h \in Hashes : k # e[1] => removed.index[k][h] = st.index[k][h]
  <2>1. removed.arena = st.arena
    BY RemovedFields
  <2>2. /\ \A h \in Hashes : removed.index[e[1]][h] = st.index[e[1]][h] \ F
        /\ \A k \in Kinds, h \in Hashes : k # e[1] => removed.index[k][h] = st.index[k][h]
    BY RemovedIndex
  <2> QED BY <2>1, <2>2
<1>3. \A k \in Kinds : PlacesIn(removed, k) = PlacesIn(st, k) \ F
  BY RemovedPlaces
<1>4. e[1] \in Kinds /\ e[2] \in Names /\ e = <<e[1], e[2]>>
  BY DEF AllEntries
<1>5. F = {i \in st.index[e[1]][Hash[e[2]]] : st.arena[i] = e[2]}
  BY DEF Freed
<1> HIDE DEF removed, F
<1>6. \A k \in Kinds, h \in Hashes : removed.index[k][h] \subseteq st.index[k][h]
  BY <1>2
<1>7. PlacesIn(removed, "exact") \cap PlacesIn(removed, "wild") = {}
  BY <1>3 DEF Filed, Kinds
<1>8. Filed(removed)
  BY <1>1, <1>2, <1>6, <1>7 DEF Filed
<1>9. ASSUME NEW k \in Kinds, NEW n \in Names
      PROVE  ContainsIn(removed, k, n) <=> ContainsIn(st, k, n) /\ <<k, n>> # e
  <2>1. Hash[n] \in Hashes
    BY HashTyped
  <2>2. CASE k # e[1]
    <3>1. removed.index[k][Hash[n]] = st.index[k][Hash[n]]
      BY <2>1, <2>2, <1>2
    <3> QED BY <2>2, <3>1, <1>2, <1>4 DEF ContainsIn
  <2>3. CASE k = e[1]
    <3>1. removed.index[k][Hash[n]] = st.index[k][Hash[n]] \ F
      BY <2>1, <2>3, <1>2
    <3>2. CASE n = e[2]
      BY <2>3, <3>1, <3>2, <1>2, <1>4, <1>5 DEF ContainsIn
    <3>3. CASE n # e[2]
      BY <2>3, <3>1, <3>3, <1>2, <1>4, <1>5 DEF ContainsIn
    <3> QED BY <3>2, <3>3
  <2> QED BY <2>2, <2>3
<1>10. Entries(removed) = Entries(st) \ {e}
  <2>1. Entries(removed) \subseteq AllEntries /\ Entries(st) \subseteq AllEntries
    BY <1>8, EntriesAreContained
  <2>2. \A k \in Kinds, n \in Names : <<k, n>> \in Entries(removed) <=> ContainsIn(removed, k, n)
    BY <1>8, EntriesAreContained
  <2>3. \A k \in Kinds, n \in Names : <<k, n>> \in Entries(st) <=> ContainsIn(st, k, n)
    BY EntriesAreContained
  <2>4. \A x \in AllEntries : \E k \in Kinds, n \in Names : x = <<k, n>>
    BY DEF AllEntries
  <2> QED BY <1>9, <2>1, <2>2, <2>3, <2>4
<1> QED BY <1>8, <1>10 DEF removed

(* A removal counts down by what it frees.                                 *)
LEMMA RemovedCounted ==
    ASSUME NEW st, Filed(st), Counted(st), NEW e \in AllEntries
    PROVE  Counted(RemoveFromIndex(st, e))
<1> DEFINE removed == RemoveFromIndex(st, e)
           F == Freed(st, e)
           E == Entries(st)
<1>1. removed.count = [st.count EXCEPT ![e[1]] = @ - Cardinality(F)]
  BY RemovedFields
<1>2. IF e \in E THEN \E i : F = {i} ELSE F = {}
  BY FreedPlaces
<1>3. Entries(removed) = E \ {e}
  BY RemovedFiled
<1>4. E \in SUBSET AllEntries
  BY EntriesAreContained
<1>5. st.count \in [Kinds -> Nat] /\ e[1] \in Kinds
  BY DEF Filed, StoreRecords, AllEntries
<1>6. \A k \in Kinds : st.count[k] = Cardinality(OfKind(k, E))
  BY DEF Counted
<1> SUFFICES Counted(removed)
  OBVIOUS
<1> HIDE DEF removed, F, E
<1>7. CASE e \in E
  <2>1. Cardinality(F) = 1
    <3>1. \A i : Cardinality({i}) = 1
      BY FS_Singleton
    <3> QED BY <1>2, <1>7, <3>1
  <2>2. ASSUME NEW k \in Kinds
        PROVE  removed.count[k] = Cardinality(OfKind(k, E \ {e}))
    <3>1. IsFiniteSet(OfKind(k, E)) /\ Cardinality(OfKind(k, E)) \in Nat
      BY <1>4, OfKindFinite
    <3>2. CASE k = e[1]
      <4>1. OfKind(k, E \ {e}) = OfKind(k, E) \ {e} /\ e \in OfKind(k, E)
        BY <1>7, <3>2 DEF OfKind
      <4>2. Cardinality(OfKind(k, E) \ {e}) = Cardinality(OfKind(k, E)) - 1
        BY <3>1, <4>1, FS_RemoveElement
      <4>3. removed.count[k] = st.count[k] - 1
        BY <1>1, <1>5, <2>1, <3>2
      <4> QED BY <1>6, <4>1, <4>2, <4>3
    <3>3. CASE k # e[1]
      <4>1. OfKind(k, E \ {e}) = OfKind(k, E)
        BY <3>3 DEF OfKind
      <4>2. removed.count[k] = st.count[k]
        BY <1>1, <1>5, <3>3
      <4> QED BY <1>6, <4>1, <4>2
    <3> QED BY <3>2, <3>3
  <2> QED BY <1>3, <2>2 DEF Counted
<1>8. CASE e \notin E
  <2>1. Cardinality(F) = 0
    <3>1. Cardinality({}) = 0
      BY FS_EmptySet, Zenon
    <3> QED BY <1>2, <1>8, <3>1
  <2>2. E \ {e} = E
    BY <1>8
  <2>3. removed.count = st.count
    BY <1>1, <1>5, <2>1
  <2> QED BY <1>3, <1>6, <2>2, <2>3 DEF Counted
<1> QED BY <1>7, <1>8

(* Every byte it frees is a byte of a hole.                                *)
LEMMA RemovedBytes ==
    ASSUME NEW st, Filed(st), BytesAddUp(st), NEW e \in AllEntries
    PROVE  BytesAddUp(RemoveFromIndex(st, e))
<1> DEFINE removed == RemoveFromIndex(st, e)
           F == Freed(st, e)
<1>1. removed.arena = st.arena /\ removed.deadBytes = st.deadBytes + Bytes(F, st.arena)
  BY RemovedFields
<1>2. Reachable(removed) = Reachable(st) \ F /\ F \subseteq Reachable(st)
  BY RemovedPlaces
<1>3. st.arena \in Seq(Names) /\ Reachable(st) \subseteq DOMAIN st.arena
  BY PlacesInArena
<1>4. st.deadBytes \in Nat
  BY DEF Filed, StoreRecords
<1> HIDE DEF removed, F
<1> DEFINE kept == Reachable(st) \ F
<1>5. kept \in SUBSET DOMAIN st.arena /\ F \in SUBSET DOMAIN st.arena /\ kept \cap F = {}
      /\ kept \cup F = Reachable(st)
  BY <1>2, <1>3
<1> HIDE DEF kept
<1>6. Bytes(kept \cup F, st.arena) = Bytes(kept, st.arena) + Bytes(F, st.arena)
  BY <1>3, <1>5, BytesOfDisjoint
<1>7. Bytes(kept, st.arena) \in Nat
  BY <1>3, <1>5, BytesFinite
<1>8. Bytes(F, st.arena) \in Nat
  BY <1>3, <1>5, BytesFinite
<1>9. Reachable(removed) = kept
  BY <1>2 DEF kept
<1>10. st.deadBytes + Bytes(kept \cup F, st.arena) = Bytes(DOMAIN st.arena, st.arena)
  BY <1>5 DEF BytesAddUp, ArenaLen
<1>11. (st.deadBytes + Bytes(F, st.arena)) + Bytes(kept, st.arena) = Bytes(DOMAIN st.arena, st.arena)
  BY <1>4, <1>6, <1>7, <1>8, <1>10
<1>12. BytesAddUp(removed)
  BY <1>1, <1>9, <1>11 DEF BytesAddUp, ArenaLen
<1> QED BY <1>12 DEF removed

(* remove up to the rebuild                                                *)
LEMMA RemovedSound ==
    ASSUME NEW st, Sound(st), NEW e \in AllEntries
    PROVE  /\ Sound(RemoveFromIndex(st, e))
           /\ Entries(RemoveFromIndex(st, e)) = Entries(st) \ {e}
           /\ Freed(st, e) = {} => /\ TooManyHoles(RemoveFromIndex(st, e)) => TooManyHoles(st)
<1> DEFINE removed == RemoveFromIndex(st, e)
<1>1. Sound(removed) /\ Entries(removed) = Entries(st) \ {e}
  BY RemovedFiled, RemovedCounted, RemovedBytes DEF Sound
<1>2. ASSUME Freed(st, e) = {}, TooManyHoles(removed)
      PROVE  TooManyHoles(st)
  <2>1. removed.arena = st.arena /\ removed.deadBytes = st.deadBytes + Bytes({}, st.arena)
    BY <1>2, RemovedFields DEF Sound
  <2>2. Bytes({}, st.arena) = 0
    BY BytesOfNone
  <2>3. st.deadBytes \in Nat
    BY DEF Sound, Filed, StoreRecords
  <2> HIDE DEF removed
  <2> QED BY <1>2, <2>1, <2>2, <2>3 DEF TooManyHoles, ArenaLen
<1> QED BY <1>1, <1>2

-----------------------------------------------------------------------------
(* The specification                                                       *)

(* The empty store has no holes.                                           *)
LEMMA InitSound == Init => InductiveInvariant
<1> SUFFICES ASSUME Init
             PROVE  InductiveInvariant
  OBVIOUS
<1>1. Sound(store) /\ ~TooManyHoles(store)
  BY EmptySound DEF Init
<1>2. last \in {"none", "insert", "remove", "merge", "replace"} \X (SUBSET AllEntries) \X BOOLEAN
  BY DEF Init
<1> QED BY <1>1, <1>2 DEF InductiveInvariant

(* An imported list holds entries.                                         *)
LEMMA ImportsAreEntries == Imports \subseteq SUBSET AllEntries
BY DEF Imports, AllEntries

(* insert keeps the store sound and adds its entry.                        *)
LEMMA InsertStep ==
    ASSUME InductiveInvariant, NEW e \in AllEntries, Insert(e)
    PROVE  /\ InductiveInvariant'
           /\ Entries(store') = Entries(store) \cup {e}
<1>1. /\ Sound(store')
      /\ Entries(store') = Entries(store) \cup {e}
      /\ ~TooManyHoles(store')
  BY InsertIsSound DEF InductiveInvariant, Insert
<1>2. last' \in {"none", "insert", "remove", "merge", "replace"} \X (SUBSET AllEntries) \X BOOLEAN
  BY DEF Insert
<1> QED BY <1>1, <1>2 DEF InductiveInvariant

(* remove, with the rebuild if there is one, keeps the store sound and     *)
(* takes only its entry away.                                              *)
LEMMA RemoveStep ==
    ASSUME InductiveInvariant, NEW e \in AllEntries, Remove(e)
    PROVE  /\ InductiveInvariant'
           /\ Entries(store') = Entries(store) \ {e}
<1> DEFINE removed == RemoveFromIndex(store, e)
<1>1. /\ Sound(removed)
      /\ Entries(removed) = Entries(store) \ {e}
      /\ Freed(store, e) = {} => (TooManyHoles(removed) => TooManyHoles(store))
  BY RemovedSound DEF InductiveInvariant
<1>2. IF Freed(store, e) # {} /\ (IsEmpty(removed) \/ TooManyHoles(removed))
      THEN store' \in Compact(removed)
      ELSE store' = removed
  BY DEF Remove
<1>3. last' \in {"none", "insert", "remove", "merge", "replace"} \X (SUBSET AllEntries) \X BOOLEAN
  BY DEF Remove
<1>4. ~TooManyHoles(store)
  BY DEF InductiveInvariant
<1> HIDE DEF removed
<1>5. CASE store' \in Compact(removed)
  <2>1. PICK entries \in ExactFirst(Entries(removed)) : store' = InsertAll(EmptyStore, entries)
    BY <1>5 DEF Compact
  <2>2. Entries(removed) \in SUBSET AllEntries
    BY <1>1, EntriesAreContained DEF Sound
  <2>3. /\ Sound(store')
        /\ Entries(store') = Entries(removed)
        /\ ~TooManyHoles(store')
    BY <2>1, <2>2, BuiltIsSound
  <2> QED BY <1>1, <1>3, <2>3 DEF InductiveInvariant
<1>6. CASE store' = removed /\ ~TooManyHoles(removed)
  BY <1>1, <1>3, <1>6 DEF InductiveInvariant
<1> QED BY <1>1, <1>2, <1>4, <1>5, <1>6

(* merge keeps the store sound and adds all it is given.                   *)
LEMMA MergeStep ==
    ASSUME InductiveInvariant, NEW E \in SUBSET AllEntries, Merge(E)
    PROVE  /\ InductiveInvariant'
           /\ Entries(store') = Entries(store) \cup E
<1>1. PICK entries \in ExactFirst(Fresh(store, E)) : store' = InsertAll(store, entries)
  BY DEF Merge
<1>2. /\ Sound(store')
      /\ Entries(store') = Entries(store) \cup E
      /\ ~TooManyHoles(store')
  BY <1>1, MergeIsSound DEF InductiveInvariant
<1>3. last' \in {"none", "insert", "remove", "merge", "replace"} \X (SUBSET AllEntries) \X BOOLEAN
  BY DEF Merge
<1> QED BY <1>2, <1>3 DEF InductiveInvariant

(* replace_with leaves exactly what it is given.                           *)
LEMMA ReplaceStep ==
    ASSUME NEW E \in SUBSET AllEntries, ReplaceWith(E)
    PROVE  /\ InductiveInvariant'
           /\ Entries(store') = E
<1>1. PICK entries \in InAnyOrder(E) : store' = InsertAll(EmptyStore, entries)
  BY DEF ReplaceWith
<1>2. /\ Sound(store')
      /\ Entries(store') = E
      /\ ~TooManyHoles(store')
  BY <1>1, BuiltIsSound
<1>3. last' \in {"none", "insert", "remove", "merge", "replace"} \X (SUBSET AllEntries) \X BOOLEAN
  BY DEF ReplaceWith
<1> QED BY <1>2, <1>3 DEF InductiveInvariant

(* Every operation keeps the invariant.                                    *)
LEMMA StepSound == InductiveInvariant /\ [Next]_vars => InductiveInvariant'
<1> SUFFICES ASSUME InductiveInvariant, [Next]_vars
             PROVE  InductiveInvariant'
  OBVIOUS
<1>1. ASSUME NEW e \in AllEntries, Insert(e) \/ Remove(e)
      PROVE  InductiveInvariant'
  BY <1>1, InsertStep, RemoveStep
<1>2. ASSUME NEW E \in SUBSET AllEntries, Merge(E) \/ ReplaceWith(E)
      PROVE  InductiveInvariant'
  BY <1>2, MergeStep, ReplaceStep
<1>3. CASE UNCHANGED vars
  BY <1>3 DEF InductiveInvariant, vars
<1> QED BY <1>1, <1>2, <1>3, ImportsAreEntries DEF Next, AllEntries

(* Behind every property of the store: in every state each indexed place   *)
(* is filed under its hash, once, and the bytes of the arena are reachable *)
(* or counted as holes.                                                    *)
THEOREM StoreIsSound == Spec => []InductiveInvariant
<1>1. InductiveInvariant /\ [Next]_vars => InductiveInvariant'
  BY StepSound
<1> QED BY <1>1, InitSound, PTL DEF Spec

(* Every state of the store has its types: no count and no number of bytes *)
(* goes below zero, no index leads outside the arena.                      *)
THEOREM StoreTypes == Spec => []TypeOK
<1>1. InductiveInvariant => TypeOK
  BY DEF InductiveInvariant, Sound, Filed, StoreRecords, TypeOK, AllEntries
<1> QED BY <1>1, StoreIsSound, PTL

(* For any hash of the names, whatever names collide: a lookup through the *)
(* hash finds exactly what the store holds.                                *)
THEOREM LookupsAreTrue == Spec => []LookupIsMembership
<1>1. InductiveInvariant => LookupIsMembership
  <2> SUFFICES ASSUME InductiveInvariant, NEW n \in Names
               PROVE  Matches(store, n) <=> \/ <<"exact", n>> \in Entries(store)
                                            \/ \E p \in Parents[n] : <<"wild", p>> \in Entries(store)
    BY DEF LookupIsMembership
  <2>1. \A k \in Kinds, m \in Names : <<k, m>> \in Entries(store) <=> ContainsIn(store, k, m)
    BY EntriesAreContained DEF InductiveInvariant, Sound
  <2>2. Parents[n] \subseteq Names
    BY NamesAssumption
  <2> QED BY <2>1, <2>2 DEF Matches, Kinds
<1> QED BY <1>1, StoreIsSound, PTL

(* For any names and sizes: the counts are those of the entries, live      *)
(* bytes and holes make up the arena, and holes never pass a quarter of    *)
(* it between two operations.                                              *)
THEOREM CountersStayTrue == Spec => []CountersAreTrue
<1>1. InductiveInvariant => CountersAreTrue
  BY DEF InductiveInvariant, Sound, Counted, BytesAddUp, CountersAreTrue,
         Reachable, PlacesIn, Places
<1> QED BY <1>1, StoreIsSound, PTL

(* The packed store is a set of entries: the start and every operation,    *)
(* with its collisions, holes and rebuilds, is one of DomainSet.           *)
THEOREM StoreIsASet == Spec => IsASetOfEntries
<1>1. Init => Set!Init
  BY EmptySound DEF Init, Set!Init
<1>2. InductiveInvariant /\ [Next]_vars => [Set!Next]_<<Entries(store), last>>
  <2> SUFFICES ASSUME InductiveInvariant, [Next]_vars
               PROVE  [Set!Next]_<<Entries(store), last>>
    OBVIOUS
  <2>1. ASSUME NEW e \in AllEntries, Insert(e)
        PROVE  Set!Next
    <3>1. ContainsIn(store, e[1], e[2]) <=> e \in Entries(store)
      BY EntriesAreContained DEF InductiveInvariant, Sound
    <3>2. last' = <<"insert", {e}, e \notin Entries(store)>>
      BY <2>1, <3>1 DEF Insert
    <3> QED BY <2>1, <3>2, InsertStep DEF Set!Next, Set!Insert, Set!Kinds, Kinds, AllEntries
  <2>2. ASSUME NEW e \in AllEntries, Remove(e)
        PROVE  Set!Next
    <3>1. last' = <<"remove", {e}, FALSE>>
      BY <2>2 DEF Remove
    <3> QED BY <2>2, <3>1, RemoveStep DEF Set!Next, Set!Remove, Set!Kinds, Kinds, AllEntries
  <2>3. ASSUME NEW E \in SUBSET AllEntries, Merge(E)
        PROVE  Set!Next
    <3>1. last' = <<"merge", E, FALSE>>
      BY <2>3 DEF Merge
    <3> QED BY <2>3, <3>1, MergeStep DEF Set!Next, Set!Merge, Set!Kinds, Kinds, AllEntries
  <2>4. ASSUME NEW E \in SUBSET AllEntries, ReplaceWith(E)
        PROVE  Set!Next
    <3>1. last' = <<"replace", E, FALSE>>
      BY <2>4 DEF ReplaceWith
    <3> QED BY <2>4, <3>1, ReplaceStep DEF Set!Next, Set!Replace, Set!Kinds, Kinds, AllEntries
  <2>5. CASE UNCHANGED vars
    BY <2>5 DEF vars, Entries
  <2> QED BY <2>1, <2>2, <2>3, <2>4, <2>5, ImportsAreEntries DEF Next, AllEntries
<1> QED BY <1>1, <1>2, StoreIsSound, PTL DEF Spec, IsASetOfEntries, Set!Spec
=============================================================================
