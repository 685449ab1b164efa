------------------------ MODULE CatalogDatabaseProofs ------------------------
(***************************************************************************)
(* Proofs about CatalogDatabase, for any relations, names and ids.         *)
(*                                                                         *)
(* The inductive invariant says of a database that its vector and its map  *)
(* agree, of the proto where it keeps each relation of the vector, and of  *)
(* the constructor how far it is in the proto.                             *)
(***************************************************************************)
EXTENDS CatalogDatabase, SequenceTheorems, TLAPS

\* The vector, the map and the relations' own ids say the same.
Agree(db) ==
  /\ \A k \in 1 .. Len(db.rel_vec_) : db.rel_vec_[k] # NULL =>
       /\ db.id_[db.rel_vec_[k]] = k - 1
       /\ Lower(db.rel_vec_[k]) \in DOMAIN db.rel_map_
       /\ db.rel_map_[Lower(db.rel_vec_[k])] = db.rel_vec_[k]
  /\ \A n \in DOMAIN db.rel_map_ :
       /\ n = Lower(db.rel_map_[n])
       /\ db.id_[db.rel_map_[n]] + 1 \in 1 .. Len(db.rel_vec_)
       /\ db.rel_vec_[db.id_[db.rel_map_[n]] + 1] = db.rel_map_[n]

\* The first K relations of the vector are in the proto: one that comes after c NULLs
\* is c places before its place in the vector.
SavedUpTo(vec, p, K) ==
  /\ Len(p.null_relations) + Len(p.relations) = K
  /\ \A j \in 1 .. Len(p.null_relations) :
       p.null_relations[j] < K /\ vec[p.null_relations[j] + 1] = NULL
  /\ \A i, j \in 1 .. Len(p.null_relations) :
       i < j => p.null_relations[i] < p.null_relations[j]
  /\ \A k \in 1 .. K : vec[k] = NULL =>
       \E j \in 1 .. Len(p.null_relations) : p.null_relations[j] = k - 1
  /\ \A k \in 1 .. K, c \in 0 .. Len(p.null_relations) :
       /\ vec[k] # NULL
       /\ \A j \in 1 .. c : p.null_relations[j] < k - 1
       /\ \A j \in c + 1 .. Len(p.null_relations) : p.null_relations[j] > k - 1
       => k - c \in 1 .. Len(p.relations) /\ p.relations[k - c] = vec[k]

\* The constructor has passed nulls NULLs and rebuilt the vector up to index.
RestoredUpTo ==
  /\ Len(restored.rel_vec_) = index /\ index <= Len(database.rel_vec_)
  /\ \A k \in 1 .. index : restored.rel_vec_[k] = database.rel_vec_[k]
  /\ nulls <= Len(proto.null_relations)
  /\ \A j \in 1 .. nulls : proto.null_relations[j] < index
  /\ \A j \in nulls + 1 .. Len(proto.null_relations) : proto.null_relations[j] >= index

IInv ==
  /\ TypeOK
  /\ Agree(database)
  /\ \A r \in unowned, k \in 1 .. Len(database.rel_vec_) : database.rel_vec_[k] # r
  /\ phase # "failed"
  /\ phase = "saving" =>
       index <= Len(database.rel_vec_) /\ SavedUpTo(database.rel_vec_, proto, index)
  /\ phase = "restoring" =>
       /\ SavedUpTo(database.rel_vec_, proto, Len(database.rel_vec_))
       /\ Agree(restored) /\ RestoredUpTo

-----------------------------------------------------------------------------
LEMMA LowerType == \A r \in Relations : Lower(r) \in Names /\ ToLower[Lower(r)] = Lower(r)
  BY NamesAssumption DEF Lower

LEMMA EmptyOK == DatabaseOK(Empty) /\ Agree(Empty)
  <1>1. /\ Empty.rel_vec_ = <<>> /\ DOMAIN Empty.rel_map_ = {}
        /\ Empty.rel_map_ \in [{} -> Relations] /\ Empty.id_ = [r \in Relations |-> -1]
    BY DEF Empty
  <1>2. Empty.id_ \in [Relations -> -1 .. kCatalogMaxID]
    BY <1>1, MaxIDAssumption
  <1>3. DatabaseOK(Empty)
    BY <1>1, <1>2, MaxIDAssumption DEF DatabaseOK
  <1>4. Agree(Empty)
    BY <1>1 DEF Agree
  <1> QED
    BY <1>3, <1>4

\* What Add does to a database, when addRelation() does not throw.
LEMMA AddOK ==
  ASSUME NEW db, DatabaseOK(db), Agree(db), NEW r \in Relations, CanAdd(db, r),
         \A k \in 1 .. Len(db.rel_vec_) : db.rel_vec_[k] # r
  PROVE  DatabaseOK(Add(db, r)) /\ Agree(Add(db, r))
  <1> DEFINE new == Add(db, r)
             vec == db.rel_vec_
             map == db.rel_map_
  <1>1. /\ vec \in Seq(Relations \cup {NULL}) /\ Len(vec) \in Nat
        /\ Len(vec) <= kCatalogMaxID /\ Lower(r) \notin DOMAIN map
        /\ map \in [DOMAIN map -> Relations] /\ DOMAIN map \subseteq Names
        /\ db.id_ \in [Relations -> -1 .. kCatalogMaxID]
    BY LowerType DEF DatabaseOK, CanAdd, hasRelationWithNameUnsafe
  <1>2. /\ new.rel_vec_ = Append(vec, r)
        /\ new.rel_map_ = [n \in DOMAIN map \cup {Lower(r)} |-> IF n = Lower(r) THEN r ELSE map[n]]
        /\ new.id_ = [db.id_ EXCEPT ![r] = Len(vec)]
    BY DEF Add
  <1>3. /\ new.rel_vec_ \in Seq(Relations \cup {NULL}) /\ Len(new.rel_vec_) = Len(vec) + 1
        /\ \A k \in 1 .. Len(vec) : new.rel_vec_[k] = vec[k]
        /\ new.rel_vec_[Len(vec) + 1] = r
    BY <1>1, <1>2
  <1>4. /\ DOMAIN new.rel_map_ = DOMAIN map \cup {Lower(r)} /\ new.rel_map_[Lower(r)] = r
        /\ \A n \in DOMAIN map : new.rel_map_[n] = map[n]
        /\ new.rel_map_ \in [DOMAIN new.rel_map_ -> Relations]
    BY <1>1, <1>2
  <1>5. /\ new.id_ \in [Relations -> -1 .. kCatalogMaxID] /\ new.id_[r] = Len(vec)
        /\ \A q \in Relations : q # r => new.id_[q] = db.id_[q]
    BY <1>1, <1>2, MaxIDAssumption
  <1>6. DatabaseOK(new)
    BY <1>1, <1>3, <1>4, <1>5, LowerType, MaxIDAssumption DEF DatabaseOK
  <1>7. ASSUME NEW k \in 1 .. Len(new.rel_vec_), new.rel_vec_[k] # NULL
        PROVE  /\ new.id_[new.rel_vec_[k]] = k - 1
               /\ Lower(new.rel_vec_[k]) \in DOMAIN new.rel_map_
               /\ new.rel_map_[Lower(new.rel_vec_[k])] = new.rel_vec_[k]
    <2>1. CASE k = Len(vec) + 1
      BY <1>1, <1>3, <1>4, <1>5, <2>1
    <2>2. CASE k \in 1 .. Len(vec)
      <3>1. new.rel_vec_[k] = vec[k] /\ vec[k] # r /\ vec[k] \in Relations
        BY <1>1, <1>3, <1>7, <2>2
      <3>2. db.id_[vec[k]] = k - 1 /\ Lower(vec[k]) \in DOMAIN map /\ map[Lower(vec[k])] = vec[k]
        BY <1>7, <2>2, <3>1 DEF Agree
      <3> QED
        BY <1>4, <1>5, <3>1, <3>2
    <2> QED
      BY <1>1, <1>3, <2>1, <2>2
  <1>8. ASSUME NEW n \in DOMAIN new.rel_map_
        PROVE  /\ n = Lower(new.rel_map_[n])
               /\ new.id_[new.rel_map_[n]] + 1 \in 1 .. Len(new.rel_vec_)
               /\ new.rel_vec_[new.id_[new.rel_map_[n]] + 1] = new.rel_map_[n]
    <2>1. CASE n = Lower(r)
      BY <1>1, <1>3, <1>4, <1>5, <2>1
    <2>2. CASE n \in DOMAIN map
      <3>1. new.rel_map_[n] = map[n] /\ map[n] \in Relations
        BY <1>1, <1>4, <2>2
      <3>2. /\ n = Lower(map[n]) /\ db.id_[map[n]] + 1 \in 1 .. Len(vec)
            /\ vec[db.id_[map[n]] + 1] = map[n]
        BY <2>2 DEF Agree
      <3>3. map[n] # r
        BY <3>2
      <3>4. new.id_[map[n]] = db.id_[map[n]]
        BY <1>5, <3>1, <3>3
      <3>5. \A i \in 1 .. Len(vec) :
              i \in 1 .. Len(new.rel_vec_) /\ new.rel_vec_[i] = vec[i]
        BY <1>1, <1>3
      <3>6. new.rel_vec_[db.id_[map[n]] + 1] = map[n]
        BY <3>2, <3>5
      <3> QED
        BY <3>1, <3>2, <3>4, <3>5, <3>6, Zenon
    <2> QED
      BY <1>4, <2>1, <2>2
  <1>9. Agree(new)
    BY <1>7, <1>8 DEF Agree
  <1> QED
    BY <1>6, <1>9

LEMMA AddNullOK ==
  ASSUME NEW db, DatabaseOK(db), Agree(db), Len(db.rel_vec_) <= kCatalogMaxID
  PROVE  DatabaseOK(AddNull(db)) /\ Agree(AddNull(db))
  <1> DEFINE new == AddNull(db)
             vec == db.rel_vec_
  <1>1. /\ vec \in Seq(Relations \cup {NULL}) /\ Len(vec) \in Nat
        /\ new.rel_vec_ = Append(vec, NULL) /\ new.rel_map_ = db.rel_map_ /\ new.id_ = db.id_
    BY DEF DatabaseOK, AddNull
  <1>2. /\ new.rel_vec_ \in Seq(Relations \cup {NULL}) /\ Len(new.rel_vec_) = Len(vec) + 1
        /\ \A k \in 1 .. Len(vec) : new.rel_vec_[k] = vec[k]
        /\ new.rel_vec_[Len(vec) + 1] = NULL
    BY <1>1
  <1>3. DatabaseOK(new)
    BY <1>1, <1>2, MaxIDAssumption DEF DatabaseOK
  <1>4. ASSUME NEW k \in 1 .. Len(new.rel_vec_), new.rel_vec_[k] # NULL
        PROVE  k \in 1 .. Len(vec) /\ new.rel_vec_[k] = vec[k]
    BY <1>1, <1>2, <1>4
  <1>5. ASSUME NEW n \in DOMAIN db.rel_map_
        PROVE  /\ n = Lower(db.rel_map_[n])
               /\ db.id_[db.rel_map_[n]] + 1 \in 1 .. Len(new.rel_vec_)
               /\ new.rel_vec_[db.id_[db.rel_map_[n]] + 1] = db.rel_map_[n]
    <2>1. /\ n = Lower(db.rel_map_[n])
          /\ db.id_[db.rel_map_[n]] + 1 \in 1 .. Len(vec)
          /\ vec[db.id_[db.rel_map_[n]] + 1] = db.rel_map_[n]
      BY DEF Agree
    <2> QED
      BY <1>1, <1>2, <2>1
  <1>6. Agree(new)
    BY <1>1, <1>4, <1>5 DEF Agree
  <1> QED
    BY <1>3, <1>6

\* Dropping the relation r, which is in the database.
LEMMA DropOK ==
  ASSUME NEW db, DatabaseOK(db), Agree(db), NEW n \in DOMAIN db.rel_map_, NEW id,
         id = db.id_[db.rel_map_[n]]
  PROVE  /\ DatabaseOK(Drop(db, id, n)) /\ Agree(Drop(db, id, n))
         /\ Len(Drop(db, id, n).rel_vec_) = Len(db.rel_vec_)
         /\ \A k \in 1 .. Len(db.rel_vec_) :
              Drop(db, id, n).rel_vec_[k] \in {NULL, db.rel_vec_[k]}
  <1> DEFINE new == Drop(db, id, n)
             vec == db.rel_vec_
             map == db.rel_map_
  <1>1. /\ vec \in Seq(Relations \cup {NULL}) /\ Len(vec) \in Nat
        /\ map \in [DOMAIN map -> Relations] /\ DOMAIN map \subseteq Names
        /\ db.id_ \in [Relations -> -1 .. kCatalogMaxID]
    BY DEF DatabaseOK
  <1>2. /\ new.rel_vec_ = [vec EXCEPT ![id + 1] = NULL]
        /\ new.rel_map_ = [m \in DOMAIN map \ {n} |-> map[m]] /\ new.id_ = db.id_
    BY DEF Drop
  <1>3. /\ n = Lower(map[n]) /\ id + 1 \in 1 .. Len(vec) /\ vec[id + 1] = map[n]
        /\ map[n] \in Relations
    BY <1>1 DEF Agree
  <1>4. /\ new.rel_vec_ \in Seq(Relations \cup {NULL}) /\ Len(new.rel_vec_) = Len(vec)
        /\ new.rel_vec_[id + 1] = NULL
        /\ \A k \in 1 .. Len(vec) : k # id + 1 => new.rel_vec_[k] = vec[k]
    BY <1>1, <1>2, <1>3
  <1>5. /\ DOMAIN new.rel_map_ = DOMAIN map \ {n}
        /\ new.rel_map_ \in [DOMAIN new.rel_map_ -> Relations]
        /\ \A m \in DOMAIN new.rel_map_ : new.rel_map_[m] = map[m]
    BY <1>1, <1>2
  <1>6. DatabaseOK(new)
    BY <1>1, <1>2, <1>4, <1>5 DEF DatabaseOK
  <1>7. ASSUME NEW k \in 1 .. Len(vec), new.rel_vec_[k] # NULL
        PROVE  /\ new.id_[new.rel_vec_[k]] = k - 1
               /\ Lower(new.rel_vec_[k]) \in DOMAIN new.rel_map_
               /\ new.rel_map_[Lower(new.rel_vec_[k])] = new.rel_vec_[k]
    <2>1. k # id + 1 /\ new.rel_vec_[k] = vec[k]
      BY <1>4, <1>7
    <2>2. db.id_[vec[k]] = k - 1 /\ Lower(vec[k]) \in DOMAIN map /\ map[Lower(vec[k])] = vec[k]
      BY <1>7, <2>1 DEF Agree
    <2>3. Lower(vec[k]) # n
      <3> SUFFICES ASSUME Lower(vec[k]) = n PROVE FALSE
        OBVIOUS
      <3>1. vec[k] = map[n]
        BY <2>2
      <3>2. id = k - 1
        BY <2>2, <3>1
      <3>3. id \in -1 .. kCatalogMaxID
        BY <1>1, <1>3
      <3> QED
        BY <2>1, <3>2, <3>3
    <2> QED
      BY <1>2, <1>5, <2>1, <2>2, <2>3
  <1>8. ASSUME NEW m \in DOMAIN new.rel_map_
        PROVE  /\ m = Lower(new.rel_map_[m])
               /\ new.id_[new.rel_map_[m]] + 1 \in 1 .. Len(vec)
               /\ new.rel_vec_[new.id_[new.rel_map_[m]] + 1] = new.rel_map_[m]
    <2>1. m \in DOMAIN map /\ m # n /\ new.rel_map_[m] = map[m]
      BY <1>5
    <2>2. /\ m = Lower(map[m]) /\ db.id_[map[m]] + 1 \in 1 .. Len(vec)
          /\ vec[db.id_[map[m]] + 1] = map[m]
      BY <2>1 DEF Agree
    <2>3. map[m] # map[n]
      BY <1>3, <2>1, <2>2
    <2>4. db.id_[map[m]] + 1 # id + 1
      BY <1>3, <2>2, <2>3
    <2> QED
      BY <1>2, <1>4, <2>1, <2>2, <2>4
  <1>9. Agree(new)
    BY <1>4, <1>7, <1>8 DEF Agree
  <1> QED
    BY <1>4, <1>6, <1>9

-----------------------------------------------------------------------------
\* An iteration of getProto() at a NULL, and at a relation.
LEMMA SaveNullOK ==
  ASSUME NEW vec \in Seq(Relations \cup {NULL}), NEW K \in Nat, K < Len(vec),
         NEW p, p.null_relations \in Seq(Nat), p.relations \in Seq(Relations),
         SavedUpTo(vec, p, K), vec[K + 1] = NULL,
         NEW q, q.null_relations = Append(p.null_relations, K), q.relations = p.relations
  PROVE  SavedUpTo(vec, q, K + 1)
  <1> DEFINE old == p.null_relations
             new == q.null_relations
             rel == p.relations
  <1>1. /\ Len(old) \in Nat /\ Len(rel) \in Nat /\ Len(new) = Len(old) + 1 /\ q.relations = rel
        /\ \A j \in 1 .. Len(old) : new[j] = old[j] /\ old[j] \in Nat
        /\ new[Len(old) + 1] = K
    <2>1. PICK s \in Seq(Nat), r \in Seq(Relations) : s = old /\ r = rel
      OBVIOUS
    <2>2. Len(r) \in Nat /\ new = Append(s, K) /\ q.relations = r
      BY <2>1
    <2>3. /\ Len(s) \in Nat /\ Len(Append(s, K)) = Len(s) + 1
          /\ \A j \in 1 .. Len(s) : Append(s, K)[j] = s[j] /\ s[j] \in Nat
          /\ Append(s, K)[Len(s) + 1] = K
      BY AppendProperties
    <2> QED
      BY <2>1, <2>2, <2>3
  <1> HIDE DEF old, new, rel
  <1>2. /\ Len(old) + Len(rel) = K
        /\ \A j \in 1 .. Len(old) : old[j] < K /\ vec[old[j] + 1] = NULL
        /\ \A i, j \in 1 .. Len(old) : i < j => old[i] < old[j]
        /\ \A k \in 1 .. K : vec[k] = NULL => \E j \in 1 .. Len(old) : old[j] = k - 1
    BY DEF SavedUpTo, old, rel
  <1>3. ASSUME NEW k \in 1 .. K, NEW c \in 0 .. Len(old), vec[k] # NULL,
               \A j \in 1 .. c : old[j] < k - 1,
               \A j \in c + 1 .. Len(old) : old[j] > k - 1
        PROVE  k - c \in 1 .. Len(rel) /\ rel[k - c] = vec[k]
    BY <1>3 DEF SavedUpTo, old, rel
  <1>4. Len(new) + Len(rel) = K + 1
    <2>1. Len(old) \in Nat /\ Len(rel) \in Nat /\ Len(new) = Len(old) + 1
      BY <1>1
    <2>2. Len(old) + Len(rel) = K
      BY <1>2
    <2> QED
      BY <2>1, <2>2
  <1>j. ASSUME NEW j \in 1 .. Len(new)
        PROVE  \/ j \in 1 .. Len(old) /\ new[j] = old[j]
               \/ j = Len(old) + 1 /\ new[j] = K
    BY <1>1
  <1>5. ASSUME NEW j \in 1 .. Len(new) PROVE new[j] < K + 1 /\ vec[new[j] + 1] = NULL
    <2>1. CASE j \in 1 .. Len(old) /\ new[j] = old[j]
      BY <1>1, <1>2, <2>1
    <2>2. CASE j = Len(old) + 1 /\ new[j] = K
      BY <2>2
    <2> QED
      BY <1>j, <2>1, <2>2
  <1>6. ASSUME NEW i \in 1 .. Len(new), NEW j \in 1 .. Len(new), i < j
        PROVE  new[i] < new[j]
    <2>1. i \in 1 .. Len(old) /\ new[i] = old[i]
      BY <1>1, <1>6
    <2>2. CASE j \in 1 .. Len(old) /\ new[j] = old[j]
      BY <1>2, <1>6, <2>1, <2>2
    <2>3. CASE j = Len(old) + 1 /\ new[j] = K
      BY <1>2, <2>1, <2>3
    <2> QED
      BY <1>j, <2>2, <2>3
  <1>7. ASSUME NEW k \in 1 .. K + 1, vec[k] = NULL
        PROVE  \E j \in 1 .. Len(new) : new[j] = k - 1
    <2>1. CASE k = K + 1
      BY <1>1, <2>1
    <2>2. CASE k \in 1 .. K
      <3>1. PICK j \in 1 .. Len(old) : old[j] = k - 1
        BY <1>2, <1>7, <2>2
      <3> QED
        BY <1>1, <3>1
    <2> QED
      BY <2>1, <2>2
  <1>8. ASSUME NEW k \in 1 .. K + 1, NEW c \in 0 .. Len(new), vec[k] # NULL,
               \A j \in 1 .. c : new[j] < k - 1,
               \A j \in c + 1 .. Len(new) : new[j] > k - 1
        PROVE  k - c \in 1 .. Len(rel) /\ rel[k - c] = vec[k]
    <2>1. k \in 1 .. K
      BY <1>8
    <2>2. c # Len(old) + 1
      BY <1>1, <1>8, <2>1
    <2>3. c \in 0 .. Len(old)
      BY <1>1, <2>2
    <2>4. ASSUME NEW j \in 1 .. c PROVE old[j] < k - 1
      <3>1. j \in 1 .. Len(old)
        BY <1>1, <2>3
      <3> QED
        BY <1>1, <1>8, <3>1
    <2>5. ASSUME NEW j \in c + 1 .. Len(old) PROVE old[j] > k - 1
      <3>1. j \in 1 .. Len(old) /\ j \in c + 1 .. Len(new)
        BY <1>1, <2>3
      <3> QED
        BY <1>1, <1>8, <3>1
    <2> QED
      BY <1>3, <1>8, <2>1, <2>3, <2>4, <2>5
  <1> QED
    BY <1>1, <1>4, <1>5, <1>6, <1>7, <1>8 DEF SavedUpTo, new

LEMMA SaveRelationOK ==
  ASSUME NEW vec \in Seq(Relations \cup {NULL}), NEW K \in Nat, K < Len(vec),
         NEW p, p.null_relations \in Seq(Nat), p.relations \in Seq(Relations),
         SavedUpTo(vec, p, K), vec[K + 1] # NULL,
         NEW q, q.relations = Append(p.relations, vec[K + 1]),
         q.null_relations = p.null_relations
  PROVE  SavedUpTo(vec, q, K + 1)
  <1> DEFINE null == p.null_relations
             old == p.relations
             new == q.relations
  <1>1. /\ Len(null) \in Nat /\ Len(old) \in Nat /\ Len(new) = Len(old) + 1
        /\ \A j \in 1 .. Len(null) : null[j] \in Nat
        /\ \A j \in 1 .. Len(old) : new[j] = old[j]
        /\ new[Len(old) + 1] = vec[K + 1]
    <2>1. PICK s \in Seq(Nat), r \in Seq(Relations), v \in Relations :
            s = null /\ r = old /\ v = vec[K + 1]
      OBVIOUS
    <2>2. new = Append(r, v)
      BY <2>1
    <2>3. Len(s) \in Nat /\ \A j \in 1 .. Len(s) : s[j] \in Nat
      BY <2>1
    <2>4. /\ Len(r) \in Nat /\ Len(Append(r, v)) = Len(r) + 1
          /\ \A j \in 1 .. Len(r) : Append(r, v)[j] = r[j]
          /\ Append(r, v)[Len(r) + 1] = v
      BY AppendProperties
    <2> QED
      BY <2>1, <2>2, <2>3, <2>4
  <1> HIDE DEF null, old, new
  <1>2. /\ Len(null) + Len(old) = K
        /\ \A j \in 1 .. Len(null) : null[j] < K /\ vec[null[j] + 1] = NULL
        /\ \A i, j \in 1 .. Len(null) : i < j => null[i] < null[j]
        /\ \A k \in 1 .. K : vec[k] = NULL => \E j \in 1 .. Len(null) : null[j] = k - 1
    BY DEF SavedUpTo, null, old
  <1>3. ASSUME NEW k \in 1 .. K, NEW c \in 0 .. Len(null), vec[k] # NULL,
               \A j \in 1 .. c : null[j] < k - 1,
               \A j \in c + 1 .. Len(null) : null[j] > k - 1
        PROVE  k - c \in 1 .. Len(old) /\ old[k - c] = vec[k]
    <2>1. \A i \in 1 .. K, d \in 0 .. Len(null) :
            /\ vec[i] # NULL
            /\ \A j \in 1 .. d : null[j] < i - 1
            /\ \A j \in d + 1 .. Len(null) : null[j] > i - 1
            => i - d \in 1 .. Len(old) /\ old[i - d] = vec[i]
      BY DEF SavedUpTo, null, old
    <2> QED
      BY <1>3, <2>1
  <1>4. Len(null) + Len(new) = K + 1
    BY <1>1, <1>2
  <1>5. ASSUME NEW j \in 1 .. Len(null) PROVE null[j] < K + 1 /\ vec[null[j] + 1] = NULL
    BY <1>1, <1>2
  <1>6. ASSUME NEW k \in 1 .. K + 1, vec[k] = NULL
        PROVE  \E j \in 1 .. Len(null) : null[j] = k - 1
    <2>1. k \in 1 .. K
      BY <1>6
    <2> QED
      BY <1>2, <1>6, <2>1
  <1>7. ASSUME NEW k \in 1 .. K + 1, NEW c \in 0 .. Len(null), vec[k] # NULL,
               \A j \in 1 .. c : null[j] < k - 1,
               \A j \in c + 1 .. Len(null) : null[j] > k - 1
        PROVE  k - c \in 1 .. Len(new) /\ new[k - c] = vec[k]
    <2>l. /\ Len(null) \in Nat /\ Len(old) \in Nat /\ Len(new) = Len(old) + 1
          /\ Len(null) + Len(old) = K
      BY <1>1, <1>2
    <2>1. CASE k \in 1 .. K
      <3>1. k - c \in 1 .. Len(old) /\ old[k - c] = vec[k]
        BY <1>3, <1>7, <2>1
      <3>2. k - c \in 1 .. Len(new)
        BY <2>l, <3>1
      <3>3. new[k - c] = old[k - c]
        BY <1>1, <3>1
      <3> QED
        BY <3>1, <3>2, <3>3
    <2>2. CASE k = K + 1
      <3>1. c = Len(null)
        <4>1. ASSUME c # Len(null) PROVE FALSE
          <5>1. Len(null) \in c + 1 .. Len(null) /\ Len(null) \in 1 .. Len(null)
            BY <2>l, <4>1
          <5>2. null[Len(null)] > k - 1 /\ null[Len(null)] < K /\ null[Len(null)] \in Nat
            BY <1>1, <1>2, <1>7, <5>1
          <5> QED
            BY <2>2, <5>2
        <4> QED
          BY <4>1
      <3>2. k - c = Len(old) + 1
        BY <2>l, <2>2, <3>1
      <3>3. Len(old) + 1 \in 1 .. Len(new)
        BY <2>l
      <3> QED
        BY <1>1, <2>2, <3>2, <3>3
    <2> QED
      BY <2>1, <2>2
  <1> QED
    BY <1>2, <1>4, <1>5, <1>6, <1>7 DEF SavedUpTo, null, new

-----------------------------------------------------------------------------
LEMMA InitIInv == Init => IInv
  <1> SUFFICES ASSUME Init PROVE IInv
    OBVIOUS
  <1>1. /\ database = Empty /\ restored = Empty /\ unowned = Relations /\ phase = "open"
        /\ proto = NoProto /\ index = 0 /\ nulls = 0
    BY DEF Init
  <1>2. NoProto \in [relations : Seq(Relations), null_relations : Seq(Nat)]
    BY DEF NoProto
  <1>3. TypeOK
    BY <1>1, <1>2, EmptyOK DEF TypeOK
  <1>4. \A k \in 1 .. Len(database.rel_vec_) : FALSE
    BY <1>1 DEF Empty
  <1> QED
    BY <1>1, <1>3, <1>4, EmptyOK DEF IInv

\* With everything but the database as it was, and no loop running.
LEMMA OpenOK ==
  ASSUME IInv, phase' = "open", DatabaseOK(database'), Agree(database'),
         unowned' \subseteq unowned,
         \A r \in unowned', k \in 1 .. Len(database'.rel_vec_) : database'.rel_vec_[k] # r,
         UNCHANGED <<proto, index, nulls, restored>>
  PROVE  IInv'
  <1>1. TypeOK'
    BY DEF IInv, TypeOK, DatabaseOK
  <1>2. Agree(database)'
    BY DEF Agree
  <1> QED
    BY <1>1, <1>2 DEF IInv

LEMMA AddRelationOK == ASSUME IInv, NEW r \in Relations, addRelation(r) PROVE IInv'
  <1>1. /\ phase' = "open" /\ r \in unowned /\ CanAdd(database, r) /\ database' = Add(database, r)
        /\ unowned' = unowned \ {r} /\ UNCHANGED <<proto, index, nulls, restored>>
    BY DEF addRelation
  <1>2. /\ DatabaseOK(database) /\ Agree(database) /\ unowned \subseteq Relations
        /\ \A q \in unowned, k \in 1 .. Len(database.rel_vec_) : database.rel_vec_[k] # q
    BY DEF IInv, TypeOK
  <1>3. DatabaseOK(database') /\ Agree(database')
    BY <1>1, <1>2, AddOK
  <1>4. /\ database'.rel_vec_ = Append(database.rel_vec_, r)
        /\ database.rel_vec_ \in Seq(Relations \cup {NULL})
    BY <1>1, <1>2 DEF Add, DatabaseOK
  <1>5. ASSUME NEW q \in unowned', NEW k \in 1 .. Len(database'.rel_vec_)
        PROVE  database'.rel_vec_[k] # q
    <2>1. q \in unowned /\ q # r
      BY <1>1
    <2>2. \/ database'.rel_vec_[k] = r
          \/ k \in 1 .. Len(database.rel_vec_) /\ database'.rel_vec_[k] = database.rel_vec_[k]
      BY <1>4
    <2> QED
      BY <1>2, <2>1, <2>2
  <1> QED
    BY <1>1, <1>3, <1>5, OpenOK

LEMMA DropRelationOK ==
  ASSUME IInv, NEW n \in DOMAIN database.rel_map_, NEW id,
         id = database.id_[database.rel_map_[n]], phase = "open",
         database' = Drop(database, id, n),
         UNCHANGED <<unowned, phase, proto, index, nulls, restored>>
  PROVE  IInv'
  <1>1. /\ DatabaseOK(database) /\ Agree(database) /\ unowned \subseteq Relations
        /\ \A q \in unowned, k \in 1 .. Len(database.rel_vec_) : database.rel_vec_[k] # q
    BY DEF IInv, TypeOK
  <1>2. /\ DatabaseOK(database') /\ Agree(database')
        /\ Len(database'.rel_vec_) = Len(database.rel_vec_)
        /\ \A k \in 1 .. Len(database.rel_vec_) :
             database'.rel_vec_[k] \in {NULL, database.rel_vec_[k]}
    BY <1>1, DropOK
  <1>3. \A q \in unowned', k \in 1 .. Len(database'.rel_vec_) : database'.rel_vec_[k] # q
    BY <1>1, <1>2, NullAssumption
  <1> QED
    BY <1>2, <1>3, OpenOK

LEMMA SaveOneOK == ASSUME IInv, SaveOne PROVE IInv'
  <1>1. /\ phase = "saving" /\ phase' = "saving" /\ index < Len(database.rel_vec_)
        /\ index' = index + 1 /\ UNCHANGED <<database, unowned, nulls, restored>>
    BY DEF SaveOne
  <1>2. /\ database.rel_vec_ \in Seq(Relations \cup {NULL}) /\ index \in Nat
        /\ Len(database.rel_vec_) \in Nat
        /\ proto \in [relations : Seq(Relations), null_relations : Seq(Nat)]
        /\ SavedUpTo(database.rel_vec_, proto, index)
    BY <1>1 DEF IInv, TypeOK, DatabaseOK
  <1>3. proto' \in [relations : Seq(Relations), null_relations : Seq(Nat)]
        /\ SavedUpTo(database.rel_vec_, proto', index + 1)
    <2>1. CASE database.rel_vec_[index + 1] = NULL
      <3>1. proto' = [proto EXCEPT !.null_relations = Append(@, index)]
        BY <2>1 DEF SaveOne
      <3>a. proto.relations \in Seq(Relations) /\ proto.null_relations \in Seq(Nat)
        BY <1>2
      <3>b. Append(proto.null_relations, index) \in Seq(Nat)
        BY <1>2, <3>a
      <3>2. /\ proto'.null_relations = Append(proto.null_relations, index)
            /\ proto'.relations = proto.relations
            /\ proto' \in [relations : Seq(Relations), null_relations : Seq(Nat)]
        BY <1>2, <3>1, <3>b, Zenon
      <3> QED
        BY <1>1, <1>2, <2>1, <3>a, <3>2, SaveNullOK
    <2>2. CASE database.rel_vec_[index + 1] # NULL
      <3>1. proto' = [proto EXCEPT !.relations = Append(@, database.rel_vec_[index + 1])]
        BY <2>2 DEF SaveOne
      <3>2. index + 1 \in 1 .. Len(database.rel_vec_)
        BY <1>1, <1>2
      <3>3. database.rel_vec_[index + 1] \in Relations
        BY <1>2, <2>2, <3>2
      <3>a. proto.relations \in Seq(Relations) /\ proto.null_relations \in Seq(Nat)
        BY <1>2
      <3>b. Append(proto.relations, database.rel_vec_[index + 1]) \in Seq(Relations)
        BY <3>3, <3>a
      <3>4. /\ proto'.relations = Append(proto.relations, database.rel_vec_[index + 1])
            /\ proto'.null_relations = proto.null_relations
            /\ proto' \in [relations : Seq(Relations), null_relations : Seq(Nat)]
        BY <1>2, <3>1, <3>b, Zenon
      <3> QED
        BY <1>1, <1>2, <2>2, <3>a, <3>4, SaveRelationOK
    <2> QED
      BY <2>1, <2>2
  <1>4. TypeOK'
    BY <1>1, <1>2, <1>3 DEF IInv, TypeOK, DatabaseOK
  <1>5. Agree(database)' /\ index' <= Len(database.rel_vec_)
    BY <1>1, <1>2 DEF IInv, Agree
  <1>6. SavedUpTo(database.rel_vec_, proto, index)'
    BY <1>1, <1>3 DEF SavedUpTo
  <1> QED
    BY <1>1, <1>4, <1>5, <1>6 DEF IInv

\* Where the constructor is in the proto tells it whether the next place is a NULL, and
\* which relation is next if it is not.
LEMMA NextPlace ==
  ASSUME IInv, phase = "restoring", index < Len(database.rel_vec_)
  PROVE  /\ IsNull <=> database.rel_vec_[index + 1] = NULL
         /\ ~IsNull => proto.relations[index - nulls + 1] = database.rel_vec_[index + 1]
  <1> DEFINE null == proto.null_relations
             vec == database.rel_vec_
  <1>1. /\ null \in Seq(Nat) /\ Len(null) \in Nat /\ index \in Nat /\ nulls \in Nat
        /\ vec \in Seq(Relations \cup {NULL}) /\ Len(vec) \in Nat
        /\ \A j \in 1 .. Len(null) : null[j] \in Nat
    BY DEF IInv, TypeOK, DatabaseOK
  <1>2. /\ nulls <= Len(null)
        /\ \A j \in 1 .. nulls : null[j] < index
        /\ \A j \in nulls + 1 .. Len(null) : null[j] >= index
    BY DEF IInv, RestoredUpTo
  <1>3. /\ \A j \in 1 .. Len(null) : vec[null[j] + 1] = NULL
        /\ \A i, j \in 1 .. Len(null) : i < j => null[i] < null[j]
        /\ \A k \in 1 .. Len(vec) : vec[k] = NULL => \E j \in 1 .. Len(null) : null[j] = k - 1
    BY DEF IInv, SavedUpTo
  <1>4. ASSUME NEW k \in 1 .. Len(vec), NEW c \in 0 .. Len(null), vec[k] # NULL,
               \A j \in 1 .. c : null[j] < k - 1,
               \A j \in c + 1 .. Len(null) : null[j] > k - 1
        PROVE  proto.relations[k - c] = vec[k]
    BY <1>4 DEF IInv, SavedUpTo
  <1>5. IsNull <=> nulls < Len(null) /\ null[nulls + 1] = index
    BY DEF IsNull
  <1> HIDE DEF null, vec
  <1>6. index + 1 \in 1 .. Len(vec)
    BY <1>1 DEF vec
  <1>7. ASSUME IsNull PROVE vec[index + 1] = NULL
    <2>1. nulls + 1 \in 1 .. Len(null) /\ null[nulls + 1] = index
      BY <1>1, <1>5, <1>7
    <2> QED
      BY <1>3, <2>1
  <1>8. ASSUME vec[index + 1] = NULL PROVE IsNull
    <2>1. PICK j \in 1 .. Len(null) : null[j] = (index + 1) - 1
      BY <1>3, <1>6, <1>8
    <2>2. null[j] = index
      BY <1>1, <2>1
    <2>3. j \notin 1 .. nulls
      BY <1>1, <1>2, <2>2
    <2>4. nulls < Len(null) /\ nulls + 1 \in nulls + 1 .. Len(null) /\ nulls + 1 \in 1 .. Len(null)
      BY <1>1, <2>3
    <2>5. null[nulls + 1] >= index /\ null[nulls + 1] \in Nat
      BY <1>1, <1>2, <2>4
    <2>6. CASE j = nulls + 1
      BY <1>5, <2>2, <2>4, <2>6
    <2>7. CASE nulls + 1 < j
      BY <1>1, <1>3, <2>2, <2>4, <2>5, <2>7
    <2> QED
      BY <1>1, <2>3, <2>6, <2>7
  <1>9. ASSUME ~IsNull PROVE proto.relations[index - nulls + 1] = vec[index + 1]
    <2>1. vec[index + 1] # NULL
      BY <1>8, <1>9
    <2>2. nulls \in 0 .. Len(null)
      BY <1>1, <1>2
    <2>3. ASSUME NEW j \in 1 .. nulls PROVE null[j] < (index + 1) - 1
      BY <1>1, <1>2
    <2>4. ASSUME NEW j \in nulls + 1 .. Len(null) PROVE null[j] > (index + 1) - 1
      <3>1. j \in 1 .. Len(null)
        BY <1>1
      <3>2. null[j] >= index /\ null[j] \in Nat
        BY <1>1, <1>2, <3>1
      <3>3. null[j] # index
        BY <1>3, <2>1, <3>1
      <3> QED
        BY <1>1, <3>2, <3>3
    <2>5. proto.relations[(index + 1) - nulls] = vec[index + 1]
      BY <1>4, <1>6, <2>1, <2>2, <2>3, <2>4
    <2>6. (index + 1) - nulls = index - nulls + 1
      BY <1>1
    <2> QED
      BY <2>5, <2>6
  <1> QED
    BY <1>7, <1>8, <1>9 DEF vec

\* The next relation can be added: neither it nor another of its name is in yet.
LEMMA CanAddNext ==
  ASSUME IInv, phase = "restoring", index < Len(database.rel_vec_),
         NEW r, r = database.rel_vec_[index + 1], r # NULL
  PROVE  /\ r \in Relations /\ CanAdd(restored, r)
         /\ \A k \in 1 .. Len(restored.rel_vec_) : restored.rel_vec_[k] # r
  <1> DEFINE vec == database.rel_vec_
             new == restored.rel_vec_
             map == restored.rel_map_
  <1>1. /\ vec \in Seq(Relations \cup {NULL}) /\ Len(vec) \in Nat /\ index \in Nat
        /\ Len(vec) <= kCatalogMaxID + 1 /\ map \in [DOMAIN map -> Relations]
    BY DEF IInv, TypeOK, DatabaseOK
  <1>2. Len(new) = index /\ \A k \in 1 .. index : new[k] = vec[k]
    BY DEF IInv, RestoredUpTo
  <1>3. index + 1 \in 1 .. Len(vec) /\ r \in Relations
    BY <1>1
  <1>4. database.id_[r] = (index + 1) - 1 /\ database.rel_map_[Lower(r)] = r
    BY <1>3 DEF IInv, Agree
  <1>5. ASSUME NEW k \in 1 .. Len(new) PROVE new[k] # r
    <2> SUFFICES ASSUME new[k] = r PROVE FALSE
      OBVIOUS
    <2>1. k \in 1 .. Len(vec) /\ k <= index /\ vec[k] = r
      BY <1>1, <1>2
    <2>2. database.id_[r] = k - 1
      BY <2>1 DEF IInv, Agree
    <2> QED
      BY <1>1, <1>4, <2>1, <2>2
  <1>6. Lower(r) \notin DOMAIN map
    <2> SUFFICES ASSUME Lower(r) \in DOMAIN map PROVE FALSE
      OBVIOUS
    <2> DEFINE q == map[Lower(r)]
               i == restored.id_[q] + 1
    <2>1. Lower(r) = Lower(q) /\ i \in 1 .. Len(new) /\ new[i] = q /\ q \in Relations
      BY <1>1 DEF IInv, Agree
    <2> HIDE DEF i, q, new, vec
    <2>2. i \in 1 .. Len(vec) /\ vec[i] = q /\ q # NULL
      <3>1. i \in 1 .. index /\ index <= Len(vec)
        BY <1>1, <1>2, <1>3, <2>1
      <3> QED
        BY <1>1, <1>2, <2>1, <3>1, NullAssumption
    <2>3. database.rel_map_[Lower(q)] = q
      BY <2>2 DEF IInv, Agree, vec
    <2>4. q = r
      BY <1>4, <2>1, <2>3
    <2> QED
      BY <1>5, <2>1, <2>4
  <1>7. CanAdd(restored, r)
    BY <1>1, <1>2, <1>3, <1>6, LowerType, MaxIDAssumption
       DEF CanAdd, hasRelationWithNameUnsafe
  <1> QED
    BY <1>3, <1>5, <1>7

LEMMA RestoreOneOK == ASSUME IInv, RestoreOne PROVE IInv'
  <1>1. /\ phase = "restoring" /\ index < Total /\ index' = index + 1
        /\ UNCHANGED <<database, unowned, proto>>
    BY DEF RestoreOne
  <1>2. /\ DatabaseOK(database) /\ DatabaseOK(restored) /\ unowned \subseteq Relations
        /\ proto \in [relations : Seq(Relations), null_relations : Seq(Nat)]
        /\ index \in Nat /\ nulls \in Nat
        /\ Agree(database) /\ Agree(restored) /\ RestoredUpTo
        /\ SavedUpTo(database.rel_vec_, proto, Len(database.rel_vec_))
    BY <1>1 DEF IInv, TypeOK
  <1>3. index < Len(database.rel_vec_)
    BY <1>1, <1>2 DEF Total, SavedUpTo
  <1>4. /\ Len(database.rel_vec_) \in Nat /\ Len(database.rel_vec_) <= kCatalogMaxID + 1
        /\ restored.rel_vec_ \in Seq(Relations \cup {NULL})
        /\ Len(restored.rel_vec_) = index
        /\ \A k \in 1 .. index : restored.rel_vec_[k] = database.rel_vec_[k]
        /\ Len(proto.null_relations) \in Nat /\ nulls <= Len(proto.null_relations)
        /\ \A j \in 1 .. Len(proto.null_relations) : proto.null_relations[j] \in Nat
        /\ \A j \in 1 .. nulls : proto.null_relations[j] < index
        /\ \A j \in nulls + 1 .. Len(proto.null_relations) : proto.null_relations[j] >= index
    BY <1>2 DEF DatabaseOK, RestoredUpTo
  <1>5. /\ phase' = "restoring" /\ DatabaseOK(restored') /\ Agree(restored') /\ nulls' \in Nat
        /\ restored'.rel_vec_ = Append(restored.rel_vec_, database.rel_vec_[index + 1])
        /\ nulls' = IF IsNull THEN nulls + 1 ELSE nulls
    <2>1. CASE IsNull
      <3>1. restored' = AddNull(restored) /\ nulls' = nulls + 1 /\ phase' = phase
        BY <2>1 DEF RestoreOne
      <3>2. database.rel_vec_[index + 1] = NULL
        BY <1>1, <1>3, <2>1, NextPlace
      <3>3. Len(restored.rel_vec_) <= kCatalogMaxID
        BY <1>2, <1>3, <1>4, MaxIDAssumption
      <3>4. restored'.rel_vec_ = Append(restored.rel_vec_, NULL)
        BY <3>1 DEF AddNull
      <3> QED
        BY <1>1, <1>2, <2>1, <3>1, <3>2, <3>3, <3>4, AddNullOK
    <2>2. CASE ~IsNull
      <3> DEFINE r == database.rel_vec_[index + 1]
      <3>1. proto.relations[index - nulls + 1] = r /\ r # NULL
        BY <1>1, <1>3, <2>2, NextPlace
      <3>2. /\ r \in Relations /\ CanAdd(restored, r)
            /\ \A k \in 1 .. Len(restored.rel_vec_) : restored.rel_vec_[k] # r
        BY <1>1, <1>3, <3>1, CanAddNext
      <3>3. restored' = Add(restored, r) /\ phase' = phase /\ nulls' = nulls
        BY <2>2, <3>1, <3>2 DEF RestoreOne
      <3>4. restored'.rel_vec_ = Append(restored.rel_vec_, r)
        BY <3>3 DEF Add
      <3>5. DatabaseOK(restored') /\ Agree(restored')
        BY <1>2, <3>2, <3>3, AddOK
      <3> QED
        BY <1>1, <1>2, <2>2, <3>3, <3>4, <3>5
    <2> QED
      BY <2>1, <2>2
  <1>6. RestoredUpTo'
    <2>0. index + 1 <= Len(database.rel_vec_)
      BY <1>2, <1>3, <1>4
    <2>1. /\ Len(restored'.rel_vec_) = index + 1
          /\ \A k \in 1 .. index + 1 : restored'.rel_vec_[k] = database.rel_vec_[k]
      <3>1. /\ Len(restored'.rel_vec_) = index + 1
            /\ restored'.rel_vec_[index + 1] = database.rel_vec_[index + 1]
            /\ \A k \in 1 .. index : restored'.rel_vec_[k] = restored.rel_vec_[k]
        <4>1. database.rel_vec_[index + 1] \in Relations \cup {NULL}
          BY <1>2, <1>3 DEF DatabaseOK
        <4>2. restored'.rel_vec_ = Append(restored.rel_vec_, database.rel_vec_[index + 1])
          BY <1>5
        <4> QED
          BY <1>2, <1>4, <4>1, <4>2
      <3>2. \A k \in 1 .. index + 1 : k \in 1 .. index \/ k = index + 1
        BY <1>2
      <3> QED
        BY <1>4, <3>1, <3>2
    <2>2. CASE IsNull
      <3>1. /\ nulls < Len(proto.null_relations) /\ proto.null_relations[nulls + 1] = index
            /\ nulls' = nulls + 1
        BY <1>5, <2>2 DEF IsNull
      <3>2. \A j \in 1 .. nulls + 1 : proto.null_relations[j] < index + 1
        <4> SUFFICES ASSUME NEW j \in 1 .. nulls + 1 PROVE proto.null_relations[j] < index + 1
          OBVIOUS
        <4>1. CASE j = nulls + 1
          BY <1>2, <3>1, <4>1
        <4>2. CASE j \in 1 .. nulls
          <5>1. j \in 1 .. Len(proto.null_relations)
            BY <1>2, <1>4, <4>2
          <5> QED
            BY <1>2, <1>4, <4>2, <5>1
        <4> QED
          BY <1>2, <4>1, <4>2
      <3>3. \A j \in nulls + 2 .. Len(proto.null_relations) : proto.null_relations[j] >= index + 1
        <4> SUFFICES ASSUME NEW j \in nulls + 2 .. Len(proto.null_relations)
                     PROVE  proto.null_relations[j] >= index + 1
          OBVIOUS
        <4>1. /\ j \in 1 .. Len(proto.null_relations) /\ nulls + 1 \in 1 .. Len(proto.null_relations)
              /\ nulls + 1 < j
          BY <1>2, <1>4
        <4>2. proto.null_relations[nulls + 1] < proto.null_relations[j]
          BY <1>2, <4>1 DEF SavedUpTo
        <4> QED
          BY <1>2, <1>4, <3>1, <4>1, <4>2
      <3>4. nulls' <= Len(proto.null_relations) /\ nulls' + 1 = nulls + 2
        BY <1>2, <1>4, <3>1
      <3>5. \A j \in nulls' + 1 .. Len(proto.null_relations) :
              proto.null_relations[j] >= index + 1
        BY <3>3, <3>4
      <3>6. \A j \in 1 .. nulls' : proto.null_relations[j] < index + 1
        BY <3>1, <3>2
      <3> QED
        BY <1>1, <2>0, <2>1, <3>4, <3>5, <3>6, Zenon DEF RestoredUpTo
    <2>3. CASE ~IsNull
      <3>1. nulls' = nulls
        BY <1>5, <2>3
      <3>2. \A j \in 1 .. nulls : proto.null_relations[j] < index + 1
        <4> SUFFICES ASSUME NEW j \in 1 .. nulls PROVE proto.null_relations[j] < index + 1
          OBVIOUS
        <4>1. j \in 1 .. Len(proto.null_relations)
          BY <1>2, <1>4
        <4> QED
          BY <1>2, <1>4, <4>1
      <3>3. \A j \in nulls + 1 .. Len(proto.null_relations) : proto.null_relations[j] >= index + 1
        <4> SUFFICES ASSUME NEW j \in nulls + 1 .. Len(proto.null_relations)
                     PROVE  proto.null_relations[j] >= index + 1
          OBVIOUS
        <4>1. j \in 1 .. Len(proto.null_relations)
          BY <1>2, <1>4
        <4>2. database.rel_vec_[proto.null_relations[j] + 1] = NULL
          BY <1>2, <4>1 DEF SavedUpTo
        <4>3. database.rel_vec_[index + 1] # NULL
          BY <1>1, <1>3, <2>3, NextPlace
        <4>4. proto.null_relations[j] # index
          BY <4>2, <4>3
        <4> QED
          BY <1>2, <1>4, <4>1, <4>4
      <3> QED
        BY <1>1, <1>4, <2>0, <2>1, <3>1, <3>2, <3>3 DEF RestoredUpTo
    <2> QED
      BY <2>2, <2>3
  <1>7. TypeOK'
    BY <1>1, <1>2, <1>5 DEF TypeOK, DatabaseOK
  <1>8. /\ \A r \in unowned', k \in 1 .. Len(database'.rel_vec_) : database'.rel_vec_[k] # r
        /\ Agree(database)' /\ SavedUpTo(database.rel_vec_, proto, Len(database.rel_vec_))'
    BY <1>1, <1>2 DEF IInv, Agree, SavedUpTo
  <1>9. Agree(restored)'
    BY <1>5 DEF Agree
  <1> QED
    BY <1>5, <1>6, <1>7, <1>8, <1>9 DEF IInv

LEMMA RestoreAllOK ==
  ASSUME IInv, RestoreAll
  PROVE  /\ IInv' /\ DatabaseOK(restored) /\ Agree(restored)
         /\ database' = restored /\ Len(restored.rel_vec_) = Len(database.rel_vec_)
         /\ \A k \in 1 .. Len(database.rel_vec_) : restored.rel_vec_[k] = database.rel_vec_[k]
  <1>1. /\ phase = "restoring" /\ index = Total /\ database' = restored /\ phase' = "open"
        /\ UNCHANGED <<unowned, proto, index, nulls, restored>>
    BY DEF RestoreAll
  <1>2. /\ DatabaseOK(restored) /\ Agree(restored) /\ RestoredUpTo
        /\ SavedUpTo(database.rel_vec_, proto, Len(database.rel_vec_))
        /\ \A r \in unowned, k \in 1 .. Len(database.rel_vec_) : database.rel_vec_[k] # r
        /\ proto \in [relations : Seq(Relations), null_relations : Seq(Nat)]
    BY <1>1 DEF IInv, TypeOK
  <1>3. index = Len(database.rel_vec_)
    <2>1. Len(proto.null_relations) + Len(proto.relations) = Len(database.rel_vec_)
      BY <1>2 DEF SavedUpTo
    <2> QED
      BY <1>1, <2>1 DEF Total
  <1>4. /\ Len(restored.rel_vec_) = Len(database.rel_vec_)
        /\ \A k \in 1 .. Len(database.rel_vec_) : restored.rel_vec_[k] = database.rel_vec_[k]
    BY <1>2, <1>3 DEF RestoredUpTo
  <1>5. \A r \in unowned', k \in 1 .. Len(database'.rel_vec_) : database'.rel_vec_[k] # r
    BY <1>1, <1>2, <1>4
  <1>6. DatabaseOK(database') /\ Agree(database')
    BY <1>1, <1>2
  <1> QED
    BY <1>1, <1>2, <1>4, <1>5, <1>6, OpenOK

LEMMA NextIInv == IInv /\ [Next]_vars => IInv'
  <1> SUFFICES ASSUME IInv, [Next]_vars PROVE IInv'
    OBVIOUS
  <1>t. /\ DatabaseOK(database) /\ DatabaseOK(restored) /\ Agree(database)
        /\ unowned \subseteq Relations /\ index \in Nat /\ nulls \in Nat
        /\ proto \in [relations : Seq(Relations), null_relations : Seq(Nat)]
        /\ \A r \in unowned, k \in 1 .. Len(database.rel_vec_) : database.rel_vec_[k] # r
    BY DEF IInv, TypeOK
  <1>1. CASE UNCHANGED vars
    <2>1. TypeOK'
      BY <1>1 DEF IInv, TypeOK, DatabaseOK, vars
    <2>2. Agree(database)' /\ (phase = "restoring" => Agree(restored)' /\ RestoredUpTo')
      BY <1>1 DEF IInv, Agree, RestoredUpTo, vars
    <2>3. \A K \in {index, Len(database.rel_vec_)} :
            SavedUpTo(database.rel_vec_, proto, K) => SavedUpTo(database'.rel_vec_, proto', K)
      BY <1>1 DEF SavedUpTo, vars
    <2>4. /\ (phase = "saving" => SavedUpTo(database.rel_vec_, proto, index)')
          /\ (phase = "restoring" => SavedUpTo(database.rel_vec_, proto, Len(database.rel_vec_))')
      BY <1>1, <2>3 DEF IInv, vars
    <2> QED
      BY <1>1, <2>1, <2>2, <2>4 DEF IInv, vars
  <1>2. CASE \E r \in Relations : addRelation(r)
    BY <1>2, AddRelationOK
  <1>3. ASSUME NEW n \in Names, dropRelationByName(n) PROVE IInv'
    <2>1. ToLower[n] \in DOMAIN database.rel_map_
      BY <1>3 DEF dropRelationByName, hasRelationWithNameUnsafe
    <2>2. database' = Drop(database, database.id_[database.rel_map_[ToLower[n]]], ToLower[n])
      BY <1>3 DEF dropRelationByName
    <2> QED
      BY <1>3, <2>1, <2>2, DropRelationOK DEF dropRelationByName
  <1>4. ASSUME NEW id \in 0 .. kCatalogMaxID, dropRelationById(id) PROVE IInv'
    <2> DEFINE r == database.rel_vec_[id + 1]
    <2>1. id + 1 \in 1 .. Len(database.rel_vec_) /\ r # NULL /\ id = (id + 1) - 1
      BY <1>t, <1>4 DEF dropRelationById, hasRelationWithIdUnsafe, DatabaseOK
    <2>2. /\ Lower(r) \in DOMAIN database.rel_map_ /\ database.rel_map_[Lower(r)] = r
          /\ database.id_[r] = id
      BY <1>t, <2>1 DEF Agree
    <2>3. database' = Drop(database, id, Lower(r))
      BY <1>4 DEF dropRelationById
    <2> QED
      BY <1>4, <2>2, <2>3, DropRelationOK DEF dropRelationById
  <1>5. CASE Save
    <2>1. /\ phase' = "saving" /\ proto' = NoProto /\ index' = 0
          /\ UNCHANGED <<database, unowned, nulls, restored>>
      BY <1>5 DEF Save
    <2>2. NoProto \in [relations : Seq(Relations), null_relations : Seq(Nat)]
      BY DEF NoProto
    <2>3. TypeOK'
      BY <1>t, <2>1, <2>2 DEF TypeOK, DatabaseOK
    <2>4. SavedUpTo(database.rel_vec_, proto, index)'
      BY <2>1 DEF SavedUpTo, NoProto
    <2>5. Agree(database)' /\ 0 <= Len(database.rel_vec_)
      BY <1>t, <2>1 DEF Agree, DatabaseOK
    <2> QED
      BY <1>t, <2>1, <2>3, <2>4, <2>5 DEF IInv
  <1>6. CASE SaveOne
    BY <1>6, SaveOneOK
  <1>7. CASE Restore
    <2>1. /\ phase = "saving" /\ phase' = "restoring" /\ index = Len(database.rel_vec_)
          /\ index' = 0 /\ nulls' = 0 /\ restored' = Empty
          /\ UNCHANGED <<database, unowned, proto>>
      BY <1>7 DEF Restore
    <2>2. TypeOK'
      BY <1>t, <2>1, EmptyOK DEF TypeOK, DatabaseOK
    <2>3. SavedUpTo(database.rel_vec_, proto, Len(database.rel_vec_))'
      <3>1. SavedUpTo(database.rel_vec_, proto, Len(database.rel_vec_))
        BY <2>1 DEF IInv
      <3> QED
        BY <2>1, <3>1 DEF SavedUpTo
    <2>4. Agree(database)' /\ Agree(restored)'
      BY <1>t, <2>1, EmptyOK DEF Agree
    <2>5. RestoredUpTo'
      <3>1. Len(Empty.rel_vec_) = 0
        BY DEF Empty
      <3>2. \A j \in 1 .. Len(proto.null_relations) : proto.null_relations[j] \in Nat
        BY <1>t
      <3> QED
        BY <1>t, <2>1, <3>1, <3>2 DEF RestoredUpTo
    <2> QED
      BY <1>t, <2>1, <2>2, <2>3, <2>4, <2>5 DEF IInv
  <1>8. CASE RestoreOne
    BY <1>8, RestoreOneOK
  <1>9. CASE RestoreAll
    BY <1>9, RestoreAllOK
  <1> QED
    BY <1>1, <1>2, <1>3, <1>4, <1>5, <1>6, <1>7, <1>8, <1>9 DEF Next

\* IInv always holds.
THEOREM Inductive == Spec => []IInv
  BY InitIInv, NextIInv, PTL DEF Spec

-----------------------------------------------------------------------------
\* Type correctness: in particular no id ever exceeds kCatalogMaxID.
THEOREM TypeCorrect == Spec => []TypeOK
  <1>1. IInv => TypeOK
    BY DEF IInv
  <1> QED
    BY <1>1, Inductive, PTL

\* However relations are added, dropped, saved and restored, finding one by its id and
\* by its name agree.
THEOREM LookupsCorrect == Spec => []LookupsAgree
  <1>1. ASSUME IInv PROVE LookupsAgree
    <2>1. DatabaseOK(database) /\ Agree(database)
      BY <1>1 DEF IInv, TypeOK
    <2> DEFINE vec == database.rel_vec_
               map == database.rel_map_
    <2>2. ASSUME NEW id \in 0 .. Len(vec) - 1, getRelationById(database, id) # NULL
          PROVE  /\ database.id_[getRelationById(database, id)] = id
                 /\ getRelationByName(database, NameOf[getRelationById(database, id)])
                      = getRelationById(database, id)
      <3>1. Len(vec) \in Nat
        BY <2>1 DEF DatabaseOK
      <3>2. getRelationById(database, id) = vec[id + 1] /\ vec[id + 1] # NULL
        BY <2>2 DEF getRelationById, hasRelationWithIdUnsafe
      <3>3. id + 1 \in 1 .. Len(vec) /\ (id + 1) - 1 = id
        BY <3>1
      <3>4. /\ database.id_[vec[id + 1]] = id /\ Lower(vec[id + 1]) \in DOMAIN map
            /\ map[Lower(vec[id + 1])] = vec[id + 1]
        BY <2>1, <3>2, <3>3 DEF Agree
      <3> QED
        BY <3>2, <3>4 DEF getRelationByName, Lower
    <2>3. ASSUME NEW n \in DOMAIN map
          PROVE  n = Lower(map[n]) /\ getRelationById(database, database.id_[map[n]]) = map[n]
      <3>1. /\ n = Lower(map[n]) /\ database.id_[map[n]] + 1 \in 1 .. Len(vec)
            /\ vec[database.id_[map[n]] + 1] = map[n]
        BY <2>1 DEF Agree
      <3>2. map[n] \in Relations /\ database.id_[map[n]] \in -1 .. kCatalogMaxID /\ Len(vec) \in Nat
        BY <2>1 DEF DatabaseOK
      <3>3. database.id_[map[n]] >= 0 /\ database.id_[map[n]] < Len(vec)
        BY <3>1, <3>2, MaxIDAssumption
      <3>4. map[n] # NULL
        BY <3>2, NullAssumption
      <3> QED
        BY <3>1, <3>3, <3>4 DEF getRelationById, hasRelationWithIdUnsafe
    <2> QED
      BY <2>2, <2>3 DEF LookupsAgree
  <1> QED
    BY <1>1, Inductive, PTL

\* The constructor never throws on what getProto() has saved, puts every relation back
\* in its place, and so gives it its old id.
THEOREM RestoresInPlace == Spec => []RestoredIsSaved
  <1>1. ASSUME IInv, phase = "restoring"
        PROVE  restored.rel_vec_ = SubSeq(database.rel_vec_, 1, index)
    <2>1. /\ database.rel_vec_ \in Seq(Relations \cup {NULL})
          /\ restored.rel_vec_ \in Seq(Relations \cup {NULL})
          /\ Len(database.rel_vec_) \in Nat
          /\ index \in Nat
      BY <1>1 DEF IInv, TypeOK, DatabaseOK
    <2>2. /\ Len(restored.rel_vec_) = index
          /\ \A k \in 1 .. index : restored.rel_vec_[k] = database.rel_vec_[k]
      BY <1>1 DEF IInv, RestoredUpTo
    <2>3. index <= Len(database.rel_vec_)
      BY <1>1 DEF IInv, RestoredUpTo
    <2> QED
      BY <2>1, <2>2, <2>3
  <1>2. IInv => RestoredIsSaved
    <2>1. IInv => phase # "failed"
      BY DEF IInv
    <2> QED
      BY <1>1, <2>1 DEF RestoredIsSaved
  <1> QED
    BY <1>2, Inductive, PTL

-----------------------------------------------------------------------------
\* The ids of the names, as the directory sees them.
Ids(db) == [n \in DOMAIN db.rel_map_ |-> db.id_[db.rel_map_[n]]]

\* Two databases that agree with the same vector have the same names and ids.
LEMMA SameIds ==
  ASSUME NEW a, NEW b, DatabaseOK(a), DatabaseOK(b), Agree(a), Agree(b),
         Len(a.rel_vec_) = Len(b.rel_vec_),
         \A k \in 1 .. Len(b.rel_vec_) : a.rel_vec_[k] = b.rel_vec_[k]
  PROVE  Ids(a) = Ids(b)
  <1>1. ASSUME NEW c, NEW d, DatabaseOK(c), DatabaseOK(d), Agree(c), Agree(d),
               Len(c.rel_vec_) = Len(d.rel_vec_),
               \A k \in 1 .. Len(d.rel_vec_) : c.rel_vec_[k] = d.rel_vec_[k],
               NEW n \in DOMAIN c.rel_map_
        PROVE  n \in DOMAIN d.rel_map_ /\ c.id_[c.rel_map_[n]] = d.id_[d.rel_map_[n]]
    <2> DEFINE r == c.rel_map_[n]
               k == c.id_[r] + 1
    <2>1. n = Lower(r) /\ k \in 1 .. Len(c.rel_vec_) /\ c.rel_vec_[k] = r /\ r \in Relations
      BY <1>1 DEF Agree, DatabaseOK
    <2>2. r # NULL /\ k \in 1 .. Len(d.rel_vec_) /\ d.rel_vec_[k] = r
      BY <1>1, <2>1, NullAssumption
    <2> HIDE DEF r
    <2>3. d.id_[r] = k - 1 /\ Lower(r) \in DOMAIN d.rel_map_ /\ d.rel_map_[Lower(r)] = r
      BY <1>1, <2>2 DEF Agree
    <2>4. c.id_[r] \in -1 .. kCatalogMaxID
      BY <1>1, <2>1 DEF DatabaseOK
    <2>5. c.id_[r] = d.id_[r]
      BY <2>3, <2>4, MaxIDAssumption
    <2> QED
      BY <2>1, <2>3, <2>5 DEF r
  <1>2. \A k \in 1 .. Len(a.rel_vec_) : b.rel_vec_[k] = a.rel_vec_[k]
    OBVIOUS
  <1>3. \A n \in DOMAIN a.rel_map_ : n \in DOMAIN b.rel_map_
    BY <1>1
  <1>4. \A n \in DOMAIN b.rel_map_ : n \in DOMAIN a.rel_map_
    BY <1>1, <1>2
  <1>5. \A n \in DOMAIN a.rel_map_ : a.id_[a.rel_map_[n]] = b.id_[b.rel_map_[n]]
    BY <1>1
  <1>6. DOMAIN a.rel_map_ = DOMAIN b.rel_map_
    BY <1>3, <1>4
  <1> QED
    BY <1>5, <1>6, Zenon DEF Ids

LEMMA AddIds ==
  ASSUME NEW db, DatabaseOK(db), NEW r \in Relations, CanAdd(db, r), Agree(db),
         \A k \in 1 .. Len(db.rel_vec_) : db.rel_vec_[k] # r
  PROVE  /\ Lower(r) \notin DOMAIN Ids(db) /\ Len(db.rel_vec_) <= kCatalogMaxID
         /\ Ids(Add(db, r)) = [m \in DOMAIN Ids(db) \cup {Lower(r)} |->
                                 IF m = Lower(r) THEN Len(db.rel_vec_) ELSE Ids(db)[m]]
         /\ Len(Add(db, r).rel_vec_) = Len(db.rel_vec_) + 1
  <1> DEFINE map == db.rel_map_
             new == Add(db, r)
  <1>1. /\ map \in [DOMAIN map -> Relations] /\ db.id_ \in [Relations -> -1 .. kCatalogMaxID]
        /\ db.rel_vec_ \in Seq(Relations \cup {NULL})
    BY DEF DatabaseOK
  <1>2. Lower(r) \notin DOMAIN map /\ Len(db.rel_vec_) <= kCatalogMaxID
    BY LowerType DEF CanAdd, hasRelationWithNameUnsafe
  <1>3. /\ new.rel_map_ = [n \in DOMAIN map \cup {Lower(r)} |-> IF n = Lower(r) THEN r ELSE map[n]]
        /\ new.id_ = [db.id_ EXCEPT ![r] = Len(db.rel_vec_)]
        /\ new.rel_vec_ = Append(db.rel_vec_, r)
    BY DEF Add
  <1>4. DOMAIN new.rel_map_ = DOMAIN map \cup {Lower(r)}
    BY <1>3
  <1>5. new.id_[new.rel_map_[Lower(r)]] = Len(db.rel_vec_)
    BY <1>1, <1>3
  <1>6. ASSUME NEW n \in DOMAIN map
        PROVE  n # Lower(r) /\ new.id_[new.rel_map_[n]] = db.id_[map[n]]
    <2>1. n # Lower(r) /\ new.rel_map_[n] = map[n] /\ map[n] \in Relations
      BY <1>1, <1>2, <1>3
    <2>2. map[n] # r
      BY <2>1 DEF Agree
    <2> QED
      BY <1>1, <1>3, <2>1, <2>2
  <1>7. Ids(new) = [m \in DOMAIN Ids(db) \cup {Lower(r)} |->
                      IF m = Lower(r) THEN Len(db.rel_vec_) ELSE Ids(db)[m]]
    <2>1. DOMAIN Ids(db) = DOMAIN map /\ \A n \in DOMAIN map : Ids(db)[n] = db.id_[map[n]]
      BY DEF Ids
    <2>2. ASSUME NEW m \in DOMAIN map \cup {Lower(r)}
          PROVE  new.id_[new.rel_map_[m]]
                   = IF m = Lower(r) THEN Len(db.rel_vec_) ELSE Ids(db)[m]
      BY <1>5, <1>6, <2>1
    <2> HIDE DEF new
    <2> QED
      BY <1>4, <2>1, <2>2, Zenon DEF Ids
  <1>8. DOMAIN Ids(db) = DOMAIN map
    BY DEF Ids
  <1>9. Len(new.rel_vec_) = Len(db.rel_vec_) + 1
    BY <1>1, <1>3
  <1> QED
    BY <1>2, <1>7, <1>8, <1>9

LEMMA DropIds ==
  ASSUME NEW db, DatabaseOK(db), NEW n \in DOMAIN db.rel_map_, NEW id,
         id + 1 \in 1 .. Len(db.rel_vec_)
  PROVE  /\ n \in DOMAIN Ids(db)
         /\ Ids(Drop(db, id, n)) = [m \in DOMAIN Ids(db) \ {n} |-> Ids(db)[m]]
         /\ Len(Drop(db, id, n).rel_vec_) = Len(db.rel_vec_)
  <1>1. db.rel_vec_ \in Seq(Relations \cup {NULL})
    BY DEF DatabaseOK
  <1>2. Len([db.rel_vec_ EXCEPT ![id + 1] = NULL]) = Len(db.rel_vec_)
    BY <1>1
  <1>3. Ids(Drop(db, id, n)) = [m \in DOMAIN Ids(db) \ {n} |-> Ids(db)[m]]
    BY DEF Ids, Drop
  <1> QED
    BY <1>2, <1>3 DEF Ids, Drop

\* Every step of the database is one of the directory, or leaves the directory as it is.
LEMMA NextImplements == IInv /\ [Next]_vars => [Directory!Next]_Directory!vars
  <1> SUFFICES ASSUME IInv, [Next]_vars PROVE [Directory!Next]_Directory!vars
    OBVIOUS
  <1> DEFINE ids == Ids(database)
             next == Len(database.rel_vec_)
             ids1 == Ids(database')
             next1 == Len(database'.rel_vec_)
  <1>t. /\ DatabaseOK(database) /\ Agree(database) /\ unowned \subseteq Relations
        /\ \A r \in unowned, k \in 1 .. Len(database.rel_vec_) : database.rel_vec_[k] # r
    BY DEF IInv, TypeOK
  <1>s. ASSUME ids1 = ids, next1 = next PROVE [Directory!Next]_Directory!vars
    BY <1>s DEF Directory!vars, Ids
  <1>a. ASSUME NEW n \in Names, n \notin DOMAIN ids, next <= kCatalogMaxID,
               ids1 = [m \in DOMAIN ids \cup {n} |-> IF m = n THEN next ELSE ids[m]],
               next1 = next + 1
        PROVE  [Directory!Next]_Directory!vars
    <2>1. Directory!Add(n)
      BY <1>a DEF Directory!Add, Ids
    <2> QED
      BY <2>1 DEF Directory!Next
  <1>d. ASSUME NEW n \in Names, n \in DOMAIN ids,
               ids1 = [m \in DOMAIN ids \ {n} |-> ids[m]], next1 = next
        PROVE  [Directory!Next]_Directory!vars
    <2>1. Directory!Drop(n)
      BY <1>d DEF Directory!Drop, Ids
    <2> QED
      BY <2>1 DEF Directory!Next
  <1> HIDE DEF ids, ids1, next, next1
  <1>1. ASSUME UNCHANGED database PROVE [Directory!Next]_Directory!vars
    BY <1>1, <1>s DEF ids, ids1, next, next1
  <1>2. ASSUME NEW r \in Relations, addRelation(r) PROVE [Directory!Next]_Directory!vars
    <2>1. r \in unowned /\ CanAdd(database, r) /\ database' = Add(database, r)
      BY <1>2 DEF addRelation
    <2>2. \A k \in 1 .. Len(database.rel_vec_) : database.rel_vec_[k] # r
      BY <1>t, <2>1
    <2>3. /\ Lower(r) \notin DOMAIN ids /\ next <= kCatalogMaxID /\ next1 = next + 1
          /\ ids1 = [m \in DOMAIN ids \cup {Lower(r)} |-> IF m = Lower(r) THEN next ELSE ids[m]]
      BY <1>t, <2>1, <2>2, AddIds DEF ids, ids1, next, next1
    <2> QED
      BY <1>a, <2>3, LowerType
  <1>3. ASSUME NEW n \in DOMAIN database.rel_map_, NEW id,
               id = database.id_[database.rel_map_[n]], database' = Drop(database, id, n)
        PROVE  [Directory!Next]_Directory!vars
    <2>1. id + 1 \in 1 .. Len(database.rel_vec_) /\ n \in Names
      BY <1>t, <1>3 DEF Agree, DatabaseOK
    <2>2. n \in DOMAIN ids /\ ids1 = [m \in DOMAIN ids \ {n} |-> ids[m]] /\ next1 = next
      BY <1>t, <1>3, <2>1, DropIds DEF ids, ids1, next, next1
    <2> QED
      BY <1>d, <2>1, <2>2
  <1>4. ASSUME NEW n \in Names, dropRelationByName(n) PROVE [Directory!Next]_Directory!vars
    <2>1. ToLower[n] \in DOMAIN database.rel_map_
      BY <1>4 DEF dropRelationByName, hasRelationWithNameUnsafe
    <2>2. database' = Drop(database, database.id_[database.rel_map_[ToLower[n]]], ToLower[n])
      BY <1>4 DEF dropRelationByName
    <2> QED
      BY <1>3, <2>1, <2>2
  <1>5. ASSUME NEW id \in 0 .. kCatalogMaxID, dropRelationById(id)
        PROVE  [Directory!Next]_Directory!vars
    <2> DEFINE r == database.rel_vec_[id + 1]
    <2>1. id + 1 \in 1 .. Len(database.rel_vec_) /\ r # NULL /\ id = (id + 1) - 1
      BY <1>t, <1>5 DEF dropRelationById, hasRelationWithIdUnsafe, DatabaseOK
    <2>2. /\ Lower(r) \in DOMAIN database.rel_map_ /\ database.rel_map_[Lower(r)] = r
          /\ database.id_[r] = id
      BY <1>t, <2>1 DEF Agree
    <2>3. database' = Drop(database, id, Lower(r))
      BY <1>5 DEF dropRelationById
    <2> QED
      BY <1>3, <2>2, <2>3
  <1>6. ASSUME RestoreAll PROVE [Directory!Next]_Directory!vars
    <2>1. /\ DatabaseOK(restored) /\ Agree(restored) /\ database' = restored
          /\ Len(restored.rel_vec_) = Len(database.rel_vec_)
          /\ \A k \in 1 .. Len(database.rel_vec_) : restored.rel_vec_[k] = database.rel_vec_[k]
      BY <1>6, RestoreAllOK
    <2>2. Ids(restored) = Ids(database)
      BY <1>t, <2>1, SameIds
    <2> QED
      BY <1>s, <2>1, <2>2 DEF ids, ids1, next, next1
  <1>7. CASE UNCHANGED vars
    BY <1>1, <1>7 DEF vars
  <1>8. CASE Save \/ SaveOne \/ Restore \/ RestoreOne
    BY <1>1, <1>8 DEF Save, SaveOne, Restore, RestoreOne
  <1> QED
    BY <1>2, <1>4, <1>5, <1>6, <1>7, <1>8 DEF Next

\* The database is a directory in which no id is ever given twice, whatever is dropped
\* and however often it is saved and restored.
THEOREM Implements == Spec => ImplementsDirectory
  <1>1. Init => Directory!Init
    <2> SUFFICES ASSUME Init PROVE Directory!Init
      OBVIOUS
    <2>1. DOMAIN database.rel_map_ = {} /\ Len(database.rel_vec_) = 0
      BY DEF Init, Empty
    <2>2. Ids(database) = [n \in {} |-> 0]
      BY <2>1 DEF Ids
    <2> QED
      BY <2>1, <2>2 DEF Directory!Init, Ids
  <1> QED
    BY <1>1, Inductive, NextImplements, PTL DEF Spec, ImplementsDirectory, Directory!Spec
=============================================================================
