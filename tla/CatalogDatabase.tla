--------------------------- MODULE CatalogDatabase ---------------------------
(***************************************************************************)
(* CatalogDatabase: the relations of a database, found by id in the vector *)
(* rel_vec_ and by name, whatever its case, in the map rel_map_.  A        *)
(* dropped relation leaves a NULL in the vector.                           *)
(*                                                                         *)
(* Every operation on the relations is one critical section of             *)
(* relations_mutex_, a SpinSharedMutex (see SharedLock), so each is one    *)
(* action here.  getProto() and the constructor that reads a proto take no *)
(* lock: their loops are actions of one iteration each, and nobody else is *)
(* let in, as their callers must see to.                                   *)
(***************************************************************************)
EXTENDS Integers, Sequences

CONSTANTS
  Relations,      \* the objects that are ever given to addRelation()
  Names,
  NameOf,         \* the name of each relation
  ToLower,        \* names in lower case
  kCatalogMaxID,
  NULL

ASSUME NamesAssumption ==
  /\ NameOf \in [Relations -> Names]
  /\ ToLower \in [Names -> Names]
  /\ \A n \in Names : ToLower[ToLower[n]] = ToLower[n]
ASSUME MaxIDAssumption == kCatalogMaxID \in Nat
ASSUME NullAssumption == NULL \notin Relations

VARIABLES
  database,       \* [rel_vec_, rel_map_, id_]: the last one is a field of the relations
  unowned,        \* relations that have not been given to a database yet
  phase,          \* "open", or the loop that is running
  proto,          \* what getProto() has written
  index,          \* the position of the loop in the relations
  nulls,          \* the constructor's index_null_relations
  restored        \* the database that the constructor builds

vars == <<database, unowned, phase, proto, index, nulls, restored>>

-----------------------------------------------------------------------------
Lower(r) == ToLower[NameOf[r]]

Empty ==
  [rel_vec_ |-> <<>>, rel_map_ |-> [n \in {} |-> NULL], id_ |-> [r \in Relations |-> -1]]

hasRelationWithNameUnsafe(db, n) == ToLower[n] \in DOMAIN db.rel_map_

\* Ids count from 0, the places of a sequence from 1.
hasRelationWithIdUnsafe(db, id) ==
  /\ id >= 0 /\ id < Len(db.rel_vec_)
  /\ db.rel_vec_[id + 1] # NULL

getRelationById(db, id) ==
  IF hasRelationWithIdUnsafe(db, id) THEN db.rel_vec_[id + 1] ELSE NULL

getRelationByName(db, n) ==
  IF ToLower[n] \in DOMAIN db.rel_map_ THEN db.rel_map_[ToLower[n]] ELSE NULL

CanAddAnyId(db, r) == ~hasRelationWithNameUnsafe(db, Lower(r))

\* addRelation() throws RelationNameCollision or CatalogIDOverflow otherwise.
CanAdd(db, r) ==
  /\ ~hasRelationWithNameUnsafe(db, Lower(r))
  /\ Len(db.rel_vec_) <= kCatalogMaxID

Add(db, r) ==
  [rel_vec_ |-> Append(db.rel_vec_, r),
   rel_map_ |-> [n \in DOMAIN db.rel_map_ \cup {Lower(r)} |->
                   IF n = Lower(r) THEN r ELSE db.rel_map_[n]],
   id_ |-> [db.id_ EXCEPT ![r] = Len(db.rel_vec_)]]

NullSkipped(db) == db

AddNull(db) ==
  [rel_vec_ |-> Append(db.rel_vec_, NULL), rel_map_ |-> db.rel_map_, id_ |-> db.id_]

DropNameOnly(db, id, n) ==
  [rel_vec_ |-> db.rel_vec_,
   rel_map_ |-> [m \in DOMAIN db.rel_map_ \ {n} |-> db.rel_map_[m]],
   id_ |-> db.id_]

\* deleteElement(id) and the map without the name n.
Drop(db, id, n) ==
  [rel_vec_ |-> [db.rel_vec_ EXCEPT ![id + 1] = NULL],
   rel_map_ |-> [m \in DOMAIN db.rel_map_ \ {n} |-> db.rel_map_[m]],
   id_ |-> db.id_]

NoProto == [relations |-> <<>>, null_relations |-> <<>>]

Init ==
  /\ database = Empty
  /\ unowned = Relations
  /\ phase = "open"
  /\ proto = NoProto
  /\ index = 0 /\ nulls = 0
  /\ restored = Empty

addRelation(r) ==
  /\ phase = "open"
  /\ r \in unowned
  /\ CanAdd(database, r)
  /\ database' = Add(database, r)
  /\ unowned' = unowned \ {r}
  /\ UNCHANGED <<phase, proto, index, nulls, restored>>

\* Throws RelationNameNotFound if there is no such relation.
dropRelationByName(n) ==
  /\ phase = "open"
  /\ hasRelationWithNameUnsafe(database, n)
  /\ LET r == database.rel_map_[ToLower[n]]
     IN  database' = Drop(database, database.id_[r], ToLower[n])
  /\ UNCHANGED <<unowned, phase, proto, index, nulls, restored>>

\* Throws RelationIdNotFound if there is no such relation.
dropRelationById(id) ==
  /\ phase = "open"
  /\ hasRelationWithIdUnsafe(database, id)
  /\ database' = Drop(database, id, Lower(database.rel_vec_[id + 1]))
  /\ UNCHANGED <<unowned, phase, proto, index, nulls, restored>>

-----------------------------------------------------------------------------
\* getProto() is called.
Save ==
  /\ phase = "open"
  /\ phase' = "saving"
  /\ proto' = NoProto
  /\ index' = 0
  /\ UNCHANGED <<database, unowned, nulls, restored>>

\* An iteration of getProto().
SaveOne ==
  /\ phase = "saving"
  /\ index < Len(database.rel_vec_)
  /\ proto' = LET r == database.rel_vec_[index + 1]
              IN  IF r = NULL
                  THEN [proto EXCEPT !.null_relations = Append(@, index)]
                  ELSE [proto EXCEPT !.relations = Append(@, r)]
  /\ index' = index + 1
  /\ UNCHANGED <<database, unowned, phase, nulls, restored>>

TotalOfRelations == Len(proto.relations)

Total == Len(proto.null_relations) + Len(proto.relations)

\* A new database is constructed from the proto.
Restore ==
  /\ phase = "saving"
  /\ index = Len(database.rel_vec_)
  /\ phase' = "restoring"
  /\ index' = 0 /\ nulls' = 0
  /\ restored' = Empty
  /\ UNCHANGED <<database, unowned, proto>>

IsNull ==
  /\ nulls < Len(proto.null_relations)
  /\ proto.null_relations[nulls + 1] = index

\* An iteration of the constructor; addRelation() may throw.  The copy of a relation
\* goes by the name of the original.
RestoreOne ==
  /\ phase = "restoring"
  /\ index < Total
  /\ IF IsNull
     THEN /\ restored' = AddNull(restored)
          /\ nulls' = nulls + 1
          /\ UNCHANGED phase
     ELSE LET r == proto.relations[index - nulls + 1]
          IN  /\ restored' = IF CanAdd(restored, r) THEN Add(restored, r) ELSE restored
              /\ phase' = IF CanAdd(restored, r) THEN phase ELSE "failed"
              /\ UNCHANGED nulls
  /\ index' = index + 1
  /\ UNCHANGED <<database, unowned, proto>>

\* The new database takes the place of the old one.
RestoreAll ==
  /\ phase = "restoring"
  /\ index = Total
  /\ database' = restored
  /\ phase' = "open"
  /\ UNCHANGED <<unowned, proto, index, nulls, restored>>

Next ==
  \/ \E r \in Relations : addRelation(r)
  \/ \E n \in Names : dropRelationByName(n)
  \/ \E id \in 0 .. kCatalogMaxID : dropRelationById(id)
  \/ Save \/ SaveOne
  \/ Restore \/ RestoreOne \/ RestoreAll

Spec == Init /\ [][Next]_vars

-----------------------------------------------------------------------------
(***************************************************************************)
(* Properties.                                                             *)
(***************************************************************************)
\* Databases hold relations, under ids that fit an int.
DatabaseOK(db) ==
  /\ db.rel_vec_ \in Seq(Relations \cup {NULL})
  /\ Len(db.rel_vec_) <= kCatalogMaxID + 1
  /\ db.rel_map_ \in [DOMAIN db.rel_map_ -> Relations]
  /\ DOMAIN db.rel_map_ \subseteq Names
  /\ db.id_ \in [Relations -> -1 .. kCatalogMaxID]

\* Every variable keeps its type; an id always fits an int.
TypeOK ==
  /\ DatabaseOK(database) /\ DatabaseOK(restored)
  /\ unowned \subseteq Relations
  /\ phase \in {"open", "saving", "restoring", "failed"}
  /\ proto \in [relations : Seq(Relations), null_relations : Seq(Nat)]
  /\ index \in Nat /\ nulls \in Nat

\* The vector and the map are the same relations: a relation found by its id is found
\* by its name, whatever the case, and the other way round, and it knows its own id.
\* Neither holds a relation that the other has dropped and deleted.
LookupsAgree ==
  /\ \A id \in 0 .. Len(database.rel_vec_) - 1 :
       LET r == getRelationById(database, id)
       IN  r # NULL => /\ database.id_[r] = id
                       /\ getRelationByName(database, NameOf[r]) = r
  /\ \A n \in DOMAIN database.rel_map_ :
       LET r == database.rel_map_[n]
       IN  n = Lower(r) /\ getRelationById(database, database.id_[r]) = r

\* What the constructor has built is the beginning of what getProto() has saved, with
\* every relation at its old place, the NULLs of dropped relations included; and no
\* saved database is refused: addRelation() never throws in the constructor.
RestoredIsSaved ==
  /\ phase # "failed"
  /\ phase = "restoring" => restored.rel_vec_ = SubSeq(database.rel_vec_, 1, index)

\* The database implements Directory, saving and restoring being invisible: an id is
\* never given twice.
Directory == INSTANCE Directory
  WITH Names <- Names, MaxID <- kCatalogMaxID,
       ids <- [n \in DOMAIN database.rel_map_ |-> database.id_[database.rel_map_[n]]],
       next <- Len(database.rel_vec_)

ImplementsDirectory == Directory!Spec
=============================================================================
