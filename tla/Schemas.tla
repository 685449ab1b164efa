---------------------------------- MODULE Schemas ----------------------------------
(***************************************************************************)
(* PtrVector, the schema of a relation and the catalog of databases: what  *)
(* each keeps next to its vector and what it saves.  Ids count from 0,     *)
(* the places of a sequence from 1.                                        *)
(***************************************************************************)
EXTENDS Types

CONSTANTS
  LowerOf(_),       \* a name in lower case
  kCatalogMaxID

None == [null |-> TRUE]

\* What a map holds when x is put under a key.
Mapped(map, key, x) == [k \in DOMAIN map \cup {key} |-> IF k = key THEN x ELSE map[k]]

-----------------------------------------------------------------------------
(* A PtrVector owns the objects it points at: deleted lists those it has   *)
(* deleted.                                                                *)

NewPtrVector == [elements |-> <<>>, deleted |-> <<>>]
PushBack(v, x)      == [v EXCEPT !.elements = Append(@, x)]
ElementIsNull(v, n) == v.elements[n + 1] = None
Delete(v, n)  == IF ElementIsNull(v, n) THEN v
                       ELSE [v EXCEPT !.deleted = Append(@, v.elements[n + 1])]
ReplaceElement(v, n, x)           == [Delete(v, n) EXCEPT !.elements[n + 1] = x]
ReleaseAndReplaceElement(v, n, x) == [v EXCEPT !.elements[n + 1] = x]
DeleteElement(v, n) == IF ElementIsNull(v, n) THEN v ELSE [Delete(v, n) EXCEPT !.elements[n + 1] = None]
RemoveBack(v) == [Delete(v, Len(v.elements) - 1) EXCEPT !.elements = Front(@)]
EmptyNullCheck(v) == \A i \in DOMAIN v.elements : v.elements[i] = None
DestroyPtrVector(v) ==
  LET n == Len(v.elements)
      at[i \in 0..n] == IF i = 0 THEN v ELSE Delete(at[i - 1], i - 1)
  IN  [at[n] EXCEPT !.elements = <<>>]

\* Where a skipping iterator stops that stands at n: on an object or at the end.
SkipNulls(v, n) ==
  CHOOSE m \in n..Len(v.elements) :
    /\ m = Len(v.elements) \/ ~ElementIsNull(v, m)
    /\ \A k \in n..(m - 1) : ElementIsNull(v, k)
BeginSkip(v)   == SkipNulls(v, 0)
NextSkip(v, n) == SkipNulls(v, n + 1)
FrontElement(v) == v.elements[SkipNulls(v, 0) + 1]
BackElement(v) ==
  v.elements[CHOOSE i \in DOMAIN v.elements :
               v.elements[i] # None /\ \A j \in (i + 1)..Len(v.elements) : v.elements[j] = None]

-----------------------------------------------------------------------------
(* An attribute, and the message that is made of it.                       *)

NoName == ""
Attribute(name, type, display) == [id |-> -1, name |-> name, type |-> type, display |-> display]
GetDisplayName(a) == IF a.display = NoName THEN a.name ELSE a.display

GetAttributeProto(a) ==
  IF a.display = NoName THEN [name |-> a.name, type |-> GetTypeProto(a.type)]
  ELSE [name |-> a.name, type |-> GetTypeProto(a.type), display_name |-> a.display]
Initialized(proto)    == {"name", "type"} \subseteq DOMAIN proto
AttributeProtoIsValid(proto) == Initialized(proto) /\ TypeProtoIsValid(proto.type)
ReconstructAttribute(proto) ==
  Attribute(proto.name, ReconstructType(proto.type),
            IF "display_name" \in DOMAIN proto THEN proto.display_name ELSE NoName)

-----------------------------------------------------------------------------
(* A schema: its attributes by id and by name, and what addAttribute()     *)
(* works out of them once and for all about the layout of a tuple.         *)

NewSchema(id, name, temporary, sized) ==
  [id |-> id, name |-> name, temporary |-> temporary, vector |-> NewPtrVector, byName |-> <<>>,
   nullables |-> 0, variables |-> 0,
   maximum |-> 0, minimum |-> 0, estimated |-> 0, fixed |-> 0,
   maximumVariable |-> 0, minimumVariable |-> 0, minimumNonNullable |-> 0, estimatedVariable |-> 0,
   offsets |-> <<>>, maxLengths |-> [i \in 1..sized |-> 0],
   nullableIndices |-> <<>>, currentNullable |-> -1, variableIndices |-> <<>>, currentVariable |-> -1]

Resize(s, n, x) == IF n <= Len(s) THEN SubSeq(s, 1, n) ELSE s \o [i \in 1..(n - Len(s)) |-> x]

AddVariable(s, type) ==
  [s EXCEPT !.variables = @ + 1, !.currentVariable = @ + 1,
            !.variableIndices = Append(@, s.currentVariable + 1),
            !.maximumVariable = @ + MaximumByteLength(type),
            !.minimumVariable = @ + MinimumByteLength(type),
            !.minimumNonNullable = @ + (IF type.nullable THEN 0 ELSE MinimumByteLength(type)),
            !.estimatedVariable = @ + EstimateAverageByteLength(type)]
\* With the offset of the next attribute.
AddFixedBehind(s, type, id) ==
  [s EXCEPT !.variableIndices = Append(@, -1), !.offsets = Resize(@, id + 1, s.fixed + MaximumByteLength(type)),
            !.fixed = @ + MaximumByteLength(type)]
AddFixed(s, type, id) ==
  [s EXCEPT !.variableIndices = Append(@, -1), !.offsets = Resize(@, id + 1, s.fixed),
            !.fixed = @ + MaximumByteLength(type)]
CountNullable(s, type) ==
  IF type.nullable
  THEN [s EXCEPT !.nullables = @ + 1, !.currentNullable = @ + 1,
                 !.nullableIndices = Append(@, s.currentNullable + 1)]
  ELSE [s EXCEPT !.nullableIndices = Append(@, -1)]

\* addAttribute() throws CatalogIDOverflow otherwise.
CanAddAttribute(s) == Len(s.vector.elements) <= kCatalogMaxID
AddAttribute(s, a) ==
  LET id    == Len(s.vector.elements)
      named == [s EXCEPT !.vector = PushBack(@, [a EXCEPT !.id = id]),
                         !.byName = Mapped(@, LowerOf(a.name), id)]
      laid  == IF IsVariableLength(a.type) THEN AddVariable(named, a.type) ELSE AddFixed(named, a.type, id)
      sized == [laid EXCEPT !.maximum = @ + MaximumByteLength(a.type),
                            !.minimum = @ + MinimumByteLength(a.type),
                            !.estimated = @ + EstimateAverageByteLength(a.type)]
  IN  [CountNullable(sized, a.type) EXCEPT
         !.maxLengths = [Resize(@, id + 1, 0) EXCEPT ![id + 1] = MaximumByteLength(a.type)]]

HasAttributeWithId(s, id) == id >= 0 /\ id < Len(s.vector.elements) /\ ~ElementIsNull(s.vector, id)
GetAttributeById(s, id) == IF HasAttributeWithId(s, id) THEN s.vector.elements[id + 1] ELSE None
GetAttributeByName(s, name) ==
  IF LowerOf(name) \in DOMAIN s.byName THEN GetAttributeById(s, s.byName[LowerOf(name)]) ELSE None
GetMaxAttributeId(s) == IF DOMAIN s.byName # {} THEN BackElement(s.vector).id ELSE -1
GapsInAttributeSequence(s) == Cardinality(DOMAIN s.byName) # Len(s.vector.elements)

GetSchemaProto(s) ==
  [relation_id |-> s.id, name |-> s.name, temporary |-> s.temporary,
   attributes |-> [i \in DOMAIN s.vector.elements |->
                     IF s.vector.elements[i] = None THEN <<>> ELSE GetAttributeProto(s.vector.elements[i])]]
SchemaProtoIsValid(proto) ==
  /\ proto.relation_id # -1
  /\ \A i \in DOMAIN proto.attributes : AttributeProtoIsValid(proto.attributes[i])
ReconstructSchema(proto) ==
  LET n == Len(proto.attributes)
      read[i \in 0..n] ==
        IF i = 0 THEN NewSchema(proto.relation_id, proto.name, proto.temporary, n)
        ELSE IF Initialized(proto.attributes[i])
             THEN AddAttribute(read[i - 1], ReconstructAttribute(proto.attributes[i]))
             ELSE [read[i - 1] EXCEPT !.vector = PushBack(@, None)]
  IN  read[n]

-----------------------------------------------------------------------------
(* The catalog: databases, known by the names they are given.              *)

NewCatalog == [vector |-> NewPtrVector, byName |-> <<>>, thrown |-> FALSE]
HasDatabaseWithName(c, name) == name \in DOMAIN c.byName
GetDatabaseByName(c, name) == IF HasDatabaseWithName(c, name) THEN c.byName[name] ELSE None
GetDatabaseById(c, id) ==
  IF id >= 0 /\ id < Len(c.vector.elements) /\ ~ElementIsNull(c.vector, id)
  THEN c.vector.elements[id + 1] ELSE None
AddDatabase(c, name) ==
  IF HasDatabaseWithName(c, name) \/ Len(c.vector.elements) > kCatalogMaxID THEN [c EXCEPT !.thrown = TRUE]
  ELSE LET db == [name |-> name, id |-> Len(c.vector.elements)]
       IN  [c EXCEPT !.vector = PushBack(@, db), !.byName = Mapped(@, name, db)]
GetCatalogProto(c) == [i \in DOMAIN c.vector.elements |-> c.vector.elements[i].name]
ReconstructCatalog(proto) ==
  LET read[i \in 0..Len(proto)] == IF i = 0 THEN NewCatalog ELSE AddDatabase(read[i - 1], proto[i])
  IN  read[Len(proto)]
====================================================================================
